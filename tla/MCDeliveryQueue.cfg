SPECIFICATION FairSpec
CONSTANTS
    Subscriptions = {s1, s2}
    Events = {e1}
    Deliveries = {d1}
    SubscriptionOf <- FirstSubscription
    EventOf <- OneEvent
    Revocable = {s1}
    Processes = {p1, p2}
    WorkerIds = {w1}
    WorkerId <- SharedId
    Sessions = {u1, u2}
    MaxAttempts = 2
    ReplayAttempts = 1
    AttemptLimit = 3
    NoDelivery = NoDelivery
    NoOwner = NoOwner
INVARIANTS TypeOK DeliveredWasAccepted OneSenderPerAttempt AttemptLogAgrees DeadIsJustified
PROPERTIES ImplementsBoundedRetry DeliveredIsFinal RevocationIsCurrent AttemptsEnd
CHECK_DEADLOCK FALSE
