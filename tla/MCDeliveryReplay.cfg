SPECIFICATION Spec
CONSTANTS
    Subscriptions = {s1}
    Events = {e1}
    Deliveries = {d1}
    SubscriptionOf <- FirstSubscription
    EventOf <- OneEvent
    Revocable = {s1}
    Processes = {p1, p2}
    WorkerIds = {p1, p2}
    WorkerId <- OwnIds
    Sessions = {u1}
    MaxAttempts = 2
    ReplayAttempts = 1
    AttemptLimit = 3
    NoDelivery = NoDelivery
    NoOwner = NoOwner
PROPERTIES ReplayGrantsAttempts
CHECK_DEADLOCK FALSE
