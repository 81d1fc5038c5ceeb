SPECIFICATION Spec
CONSTANTS
    p1 = p1
    p2 = p2
    s1 = s1
    s2 = s2
    e1 = e1
    e2 = e2
    Processes = {p1, p2}
    Events = {e1, e2}
    Subscriptions = {s1, s2}
    EventTypes <- Types
    EnabledKinds <- Transports
    Revocable = {s2}
    MaxAttempts = 2
    MaxTrouble = 2
INVARIANTS TypeOK RoutedReachesSteady NoNeedlessDuplicate
CHECK_DEADLOCK FALSE
PROPERTIES EventReachesSubscriber
