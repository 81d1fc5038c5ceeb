SPECIFICATION Spec
CONSTANTS
    Batches = {b1, b2}
    Legacy = {}
    Processes = {p1, p2}
    WorkerIds = {p1, p2}
    WorkerId <- OwnIds
    Deployments <- Everything
    NoBatch = NoBatch
    NoOwner = NoOwner
INVARIANTS ClaimIsAggregate
CHECK_DEADLOCK FALSE
