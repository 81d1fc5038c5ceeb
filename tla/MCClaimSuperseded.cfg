SPECIFICATION Spec
CONSTANTS
    Batches = {b1}
    Legacy = {}
    Processes = {p1}
    WorkerIds = {p1}
    WorkerId <- OwnIds
    Deployments <- Everything
    NoBatch = NoBatch
    NoOwner = NoOwner
INVARIANTS SupersededWasReplaced
CHECK_DEADLOCK FALSE
