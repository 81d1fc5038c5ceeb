SPECIFICATION Spec
CONSTANTS
    Jobs = {j1}
    Processes = {p1, p2}
    WorkerIds = {p1, p2}
    WorkerId <- OwnIds
    MaxAttempts = 2
    NoJob = NoJob
    NoOwner = NoOwner
INVARIANTS ExpiredLeaseIsReclaimable
CHECK_DEADLOCK FALSE
