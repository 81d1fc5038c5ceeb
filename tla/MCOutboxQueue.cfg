SPECIFICATION FairSpec
CONSTANTS
    Jobs = {j1, j2}
    Processes = {p1, p2}
    WorkerIds = {p1, p2}
    WorkerId <- OwnIds
    MaxAttempts = 2
    NoJob = NoJob
    NoOwner = NoOwner
INVARIANTS TypeOK CompletedWasRouted RetryBudgetRespected
PROPERTIES ImplementsBoundedRetry SettledIsFinal LiveLeaseIsExclusive RetriesEnd
CHECK_DEADLOCK FALSE
