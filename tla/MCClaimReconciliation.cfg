SPECIFICATION FairSpec
CONSTANTS
    Batches = {b1, b2}
    Legacy = {b2}
    Processes = {p1, p2}
    WorkerIds = {w1}
    WorkerId <- SharedId
    Deployments <- OneOrTheOther
    NoBatch = NoBatch
    NoOwner = NoOwner
INVARIANTS TypeOK OneTerminalEvent VerdictMatchesChain OneWorkerAggregates
PROPERTIES ImplementsClaimLedger RecordedIsSettled
CHECK_DEADLOCK FALSE
