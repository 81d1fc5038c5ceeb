SPECIFICATION FairSpec
CONSTANTS
    Processes = {p1}
    Outcomes = {0, 1}
    Balances = {0, 2}
    MaxBlock = 3
    StartFinalized = FALSE
INVARIANTS TypeOK AnnouncedWasClaimable OneNoticePerState
PROPERTIES ClaimableIsAnnounced
CHECK_DEADLOCK FALSE
