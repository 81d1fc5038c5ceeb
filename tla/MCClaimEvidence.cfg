SPECIFICATION Spec
CONSTANTS
    Markets = {1, 2}
    Venue <- TwoVenues
    r1 = r1
    r2 = r2
    r3 = r3
    r4 = r4
    Rows = {r1, r2, r3, r4}
    RowOf <- FourRows
    Amounts = {0, 2}
    Starts <- Chains
    MaxEntries = 1
    MaxBlocks = 3
    MaxMoves = 2
INVARIANTS TypeOK PlanTakesAll ConfirmedIsFresh RedeemedIsConfirmed
SYMMETRY Duplicates
CHECK_DEADLOCK FALSE
