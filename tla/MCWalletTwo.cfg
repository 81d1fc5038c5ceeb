SPECIFICATION Spec
CONSTANTS
    Processes = {p1, p2}
    Outcomes = {0}
    Balances = {0, 1, 2}
    MaxBlock = 2
    StartFinalized = TRUE
SYMMETRY ProcessSymmetry
PROPERTIES RowsNeverGoBack
CHECK_DEADLOCK FALSE
