SPECIFICATION Spec
CONSTANTS
    c1 = c1  c2 = c2
    Clients <- TwoClients
    Keys <- MCKeys
    Counts = {1, 2}
    MaxCursors = 2
    MaxCalls = 4
    MaxEdits = 2
    MaxAbandons = 2
SYMMETRY Symmetry
CHECK_DEADLOCK FALSE
INVARIANTS
    NothingTwice
    ScanIsComplete
