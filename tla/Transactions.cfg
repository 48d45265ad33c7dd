CONSTANTS
    a = a
    b = b
    Clients <- MCClients
    Keys <- MCOneKey
    Dbs <- MCTwoDbs
    MaxOps = 6
SPECIFICATION Spec
SYMMETRY ClientSymmetry
INVARIANTS
    ExecRunsWhatWasQueued
PROPERTIES
    OverwrittenKeyAborts
    AbortsOnlyOnChange
CHECK_DEADLOCK FALSE
