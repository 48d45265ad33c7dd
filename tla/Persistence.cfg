SPECIFICATION PersistenceSpec
CONSTANTS
    c1 = c1  c2 = c2  k1 = k1
    Clients <- TwoClients
    Keys <- OneKey
    NumDbs = 2
    Vias <- PlainAndExec
    MaxWrites = 2
    MaxLog = 2
    MaxJobs = 1
    MaxCrashes = 1
SYMMETRY Symmetry
CHECK_DEADLOCK FALSE
INVARIANTS
    StoreKeepsAnswered
    SnapshotKeepsAnswered
