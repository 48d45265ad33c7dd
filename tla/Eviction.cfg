SPECIFICATION FairSpec
CONSTANTS
    k1 = k1  k2 = k2
    NumDbs = 2
    Keys <- TwoKeys
    Sizes = {1, 3}
    Policies <- AllPolicies
    Limit = 1
    WriteOps <- AllOps
    MaxWrites = 2
CHECK_DEADLOCK FALSE
PROPERTIES
    QuietEvictionIsExact
    CycleRepeats
    RefusalEnds
