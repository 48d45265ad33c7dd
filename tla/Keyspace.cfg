SPECIFICATION FairSpec
CONSTANTS
    c1 = c1  c2 = c2
    Clients <- TwoClients
    Keys <- TwoKeys
    Mixes <- MCMixes
    SampleSize = 1
    MaxTtl = 1
    MaxIds = 2
CHECK_DEADLOCK FALSE
INVARIANTS
    ValuesConserved
PROPERTIES
    LostOnlyIfRewritten
    ExpiredIsRemoved
