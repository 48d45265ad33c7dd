CONSTANTS
    c1 = c1
    c2 = c2
    Clients <- MCClients
    MaxPushes = 2
    Keys <- MCKeys
    KeyLists <- MCKeyLists
    Lefts = {TRUE}
    Dbs = {0}
    MaxPops = 2
SPECIFICATION FairSpec
INVARIANTS
    EachElementOnce
    NoStaleWaiter
    OnlyWindowLosesWakeups
PROPERTIES
    FinitePopIsAnswered
CHECK_DEADLOCK FALSE
