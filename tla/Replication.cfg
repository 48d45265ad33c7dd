CONSTANTS
    MaxWrites = 3
    Capacity = 2
    MaxSessions = 3
    MaxRestarts = 1
    MaxCuts = 2
SPECIFICATION FairSpec
INVARIANTS
    FullSyncMissesNothing
    PartialSyncIsExact
    OffsetCountsDelivery
    ReplicaConverges
PROPERTIES
    FullSyncDelivers
