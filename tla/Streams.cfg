SPECIFICATION StreamSpec
CONSTANTS
    a1 = a1  a2 = a2  r1 = r1  r2 = r2  c1 = c1
    Adders <- TwoAdders
    Readers <- TwoReaders
    Consumers <- OneConsumer
    Counts <- OneOrAll
    MaxLens <- OneOrAll
    Starts <- FirstOrLater
    MaxMs = 1
    MaxSeq = 1
    MaxAdds = 2
SYMMETRY Symmetry
CHECK_DEADLOCK FALSE
INVARIANTS
    NothingSkipped
    IdsIncrease
    PendingHasOwner
