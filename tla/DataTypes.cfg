SPECIFICATION FairSpec
CONSTANTS
    Elems <- MCElems
    Fields <- MCFields
    Finite <- MCFinite
    I64 <- MCI64
    NegInf <- MCNegInf
    PosInf <- MCPosInf
    Text = Text
    Usize = 64
    Stride = 3
    MaxLen = 4
INVARIANTS
    IndexesAgree
    RangesAreExact
    ScoreReadsAgree
    RestoredIsSame
PROPERTIES
    RandmemberEnds
