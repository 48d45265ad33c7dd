CONSTANTS
    Byte <- MCByte
    Chunks <- MCChunks
    Capacity = 3
    MaxOffset = 7
    MaxReplicas = 2
SPECIFICATION Spec
INVARIANTS
    WindowIsExact
    FeedsAreContiguous
    ClosedFormIsLoop
PROPERTIES
    ImplementsReplLog
CHECK_DEADLOCK FALSE
