CONSTANTS
    MaxWrites = 3
    Capacity = 2
    MaxSessions = 3
    MaxRestarts = 1
    MaxCuts = 0
SPECIFICATION Spec
INVARIANTS
    ResumeLosesNothing
