SPECIFICATION LimitFairSpec
CONSTANTS
    r1 = r1
    r2 = r2
    r3 = r3
    Client <- MCClient
    Limit = 2
    MaxErrors = 1
INVARIANTS
    WindowBound
    NotRefusedEarly
PROPERTIES
    EveryWindowEnds
CHECK_DEADLOCK FALSE
