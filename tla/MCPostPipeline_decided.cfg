SPECIFICATION FairSpec
CONSTANTS
    p1 = p1
    p2 = p2
    p3 = p3
    Post = {p1, p2}
    NoPost = NoPost
    Content <- MCContent
    Worker = {w1, w2}
    BatchSize = 2
    Faults = {"task"}
INVARIANTS
    SuccessMeansComplete
PROPERTIES
    EveryPostDecided
    NoSilentLoss
CHECK_DEADLOCK FALSE
