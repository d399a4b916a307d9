SPECIFICATION Spec
CONSTANTS
    p1 = p1
    p2 = p2
    p3 = p3
    Post = {p1, p2, p3}
    NoPost = NoPost
    Content <- MCContent
    Worker = {w1, w2}
    BatchSize = 2
    Faults = {"xadd", "read", "mark", "ack", "crash"}
INVARIANTS
    AckedMeansDecided
    LabelledBeforeFanOut
    FailedOnlyForGoneReference
PROPERTIES
    ImplementsLifecycle
CHECK_DEADLOCK FALSE
