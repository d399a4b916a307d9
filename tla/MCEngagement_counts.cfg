SPECIFICATION Spec
CONSTANTS
    ann = ann
    bob = bob
    User = {ann, bob}
    Child = {c1, c2}
    Owner <- OneOwner
    NoRow = NoRow
    Workers = 1
    Concurrency = 2
    LikeBound = 2
INVARIANTS
    RecountIsExact
    SerialLikeCountExact
    SerialRepostsTakenBack
SYMMETRY ChildSymmetry
CHECK_DEADLOCK FALSE
