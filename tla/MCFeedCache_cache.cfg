SPECIFICATION Spec
CONSTANTS
    ann = ann
    bob = bob
    User = {ann, bob}
    NPosts = 2
    Author <- OneAuthor
    BackfillLimit = 1
    Concurrency = 2
INVARIANTS
    RowsNeedAFollow
    SerialFollowingOnly
    SerialFollowersMissNothing
    SerialNoFollowAcrossBlock
CHECK_DEADLOCK FALSE
