SPECIFICATION Spec
CONSTANTS
    Reader = reader
    Fan = {reader, fan}
    NPosts = 3
    Replies = {3}
    FollowersOnly = {2}
    PageLimit = 1
    InboxLimit = 2
    MaxChanges = 3
INVARIANTS
    EachOnce
    ListsComplete
    BadgeHasCause
CHECK_DEADLOCK FALSE
