SPECIFICATION Spec
CONSTANTS
    ann = ann
    bob = bob
    word = word
    Viewer = viewer
    Others = {ann, bob}
    NPosts = 4
    Content <- MCContent
    Private = {bob}
    Keyword = {word}
    MinPosts = 3
    PageLimit = 1
    MaxChanges = 1
INVARIANTS
    EndMeansEnd
CHECK_DEADLOCK FALSE
