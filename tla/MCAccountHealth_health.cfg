SPECIFICATION Spec
CONSTANTS
    Viewer = {v1, v2}
    Post = {p1, p2, p3}
    Log1p <- MCLog1p
    MaxChanges = 3
    MaxRefreshes = 1
    MaxJobs = 2
SYMMETRY Symmetry
INVARIANTS
    NoSpammerMissed
    LowScoreLabelled
    LabelNeedsPressure
    ScoreCurrent
CHECK_DEADLOCK FALSE
