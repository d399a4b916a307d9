SPECIFICATION Spec
CONSTANTS
    root = root
    mod = mod
    user = user
    User = {root, mod, user}
    Post = {post}
    Report = {report}
    Label = {label}
    InitialRole <- MCInitialRole
    MaxRequests = 4
INVARIANTS
    AuditReplays
    LabelsOnRecord
    SomeoneInCharge
CHECK_DEADLOCK FALSE
