SPECIFICATION Spec
CONSTANTS
    Token <- MCToken
    Concurrency = 2
    MaxRequests = 5
INVARIANTS
    AccessEndsWithRevocation
    SweepEndsSessions
    OneSessionPerLogin
    LoggedOutStaysOut
    ErasedLeavesNothing
PROPERTIES
    ImplementsPromise
CHECK_DEADLOCK FALSE
