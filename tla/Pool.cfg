SPECIFICATION FairSpec
CONSTANTS
    Task = {t1, t2, t3}
    Key = {spot, swap}
    Client = {c1, c2, c3, c4}
    MaxLost = 2
    NULL = NULL
    FAILED = FAILED
INVARIANTS
    OneStartPerKey
    LockIsLive
PROPERTIES
    ImplementsRegistry
    WaiterReturns
CHECK_DEADLOCK FALSE
