SPECIFICATION OrdersSpec
CONSTANTS
    PositionId = {1, 2}
    MaxNotional = 4
    OrderTag <- MCOrderTag
    Metadata = {1, 2}
    NULL = NULL
    MaxPerPosition = 4
    MaxTotalDeployed = 6
    AllocL1 = 2
    StaticAlloc <- MCStaticAlloc
    LayerEnabled <- MCLayerEnabled
    EnableLiveOrders = FALSE
    Pair = {1, 2}
    MinPosition = 2
    DynamicAllocs = {6}
    OtherSizes = {4}
INVARIANTS
    TypeOK
    OneLivePerPair
    ClosedIsExited
    TotalWithinCap
    CounterNeverOverstates
PROPERTIES
    HalfDoneHalts
    ReopenedOnlyUntouched
    EntryWithinAllocation
