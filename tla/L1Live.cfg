SPECIFICATION LiveSpec
CONSTANTS
    PositionId = {1, 2}
    MaxNotional = 4
    OrderTag <- MCOrderTag
    Metadata = {1, 2}
    NULL = NULL
    MaxPerPosition = 4
    MaxTotalDeployed = 8
    AllocL1 = 4
    StaticAlloc <- MCStaticAlloc
    LayerEnabled <- MCLayerEnabled
    EnableLiveOrders = TRUE
    Pair = {1, 2}
    MinPosition = 2
    DynamicAllocs = {6}
    OtherSizes = {}
PROPERTIES
    DecayedPairIsLeft
INVARIANTS
    OrderTakenAtMostOnce
