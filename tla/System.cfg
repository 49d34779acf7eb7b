SPECIFICATION Spec
CONSTANTS
    PositionId = {1, 2}
    MaxNotional = 5
    NULL = NULL
    MaxPerPosition = 4
    MaxTotalDeployed = 6
    Alloc = 5
    StaticAlloc <- MCStaticAlloc
    LayerEnabled <- MCLayerEnabled
    EnableLiveOrders = FALSE
    Pair = {1}
    Symbol = {1}
    Configs <- MCConfigs
    MinPosition = 3
    Share <- MCShare
INVARIANTS
    RealizedAddsUp
PROPERTIES
    L1Spec
    L2Spec
