SPECIFICATION Spec
CONSTANTS
    PositionId = {1, 2}
    MaxNotional = 5
    OrderTag <- MCOrderTag
    Metadata <- MCMetadata
    NULL = NULL
    MaxPerPosition = 5
    MaxTotalDeployed = 6
    AllocL2 = 3
    StaticAlloc <- MCStaticAlloc
    LayerEnabled <- MCLayerEnabled
    EnableLiveOrders = FALSE
    Symbol = {1, 2}
    Designs <- MixedDesigns
    Delisted = {}
    Configs <- MCConfigs
    MinPosition = 3
    Share <- MCShare
    DynamicAllocs = {8}
    OtherSizes = {}
INVARIANTS
    RefusedOnlyForTotal
PROPERTIES
    EntryWithinAllocation
    ClosedIsFinal
