SPECIFICATION FairSpec
CONSTANTS
    PositionId = {1, 2}
    MaxNotional = 5
    OrderTag <- MCOrderTag
    Metadata <- MCMetadata
    NULL = NULL
    MaxPerPosition = 5
    MaxTotalDeployed = 6
    AllocL2 = 6
    StaticAlloc <- MCStaticAlloc
    LayerEnabled <- MCLayerEnabled
    EnableLiveOrders = FALSE
    Symbol = {1}
    Designs <- TwoDesigns
    Delisted <- OneDesign
    Configs <- MCConfigs
    MinPosition = 3
    Share <- MCShare
    DynamicAllocs = {}
    OtherSizes = {}
PROPERTIES
    FilledAtCurrentDesign
    LaddersFollowConfig
    TimeStopSells
