SPECIFICATION FairSpec
CONSTANTS
    PositionId = {1, 2, 3}
    MaxNotional = 12
    OrderTag <- MCOrderTag
    Metadata <- MCMetadata
    NULL = NULL
    Underlying = {1, 2}
    TargetDte = 3
    MinDte = 2
    ThetaBudget = 2
    Premiums = {3}
    Calendar = {2, 5}
    ListedAhead = 4
    Horizon = 2
    OtherSizes = {2}
INVARIANTS
    OneStranglePerUnderlying
    OpenHasBothLegs
PROPERTIES
    OpensClearWhenLoaded
    DueStrangleRolls
