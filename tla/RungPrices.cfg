SPECIFICATION Spec
CONSTANTS
    Whole = 200
    MaxSlippage = 8
    FillTolerance = 6
    Price = {31, 34, 36, 39, 47}
    LevelSize = {1, 2}
    MaxLevels = 2
    Spots = {40}
    RungSize = 60
    LesserSizes = {20, 30, 59}
    Levels = 4
    DeepestPct = 40
    DriftPct = 30
    TakeProfitPct = 12
    StopLossPct = 30
INVARIANTS
    ExitHasItsSign
    NoPaperSpread
    SmallerFillsToo
PROPERTIES
    FillIsNoGift
