\* One symbol; a window of three ticks over a retention of a day of three.
\* Settings that add up, other ones that do, and the defaults, which do not.
CONSTANTS
    NULL = NULL
    Symbol = {btc}
    OI = {1, 2}
    Rate = {0, 10}
    Ratio = {3, 10}
    MinHistory = 2
    WindowHours = 3
    PruneDays = 1
    TicksPerDay = 3
    PruneEvery = 2
    Whole = 20
    MaxTilt = 4
    Steps = 2
    Bases <- MCBases
    AprSeen = {0, 50}
    IvSeen = {6}
    RecomputeEvery = 2
SPECIFICATION FairSpec
INVARIANTS TypeOK TriggerMeansLeverage
PROPERTIES WindowSurvivesPrune WriteWithinBounds OldRowsArePruned AllocationFollowsSettings
CHECK_DEADLOCK FALSE
