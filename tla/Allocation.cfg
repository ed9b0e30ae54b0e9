SPECIFICATION AllocationSpec
CONSTANTS
    Items <- MCItems
    MaxItems = 3
    CashLevels <- MCCashLevels
    Unit = 2
    Batches <- MCBatches
    EpsNum = 1
    EpsDen = 4
INVARIANTS
    WithinMeans
    HoldingOffCostsLeast
    AgreeWhereClaimed
    ShortfallNearEpsilon
