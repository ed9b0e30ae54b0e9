SPECIFICATION ReplaySpec
CONSTANTS
    Days = 5
    Horizon = 2
    MinHistory = 1
    ObligationDays = 2
    Categories <- MCCategories
    ShareOf = 3
    DueDraws <- MCDueDraws
    Slack = 1
    Worlds <- MCWorlds
    a = a
    b = b
    Datasets <- MCDatasets
    Starts = {1}
    Spacings = {1}
    MaxReplays = 2
SYMMETRY MCSymmetry
CHECK_DEADLOCK FALSE
INVARIANTS
    NoLookAhead
    MoneyCountedOnce
    ForecastIsOwn
    RegretIsFair
