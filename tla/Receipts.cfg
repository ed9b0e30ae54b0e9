SPECIFICATION ReceiptSpec
CONSTANTS
    Batches <- MCBatches
    Budget <- MCBudget
    Unread = Unread
CHECK_DEADLOCK FALSE
INVARIANTS
    TotalSurvivesDamageElsewhere
    CrossCheckHolds
    RescansAreCaught
    ReadOrRefused
