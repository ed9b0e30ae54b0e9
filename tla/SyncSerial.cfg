SPECIFICATION FairSyncSpec
CONSTANTS
    Workers = {w1}
    Requests <- AllRequests
    KeyOf <- MCKeyOf
    SourceOf <- MCSourceOf
    PageCount <- MCPageCount
    NoList = NoList
    Nothing = Nothing
    CallsAllowed = 3
    Window = 2
    MaxClock = 2
    MaxCalls = 6
    MaxPages = 2
    MaxRetries = 1
    MaxSyncs = 3
INVARIANTS
    SoundResults
    CallsAccountedFor
PROPERTIES
    BudgetSpec
    EverySyncEnds
