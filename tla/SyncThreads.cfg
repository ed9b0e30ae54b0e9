SPECIFICATION SyncSpec
CONSTANTS
    Workers = {w1, w2}
    Requests <- TwinRequests
    KeyOf <- MCKeyOf
    SourceOf <- MCSourceOf
    PageCount <- MCPageCount
    NoList = NoList
    Nothing = Nothing
    CallsAllowed = 3
    Window = 2
    MaxClock = 0
    MaxCalls = 4
    MaxPages = 2
    MaxRetries = 0
    MaxSyncs = 3
SYMMETRY ThreadSymmetry
INVARIANTS
    SoundResults
    FreshOncePerThread
