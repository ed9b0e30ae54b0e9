SPECIFICATION HistorySpec
CONSTANTS
    Workers = {w1, w2}
    NoList = NoList
    CallsAllowed = 2
    Window = 2
    MaxClock = 3
    MaxCalls = 4
SYMMETRY ThreadSymmetry
INVARIANTS
    NoSpuriousRefusal
    OverrunNeedsOverlap
