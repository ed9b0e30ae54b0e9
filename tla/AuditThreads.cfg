SPECIFICATION AuditSpec
CONSTANTS
    Approvers = {a1, a2}
    Contents = {c1, c2}
    MaxEntries = 2
    MaxEdits = 2
    Nothing = Nothing
SYMMETRY LogSymmetry
INVARIANTS
    EditsLocated
    Anchored
