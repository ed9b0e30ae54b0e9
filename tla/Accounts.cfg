SPECIFICATION Spec
CONSTANTS
    Clients = {c1, c2}
    Ann = Ann
    ANN = ANN
    ann = ann
    good = good
    short = short
    Spellings = {Ann, ANN}
    Emails = {ann}
    Fold <- MCFold
    Passwords = {good, short}
    Weak = {short}
    Sizes = {"small"}
    TTL = 2
    MaxAccounts = 2
    MaxTime = 2
    MaxEdits = 2
    None = None
SYMMETRY MCSymmetry
INVARIANTS
    StaleAtMostTTL
PROPERTIES
    RegistryPromise
