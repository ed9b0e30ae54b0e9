SPECIFICATION FairTabSpec
CONSTANTS
    Tabs = {t1, t2}
    Users = {ann}
    Pages = {home, plan}
    Home = home
    Login = login
    None = None
    MaxTokens = 2
INVARIANTS
    SessionsKeptApart
PROPERTIES
    EveryTabSettles
    SignedOutForCause
