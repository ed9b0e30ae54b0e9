SPECIFICATION FairPageSpec
CONSTANTS
    Tabs = {t1, t2}
    Samples = {s1, s2}
    Upload = upload
    MaxReads = 3
    None = None
CHECK_DEADLOCK FALSE
INVARIANTS
    PictureOfTheSelection
    WarmStaysWarm
PROPERTIES
    EveryReadSettles
