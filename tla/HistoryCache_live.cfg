SPECIFICATION FairSpec
CONSTANTS
    p1 = p1
    p2 = p2
    s1 = s1
    s2 = s2
    i1 = i1
    i2 = i2
    Producers = {p1, p2}
    Syncers = {s1}
    FullSyncers = {}
    Items = {i1, i2}
    Values <- MixedValues
    SyslogValues = {}
    HISTORY_SIZE = 3
    SYNC_MAX = 2
    TEXTBUFFER_SIZE = 4
    Proxy = FALSE
    None = None
    MaxValues = 4
PROPERTIES
    LastvalueAdvances
    EventuallyStored
    AddersProceed
