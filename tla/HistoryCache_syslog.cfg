SPECIFICATION FairSpec
CONSTANTS
    p1 = p1
    p2 = p2
    s1 = s1
    s2 = s2
    i1 = i1
    i2 = i2
    Producers = {p1}
    Syncers = {s1}
    FullSyncers = {}
    Items = {i1, i2}
    Values <- NumericValues
    SyslogValues <- LogMessages
    HISTORY_SIZE = 2
    SYNC_MAX = 1
    TEXTBUFFER_SIZE = 4
    Proxy = FALSE
    None = None
    MaxValues = 4
PROPERTY SyslogSaved
