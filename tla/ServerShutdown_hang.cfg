SPECIFICATION ShutdownSpec
CONSTANTS
    p1 = p1
    s1 = s1
    s2 = s2
    main = main
    i1 = i1
    i2 = i2
    Producers = {p1}
    Syncers = {s1, main}
    FullSyncers = {main}
    Parent = main
    Items = {i1, i2}
    Values <- MixedValues
    SyslogValues = {}
    HISTORY_SIZE = 3
    SYNC_MAX = 1
    TEXTBUFFER_SIZE = 2
    Proxy = FALSE
    None = None
    MaxValues = 2
PROPERTY ShutdownCompletes
CHECK_DEADLOCK FALSE
