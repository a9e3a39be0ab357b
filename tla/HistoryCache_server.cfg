SPECIFICATION Spec
CONSTANTS
    p1 = p1
    p2 = p2
    s1 = s1
    s2 = s2
    i1 = i1
    i2 = i2
    Producers = {p1}
    Syncers = {s1, s2}
    FullSyncers = {}
    Items = {i1, i2}
    Values <- NumbersAndLogs
    SyslogValues <- LogMessages
    HISTORY_SIZE = 4
    SYNC_MAX = 2
    TEXTBUFFER_SIZE = 4
    Proxy = FALSE
    None = None
    MaxValues = 5
SYMMETRY Symmetry
INVARIANTS
    EachValueOnce
    OneValuePerItem
    TypeOK
    LockHeld
    TextIntact
PROPERTY ImplementsQueue
