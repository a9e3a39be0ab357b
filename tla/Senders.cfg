SPECIFICATION SendersSpec
CONSTANTS
    Writers = {w1}
    Trappers = {t1, t2}
    Items = {i1, i2}
    MAX_HRECORDS = 2
    OFFLINE_BUFFER = 1
    LOCAL_BUFFER = 0
    HOUSEKEEPING_FREQUENCY = 1
    MaxRows = 3
    MaxClock = 2
    MaxFailures = 1
    None = None
    N = 2
    HistoryWriters = {w1, w2}
    MaxSelected = 2
    Nobody = Nobody
    MaxValues = 3
    MaxStops = 1
    w1 = w1
    w2 = w2
INVARIANTS
    SentReceived
    FirstReceiptsInOrder
    UnsentKept
    HistoryAccounted
PROPERTIES
    EventuallyReceived
    HistoryArrives
CHECK_DEADLOCK FALSE
