SPECIFICATION TablesSpec
CONSTANTS
    None = None
    Null = Null
    Tree <- Links
    Algorithms <- LinkAlgorithms
    TriggerOf <- TriggersBelow
    Priorities <- Severities
    p1 = p1
    p2 = p2
    s1 = s1
    s2 = s2
    main = main
    i1 = i1
    i2 = i2
    Processes = {p1, p2}
    Nums = {1, 2}
    MIN = 0
    MAX = 4
    Existing = {0}
    Templates = {1, 2}
    TemplateApps <- TwoApps
    TemplateItems <- ThreeItems
    TemplateTriggers <- ThreeTriggers
    Ips = {"ip1"}
    Keys = {"load"}
    Deleted = Deleted
    MaxHosts = 2
    MaxEdits = 1
    TrendSyncers = {s1}
    TrendItems = {1, 2}
    Hours = {1, 2}
    Numbers = {1, 4}
    TREND_SIZE = 3
    UINT_BITS = 8
    MaxBatch = 2
    MaxTrendValues = 3
    Producers = {p1}
    Syncers = {s1, s2, main}
    FullSyncers = {main}
    Parent = main
    Items = {i1, i2}
    Values <- MixedValues
    SyslogValues <- LogMessages
    HISTORY_SIZE = 2
    SYNC_MAX = 1
    TEXTBUFFER_SIZE = 2
    Proxy = FALSE
    MaxValues = 3
INVARIANTS
    UniqueIds
    TrendsSorted
    TrendsComplete
    AverageBetween
    KeysUnique
    TriggersInOneHost
    LinkedComplete
    StatusFromBelow
    EvaluatesFormula
    DrainedWhenStopped
CHECK_DEADLOCK FALSE
