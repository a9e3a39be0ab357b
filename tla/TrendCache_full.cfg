SPECIFICATION TrendSpec
CONSTANTS
    s1 = s1
    s2 = s2
    TrendSyncers = {s1}
    TrendItems = {1, 2, 3}
    Hours = {1, 2}
    Numbers = {1, 4}
    TREND_SIZE = 2
    UINT_BITS = 8
    MaxBatch = 2
    MaxTrendValues = 3
INVARIANT FullArrayFlushed
