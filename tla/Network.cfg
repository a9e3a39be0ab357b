SPECIFICATION NetworkSpec
CONSTANTS
    None = None
    Absent = Absent
    Default = Default
    Nil = Nil
    N = 2
    Fields = {"f", "g"}
    First = "f"
    MaxEdits = 2
    MaxBreaks = 1
    i1 = i1
    Items = {i1}
    Matches <- OddLines
    CONFIG_BUFFER_SIZE = 2
    MaxLines = 3
    MaxFaults = 2
    Checks = {c1}
    ZBX_MAX_HRECORDS = 3
    MaxFlips = 3
    MaxStops = 1
    MaxRows = 3
    c1 = c1
    c2 = c2
INVARIANTS
    LinesAccounted
    OnceInOrder
    DiscoveredAndLost
    EditsKept
PROPERTIES
    LinesSettled
    HostComesBack
    DownIsDetected
    StatusSettles
    Converges
CHECK_DEADLOCK FALSE
