SPECIFICATION Spec
CONSTANTS
    Writers = {w1, w2}
    Trappers = {t1, t2}
    Items = {i1}
    MAX_HRECORDS = 2
    OFFLINE_BUFFER = 1
    LOCAL_BUFFER = 0
    HOUSEKEEPING_FREQUENCY = 1
    MaxRows = 3
    MaxClock = 2
    MaxFailures = 2
    None = None
SYMMETRY TrapperSymmetry
INVARIANT UnsentKept
