CONSTANTS
    Chunks = {c1}
    Ports = {p1}
    Tasks = {t1, t2}
    MaxShards = 1
    Sweeps = TRUE
    Faults = TRUE
    MaxRestarts = 1
    None = None
SPECIFICATION FairSpec
INVARIANT
    IInv
PROPERTY
    TasksEnd
CHECK_DEADLOCK FALSE
