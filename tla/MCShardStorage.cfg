CONSTANTS
    Chunks = {c1, c2}
    Ports = {p1, p2}
    Tasks = {t1, t2}
    MaxShards = 1
    Sweeps = FALSE
    Faults = TRUE
    MaxRestarts = 1
    None = None
SPECIFICATION Spec
SYMMETRY Perms
INVARIANTS
    DataGoesToItsChunk
    PromisesKept
PROPERTIES
    PortStaysDead
    StoreContract
CHECK_DEADLOCK FALSE
