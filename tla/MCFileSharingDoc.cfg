CONSTANTS
    Nodes = {1, 2, 3}
    Users = {1}
    Ports = {p1}
    A = A
    Rest = Rest
    Full = {A}
    Files <- MCTwice
    Alpha = 1
    MaxShards = 2
    MaxBlocks = 2
    MaxUploads = 1
    MaxFaults = 0
    None = None
SPECIFICATION Spec
INVARIANT
    EnteredIsStored
CHECK_DEADLOCK FALSE
