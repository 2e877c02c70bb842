CONSTANTS
    Nodes = {1, 2, 3}
    Users = {1}
    Ports = {p1}
    A = A
    Rest = Rest
    Full = {A}
    Files <- MCMoreFiles
    Alpha = 2
    MaxShards = 3
    MaxBlocks = 2
    MaxUploads = 2
    MaxFaults = 1
    None = None
SPECIFICATION FairSpec
INVARIANTS
    UnsharedIsRetrievable
PROPERTIES
    CommandsEnd
CHECK_DEADLOCK FALSE
