CONSTANTS
    Nodes = {1, 2, 3}
    Users = {1, 2}
    Ports = {p1}
    A = A
    Rest = Rest
    Full = {A}
    Files <- MCFiles
    Alpha = 1
    MaxShards = 3
    MaxBlocks = 2
    MaxUploads = 2
    MaxFaults = 1
    None = None
SPECIFICATION Spec
INVARIANTS
    IInv
    OutputFaithful
    SuccessLeavesChunks
    UnsharedIsRetrievable
PROPERTIES
    CopiesSurvive
CHECK_DEADLOCK FALSE
