CONSTANTS
    Bits = 2
    Self <- MCSelf
    Peers <- MCPeers
    Capacity = 1
    NoKey = NoKey
    Workers = {w1, w2}
    User = User
    NoTask = NoTask
    Requests <- MCRequests
    QueueCapacity = 1
    Alpha = 1
    FitNodes = 1
    MaxFound = 1
SPECIFICATION FairSpec
PROPERTY
    FullBucketResolved
CHECK_DEADLOCK FALSE
