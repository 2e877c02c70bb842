CONSTANTS
    Bits = 3
    Self <- MCSelf
    Peers <- MCPeers
    Capacity = 2
    NoKey = NoKey
SPECIFICATION HistorySpec
INVARIANTS
    BucketsWellFormed
    SortedByLastSeen
    EnoughFound
    ExactUnlessLowerLeft
