CONSTANTS
    Calls = {c1, c2}
    Workers = {w1, w2}
    Bodies = {pong, nodes}
    None = None
SPECIFICATION FairSpec
INVARIANTS
    NoLeakedEntry
    SenderUnique
    IInv
PROPERTIES
    ContractSpec
    EveryCallReturns
CHECK_DEADLOCK FALSE
