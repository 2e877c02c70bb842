SPECIFICATION FairSpec
CONSTANTS
  ConfigFiles <- MCConfigFiles
  PortArgs <- MCPortArgs
  MaxTable = 2
  MaxLaunches = 2
  MaxFaults = 1
  Torn = Torn
  None = None
INVARIANTS IInv ConfigComplete FileIsCache
PROPERTIES ShutdownEnds CacheCatchesUp
CHECK_DEADLOCK FALSE
