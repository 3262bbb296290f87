SPECIFICATION Spec
CONSTANTS
  Ips <- MCIps
  Country <- MCCountry
  Rules <- MCRules
  Tasks = {1, 2}
  Requests <- MCRequests
  Answers <- MCAnswers
  CacheSize = 1
  CnameLimit = 2
  PacketIds = 2
  ReassemblyTtl = 1
  PruneInterval = 2
  MaxEntries = 2
  Idle = 2
  MaxFragments = 2
  MaxTime = 3
  MaxLoops = 2
  MaxTokens = 2
  MaxWrite = 2
  Room = 2
  Schemes <- MCSchemes
  MaxData = 4
  MaxWritten = 2
  MaxPushed = 2
  MaxFrames = 1
  MaxTraffic = 3
  p1 = p1
  p2 = p2
  Ports = {p1, p2}
  Names = {n1, n2, n3}
  PoolSize = 2
  MapSize = 1
  MaxFlows = 2
CHECK_DEADLOCK FALSE
INVARIANTS RecoveredAnswered HandedWhole ProxyIntact AnyIntact TunReaches
PROPERTY CacheTransparent
