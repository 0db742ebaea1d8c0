SPECIFICATION FairSpec
CONSTANTS
  SeqMod = 7
  NsPerMs = 2
  FirstTtl = 1
  MaxTtl = 3
  Queries = 2
  Timeout = 2
  TtlMod = 5
  PortBase = 5
  Distance = 2
  Scenarios <- Paths
  ClockEnd = 17
INVARIANTS
  TypeOK
  HopGenuine
  RouteInOrder
  WaitIsBounded
PROPERTIES
  Terminates
