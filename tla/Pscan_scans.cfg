SPECIFICATION FairSpec
CONSTANTS
  PortMod = 8
  Scenarios <- Scans
  Timeout = 1
  NsPerS = 2
  PollNs = 1
  SleepNs = 1
  Burst = 1
  OpenPorts = {2, 4}
  ClockEnd = 16
INVARIANTS
  TypeOK
  EachPortProbedOnce
  RateKept
  BurstBounded
  AnnouncedOnce
  ReportSound
PROPERTIES
  Terminates
