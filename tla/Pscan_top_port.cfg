SPECIFICATION Spec
CONSTANTS
  PortMod = 6
  Scenarios <- TopPort
  Timeout = 0
  NsPerS = 2
  PollNs = 1
  SleepNs = 1
  Burst = 1
  OpenPorts = {2, 4}
  ClockEnd = 30
INVARIANTS
  ReportInRange
