SPECIFICATION FairSpec
CONSTANTS
  SeqMod = 3
  NsPerMs = 2
  NsPerUs = 2
  Count = 2
  Timeout = 3
  Interval = 2
  Deadline = 0
  Adaptive = FALSE
  StraySeqs = {}
  Signals = FALSE
  QueueLen = 2
  MaxArrivals = 2
  MaxLag = 1
  MaxClock = 0
  ClockEnd = 30
INVARIANTS
  TypeOK
  EachProbeReportedOnce
  CountExitIsComplete
  CreditGenuine
  PollIsTimely
PROPERTIES
  Terminates
  RefinesLedger
