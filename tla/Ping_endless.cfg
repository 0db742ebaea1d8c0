SPECIFICATION FairSpec
CONSTANTS
  SeqMod = 2
  NsPerMs = 1
  NsPerUs = 2
  Count = 0
  Timeout = 2
  Interval = 1
  Deadline = 0
  Adaptive = FALSE
  StraySeqs = {0}
  Signals = TRUE
  QueueLen = 2
  MaxArrivals = 2
  MaxLag = 1
  MaxClock = 4
  ClockEnd = 30
INVARIANTS
  CountErrorBounded
PROPERTIES
  SignalStops
