SPECIFICATION FairSpec
CONSTANTS
  SeqMod = 4
  NsPerMs = 4
  NsPerUs = 2
  Count = 0
  Timeout = 2
  Interval = 3
  Deadline = 4
  Adaptive = FALSE
  StraySeqs = {}
  Signals = FALSE
  QueueLen = 2
  MaxArrivals = 1
  MaxLag = 2
  MaxClock = 31
  ClockEnd = 30
PROPERTIES
  DeadlineStops
