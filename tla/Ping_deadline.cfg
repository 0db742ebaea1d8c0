SPECIFICATION Spec
CONSTANTS
  SeqMod = 6
  NsPerMs = 2
  NsPerUs = 2
  Count = 0
  Timeout = 3
  Interval = 2
  Deadline = 4
  Adaptive = TRUE
  StraySeqs = {}
  Signals = TRUE
  QueueLen = 2
  MaxArrivals = 2
  MaxLag = 1
  MaxClock = 6
  ClockEnd = 30
INVARIANTS
  StatsConsistent
  PollHonoursDeadline
