SPECIFICATION FairSpec
CONSTANTS
  SeqMod = 3
  NsPerMs = 2
  Count = 2
  Timeout = 3
  Interval = 2
  Signals = TRUE
  QueueLen = 2
  MaxArrivals = 2
  MaxLag = 1
  MaxClock = 0
  ClockEnd = 22
  AckMod = 9
  InitialSeq = 4
  StrayAcks = {0}
INVARIANTS
  TypeOK
  CountErrorBounded
PROPERTIES
  Terminates
  RefinesLedger
