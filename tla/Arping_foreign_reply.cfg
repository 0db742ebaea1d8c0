SPECIFICATION Spec
CONSTANTS
  SeqMod = 3
  NsPerMs = 2
  Count = 2
  Timeout = 3
  Interval = 2
  Signals = FALSE
  QueueLen = 2
  MaxArrivals = 2
  MaxLag = 1
  MaxClock = 0
  ClockEnd = 20
  Holders = {h1}
  Broadcast = bc
  Bystander = by
  ForeignReplies = TRUE
INVARIANTS
  WaitsForReply
