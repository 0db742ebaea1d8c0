SPECIFICATION FairSpec
CONSTANTS
  SeqMod = 3
  NsPerMs = 1
  Count = 2
  Timeout = 2
  Interval = 2
  Signals = TRUE
  QueueLen = 2
  MaxArrivals = 2
  MaxLag = 1
  MaxClock = 0
  ClockEnd = 18
  Holders = {h1, h2}
  Broadcast = bc
  Bystander = by
  ForeignReplies = TRUE
INVARIANTS
  TypeOK
  EveryProbeHasOneFate
  UnicastOnlyAfterReply
  OneReplyAtMost
PROPERTIES
  Terminates
