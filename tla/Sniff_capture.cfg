SPECIFICATION FairSpec
CONSTANTS
  Platforms = {"linux", "bsd"}
  KernelLen = 2
  BpfLen = 2
  MaxPackets = 3
  Limits = {0, 2}
  DiskFills = TRUE
INVARIANTS
  TypeOK
  NothingLostInside
  SocketReleased
  OtherInterfacesBounded
  FileReadable
PROPERTIES
  SignalStops
  KeepsUp
  RefinesCaptureLog
