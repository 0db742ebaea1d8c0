SPECIFICATION FairSpec
CONSTANTS
  Platforms = {"linux", "bsd"}
  KernelLen = 2
  BpfLen = 2
  MaxPackets = 3
  Limits = {2}
  DiskFills = FALSE
PROPERTY CountStops
