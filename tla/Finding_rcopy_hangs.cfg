SPECIFICATION FairSpec
CONSTANTS
  ByteBase = 2
  WindowArg = 3
  FileChunks = 4
  MAX_TIMEOUTS = 2
  FaultKinds = {"drop"}
  MaxFaults = 1
  FlipBits = {}
PROPERTIES RcopyEnds
CHECK_DEADLOCK FALSE
