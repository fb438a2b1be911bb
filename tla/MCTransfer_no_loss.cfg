SPECIFICATION FairSpec
CONSTANTS
  ByteBase = 2
  WindowArg = 3
  FileChunks = 6
  MAX_TIMEOUTS = 3
  FaultKinds = {"dup", "delay"}
  MaxFaults = 2
  FlipBits = {}
PROPERTIES
  CopyIsWhole
CHECK_DEADLOCK FALSE
