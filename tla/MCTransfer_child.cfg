SPECIFICATION FairSpec
CONSTANTS
  ByteBase = 2
  WindowArg = 1
  FileChunks = 5
  MAX_TIMEOUTS = 2
  FaultKinds = {"drop", "flip", "dup", "reorder", "delay"}
  MaxFaults = 2
  FlipBits = {1, 2, 4}
INVARIANTS
  WindowContiguous
PROPERTIES
  RingIsSendWindow
  ChildEnds
CHECK_DEADLOCK FALSE
