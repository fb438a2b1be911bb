SPECIFICATION Spec
CONSTANTS
  ByteBase = 2
  WindowArg = 3
  FileChunks = 4
  MAX_TIMEOUTS = 2
  FaultKinds = {"drop"}
  MaxFaults = 1
  FlipBits = {}
INVARIANTS CompleteWhenDone
CHECK_DEADLOCK FALSE
