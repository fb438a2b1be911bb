SPECIFICATION Spec
CONSTANTS
  ByteBase = 4
  WindowArg = 1
  FileChunks = 5
  MAX_TIMEOUTS = 2
  FaultKinds = {"drop"}
  MaxFaults = 2
  FlipBits = {}
INVARIANTS PrefixWritten
CHECK_DEADLOCK FALSE
