SPECIFICATION Spec
CONSTANTS
  ByteBase = 2
  WindowArg = 3
  FileChunks = 5
  MAX_TIMEOUTS = 2
  FaultKinds = {"drop"}
  MaxFaults = 2
  FlipBits = {}
PROPERTIES TimeoutResendsOldest
CHECK_DEADLOCK FALSE
