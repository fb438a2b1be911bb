SPECIFICATION Spec
CONSTANTS
  ByteBase = 2
  WindowArg = 3
  FileChunks = 4
  MAX_TIMEOUTS = 2
  FaultKinds = {}
  MaxFaults = 0
  FlipBits = {}
PROPERTIES EofAckEndsTransfer
CHECK_DEADLOCK FALSE
