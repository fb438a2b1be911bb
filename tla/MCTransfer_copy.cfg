SPECIFICATION Spec
CONSTANTS
  ByteBase = 2
  WindowArg = 3
  FileChunks = 34
  MAX_TIMEOUTS = 2
  FaultKinds = {"drop", "dup", "reorder", "delay"}
  MaxFaults = 3
  FlipBits = {}
INVARIANTS
  TypeOK
  MissingIsHeld
  WithinWindow
  PrefixWritten
  NoMislabelledData
  BufferAgreesWithState
  AcksAreEarned
PROPERTIES
  CopyIsPrefix
  EofAckMeansClosed
CHECK_DEADLOCK FALSE
