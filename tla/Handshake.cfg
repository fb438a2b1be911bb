SPECIFICATION FairSpec
CONSTANTS
  Clients = {"c1"}
  Pids = {1, 2, 3}
  Files = {"asked"}
  MAX_RETRIES = 2
  MAX_TIMEOUTS = 3
  POLL_SET_SIZE = 2
  StdinHungUp = FALSE
  FaultKinds = {"drop", "flip", "dup", "delay"}
  MaxFaults = 2
INVARIANTS
  HandshakeTypeOK
  ServedSocketIsRead
  ReturnedChildIsDeaf
  PollersWatchTheirSocket
PROPERTIES
  AckFindsItsChild
  TransferCleansUp
  RequestsEnd
  ChildrenAreReaped
CHECK_DEADLOCK FALSE
