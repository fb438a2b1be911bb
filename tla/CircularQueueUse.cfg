SPECIFICATION UseSpec
CONSTANTS
  ByteBase = 256
  WindowArg = 1
  WindowSizes = {1, 2, 3}
  MaxSeq = 6
INVARIANTS
  UseTypeOK CountIsValid HoldsInserted PacketsOwned RemoveBelowIsTheLoop
