SPECIFICATION Spec
CONSTANTS
  Names <- MCNames
  Files <- MCFiles
  MAXBUF = 4
  FILENAME_SIZE = 2
  WindowArgs = {256}
  BufferArgs = {2}
  NameLengths = {1}
  FileLengths = {5}
  MaxFlips = 0
INVARIANTS FixedSizePackets
CHECK_DEADLOCK FALSE
