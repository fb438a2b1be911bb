SPECIFICATION Spec
CONSTANTS
  Names <- MCNames
  Files <- MCFiles
  MAXBUF = 4
  FILENAME_SIZE = 2
  WindowArgs = {1, 300, 65536}
  BufferArgs = {0, 1, 256, 257, 512, 768, 66560}
  NameLengths = {1, 2}
  FileLengths = {0, 3, 4, 5, 34}
  MaxFlips = 1
INVARIANTS
  WholeFileCopied
  ChunkOfItsNumber
  ChecksumFindsFlip
  WireFormatIsExact
CHECK_DEADLOCK FALSE
