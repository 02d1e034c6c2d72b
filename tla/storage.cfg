SPECIFICATION MCSpec
CONSTANTS
  SECTOR_SIZE = 2
  Wide = 64
  NumSectors = 4
  Answers <- MCAnswers
  Table <- MCTable
  Beyond <- MCBeyond
  RamSize = 4
  Offsets = {0, 3, 62}
  Sizes = {0, 1, 5}
  MaxCalls = 2
  LogSize = 2
  LogWide = 16
  LogOffsets = {0, 1, 3, 15}
  LogSizes = {1, 15}
  MaxChars = 5
  MaxInterrupts = 2
  block_size = 2
  Files <- MCFiles
  DiskBlocks = 12
  FileOffsets = {0, 1, 2, 13}
  FileSizes = {1, 2, 17}
  MaxWrites = 2
  DIRECT = 1
  PerBlock = 2
CHECK_DEADLOCK FALSE
INVARIANTS ReadsSlice WritesSlice LogInBuffer LogKeepsLast FilesKeepBytes
