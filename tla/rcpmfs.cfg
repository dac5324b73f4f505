SPECIFICATION EmulatedDiskSpec
CONSTANTS
  Free = "free"
  NoFile = "none"
  RecordsPerRC = 2
  RecPerSec = 2
  SecPerBlock = 1
  BlocksPerExtent = 2
  Entries = 4
  DirBlocks = 1
  TotalBlocks = 6
  PlainName <- MCPlainName
  Names = {"a", "1b"}
  EntriesPerSec = 2
  ErasesBuffered = FALSE
  MaxRecords = 3
  MaxOpens = 1
INVARIANTS FilesInv FilesRead FilesListed HostKept
PROPERTY OthersKept
CHECK_DEADLOCK FALSE
