SPECIFICATION Spec
CONSTANTS
  Files = {"A"}
  Emulated = {"E"}
  Missing = {"M"}
  NoName = ""
  Drives = {"E"}
  Chunk <- MCChunk
  ZeroChunk <- MCZero
  BadChunk <- MCBad
  Segments = 1
  Sectors <- MCSectors
  Contents <- MCContents
  Images <- ShortImages
  MaxAttempts = 2
  Corruptions = {}
  Corruptible = {}
  Window = 2
  TcpLate = FALSE
  Stall = FALSE
  MaxFaults = 0
INVARIANTS TransferInv ReadExact
PROPERTY IsSectorDisk
CHECK_DEADLOCK TRUE
