SPECIFICATION Spec
CONSTANTS
  Files = {"A"}
  Emulated = {}
  Missing = {}
  NoName = ""
  Drives = {}
  Chunk <- MCChunk
  ZeroChunk <- MCZero
  BadChunk <- MCBad
  Segments = 2
  Sectors <- MCSectors
  Contents <- MCContents
  Images <- ShortImages
  MaxAttempts = 2
  Corruptions = {"payload", "data"}
  Corruptible = {"SEEK_FILE", "RD_FILE", "RD_NEXT", "WR_FILE", "WR_NEXT"}
  Window = 2
  TcpLate = FALSE
  Stall = FALSE
  MaxFaults = 2
INVARIANTS TransferInv ReadExact WriteExact LockStep AnswersThisCommand
PROPERTY IsSectorDisk
CHECK_DEADLOCK TRUE
