SPECIFICATION Spec
CONSTANTS
  Files = {"A"}
  Emulated = {}
  Missing = {}
  NoName = ""
  Drives = {}
  Chunk <- MCChunk
  ZeroChunk <- MCZero
  BadChunk <- MCBad
  Segments = 1
  Sectors <- MCSectors
  Contents <- MCContents
  Images <- ShortImages
  MaxAttempts = 2
  Corruptions = {"payload"}
  Corruptible = {"SEL_FILE"}
  Window = 2
  TcpLate = FALSE
  Stall = FALSE
  MaxFaults = 1
INVARIANT SelectsRequested
CHECK_DEADLOCK TRUE
