SPECIFICATION FairSpec
CONSTANTS
  Files = {"A"}
  Emulated = {}
  Missing = {}
  NoName = ""
  Drives = {}
  Chunk <- MCChunk
  ZeroChunk <- MCZero
  BadChunk <- MCBad
  Segments = 1
  Sectors = {0}
  Contents <- MCContents
  Images <- FullImages
  MaxAttempts = 1
  Corruptions = {"payload", "offset", "cmd", "data"}
  Corruptible = {"SEL_FILE", "SEEK_FILE", "RD_FILE", "RD_NEXT", "WR_FILE", "WR_NEXT"}
  Window = 2
  TcpLate = TRUE
  Stall = TRUE
  MaxFaults = 1
INVARIANT TypeOK
PROPERTY Termination
CHECK_DEADLOCK TRUE
