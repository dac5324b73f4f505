SPECIFICATION SessionSpec
CONSTANTS
  Files = {"A", "B"}
  Emulated = {"E", "F"}
  Missing = {"M"}
  NoName = ""
  Drives = {"E"}
  Chunk <- MCChunk
  ZeroChunk <- MCZero
  BadChunk <- MCBad
  Segments = 1
  Window = 2
  Images <- MCImages
  Contents <- MCContents
  Offsets <- MCOffsets
  MaxPos = 2
INVARIANT SelectionCoherent
PROPERTY OnlySelectedChanges
CHECK_DEADLOCK TRUE
