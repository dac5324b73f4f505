SPECIFICATION OpcodesSpec
CONSTANTS
  MaxFaults = 1
  NoFile = "none"
  Plain = {"CPM22.BIN"}
  SegBytes = 2
  Segments = 2
  Junk <- MCJunk
  DiskName <- MCDiskName
  MaxTracks = 2
  MaxSects = 1
  ByteMod = 2
  CntMod = 8
  SerialSize = 0
  BootFile = "CPM22.BIN"
  BootIrqs = {}
  Opcodes = {"SELDISK", "SELTRACK", "SELSECT", "WRITESECT", "ERRDISK", "READSECT"}
  DiskNums = {0, 1}
  Tracks = {1, 2}
  Sects = {0}
  NewBytes <- MCNewBytes
  MaxWrites = 2
  Losses = {"restart"}
  MaxDrops = 1
INVARIANTS SectorsInv SectorRead SectorWritten
PROPERTY OnlyThisSector
CHECK_DEADLOCK TRUE
