SPECIFICATION FairBootSpec
CONSTANTS
  MaxFaults = 1
  NoFile = "none"
  Plain = {"CPM22.BIN"}
  SegBytes = 2
  Segments = 2
  Junk <- MCJunk
  DiskName <- MCDiskName
  MaxTracks = 2
  MaxSects = 1
  ByteMod = 2
  CntMod = 8
  SerialSize = 1
  BootFile = "CPM22.BIN"
  BootIrqs = {"Rx", "Tick"}
  Opcodes = {"SETIRQ"}
  DiskNums = {0, 1}
  Tracks = {0}
  Sects = {0}
  NewBytes <- MCNewBytes
  MaxWrites = 1
  Losses = {"wifi", "server"}
  MaxDrops = 1
PROPERTIES LoadedExact RxServed TickServed BootRuns
CHECK_DEADLOCK TRUE
