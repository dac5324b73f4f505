SPECIFICATION FairDbgSpec
CONSTANTS
  Keys = {"R", "U"}
  NoKey = " "
  Sockets <- MCSockets
  INVALID_SOCKET <- MCInvalid
  MaxConnections = 3
  MaxKeys = 2
INVARIANT WorkedAtMostOnce
PROPERTY KeySent
CHECK_DEADLOCK TRUE
