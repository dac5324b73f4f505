SPECIFICATION FairThreadsSpec
CONSTANTS
  Sockets <- MCSockets
  INVALID_SOCKET <- MCInvalid
  MaxConnections = 3
INVARIANT NewestKept
PROPERTIES HandlersJoined OrderEnds
CHECK_DEADLOCK TRUE
