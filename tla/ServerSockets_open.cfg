SPECIFICATION FairSocketsSpec
CONSTANTS
  s1 = s1
  s2 = s2
  s3 = s3
  Sockets <- MCSockets
  Mixes <- MCMixes
  Captures = {p1, p2, p3, p4}
  None = None
INVARIANT SocketsOK
PROPERTY SocketsAreFreed
CHECK_DEADLOCK FALSE
