SPECIFICATION FairSpec
CONSTANTS
  c1 = c1
  c2 = c2
  k1 = k1
  k2 = k2
  k3 = k3
  NoConn = NoConn
  Clients <- OneClient
  Conns <- TwoConns
  FileReadable = TRUE
  FileBlocks = 1
  FdLimit = 3
  Backlog = 2
  CrashLimit = 1
  Supervised = TRUE
PROPERTY ThreadsEnd
