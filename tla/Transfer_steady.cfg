SPECIFICATION FairSpec
CONSTANTS
  c1 = c1
  c2 = c2
  k1 = k1
  k2 = k2
  k3 = k3
  NoConn = NoConn
  Clients <- TwoClients
  Conns <- ThreeConns
  FileReadable = TRUE
  FileBlocks = 2
  FdLimit = 4
  Backlog = 2
  CrashLimit = 0
  Supervised = FALSE
INVARIANT TypeOK
INVARIANT WholeFileOrNothing
INVARIANT BlocksAccounted
PROPERTY RequestAnswered
