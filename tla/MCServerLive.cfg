SPECIFICATION FairSpec
CONSTANTS
  c1 = c1
  c2 = c2
  None = None
  Conn <- TwoConns
  BadConn <- NoConn
  NFds = 2
  MaxFiles = 1
  Parts = 1
  MaxHangups = 1
  NThreads = 1
  QueueCap = 4
  RespLen = 1
  MaxTn = 4
  MaxAgain = 1
  MaxFaults = 1
INVARIANTS ListCoversDescriptors PendingNoticed
PROPERTIES ConnectionsEnd PendingAccepted ShutdownCompletes
CHECK_DEADLOCK FALSE
