SPECIFICATION Spec
CONSTANTS
  c1 = c1
  c2 = c2
  None = None
  Conn <- TwoConns
  BadConn <- NoConn
  NFds = 1
  MaxFiles = 0
  Parts = 1
  MaxHangups = 1
  NThreads = 1
  QueueCap = 4
  RespLen = 1
  MaxTn = 4
  MaxAgain = 0
  MaxFaults = 0
INVARIANT ResponseReachesRequester
CHECK_DEADLOCK FALSE
