SPECIFICATION Spec
CONSTANTS
  c1 = c1
  c2 = c2
  None = None
  Conn <- OneConn
  BadConn <- NoConn
  NFds = 1
  MaxFiles = 0
  Parts = 1
  MaxHangups = 0
  NThreads = 1
  QueueCap = 4
  RespLen = 2
  MaxTn = 2
  MaxAgain = 1
  MaxFaults = 0
INVARIANT ResponseSentOnce
CHECK_DEADLOCK FALSE
