SPECIFICATION FairSpec
CONSTANTS
  c1 = c1
  c2 = c2
  None = None
  Conn <- OneConn
  BadConn <- OneConn
  NFds = 1
  MaxFiles = 0
  Parts = 1
  MaxHangups = 0
  NThreads = 1
  QueueCap = 4
  RespLen = 1
  MaxTn = 2
  MaxAgain = 0
  MaxFaults = 0
PROPERTY BadRequestEnds
CHECK_DEADLOCK FALSE
