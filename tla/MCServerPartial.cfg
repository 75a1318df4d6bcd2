SPECIFICATION Spec
CONSTANTS
  c1 = c1
  c2 = c2
  None = None
  Conn <- OneConn
  BadConn <- NoConn
  NFds = 1
  MaxFiles = 0
  Parts = 2
  MaxHangups = 0
  NThreads = 1
  QueueCap = 4
  RespLen = 1
  MaxTn = 3
  MaxAgain = 0
  MaxFaults = 0
INVARIANT WholeRequestAnswered
CHECK_DEADLOCK FALSE
