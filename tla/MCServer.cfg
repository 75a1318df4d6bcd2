SPECIFICATION Spec
CONSTANTS
  c1 = c1
  c2 = c2
  None = None
  Conn <- TwoConns
  BadConn <- OneConn
  NFds = 1
  MaxFiles = 1
  Parts = 2
  MaxHangups = 1
  NThreads = 2
  QueueCap = 1
  RespLen = 1
  MaxTn = 5
  MaxAgain = 1
  MaxFaults = 1
INVARIANTS TypeOK OneOwner ClosedAfterResponse OpenIsServed StoppedIsClean
CHECK_DEADLOCK FALSE
