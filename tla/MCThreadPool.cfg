SPECIFICATION FairSpec
CONSTANTS
  a = a
  b = b
  c = c
  Main = Main
  Nobody = Nobody
  NoTask = NoTask
  Task <- MCTask
  NThreads = 3
  QueueCap = 1
  MaxSpurious = 1
INVARIANTS TypeOK NoLostWakeup TaskAccounting WorkersFindPoolAlive DestroyDrains
PROPERTIES PoolSpec AcceptedTasksRun DestroyReturns
