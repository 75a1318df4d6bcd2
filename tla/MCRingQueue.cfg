SPECIFICATION Spec
CONSTANTS
  a = a
  b = b
  NoTask = NoTask
  Task <- MCTask
  ReqCaps <- MCReqCaps
  MaxInitCap = 3
  GrowLimit = 8
INVARIANTS TypeOK RingInv
PROPERTY FifoSpec
