SPECIFICATION Spec
CONSTANTS
  n1 = n1
  n2 = n2
  n3 = n3
  Node <- ThreeNodes
  Fd = {1, 2, 3}
  NULL = NULL
INVARIANTS TypeOK Linked SearchMissesNobody FreeListClosesAll
PROPERTIES ListSpec
CHECK_DEADLOCK FALSE
