CONSTANTS
  p1 = p1
  p2 = p2
  b1 = b1
  b2 = b2
  Proc = {p1, p2}
  Buf = {b1, b2}
  NULL = NULL
  OutCap = 1
  InCap = 1
  Limits <- Instances
SPECIFICATION Spec
INVARIANTS NoDangling OutputInOrder
PROPERTIES EventuallyShown EventuallyBuried
CHECK_DEADLOCK FALSE
