SPECIFICATION Spec
CONSTANTS
  Ids = {i1, i2, i3}
  Prios = {0, 1}
  MaxSeq = 4
  Poppers = {p1, p2, p3}
INVARIANTS QueueIsSafe
PROPERTIES CloseEndsConsumers ImplementsJobQueue
CHECK_DEADLOCK FALSE
