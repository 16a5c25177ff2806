SPECIFICATION Spec
CONSTANTS
  Aac = {a1}
  Alac = {l1}
  Mv = {}
  MaxGen = 3
  MaxSessions = 2
  MaxWarm = 0
  HoverCap = 1
  None = None
INVARIANTS LiveIsKnown
CHECK_DEADLOCK FALSE
