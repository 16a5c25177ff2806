SPECIFICATION PagesSpec
CONSTANTS
  Parts = {"track"}
  Last = 1
  Forward = 0
  Backward = 0
  CacheCap = 1
  MaxOps = 1
  Aac = {a1}
  Alac = {l1}
  Mv = {v1}
  MaxGen = 2
  MaxSessions = 3
  MaxWarm = 1
  HoverCap = 1
  MaxTracks = 1
  MaxUser = 1
  MaxFaults = 1
  Retries = 1
  None = None
INVARIANTS HandoffIsSafe LastChangeStreams
PROPERTIES EveryChangeSettles
CHECK_DEADLOCK FALSE
