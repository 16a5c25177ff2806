SPECIFICATION PagesSpec
CONSTANTS
  Parts = {"mse"}
  Last = 2
  Forward = 0
  Backward = 0
  CacheCap = 1
  MaxOps = 3
  Aac = {a1}
  Alac = {}
  Mv = {}
  MaxGen = 0
  MaxSessions = 0
  MaxWarm = 0
  HoverCap = 1
  MaxTracks = 1
  MaxUser = 1
  MaxFaults = 1
  Retries = 1
  None = None
INVARIANTS FeedIsSafe
PROPERTIES CompleteByItsOwner EveryOperationEnds
CHECK_DEADLOCK FALSE
