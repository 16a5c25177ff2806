SPECIFICATION EngineSpec
CONSTANTS
  Parts = {"sessions", "stream", "eviction", "move"}
  None = None
  Callers = {"a", "b", "c"}
  PrivateCallers = {"c"}
  Keys = {"k1"}
  Ids = {"s1", "s2"}
  MaxOpens = 1
  Reaper = "reaper"
  Puts = {"a", "b"}
  PlainPuts = {"b"}
  Readers = {"c", "d"}
  AtReaders = {"d"}
  Blocks = 1
  MaxCrashes = 1
  CacheNames = {"n1", "n2", "n3"}
  Evictors = {"a", "b", "c"}
  Limit = 1
  MaxTime = 4
  Jobs = {"a", "b"}
  FileSystems = {"atomic", "copy"}
  Policies = {"skip", "overwrite", "rename"}
  MaxAttempts = 2
  MaxBase = 4
  MaxUserFiles = 1
  User = "user"
  Free = "free"
  Watched = {"a", "c", "s1"}
INVARIANTS SessionsAgree StreamIsWhole CacheKeepsItsLimit MovesAreApart
PROPERTIES CompleteFilesStay EngineSettles
CHECK_DEADLOCK FALSE
