SPECIFICATION Spec
CONSTANTS
  MaxTracks = 2
  MaxUser = 1
  MaxFaults = 1
  Retries = 1
  None = None
INVARIANTS NothingIsSkipped
PROPERTIES EndIsHandled SeekSettles
CHECK_DEADLOCK FALSE
