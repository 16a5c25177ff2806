SPECIFICATION Spec
CONSTANTS
  Last = 1
  Ahead = 1
  Raw = 10
  MaxSeeks = 3
  MaxFaults = 0
INVARIANT InitFits
CHECK_DEADLOCK FALSE
