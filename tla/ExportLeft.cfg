SPECIFICATION Spec
CONSTANTS
  Jobs = {j1, j2}
  Untidy = {j1}
  Clients = {c1}
  Prios = {0, 1}
  MaxPanics = 1
  NoRequest = NoRequest
  NoJob = NoJob
PROPERTIES CancelledLeavesNothing
CHECK_DEADLOCK FALSE
