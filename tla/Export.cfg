SPECIFICATION Spec
CONSTANTS
  Jobs = {j1, j2}
  Untidy = {j1}
  Clients = {c1}
  Prios = {0, 1}
  MaxPanics = 1
  NoRequest = NoRequest
  NoJob = NoJob
INVARIANTS JobsAreSafe StopIsSafe
PROPERTIES StopEndsWork OutcomeAnnounced ImplementsJobLifecycle
CHECK_DEADLOCK FALSE
