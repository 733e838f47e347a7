SPECIFICATION Spec
CONSTANTS
  Jobs = {j1, j2}
  Users = {u1}
  Keys = {k1, k2}
  Uploads = {i1}
  Clients = {c1, c2}
  Worker = worker
  None = none
  Costs = {0, 2}
  InitialPoints = 4
  ActiveLimit = 1
  DailyLimit = 0
  MaxInputs = 1
  RowLocks = FALSE
  PromptRestart = TRUE
  MaxCrashes = 1
  MaxFaults = 1
PROPERTIES RunningNotCancelled
CHECK_DEADLOCK FALSE
