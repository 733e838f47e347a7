SPECIFICATION Spec
CONSTANTS
  Jobs = {j1, j2}
  Users = {u1}
  Keys = {k1, k2}
  Uploads = {i1}
  Clients = {c1, c2}
  Worker = worker
  None = none
  Costs = {0, 2}
  InitialPoints = 4
  ActiveLimit = 2
  DailyLimit = 0
  MaxInputs = 1
  RowLocks = TRUE
  PromptRestart = TRUE
  MaxCrashes = 1
  MaxFaults = 1
INVARIANTS PointsConserved
CHECK_DEADLOCK FALSE
