SPECIFICATION FairSpec
CONSTANTS
  Jobs = {j1, j2}
  Users = {u1}
  Keys = {k1, k2}
  Uploads = {}
  Clients = {c1, c2}
  Worker = worker
  None = none
  Costs = {2}
  InitialPoints = 4
  ActiveLimit = 1
  DailyLimit = 0
  MaxInputs = 1
  RowLocks = FALSE
  PromptRestart = FALSE
  MaxCrashes = 2
  MaxFaults = 0
INVARIANTS ActiveWithinLimit
PROPERTIES EveryJobSettles
CHECK_DEADLOCK FALSE
