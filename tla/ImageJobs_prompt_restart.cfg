SPECIFICATION FairSpec
CONSTANTS
  Jobs = {j1, j2}
  Users = {u1}
  Keys = {k1, k2}
  Uploads = {}
  Clients = {c1}
  Worker = worker
  None = none
  Costs = {2}
  InitialPoints = 4
  ActiveLimit = 1
  DailyLimit = 0
  MaxInputs = 1
  RowLocks = TRUE
  PromptRestart = TRUE
  MaxCrashes = 2
  MaxFaults = 0
PROPERTIES EveryJobSettles
CHECK_DEADLOCK FALSE
