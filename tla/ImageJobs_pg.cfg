SPECIFICATION Spec
CONSTANTS
  Jobs = {j1, j2}
  Users = {u1}
  Keys = {k1, k2}
  Uploads = {i1}
  Clients = {c1, c2}
  Worker = worker
  None = none
  Costs = {0, 2}
  InitialPoints = 3
  ActiveLimit = 1
  DailyLimit = 1
  MaxInputs = 1
  RowLocks = TRUE
  PromptRestart = TRUE
  MaxCrashes = 1
  MaxFaults = 1
INVARIANTS Settlement AtMostOneCall LiveOutputHasFile PointsConserved
PROPERTIES KeepsContract
SYMMETRY Symmetry
CHECK_DEADLOCK FALSE
