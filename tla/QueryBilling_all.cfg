SPECIFICATION FairSpec
CONSTANTS
  Threads = {t1, t2}
  None = none
  Users = {u1}
  Keys = {k1}
  Owner <- MCOwner
  Clients = {d1, d2}
  Limits = {0, 1}
  MaxKeys = 1
  RequireAuth = TRUE
  MaxRequests = 3
  MaxChanges = 2
INVARIANTS UsageCounted UnbilledOnlyIfWithdrawn BoundToOne
PROPERTIES QuotaKept EveryRequestEnds
CHECK_DEADLOCK FALSE
