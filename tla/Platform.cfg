SPECIFICATION PlatformSpec
CONSTANTS
  Threads = {t1, t2}
  Principals = {p1, p2, p3}
  Nobody = nobody
  Policies <- MCPolicies
  RatePolicies <- MCRatePolicies
  MostRequests = 2
  ShortestWindow = 2
  Askers = {p1}
  MaxPrincipals = 2
  IdleSeconds = 2
  SweepSeconds = 1
  MaxClock = 5
  MaxDelay = 1
  Users = {a1, a2}
  CustomRoles = {"tutor"}
  AdminRequests = {b1, b2}
  Payloads = {{"roles:write"}, {"llm:write"}}
  Tokens = {a1, a2}
  DefaultTTL = 2
  RememberTTL = 3
  ResetTTL = 1
  MaxFailures = 3
  ThrottleWindow = 1
  ThrottleLock = 2
  MaxTime = 3
  MaxEpoch = 2
  Handlers = {a1, a2}
  Emails = {e1}
  Names = {b1, b2}
  Cooldown = 1
  CodeTTL = 1
  Day = 1
  Hour = 1
  DailyLimit = 1
  HourlyLimit = 1
  MaxAttempts = 2
  MaxNow = 2
  MaxCodes = 3
  Readers = {a1, a2}
  Audiences = {"admin", "user"}
  Posts = {n1}
  Notes = {b1}
  MaxEdits = 2
  MaxFeedbacks = 1
  Editors = {a1, a2}
  Models = {m1}
  Outcomes = {o1}
  MaxChanges = 2
  MaxFailedReads = 1
INVARIANTS CountsExact RateKept OwnerRetained PermissionsTraceToOwner RecentSessionsRevoked AttemptsBounded OneAccountPerCode MailsBounded ReadByHimself AloneEditsTakeEffect
PROPERTIES KeepsContract
SYMMETRY PlatformSymmetry
CHECK_DEADLOCK FALSE
