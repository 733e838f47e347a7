SPECIFICATION KnowledgeSpec
CONSTANTS
  Members = 2
  Engines = 2
  RetryTimes = 1
  Repeats = 2
  Cooldown = 1
  MaxQueries = 2
  MaxTicks = 1
  Answers = {a1, a2}
  Keys = {k1, k2}
  Objects = {o1, o2}
  CompactMin = 2
  CompactLength = 3
  MinConfirmations = 2
  MaxRecordings = 3
  Requests = {k1, k2}
  MaxRequests = 4
  Ids = {i1, i2}
  g1 = g1
  g2 = g2
  Grams = {g1, g2}
  Signatures = {ab, none}
  NoOptions = none
  Contents <- MCContents
  Similarity <- MCSimilarity
  CandidateLimit = 1
  CompactSlots = 2
  MaxSlots = 4
  s1 = s1
  s2 = s2
  ImageModelIds = {k1, k2}
  Addresses = {x1}
  Sizes = {s1, s2}
  DefaultSizes = {s1}
  Feasible = {s2}
  Proposals <- MCProposals
  Tests = {x1}
  Kinds = {"text", "whole"}
  ImageJobIds = {x1}
  MaxSaves = 2
  Readers = {k1, k2}
  Everyone = everyone
  Subjects = {x1}
  Unlinked = none
  Windows = {0, 1}
  Outcomes <- MCOutcomes
  PageSize = 1
  FeedbackCap = 2
  DayLength = 3
  ReportDays = {2}
  MaxDays = 1
  MaxRows = 3
  Administrators = {k1, k2}
  Builds = {1, 2, 3}
  Own = 2
  Nobody = none
  MaxChecks = 3
  MaxReleases = 2
  Instances = {k1, k2}
  Obsolete <- MCObsolete
  Tables = {"integrations"}
  Added <- MCAdded
  Copied = "quota_used"
  MaxStarts = 2
  Current = "current"
  OldFiles <- MCOldFiles
  Retention = 3
  MaxSize = 2
  Interval = 2
  LogThreads = {k1, k2}
  MaxAges = {1, 2}
  FilesKept = {1, 2}
  MaxTime = 3
  MaxPasses = 1
INVARIANTS FailsWhenExhausted RestartReproduces TrustedUnanimous ServedIsVouched IndexAgreesAlone LooksUpLikeScan EditsVerified AcceptedRuns RowsListed ReportAddsUp ShowsLastVerified UpgradesAreSafe OnlyWhatMayGo
SYMMETRY KnowledgeSymmetry
CHECK_DEADLOCK FALSE
