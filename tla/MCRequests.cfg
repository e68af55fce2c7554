SPECIFICATION RequestSpec
CONSTANTS
  CronRuns = {cron1, cron2}
  Pushes = {}
  Kind = "check"
  Interval = 1
  Window = 1
  RetrySeconds = 2
  DayLength = 1
  MaxTime = 3
  MaxAdmin = 1
  Readers = {reader1}
  WindowDays = 3
  ReadsFrom = 3
  Visitors = {v1, v2}
  ReadBudget = 10
  BaseCost = 2
  LinkLimit = 1
  AccessTtl = 1
  RateLimit = 1
  RateWindow = 1
  MaxKeys = 1
  PublicDay = 2
  PublicHorizon = 2
  MaxVersions = 2
  MaxLinks = 2
  MaxVisits = 2
  Callers = {call1, call2}
  Jtis = {j1, j2}
  SessionSeconds = 2
  PurgeLimit = 1
  SessionHorizon = 4
  MaxCredentials = 2
  Admins = {q1, q2}
  MonitorIds = {m1}
  ChannelIds = {c1}
  PageIds = {p1}
  NoRow = NoRow
  WriteLimit = 45
  WindowLimit = 1
  Uploads <- ForeignFiles
  Filled = {"status_logs", "notification_deliveries", "agent_metric_samples"}
  Batches = {8}
  MaxHistory = 8
  MaxOrders = 2
  Writers = {w1, w2}
  Reports = {r1, r2}
  Services = {s1}
  NoReport = NoReport
  Erased = Erased
  MaxRequests = 3
SYMMETRY RequestSymmetry
INVARIANTS
  RequestTypeOK
  CacheNeverStale
  BudgetKept
  PushTokenPresent
  FeedCountsExact
  ReportConsistent
PROPERTIES
  ReadsExactLedger
  AccessNeedsPassword
  LoggedOutStaysOut
  ProtectionKept
  DestructionWithinLimit
\* Requests are answered and the clocks stop at their bounds.
CHECK_DEADLOCK FALSE
