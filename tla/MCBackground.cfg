SPECIFICATION BackgroundSpec
CONSTANTS
  Runs = {r1, r2}
  NoRun = NoRun
  LeaseSeconds = 2
  MaxTime = 5
  NumMonitors = 3
  Intervals = {2}
  MaxChecksPerRun = 2
  Concurrency = 2
  QueryBudget = 50
  MinDrain = 7
  MaxDrain = 13
  MaxEstimate = 15
  MaxSetbacks = 1
  Checks = {k1}
  Timeouts = {0, 9}
  MaxDeadline = 2
  BodyLimit = 1
  LeaseLeft = 3
  Sweepers = {s1, s2}
  NumLogs = 2
  BatchSize = 1
  CatchUpInterval = 1
  DeleteLimit = 1
  RetentionInterval = 1
  Horizon = 3
  MaxCuts = 1
  Deployers = {d1, d2}
  LegacyLast = 1
  Last = 4
  Indexes = 2
  Outbox = 3
  Feed = 4
  MaxRows = 1
  SafeWrites = 3
  NumColumns = 3
  Tables = {{1}, {2, 3}}
  Declared = {2, 3}
  CursorColumn = 2
  MaxCrashes = 2
  Pollers = {cur, ana}
  Current = cur
  MaxVisits = 2
  MaxLate = 1
  MaxSnapshots = 2
  MaxMishaps = 1
INVARIANTS
  BackgroundTypeOK
  TermsExclusive
  WithinQueryBudget
  NoMonitorStarves
  EndsByDeadline
  CountedOnce
  DoneMeansDone
  RecordedIsPresent
  UndisturbedDeploySucceeds
  ServesCompleteSchema
  NoTimerAfterLeaving
PROPERTIES
  DisplacedRunIsFenced
  GoesBackOnlyInRaces
  CatchUpCompletes
  NodeStarts
  ChangesAreShown
\* Runs end, requests are answered and the clocks stop at their bounds.
CHECK_DEADLOCK FALSE
