SPECIFICATION Spec
CONSTANTS
  CronRuns = {c1, c2}
  Pushes = {p1}
  Kind = "heartbeat"
  Interval = 1
  Window = 1
  RetrySeconds = 2
  DayLength = 2
  MaxTime = 3
  MaxAdmin = 1
SYMMETRY RequestSymmetry
INVARIANTS
  PushSurvivesOneCron
PROPERTIES
  NoFalseMiss
  ImplementsLedger
  OnlyChecksPostpone
\* Every request ends and the clock stops at MaxTime.
CHECK_DEADLOCK FALSE
