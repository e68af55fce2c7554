SPECIFICATION Spec
CONSTANTS
  CronRuns = {c1}
  Pushes = {p1, p2}
  Kind = "agent"
  Interval = 1
  Window = 1
  RetrySeconds = 2
  DayLength = 2
  MaxTime = 3
  MaxAdmin = 0
SYMMETRY RequestSymmetry
PROPERTIES
  NewerPayloadKept
\* Every request ends and the clock stops at MaxTime.
CHECK_DEADLOCK FALSE
