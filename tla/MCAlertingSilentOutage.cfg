SPECIFICATION Spec
CONSTANTS
  NumChannels = 1
  Drainers = {d1}
  NoClaim = NoClaim
  Tolerance = 1
  SurgeLimit = 0
  SurgePause = 5
  ReminderInterval = 0
  ClaimSeconds = 2
  InitialRetry = 1
  MaxRetry = 2
  MaxTime = 1
  DrainSeconds = 1
  AdminKinds = {}
  MaxObservations = 6
  MaxAdmin = 0
  MaxFaults = 0
INVARIANT OutageIsAnnounced
\* The bounds on time and on observations end every behaviour.
CHECK_DEADLOCK FALSE
