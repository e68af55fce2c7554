SPECIFICATION Spec
CONSTANTS
  NumChannels = 2
  Drainers = {d1}
  NoClaim = NoClaim
  Tolerance = 1
  SurgeLimit = 1
  SurgePause = 1
  ReminderInterval = 1
  ClaimSeconds = 2
  InitialRetry = 1
  MaxRetry = 2
  MaxTime = 3
  DrainSeconds = 1
  AdminKinds = {"window", "channel", "reset", "retry"}
  MaxObservations = 2
  MaxAdmin = 1
  MaxFaults = 0
INVARIANTS
  SettledAgreement
\* The bounds on time and on observations end every behaviour.
CHECK_DEADLOCK FALSE
