SPECIFICATION Spec
CONSTANTS
  NumChannels = 1
  Drainers = {d1, d2}
  NoClaim = NoClaim
  Tolerance = 1
  SurgeLimit = 0
  SurgePause = 5
  ReminderInterval = 0
  ClaimSeconds = 1
  InitialRetry = 1
  MaxRetry = 2
  MaxTime = 2
  DrainSeconds = 1
  AdminKinds = {"retry"}
  MaxObservations = 2
  MaxAdmin = 1
  MaxFaults = 0
SYMMETRY DrainSymmetry
INVARIANTS
  TypeOK
  DeliveriesTakeTurns
PROPERTIES
  ClaimsFence
\* The bounds on time and on observations end every behaviour.
CHECK_DEADLOCK FALSE
