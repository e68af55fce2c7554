--------------------------- MODULE CheckAdmission ---------------------------
(***************************************************************************)
(* Which due monitors an invocation of runCron checks (cron.ts 22-37,      *)
(* 364-392, 447-497, 594-643): the earliest due first, a bounded number,   *)
(* in batches that are begun only when the worst case of every check in    *)
(* them fits into what is left of the fifty D1 queries of an invocation.   *)
(*                                                                         *)
(* "used" is what the code charges, by its estimate of each observation;   *)
(* "sent" counts the statements themselves, along the longest path through *)
(* alert-manager.ts.  A monitor's due time is kept relative to the present *)
(* minute.  One invocation at a time (SchedulerLease), one scheduled every *)
(* minute, which a live lease may turn away.  Between its selection and    *)
(* its alert nobody else handles a monitor's alerts.                       *)
(***************************************************************************)
EXTENDS Integers, FiniteSets, FiniteSetsExt

CONSTANTS
  NumMonitors,     \* monitors, numbered in the order they were created
  Intervals,       \* monitors.interval, in minutes
  MaxChecksPerRun, \* MAX_CHECKS_PER_RUN
  Concurrency,     \* CHECK_CONCURRENCY
  QueryBudget,     \* WORKER_D1_QUERY_BUDGET
  MinDrain,        \* MIN_NOTIFICATION_DRAIN_D1_QUERIES
  MaxDrain,        \* MAX_NOTIFICATION_DRAIN_D1_QUERIES
  MaxEstimate,     \* MAX_ESTIMATED_OBSERVATION_QUERIES
  MaxSetbacks      \* bound on lost invocations and on edits during one

FixedQueries == 11  \* MAX_FIXED_CRON_D1_QUERIES

\* What catchUpLegacyStatusLogs reports: done or waiting; two or three
\* selections, then the marker or a batch of four statements.
CatchupQueries == {1, 2 + 1, 3 + 1, 2 + 4, 3 + 4}
ObservationBudget == QueryBudget - MinDrain - FixedQueries

\* The worst row of a drain: claim, subject, channels, progress, state, delete.
RowQueries == 6

ASSUME AdmissionAssumption ==
  /\ NumMonitors \in Nat /\ Intervals \subseteq Nat \ {0}
  /\ MaxChecksPerRun \in Nat \ {0} /\ Concurrency \in Nat \ {0}
  /\ MinDrain \in Nat /\ MaxDrain \in Nat /\ QueryBudget \in Nat
  /\ MaxEstimate \in Nat \ {0} /\ MaxSetbacks \in Nat
  /\ 2 + 7 + MaxEstimate <= ObservationBudget

ASSUME DrainAssumption == MinDrain >= 1 + RowQueries /\ MaxDrain >= 1 + 2 * RowQueries

VARIABLES
  dueIn,      \* minutes until each monitor's next_check_at
  interval,  \* each monitor's interval
  trigger,   \* 1 while this minute's scheduled event has not run
  cron,      \* the invocation
  setbacks   \* invocations that failed or were turned away, and edits, so far

admissionVars == <<dueIn, interval, trigger, cron, setbacks>>

MonitorNos == 1..NumMonitors
NoCron == [pc |-> "idle", reserved |-> 0, due |-> {}, checked |-> {},
           used |-> 0, sent |-> 0]

AdmissionTypeOK ==
  /\ interval \in [MonitorNos -> Intervals]
  /\ dueIn \in [MonitorNos -> Int]
  /\ trigger \in {0, 1} /\ setbacks \in 0..MaxSetbacks
  /\ cron.pc \in {"idle", "admitting", "alerting"}
  /\ cron.due \subseteq MonitorNos /\ cron.checked \subseteq MonitorNos

AdmissionInit ==
  /\ interval \in [MonitorNos -> Intervals]
  /\ dueIn = [m \in MonitorNos |-> 0]
  /\ trigger = 1
  /\ cron = NoCron
  /\ setbacks = 0

\* Mutant: the earliest created first.
CreatedBefore(m, n) == m < n

\* ORDER BY next_check_at, created_at.
DueBefore(m, n) == dueIn[m] < dueIn[n] \/ (dueIn[m] = dueIn[n] /\ m < n)

\* The first k of a set of monitors in that order.
FirstOf(k, S) == {m \in S : Cardinality({n \in S : DueBefore(n, m)}) < k}

\* A minute passes, and the scheduler triggers the next invocation.
Minute ==
  /\ cron.pc = "idle" /\ trigger = 0
  /\ trigger' = 1
  /\ dueIn' = [m \in MonitorNos |-> dueIn[m] - 1]
  /\ UNCHANGED <<interval, cron, setbacks>>

\* The scheduled event, or POST /api/cron/run, which reserves one query:
\* acquire, catch-up, selection, retention, then the prefetches and the locale.
BeginCron(reserved, catchup) ==
  /\ cron.pc = "idle"
  /\ reserved = 0 => trigger = 1
  /\ trigger' = IF reserved = 0 THEN 0 ELSE trigger
  /\ LET due == FirstOf(MaxChecksPerRun, {m \in MonitorNos : dueIn[m] <= 0})
     IN  cron' = IF due = {} THEN NoCron
                 ELSE [pc |-> "admitting", reserved |-> reserved, due |-> due,
                       checked |-> {}, used |-> catchup,
                       sent |-> reserved + catchup + 7]
  /\ UNCHANGED <<dueIn, interval, setbacks>>

Remaining == ObservationBudget - cron.reserved - cron.used - 1

\* How many worst cases fit into the remaining budget.
Fits == Remaining \div MaxEstimate

NextBatch ==
  IF Fits < 0 THEN 0 ELSE Min({Concurrency, Cardinality(cron.due \ cron.checked), Fits})

\* What the prefetched rows and the check say of an observation; a status that
\* changed is a diagnostic.
Observations ==
  {o \in [previous: {"pending", "up", "down"}, status: {"up", "down"},
          alerted: BOOLEAN, diagnostic: BOOLEAN] :
     o.previous # o.status => o.diagnostic}

\* Mutant: only a recovery is charged in full.
EstimatedIfSteady(o) ==
  2 + (IF o.diagnostic THEN 1 ELSE 0)
    + (IF o.status = "up" /\ o.previous # "down" /\ ~o.alerted THEN 4 ELSE 12)

\* estimatedObservationQueries.
EstimatedQueries(o) ==
  2 + (IF o.diagnostic THEN 1 ELSE 0)
    + (IF o.status = "up" /\ o.previous = "pending" /\ ~o.alerted THEN 4 ELSE 12)

ASSUME EstimateAssumption == \A o \in Observations : EstimatedQueries(o) <= MaxEstimate

\* enqueueNotification: channels, perhaps the locale, the row or the state.
Enqueued == {2, 3}

\* processHealthyObservation in full: monitor, state, DOWN delivery, status,
\* incidents; evidence and state read again; cancel, window; then the cancel
\* and reset of a window, the settling, or a recovery.
HealthyQueries == {5 + late + 2 + tail : late \in 0..2, tail \in {1, 2} \cup Enqueued}

\* processFailedObservation: monitor, window, state, incident, status; one
\* more status, or reset and cancel; the incident; then nothing or a row.
FailedQueries ==
  {2, 3} \cup {5 + opened + 2 + tail : opened \in {1, 2}, tail \in {0} \cup Enqueued}

\* processAlert; an observation that was refused or overtaken ends early.
AlertQueries(o) ==
  0..2 \cup (IF o.status = "down" THEN FailedQueries
             ELSE IF o.alerted \/ o.previous = "down" THEN HealthyQueries
             ELSE IF o.previous = "up" THEN {4} \cup HealthyQueries
             ELSE {4})

LongestWay(o) == {n \in AlertQueries(o) : \A k \in AlertQueries(o) : k <= n}

\* What an observation is charged, and the most it sends: archive, update and
\* diagnostic, then its alert.
Charges ==
  UNION {{[charged |-> EstimatedQueries(o), sent |-> 2 + (IF o.diagnostic THEN 1 ELSE 0) + n] :
            n \in LongestWay(o)} : o \in Observations}

\* The loop: renew the lease, check a batch, charge its observations.  What
\* they send once the loop has ended is counted here.
AdmitBatch ==
  /\ cron.pc = "admitting"
  /\ NextBatch > 0
  /\ LET batch == FirstOf(NextBatch, cron.due \ cron.checked)
     IN  \E cost \in [batch -> Charges] :
           LET charged == [m \in batch |-> cost[m].charged]
               sent == [m \in batch |-> cost[m].sent]
           IN  cron' = [cron EXCEPT
                 !.checked = @ \cup batch,
                 !.used = @ + 1 + MapThenSumSet(LAMBDA m : charged[m], batch),
                 !.sent = @ + 1 + MapThenSumSet(LAMBDA m : sent[m], batch)]
  /\ UNCHANGED <<dueIn, interval, trigger, setbacks>>

\* remainingForDrain.
DrainAttempts ==
  IF QueryBudget - cron.reserved - FixedQueries - cron.used >= MaxDrain THEN 2 ELSE 1

\* Renew, persist, alert, mark the failed ones for retry, drain, release.  An
\* observation is refused where the row has changed: a push has stored its own
\* in its place, or an edit has made the monitor due at once.
FinishCron ==
  /\ cron.pc = "admitting"
  /\ NextBatch = 0
  /\ \E edited \in SUBSET cron.checked : \E retry \in SUBSET (cron.checked \ edited) :
       /\ setbacks' = setbacks + Cardinality(edited) /\ setbacks' <= MaxSetbacks
       /\ dueIn' = [m \in MonitorNos |->
            IF m \in edited THEN 0 ELSE IF m \in retry THEN 1
            ELSE IF m \in cron.checked THEN interval[m] ELSE dueIn[m]]
       /\ cron' = [cron EXCEPT !.pc = "alerting",
            !.sent = @ + 1 + (IF retry = {} THEN 0 ELSE 2) + 1 + RowQueries * DrainAttempts + 1]
  /\ UNCHANGED <<interval, trigger>>

EndCron ==
  /\ cron.pc = "alerting"
  /\ cron' = NoCron
  /\ UNCHANGED <<dueIn, interval, trigger, setbacks>>

\* A statement throws, or the lease was lost: nothing is persisted.
FailCron ==
  /\ cron.pc = "admitting"
  /\ setbacks < MaxSetbacks
  /\ setbacks' = setbacks + 1
  /\ cron' = NoCron
  /\ UNCHANGED <<dueIn, interval, trigger>>

\* skippedBecauseLeased: a run that died, or a manual one, holds the lease.
TurnAway ==
  /\ trigger = 1 /\ setbacks < MaxSetbacks
  /\ trigger' = 0
  /\ setbacks' = setbacks + 1
  /\ UNCHANGED <<dueIn, interval, cron>>

AdmissionNext ==
  \/ Minute \/ AdmitBatch \/ FinishCron \/ EndCron \/ FailCron \/ TurnAway
  \/ \E reserved \in {0, 1}, catchup \in CatchupQueries : BeginCron(reserved, catchup)

AdmissionSpec == AdmissionInit /\ [][AdmissionNext]_admissionVars

-----------------------------------------------------------------------------
(* Properties.                                                             *)

\* The D1 queries an invocation really sends, along whatever path its checks,
\* their alerts, the retry marker and the drain take, are no more than the
\* platform allows: what estimatedObservationQueries charges is enough
\* (cron.ts 25-42, 363-392, 486-495, 638-643).
WithinQueryBudget == cron.sent <= QueryBudget

\* A due monitor is overtaken by every other monitor at most once: it waits no
\* more minutes than there are other monitors, invocations that failed or were
\* turned away, and edits of monitors under check, however few checks an
\* invocation can afford (cron.ts 432-454, 485-604).
NoMonitorStarves ==
  \A m \in MonitorNos : dueIn[m] >= -(NumMonitors - 1 + setbacks) - trigger

=============================================================================
