--------------------------- MODULE SchedulerLease ---------------------------
(***************************************************************************)
(* The scheduler lease of src/src/cron.ts: one row of scheduler_leases,    *)
(* contended for by every invocation of runCron (the one-minute trigger,   *)
(* the manual run of POST /api/cron/run, and any of them that stalled).    *)
(*                                                                         *)
(* Each invocation has a holder of its own (crypto.randomUUID()), so an    *)
(* element of Runs is used once.  Every SQL statement is one atomic step;  *)
(* the clock value a statement binds is read in an earlier step, so time   *)
(* may pass and other runs may act in between.  An invocation may stop for *)
(* ever at any point (a crash): nothing forces its next step.              *)
(***************************************************************************)
EXTENDS Integers

CONSTANTS
  Runs,          \* invocations of runCron
  NoRun,         \* the holder of a row nobody has written yet
  LeaseSeconds,  \* SCHEDULER_LEASE_SECONDS
  MaxTime        \* bound on the clock

ASSUME LeaseAssumption ==
  /\ NoRun \notin Runs
  /\ LeaseSeconds \in Nat \ {0}
  /\ MaxTime \in Nat

VARIABLES
  now,              \* wall clock, in seconds
  holder,           \* scheduler_leases.holder
  leaseUntil,       \* scheduler_leases.lease_until
  lastCompletedAt,  \* scheduler_leases.last_completed_at, 0 for NULL
  lastRunFailed,    \* scheduler_leases.last_run_failed
  pc,               \* where each invocation stands in runCron
  stamp,            \* the clock value each invocation read last
  completed,        \* the invocations whose local flag `completed` is set
  term              \* history: the lease_until each invocation last wrote

row  == <<holder, leaseUntil, lastCompletedAt, lastRunFailed>>
run  == <<pc, stamp, completed, term>>
vars == <<now, row, run>>

Phases == {"idle", "acquiring", "selecting", "renewing", "checking",
           "persisting", "alerting", "releasing", "skipped", "done"}

\* Between a successful acquisition and the release in the finally block.
WorkingPhases == {"selecting", "renewing", "checking", "persisting",
                  "alerting", "releasing"}
Working(r) == pc[r] \in WorkingPhases

TypeOK ==
  /\ now \in 0..MaxTime
  /\ holder \in Runs \union {NoRun}
  /\ leaseUntil \in 0..(MaxTime + LeaseSeconds)
  /\ lastCompletedAt \in 0..MaxTime
  /\ lastRunFailed \in {0, 1}
  /\ pc \in [Runs -> Phases]
  /\ stamp \in [Runs -> 0..MaxTime]
  /\ completed \subseteq Runs
  /\ term \in [Runs -> 0..(MaxTime + LeaseSeconds)]

Init ==
  /\ now = 0
  /\ holder = NoRun /\ leaseUntil = 0
  /\ lastCompletedAt = 0 /\ lastRunFailed = 0
  /\ pc = [r \in Runs |-> "idle"]
  /\ stamp = [r \in Runs |-> 0]
  /\ completed = {}
  /\ term = [r \in Runs |-> 0]

Tick ==
  /\ now < MaxTime
  /\ now' = now + 1
  /\ UNCHANGED <<row, run>>

-----------------------------------------------------------------------------
(* One invocation of runCron.                                              *)

\* const now = Math.floor(Date.now() / 1000), before the acquiring upsert.
Start(r) ==
  /\ pc[r] = "idle"
  /\ pc' = [pc EXCEPT ![r] = "acquiring"]
  /\ stamp' = [stamp EXCEPT ![r] = now]
  /\ UNCHANGED <<now, row, completed, term>>

\* Mutant: a lease that ends this very second still counts as taken.
LeaseFreeStrictly(r) == leaseUntil < stamp[r]

\* The WHERE clause of the acquiring upsert.
LeaseFree(r) == leaseUntil <= stamp[r]

\* Mutant: a renewal extends the current term instead of restarting it.
ExtendLease(r) ==
  /\ holder' = r
  /\ leaseUntil' = leaseUntil + LeaseSeconds
  /\ term' = [term EXCEPT ![r] = leaseUntil + LeaseSeconds]
  /\ UNCHANGED <<lastCompletedAt, lastRunFailed>>

\* The write both the acquisition and a renewal perform.
WriteLease(r) ==
  /\ holder' = r
  /\ leaseUntil' = stamp[r] + LeaseSeconds
  /\ term' = [term EXCEPT ![r] = stamp[r] + LeaseSeconds]
  /\ UNCHANGED <<lastCompletedAt, lastRunFailed>>

Acquire(r) ==
  /\ pc[r] = "acquiring"
  /\ LeaseFree(r)
  /\ WriteLease(r)
  /\ pc' = [pc EXCEPT ![r] = "selecting"]
  /\ UNCHANGED <<now, stamp, completed>>

Skip(r) ==
  /\ pc[r] = "acquiring"
  /\ ~LeaseFree(r)
  /\ pc' = [pc EXCEPT ![r] = "skipped"]
  /\ UNCHANGED <<now, row, stamp, completed, term>>

\* No monitor is due: drain the outbox and return, completed.
NothingDue(r) ==
  /\ pc[r] = "selecting"
  /\ pc' = [pc EXCEPT ![r] = "releasing"]
  /\ completed' = completed \union {r}
  /\ UNCHANGED <<now, row, stamp, term>>

\* renewSchedulerLease reads the clock before its UPDATE.
BeginRenewal(r) ==
  /\ pc[r] \in {"selecting", "checking"}
  /\ pc' = [pc EXCEPT ![r] = "renewing"]
  /\ stamp' = [stamp EXCEPT ![r] = now]
  /\ UNCHANGED <<now, row, completed, term>>

\* Mutant: the WHERE clause names the row and forgets the holder.
HoldsAnyLease(r) == holder # NoRun

\* The WHERE clause of the renewing UPDATE: the holder, whatever the time.
HoldsLease(r) == holder = r

\* A renewal opens another check batch or, the last one, the persistence.
Renew(r) ==
  /\ pc[r] = "renewing"
  /\ HoldsLease(r)
  /\ WriteLease(r)
  /\ \E next \in {"checking", "persisting"} : pc' = [pc EXCEPT ![r] = next]
  /\ UNCHANGED <<now, stamp, completed>>

\* "Scheduler lease ownership was lost": throw into the finally block.
LoseLease(r) ==
  /\ pc[r] = "renewing"
  /\ ~HoldsLease(r)
  /\ pc' = [pc EXCEPT ![r] = "releasing"]
  /\ UNCHANGED <<now, row, stamp, completed, term>>

\* The observation batch commits; no clause of it mentions the lease.
Persist(r) ==
  /\ pc[r] = "persisting"
  /\ pc' = [pc EXCEPT ![r] = "alerting"]
  /\ UNCHANGED <<now, row, stamp, completed, term>>

\* completed = failedAlertObservations.length === 0, after the drain.
FinishAlerts(r) ==
  /\ pc[r] = "alerting"
  /\ pc' = [pc EXCEPT ![r] = "releasing"]
  /\ completed' \in {completed, completed \union {r}}
  /\ UNCHANGED <<now, row, stamp, term>>

\* Any other statement of the try block throws.
Throw(r) ==
  /\ pc[r] \in {"selecting", "renewing", "checking", "persisting", "alerting"}
  /\ pc' = [pc EXCEPT ![r] = "releasing"]
  /\ UNCHANGED <<now, row, stamp, completed, term>>

\* releaseSchedulerLease: an UPDATE that matches no row unless r is holder.
Release(r) ==
  /\ pc[r] = "releasing"
  /\ pc' = [pc EXCEPT ![r] = "done"]
  /\ IF HoldsLease(r)
       THEN /\ leaseUntil' = 0
            /\ lastCompletedAt' = IF r \in completed THEN now ELSE lastCompletedAt
            /\ lastRunFailed' = IF r \in completed THEN 0 ELSE 1
       ELSE UNCHANGED <<leaseUntil, lastCompletedAt, lastRunFailed>>
  /\ UNCHANGED <<now, holder, stamp, completed, term>>

\* The release itself fails: its error is logged, the row stays as it is.
ReleaseFails(r) ==
  /\ pc[r] = "releasing"
  /\ pc' = [pc EXCEPT ![r] = "done"]
  /\ UNCHANGED <<now, row, stamp, completed, term>>

Step(r) ==
  \/ Start(r) \/ Acquire(r) \/ Skip(r) \/ NothingDue(r)
  \/ BeginRenewal(r) \/ Renew(r) \/ LoseLease(r)
  \/ Persist(r) \/ FinishAlerts(r) \/ Throw(r)
  \/ Release(r) \/ ReleaseFails(r)

Next == Tick \/ \E r \in Runs : Step(r)

Spec == Init /\ [][Next]_vars

-----------------------------------------------------------------------------
(* Properties.                                                             *)

\* Two working runs are never both inside the term they were granted: an
\* overlap needs a run that stalled past its own lease (cron.ts 67-99).
TermsExclusive ==
  \A r, q \in Runs :
    r # q /\ Working(r) /\ Working(q) => now >= term[r] \/ now >= term[q]

\* A displaced run (one whose lease another run took over) can still commit
\* the batch it had renewed for, but begins no other batch and writes neither
\* the lease nor its outcome over its successor's (cron.ts 81-99).
Displaced(r) == Working(r) /\ holder # r
DisplacedRunIsFenced ==
  [][\A r \in Runs : Displaced(r) /\ pc'[r] # pc[r] =>
       /\ pc'[r] \in {"renewing", "alerting", "releasing", "done"}
       /\ UNCHANGED row]_vars

\* A run is turned away only while another run's unexpired term stands at the
\* time it read, so a run that dies holding the lease delays the schedule by
\* no more than one term after its last renewal (cron.ts 71-77).
BlockedByLiveTermOnly ==
  [][\A r \in Runs : pc[r] = "acquiring" /\ pc'[r] = "skipped" =>
       \E q \in Runs \ {r} : holder = q /\ stamp[r] < term[q]]_vars

=============================================================================
