---------------------------- MODULE LegacyHistory ----------------------------
(***************************************************************************)
(* The portion of a cron run that looks after status_logs (cron.ts): the   *)
(* catch-up that moves the rows of the version 1.6 Worker, which have no   *)
(* source, into the daily rollups, and the hourly retention delete.        *)
(*                                                                         *)
(* Runs are not serialised (a run that lost its lease goes on), each       *)
(* statement or batch is one atomic step, and a run may be cut short       *)
(* between any two.  The legacy Worker is external: while isolates of it   *)
(* live it inserts rows, in any order.  A rollup is the number of times    *)
(* each row was added to it, so one monitor and one day are enough.        *)
(***************************************************************************)
EXTENDS Integers, FiniteSets

CONSTANTS
  Sweepers,          \* cron invocations, each used again and again
  NumLogs,           \* legacy rows, numbered in order of (checked_at, id)
  BatchSize,         \* LEGACY_CATCHUP_BATCH_SIZE
  CatchUpInterval,   \* LEGACY_CATCHUP_INTERVAL_SECONDS
  DeleteLimit,       \* RETENTION_DELETE_LIMIT
  RetentionInterval, \* RETENTION_INTERVAL_SECONDS
  Horizon,           \* bound on the clock, which starts after the last row
  MaxCuts            \* bound on runs cut short and on statistics resets

ASSUME LegacyAssumption ==
  /\ NumLogs \in Nat \ {0} /\ BatchSize \in Nat \ {0} /\ DeleteLimit \in Nat \ {0}
  /\ CatchUpInterval \in Nat \ {0} /\ RetentionInterval \in Nat \ {0}
  /\ Horizon \in Nat /\ Horizon >= NumLogs /\ MaxCuts \in Nat

Logs  == 1..NumLogs
Clock == NumLogs..Horizon

VARIABLES
  clock,      \* wall clock; row l was checked at time l
  oldWorker,  \* "live" while an isolate of version 1.6 may still write
  log,        \* each row of status_logs
  counted,    \* how often each row has been added to the rollups
  settings,   \* the markers: done, cursor (0 for none), nextAt, retainAt
  sweep,      \* the local state of each run
  cuts,       \* runs cut short and resets so far
  tardy       \* history: rows inserted after the catch-up was declared done

legacyVars == <<clock, oldWorker, log, counted, settings, sweep, cuts, tardy>>

\* "raw" has source NULL, "legacy" has been moved, "expired" was deleted by
\* retention, and "reset" went with the statistics of its monitor.
LogStates == {"absent", "raw", "legacy", "expired", "reset"}

Settings == [done: {0, 1}, cursor: 0..NumLogs, nextAt: 0..Horizon,
             retainAt: 0..(Horizon + RetentionInterval)]

Sweep == [pc: {"idle", "reading", "selecting", "rescanning", "marking",
               "applying", "retaining"},
          at: 0..Horizon, cursor: 0..NumLogs, rows: SUBSET Logs]

LegacyTypeOK ==
  /\ clock \in Clock
  /\ oldWorker \in {"live", "gone"}
  /\ log \in [Logs -> LogStates]
  /\ counted \in [Logs -> Nat]
  /\ settings \in Settings
  /\ sweep \in [Sweepers -> Sweep]
  /\ cuts \in 0..MaxCuts
  /\ tardy \subseteq Logs

\* A run goes on, keeping its clock value and what else it still needs.
Local(place, at, cursor, rows) ==
  [pc |-> place, at |-> at, cursor |-> cursor, rows |-> rows]

Raw == {l \in Logs : log[l] = "raw"}

LegacyInit ==
  /\ clock = NumLogs
  /\ oldWorker = "live"
  /\ log \in [Logs -> {"absent", "raw"}]
  /\ counted = [l \in Logs |-> 0]
  /\ settings = [done |-> 0, cursor |-> 0, nextAt |-> 0, retainAt |-> 0]
  /\ sweep = [r \in Sweepers |-> Local("idle", 0, 0, {})]
  /\ cuts = 0
  /\ tardy = {}

\* The k rows of S that come first, S itself when it has no more.
First(k, S) == {l \in S : Cardinality({x \in S : x < l}) < k}

Goto(r, place) ==
  sweep' = [sweep EXCEPT ![r] =
    Local(place, IF place = "idle" THEN 0 ELSE sweep[r].at, 0, {})]

-----------------------------------------------------------------------------
(* catchUpLegacyStatusLogs, then cleanupRetention.                         *)

SweepBegin(r) ==
  /\ sweep[r].pc = "idle"
  /\ sweep' = [sweep EXCEPT ![r] = Local("reading", clock, 0, {})]
  /\ UNCHANGED <<clock, oldWorker, log, counted, settings, cuts, tardy>>

ReadMarkers(r) ==
  /\ sweep[r].pc = "reading"
  /\ IF settings.done = 1 \/ settings.nextAt > sweep[r].at
       THEN Goto(r, "retaining")
       ELSE sweep' = [sweep EXCEPT ![r] =
              Local("selecting", sweep[r].at, settings.cursor, {})]
  /\ UNCHANGED <<clock, oldWorker, log, counted, settings, cuts, tardy>>

\* Mutant: an empty batch behind the cursor is taken for the end.
WithoutRescan(r) == "marking"

\* Where a query that found no row leads.
AfterEmptyBatch(r) == IF sweep[r].cursor > 0 THEN "rescanning" ELSE "marking"

SelectBatch(r) ==
  /\ sweep[r].pc = "selecting"
  /\ LET found == First(BatchSize, {l \in Raw : l > sweep[r].cursor})
     IN  IF found = {}
           THEN Goto(r, AfterEmptyBatch(r))
           ELSE sweep' = [sweep EXCEPT ![r] =
                  Local("applying", sweep[r].at, 0, found)]
  /\ UNCHANGED <<clock, oldWorker, log, counted, settings, cuts, tardy>>

\* A late write may have landed behind the cursor: look at all that is left.
Rescan(r) ==
  /\ sweep[r].pc = "rescanning"
  /\ LET found == First(BatchSize, Raw)
     IN  IF found = {}
           THEN Goto(r, "marking")
           ELSE sweep' = [sweep EXCEPT ![r] =
                  Local("applying", sweep[r].at, 0, found)]
  /\ UNCHANGED <<clock, oldWorker, log, counted, settings, cuts, tardy>>

\* Mutant: the marker is written on what the run saw earlier.
MayMarkAnyway == TRUE

\* INSERT ... SELECT ... WHERE NOT EXISTS.
MayMark == Raw = {}

MarkDone(r) ==
  /\ sweep[r].pc = "marking"
  /\ settings' = IF MayMark THEN [settings EXCEPT !.done = 1] ELSE settings
  /\ Goto(r, "retaining")
  /\ UNCHANGED <<clock, oldWorker, log, counted, cuts, tardy>>

\* Mutant: the batch counts the rows it selected, moved meanwhile or not.
AllSelected(r) == sweep[r].rows

\* Every statement of the batch asks again for source IS NULL.
StillRaw(r) == sweep[r].rows \intersect Raw

LastOf(S) == CHOOSE l \in S : \A x \in S : x <= l

\* One batch: rollups, cursor and pacing, source.
ApplyBatch(r) ==
  /\ sweep[r].pc = "applying"
  /\ counted' = [l \in Logs |-> IF l \in StillRaw(r) THEN counted[l] + 1 ELSE counted[l]]
  /\ log' = [l \in Logs |-> IF l \in StillRaw(r) THEN "legacy" ELSE log[l]]
  /\ settings' = [settings EXCEPT
       !.cursor = LastOf(sweep[r].rows),
       !.nextAt = IF sweep[r].at + CatchUpInterval <= Horizon
                    THEN sweep[r].at + CatchUpInterval ELSE Horizon]
  /\ Goto(r, "retaining")
  /\ UNCHANGED <<clock, oldWorker, cuts, tardy>>

\* Rows older than the retention period, whose sum is already in a rollup.
Expired(t) == {l \in Logs : log[l] = "legacy" /\ l < t}

\* One batch: the delete acts only when the upsert before it claimed the hour.
Retain(r) ==
  /\ sweep[r].pc = "retaining"
  /\ IF settings.retainAt <= sweep[r].at
       THEN /\ settings' = [settings EXCEPT
                              !.retainAt = sweep[r].at + RetentionInterval]
            /\ log' = [l \in Logs |->
                 IF l \in First(DeleteLimit, Expired(sweep[r].at))
                   THEN "expired" ELSE log[l]]
       ELSE UNCHANGED <<settings, log>>
  /\ Goto(r, "idle")
  /\ UNCHANGED <<clock, oldWorker, counted, cuts, tardy>>

\* The invocation dies, or one of its statements throws.
CutShort(r) ==
  /\ sweep[r].pc # "idle"
  /\ cuts < MaxCuts
  /\ cuts' = cuts + 1
  /\ Goto(r, "idle")
  /\ UNCHANGED <<clock, oldWorker, log, counted, settings, tardy>>

\* POST /:id/reset-stats deletes logs and rollups in one batch.
DropHistory ==
  /\ cuts < MaxCuts
  /\ cuts' = cuts + 1
  /\ log' = [l \in Logs |-> IF log[l] = "absent" THEN "absent" ELSE "reset"]
  /\ counted' = [l \in Logs |-> 0]
  /\ UNCHANGED <<clock, oldWorker, settings, sweep, tardy>>

-----------------------------------------------------------------------------
(* The world around the runs.                                              *)

LegacyWrite(l) ==
  /\ oldWorker = "live"
  /\ log[l] = "absent"
  /\ log' = [log EXCEPT ![l] = "raw"]
  /\ tardy' = IF settings.done = 1 THEN tardy \union {l} ELSE tardy
  /\ UNCHANGED <<clock, oldWorker, counted, settings, sweep, cuts>>

OldWorkerEnds ==
  /\ oldWorker = "live"
  /\ oldWorker' = "gone"
  /\ UNCHANGED <<clock, log, counted, settings, sweep, cuts, tardy>>

ClockTick ==
  /\ clock < Horizon
  /\ clock' = clock + 1
  /\ UNCHANGED <<oldWorker, log, counted, settings, sweep, cuts, tardy>>

SweepStep(r) ==
  \/ SweepBegin(r) \/ ReadMarkers(r) \/ SelectBatch(r) \/ Rescan(r)
  \/ MarkDone(r) \/ ApplyBatch(r) \/ Retain(r)

LegacyNext ==
  \/ \E r \in Sweepers : SweepStep(r) \/ CutShort(r)
  \/ DropHistory
  \/ \E l \in Logs : LegacyWrite(l)
  \/ OldWorkerEnds
  \/ ClockTick

LegacySpec == LegacyInit /\ [][LegacyNext]_legacyVars

\* The trigger fires every minute and an invocation that is not cut short runs
\* to its end; the clock goes on.
LegacyFairness ==
  /\ \A r \in Sweepers : WF_legacyVars(SweepStep(r))
  /\ WF_legacyVars(ClockTick)

-----------------------------------------------------------------------------
(* Properties.                                                             *)

\* A row of the old Worker is in the rollups exactly when it is not waiting
\* any more, and exactly once: overlapping runs, runs cut short and repeated,
\* late writes, retention and resets neither count a row twice nor let one go
\* uncounted, however old it is (cron.ts 268-334 and 129-157).
CountedOnce ==
  \A l \in Logs :
    /\ counted[l] <= 1
    /\ log[l] \in {"absent", "raw", "reset"} => counted[l] = 0
    /\ log[l] \in {"legacy", "expired"} => counted[l] = 1

\* Once the catch-up is declared done no run looks for raw rows again, so the
\* declaration must be true: what is raw then came later (cron.ts 238-264).
DoneMeansDone == settings.done = 1 => Raw \subseteq tardy

\* Once the old Worker is gone the catch-up comes to its end: the cursor hides
\* no row for ever, and pacing, overlap and a bounded number of failures only
\* delay it (cron.ts 194-264).
CatchUpCompletes == oldWorker = "gone" ~> settings.done = 1

=============================================================================
