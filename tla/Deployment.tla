------------------------------ MODULE Deployment ------------------------------
(***************************************************************************)
(* `npm run deploy` on a database the version 1.6 Worker may have built by *)
(* itself: scripts/reconcile-legacy-migration.mjs decides whether          *)
(* Wrangler's ledger d1_migrations may be written, then Wrangler applies   *)
(* the pending migrations.                                                 *)
(*                                                                         *)
(* The objects (tables, indexes, columns) a migration creates are one      *)
(* group, absent, partly there or complete.  Each `wrangler d1 execute` is *)
(* one atomic step.  External: Wrangler applies one migration file, with   *)
(* its ledger row, atomically, and fails when an object exists already;    *)
(* version 1.6 creates missing tables in one batch and then the columns.   *)
(***************************************************************************)
EXTENDS Integers, FiniteSets, FiniteSetsExt

CONSTANTS
  Deployers,   \* deployments, possibly at the same time
  LegacyLast,  \* the last version 1.6 migration, 0004; the first is 0
  Last,        \* the newest migration
  Indexes, Outbox, Feed,  \* the later ones that write rows: 0006, 0007, 0010
  MaxRows,     \* bound on the rows of the indexed tables
  SafeWrites   \* MAX_SAFE_MIGRATION_D1_WRITES

ASSUME DeploymentAssumption ==
  LegacyLast \in Nat /\ Last \in Nat /\ LegacyLast < Last
    /\ MaxRows \in Nat /\ SafeWrites \in Nat
    /\ Indexes \in Nat /\ Outbox \in Nat /\ Feed \in Nat
    /\ LegacyLast < Indexes /\ Indexes < Outbox /\ Outbox < Feed /\ Feed <= Last

Migrations == 0..Last
Legacy     == 0..LegacyLast  \* LEGACY_MIGRATIONS
Later      == Migrations \ Legacy

VARIABLES
  objects,    \* the schema: how much of each migration's group exists
  ledger,     \* the recorded migrations, or NoLedger
  rowCount,   \* rows of each kind, of the tables later migrations index
  deploy,     \* the local state of each deployment
  disturbed   \* history: deployments during which somebody else wrote

deployVars == <<objects, ledger, rowCount, deploy, disturbed>>

NoLedger == {-1}

\* What the pending work tells apart: a monitor that was ever checked, an open
\* incident, the first link of a monitor to an incident report ("counted").
RowKinds == {"monitor", "checked", "open", "resolved", "update", "link",
             "counted", "event", "window"}

\* LEGACY_TABLES, LEGACY_INDEXES, LEGACY_ADDED_COLUMNS and the POST_V1_6 lists.
SchemaObjects == [Migrations -> {"none", "partial", "full"}]

Deployment ==
  [pc: {"idle", "reading", "inspecting", "listing", "counting", "creating",
        "releases", "checking", "classifying", "recording", "migrating",
        "stopped", "failed", "done"},
   missing: SUBSET Migrations,  \* the groups that were not all there
   applied: SUBSET Migrations,  \* of Indexes and Feed, those the ledger had
   recorded: (SUBSET Migrations) \union {NoLedger}, writes: Nat]

DeployTypeOK ==
  /\ objects \in SchemaObjects
  /\ ledger = NoLedger \/ ledger \in SUBSET Migrations
  /\ rowCount \in [RowKinds -> Nat]
  /\ deploy \in [Deployers -> Deployment]
  /\ disturbed \subseteq Deployers

\* A database nobody has used, or one that Wrangler has brought to migration k.
DeployInit ==
  /\ \E k \in -1..Last :
       /\ objects = [m \in Migrations |-> IF m <= k THEN "full" ELSE "none"]
       /\ ledger = IF k = -1 THEN NoLedger ELSE 0..k
  /\ rowCount = [kind \in RowKinds |-> 0]
  /\ deploy = [d \in Deployers |->
       [pc |-> "idle", missing |-> {}, applied |-> {}, recorded |-> {}, writes |-> 0]]
  /\ disturbed = {}

Running(d) == deploy[d].pc \notin {"idle", "stopped", "failed", "done"}
Disturb(d) == disturbed' = disturbed \union {e \in Deployers : e # d /\ Running(e)}
Proceed(d, place) == deploy' = [deploy EXCEPT ![d].pc = place]

-----------------------------------------------------------------------------
(* What the inspection query counts.                                       *)

\* Mutant: the tables are enough, columns are not looked at.
TablesComplete == \A m \in Legacy : objects[m] # "none"

\* isCompleteLegacySchema: every table, index and column of version 1.6.
CompleteLegacySchema == \A m \in Legacy : objects[m] = "full"

\* post_legacy_count and final_migration_count are zero.
NoPostLegacyObjects == \A m \in Later : objects[m] = "none"
NoLegacyUpgradeObjects == objects[LegacyLast] = "none"

-----------------------------------------------------------------------------
(* reconcileLegacyMigration.                                               *)

BeginDeploy(d) ==
  /\ deploy[d].pc = "idle"
  /\ Proceed(d, "reading")
  /\ UNCHANGED <<objects, ledger, rowCount, disturbed>>

\* Without a ledger an empty database is left to Wrangler.
ReadLedgerState(d) ==
  /\ deploy[d].pc = "reading"
  /\ Proceed(d, IF ledger # NoLedger THEN "listing"
                ELSE IF \A m \in Migrations : objects[m] = "none"
                       THEN "migrating" ELSE "inspecting")
  /\ UNCHANGED <<objects, ledger, rowCount, disturbed>>

InspectLedgerless(d) ==
  /\ deploy[d].pc = "inspecting"
  /\ IF CompleteLegacySchema /\ NoPostLegacyObjects
       THEN deploy' = [deploy EXCEPT ![d].pc = "listing",
                                     ![d].recorded = NoLedger]
       ELSE Proceed(d, "stopped")
  /\ UNCHANGED <<objects, ledger, rowCount, disturbed>>

\* The rows of all kinds, at a price for each.
Priced(price) ==
    price.monitor * rowCount.monitor + price.checked * rowCount.checked
  + price.open * rowCount.open + price.resolved * rowCount.resolved
  + price.update * rowCount.update + price.link * rowCount.link
  + price.counted * rowCount.counted + price.event * rowCount.event
  + price.window * rowCount.window

Free == [kind \in RowKinds |-> 0]

\* PENDING_INDEX_BUILDS, by the migration that builds them; with the backfills
\* of the scheduler cursor and of the feed's counters and the repair of
\* duplicate open incidents, two writes for each row.
IndexBuilds  == [Free EXCEPT !.link = 1, !.counted = 1, !.event = 1, !.window = 1]
OutboxBuilds == [Free EXCEPT !.monitor = 1, !.checked = 1 + 2, !.open = 1 + 2]
FeedBuilds   == [Free EXCEPT !.update = 1, !.open = 1, !.resolved = 1, !.counted = 2]

\* OBSOLETE_INCIDENT_INDEXES: one of incident updates, two of incidents.
Obsolete == [Free EXCEPT !.update = 1, !.open = 2, !.resolved = 2]

\* Mutant: an index is not there yet, so that dropping it costs nothing.
DroppedIfThere(missing, applied) == IF Indexes \in missing THEN 0 ELSE 1

\* How often an obsolete index is written until Feed has dropped it: it is
\* there, or Indexes builds it before.
Turns(missing, applied) ==
  IF Feed \in applied THEN 0
  ELSE IF Indexes \notin missing THEN 1
  ELSE IF Indexes \notin applied THEN 2 ELSE 0

Estimated(missing, applied) ==
    (IF Indexes \in missing THEN Priced(IndexBuilds) ELSE 0)
  + (IF Outbox \in missing THEN Priced(OutboxBuilds) ELSE 0)
  + (IF Feed \in missing THEN Priced(FeedBuilds) ELSE 0)
  + Turns(missing, applied) * Priced(Obsolete)

PendingWork == {m \in Later : objects[m] # "full"}

\* assertPendingMigrationWriteBudgetSafe: first what exists, ...
ListObjects(d) ==
  /\ deploy[d].pc = "listing"
  /\ deploy' = [deploy EXCEPT
       ![d].pc = IF ledger = NoLedger THEN "counting" ELSE "releases",
       ![d].missing = PendingWork]
  /\ UNCHANGED <<objects, ledger, rowCount, disturbed>>

\* ... which of two migrations the ledger has, ...
ListReleases(d) ==
  /\ deploy[d].pc = "releases"
  /\ deploy' = [deploy EXCEPT ![d].pc = "counting",
                              ![d].applied = ledger \intersect {Indexes, Feed}]
  /\ UNCHANGED <<objects, ledger, rowCount, disturbed>>

\* ... then the rows each piece of work would write.
CountWrites(d) ==
  /\ deploy[d].pc = "counting"
  /\ LET ledgerless == deploy[d].recorded = NoLedger
         place == IF Estimated(deploy[d].missing, deploy[d].applied) > SafeWrites
                    THEN "stopped"
                  ELSE IF ledgerless THEN "creating" ELSE "checking"
     IN  deploy' = [deploy EXCEPT ![d].pc = place, ![d].missing = {}, ![d].applied = {}]
  /\ UNCHANGED <<objects, ledger, rowCount, disturbed>>

\* CREATE TABLE IF NOT EXISTS; INSERT OR IGNORE.
CreateLedger(d) ==
  /\ deploy[d].pc = "creating"
  /\ ledger' = (IF ledger = NoLedger THEN {} ELSE ledger) \union Legacy
  /\ Proceed(d, "migrating")
  /\ Disturb(d)
  /\ UNCHANGED <<objects, rowCount>>

ReadLedger(d) ==
  /\ deploy[d].pc = "checking"
  /\ deploy' = [deploy EXCEPT
       ![d].pc = IF LegacyLast \in ledger THEN "migrating" ELSE "classifying",
       ![d].recorded = ledger \intersect Legacy]
  /\ UNCHANGED <<objects, ledger, rowCount, disturbed>>

ClassifyLegacy(d) ==
  /\ deploy[d].pc = "classifying"
  /\ Proceed(d,
       IF NoLegacyUpgradeObjects THEN "migrating"
       ELSE IF Legacy \ {LegacyLast} \subseteq deploy[d].recorded /\ CompleteLegacySchema
              THEN "recording" ELSE "stopped")
  /\ UNCHANGED <<objects, ledger, rowCount, disturbed>>

RecordLegacy(d) ==
  /\ deploy[d].pc = "recording"
  /\ ledger' = ledger \union {LegacyLast}
  /\ Proceed(d, "migrating")
  /\ Disturb(d)
  /\ UNCHANGED <<objects, rowCount>>

-----------------------------------------------------------------------------
(* External.                                                               *)

Recorded == IF ledger = NoLedger THEN {} ELSE ledger
Pending  == Migrations \ Recorded

\* What the statements of the migration files write, row by row: an entry of
\* each index that is built or dropped, the cursor of a checked monitor, a
\* duplicate open incident with its index (or its entry in the unique one), a
\* counter with its key.
IndexWrites  == [Free EXCEPT !.link = 1, !.counted = 1, !.event = 1, !.window = 1,
                             !.update = 1, !.open = 2, !.resolved = 2]
OutboxWrites == [Free EXCEPT !.monitor = 1, !.checked = 2, !.open = 2]
FeedWrites   == [Free EXCEPT !.update = 2, !.open = 3, !.resolved = 3, !.counted = 2]

WritesOf(m) == CASE m = Indexes -> Priced(IndexWrites)
                 [] m = Outbox  -> Priced(OutboxWrites)
                 [] m = Feed    -> Priced(FeedWrites)
                 [] OTHER       -> 0

\* wrangler d1 migrations apply, one file at a time.
ApplyMigration(d) ==
  /\ deploy[d].pc = "migrating"
  /\ Pending # {}
  /\ LET m == Min(Pending)
     IN  IF objects[m] = "none"
           THEN /\ objects' = [objects EXCEPT ![m] = "full"]
                /\ ledger' = Recorded \union {m}
                /\ deploy' = [deploy EXCEPT ![d].writes = @ + WritesOf(m)]
                /\ Disturb(d)
           ELSE /\ Proceed(d, "failed")
                /\ UNCHANGED <<objects, ledger, disturbed>>
  /\ UNCHANGED rowCount

FinishDeploy(d) ==
  /\ deploy[d].pc = "migrating"
  /\ Pending = {}
  /\ Proceed(d, "done")
  /\ UNCHANGED <<objects, ledger, rowCount, disturbed>>

\* Isolates of version 1.6 run its ensureSchema and store observations.
OldWorkerServes == \A d \in Deployers : deploy[d].pc # "done"

OldWorkerCreatesTables ==
  /\ OldWorkerServes
  /\ objects' = [m \in Migrations |->
       IF m \in Legacy /\ objects[m] = "none" THEN "partial" ELSE objects[m]]
  /\ disturbed' = disturbed \union {e \in Deployers : Running(e)}
  /\ UNCHANGED <<ledger, rowCount, deploy>>

OldWorkerAddsColumns(m) ==
  /\ OldWorkerServes
  /\ m \in Legacy /\ objects[m] = "partial"
  /\ objects' = [objects EXCEPT ![m] = "full"]
  /\ disturbed' = disturbed \union {e \in Deployers : Running(e)}
  /\ UNCHANGED <<ledger, rowCount, deploy>>

AddRows ==
  /\ MapThenSumSet(LAMBDA kind : rowCount[kind], RowKinds) < MaxRows
  /\ \E m \in Migrations : objects[m] = "full"
  /\ \E kind \in RowKinds : rowCount' = [rowCount EXCEPT ![kind] = @ + 1]
  /\ disturbed' = disturbed \union {e \in Deployers : Running(e)}
  /\ UNCHANGED <<objects, ledger, deploy>>

DeployStep(d) ==
  \/ BeginDeploy(d) \/ ReadLedgerState(d) \/ InspectLedgerless(d)
  \/ ListObjects(d) \/ ListReleases(d) \/ CountWrites(d) \/ CreateLedger(d) \/ ReadLedger(d)
  \/ ClassifyLegacy(d) \/ RecordLegacy(d) \/ ApplyMigration(d) \/ FinishDeploy(d)

DeployNext ==
  \/ \E d \in Deployers : DeployStep(d)
  \/ OldWorkerCreatesTables
  \/ \E m \in Legacy : OldWorkerAddsColumns(m)
  \/ AddRows

DeploySpec == DeployInit /\ [][DeployNext]_deployVars

-----------------------------------------------------------------------------
(* Properties.                                                             *)

\* The ledger never claims a migration whose objects are not all there, in
\* whatever state of repair version 1.6 left the schema and however many
\* deployments run at once: Wrangler would skip it for ever and the Worker
\* would meet a missing column (reconcile-legacy-migration.mjs 482-545).
RecordedIsPresent == \A m \in Recorded : objects[m] = "full"

\* A deployment nobody disturbs either stops before it has changed anything or
\* gets through: no migration collides with objects that exist, and what its
\* statements write is within the limit, because the script's list of pending
\* work charges enough for each of them (reconcile-legacy-migration.mjs
\* 326-457 and 499-545, drizzle/0006, 0007 and 0010).
UndisturbedDeploySucceeds ==
  \A d \in Deployers \ disturbed :
    deploy[d].pc # "failed" /\ deploy[d].writes <= SafeWrites

=============================================================================
