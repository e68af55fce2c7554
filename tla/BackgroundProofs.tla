--------------------------- MODULE BackgroundProofs ---------------------------
(***************************************************************************)
(* Proofs about what runs by itself, next to the cron run's own in         *)
(* CronRunProofs: for any number of migrations, columns, deployments and   *)
(* starts that die, the ledger of migrations tells the truth whoever       *)
(* deploys (Deployment), and a server that listens has its whole schema    *)
(* (NodeSchema); an open page stops polling when it is left, and goes back  *)
(* to an older answer only where its calls race (Polling); and the parts   *)
(* of MCBackground keep their types side by side.                          *)
(***************************************************************************)
EXTENDS MCBackground, CronRunProofs

-----------------------------------------------------------------------------
(* The ledger and the objects, whoever wrote them.                         *)

\* Objects of later migrations are created by Wrangler alone, whole.
LaterIsRecorded ==
  \A m \in Later : objects[m] = IF m \in Recorded THEN "full" ELSE "none"

\* The recorded migrations are the first ones, without a gap.
RecordedInOrder == \A m \in Recorded : \A n \in Migrations : n < m => n \in Recorded

\* Version 1.6 creates all tables of its schema that are missing at once.
LegacyTogether ==
  objects[LegacyLast] = "none" => \A m \in Legacy \ Recorded : objects[m] = "none"

RowsNeedTables ==
  (\E sort \in RowKinds : rowCount[sort] # 0) => \E m \in Migrations : objects[m] = "full"

\* What a deployment has seen of the schema still holds when it uses it:
\* objects do not disappear, and the ledger only grows.
Seen(d) ==
  /\ deploy[d].pc \in {"idle", "reading", "inspecting"} => deploy[d].recorded = {}
  /\ deploy[d].pc = "creating" => deploy[d].recorded = NoLedger
  /\ deploy[d].pc \in {"listing", "releases", "counting", "creating"}
        /\ deploy[d].recorded = NoLedger => CompleteLegacySchema
  /\ deploy[d].pc \in {"listing", "releases", "counting"} /\ deploy[d].recorded # NoLedger
       => ledger # NoLedger
  /\ deploy[d].pc = "releases" => ledger # NoLedger
  /\ deploy[d].pc \in {"idle", "reading", "inspecting", "listing", "releases"} =>
       deploy[d].applied = {}
  /\ deploy[d].pc \in {"checking", "classifying", "recording"} => ledger # NoLedger
  /\ deploy[d].pc \in {"classifying", "recording"} => deploy[d].recorded \subseteq Recorded
  /\ deploy[d].pc = "recording" =>
       CompleteLegacySchema /\ Legacy \ {LegacyLast} \subseteq deploy[d].recorded

SeenHolds == \A d \in Deployers : Seen(d)

SchemaInv ==
  /\ DeployTypeOK /\ RecordedIsPresent
  /\ LaterIsRecorded /\ RecordedInOrder /\ LegacyTogether /\ RowsNeedTables
  /\ SeenHolds

\* A deployment whose schema nobody else writes: what it counted is what is
\* still to be written, and nothing it will create is there.
Due(m) == IF m \in Pending THEN WritesOf(m) ELSE 0
StillDue == Due(Indexes) + Due(Outbox) + Due(Feed)

WithinCount(d) == deploy[d].writes + StillDue <= SafeWrites

Undisturbed(d) ==
  /\ deploy[d].pc # "failed"
  /\ deploy[d].pc \notin {"migrating", "done"} => deploy[d].writes = 0
  /\ deploy[d].pc = "done" => deploy[d].writes <= SafeWrites
  /\ deploy[d].pc \in {"releases", "counting"} => deploy[d].missing = PendingWork
  /\ deploy[d].pc = "counting" => deploy[d].applied = Recorded \intersect {Indexes, Feed}
  /\ deploy[d].pc \in {"creating", "checking", "classifying", "recording", "migrating"} =>
       WithinCount(d)
  /\ deploy[d].pc = "migrating" => \A m \in Pending : objects[m] = "none"

DeployInv == SchemaInv /\ \A d \in Deployers \ disturbed : Undisturbed(d)

-----------------------------------------------------------------------------
(* What Wrangler takes next.                                               *)

\* Every nonempty set of natural numbers has a least element.
\* The first pending migration.
LEMMA FirstPending ==
  ASSUME DeployTypeOK, Pending # {}
  PROVE  Min(Pending) \in Pending /\ \A n \in Pending : Min(Pending) <= n
  <1>1. Pending \subseteq Nat
    BY DeploymentAssumption DEF Pending, Migrations
  <1> QED BY <1>1, LeastNumber DEF Min

LEMMA RowsArePriced ==
  ASSUME rowCount \in [RowKinds -> Nat], NEW price \in [RowKinds -> Nat]
  PROVE  Priced(price) \in Nat
  <1>1. \A sort \in RowKinds : rowCount[sort] \in Nat /\ price[sort] \in Nat
    OBVIOUS
  <1>2. \A sort \in RowKinds : price[sort] * rowCount[sort] \in Nat
    BY <1>1
  <1> QED BY <1>2 DEF Priced, RowKinds

\* What each list of work and each migration comes to.
LEMMA WorkIsPriced ==
  ASSUME rowCount \in [RowKinds -> Nat]
  PROVE  /\ Priced(IndexBuilds) = rowCount.link + rowCount.counted + rowCount.event
                                    + rowCount.window
         /\ Priced(OutboxBuilds) = rowCount.monitor + 3 * rowCount.checked + 3 * rowCount.open
         /\ Priced(FeedBuilds) = rowCount.update + rowCount.open + rowCount.resolved
                                   + 2 * rowCount.counted
         /\ Priced(Obsolete) = rowCount.update + 2 * rowCount.open + 2 * rowCount.resolved
         /\ Priced(IndexWrites) = rowCount.link + rowCount.counted + rowCount.event
                                    + rowCount.window + rowCount.update
                                    + 2 * rowCount.open + 2 * rowCount.resolved
         /\ Priced(OutboxWrites) = rowCount.monitor + 2 * rowCount.checked + 2 * rowCount.open
         /\ Priced(FeedWrites) = 2 * rowCount.update + 3 * rowCount.open
                                   + 3 * rowCount.resolved + 2 * rowCount.counted
  <1>1. \A sort \in RowKinds : rowCount[sort] \in Nat
    OBVIOUS
  <1>2. /\ rowCount.monitor \in Nat /\ rowCount.checked \in Nat /\ rowCount.open \in Nat
        /\ rowCount.resolved \in Nat /\ rowCount.update \in Nat /\ rowCount.link \in Nat
        /\ rowCount.counted \in Nat /\ rowCount.event \in Nat /\ rowCount.window \in Nat
    BY <1>1 DEF RowKinds
  <1>3. Priced(IndexBuilds) = rowCount.link + rowCount.counted + rowCount.event + rowCount.window
    BY <1>2 DEF Priced, IndexBuilds, Free, RowKinds
  <1>4. Priced(OutboxBuilds) = rowCount.monitor + 3 * rowCount.checked + 3 * rowCount.open
    BY <1>2 DEF Priced, OutboxBuilds, Free, RowKinds
  <1>5. Priced(FeedBuilds) = rowCount.update + rowCount.open + rowCount.resolved
                              + 2 * rowCount.counted
    BY <1>2 DEF Priced, FeedBuilds, Free, RowKinds
  <1>6. Priced(Obsolete) = rowCount.update + 2 * rowCount.open + 2 * rowCount.resolved
    BY <1>2 DEF Priced, Obsolete, Free, RowKinds
  <1>7. Priced(IndexWrites) = rowCount.link + rowCount.counted + rowCount.event
                                + rowCount.window + rowCount.update
                                + 2 * rowCount.open + 2 * rowCount.resolved
    BY <1>2 DEF Priced, IndexWrites, Free, RowKinds
  <1>8. Priced(OutboxWrites) = rowCount.monitor + 2 * rowCount.checked + 2 * rowCount.open
    BY <1>2 DEF Priced, OutboxWrites, Free, RowKinds
  <1>9. Priced(FeedWrites) = 2 * rowCount.update + 3 * rowCount.open
                              + 3 * rowCount.resolved + 2 * rowCount.counted
    BY <1>2 DEF Priced, FeedWrites, Free, RowKinds
  <1> QED BY <1>3, <1>4, <1>5, <1>6, <1>7, <1>8, <1>9

LEMMA MigrationWrites ==
  /\ WritesOf(Indexes) = Priced(IndexWrites) /\ WritesOf(Outbox) = Priced(OutboxWrites)
  /\ WritesOf(Feed) = Priced(FeedWrites)
  /\ \A m \in Migrations \ {Indexes, Outbox, Feed} : WritesOf(m) = 0
  BY DeploymentAssumption DEF WritesOf, Migrations

LEMMA WritesAreNumbers ==
  ASSUME rowCount \in [RowKinds -> Nat]
  PROVE  /\ \A m \in Migrations : WritesOf(m) \in Nat
         /\ Due(Indexes) \in Nat /\ Due(Outbox) \in Nat /\ Due(Feed) \in Nat
         /\ StillDue \in Nat
  <1>1. Free \in [RowKinds -> Nat]
    BY DEF Free
  <1>2. /\ IndexWrites \in [RowKinds -> Nat] /\ OutboxWrites \in [RowKinds -> Nat]
        /\ FeedWrites \in [RowKinds -> Nat]
    BY <1>1 DEF IndexWrites, OutboxWrites, FeedWrites, RowKinds
  <1>3. /\ Priced(IndexWrites) \in Nat /\ Priced(OutboxWrites) \in Nat
        /\ Priced(FeedWrites) \in Nat
    BY <1>2, RowsArePriced
  <1>4. \A m \in {Indexes, Outbox, Feed} : WritesOf(m) \in Nat
    BY <1>3, MigrationWrites
  <1>5. Due(Indexes) \in Nat /\ Due(Outbox) \in Nat /\ Due(Feed) \in Nat
    BY <1>4 DEF Due
  <1> QED BY <1>4, <1>5, MigrationWrites DEF StillDue

LEMMA LegacyAndLater ==
  /\ Legacy \subseteq Migrations /\ Later \subseteq Migrations
  /\ Legacy \cup Later = Migrations /\ Legacy \cap Later = {}
  /\ LegacyLast \in Legacy /\ Migrations \subseteq Nat /\ -1 \notin Migrations
  BY DeploymentAssumption DEF Legacy, Later, Migrations

LEMMA EstimateIsNumber ==
  ASSUME rowCount \in [RowKinds -> Nat], NEW missing, NEW applied
  PROVE  Estimated(missing, applied) \in Nat
  <1>1. Free \in [RowKinds -> Nat]
    BY DEF Free
  <1>2. IndexBuilds \in [RowKinds -> Nat] /\ FeedBuilds \in [RowKinds -> Nat]
    BY <1>1 DEF IndexBuilds, FeedBuilds, RowKinds
  <1>3. OutboxBuilds \in [RowKinds -> Nat] /\ Obsolete \in [RowKinds -> Nat]
    <2>1. 1 + 2 \in Nat
      OBVIOUS
    <2> QED BY <1>1, <2>1 DEF OutboxBuilds, Obsolete, RowKinds
  <1>6. /\ Priced(IndexBuilds) \in Nat /\ Priced(OutboxBuilds) \in Nat
        /\ Priced(FeedBuilds) \in Nat /\ Priced(Obsolete) \in Nat
    BY <1>2, <1>3, RowsArePriced
  <1>4. Turns(missing, applied) \in {0, 1, 2}
    BY DEF Turns
  <1>5. Turns(missing, applied) * Priced(Obsolete) \in Nat
    BY <1>4, <1>6
  <1> QED BY <1>5, <1>6 DEF Estimated

\* The same schema, ledger and rows leave the same to be written.
LEMMA StillDueStays ==
  ASSUME UNCHANGED <<ledger, rowCount>>
  PROVE  StillDue' = StillDue
  BY DEF StillDue, Due, WritesOf, Priced, Pending, Recorded

\* The list of pending work charges enough for the migrations that are pending.
LEMMA EstimateCovers ==
  ASSUME DeployTypeOK, LaterIsRecorded, RecordedInOrder
  PROVE  StillDue <= Estimated(PendingWork, Recorded \intersect {Indexes, Feed})
  <1> DEFINE missing == PendingWork
             applied == Recorded \intersect {Indexes, Feed}
  <1>1. /\ Indexes \in Later /\ Outbox \in Later /\ Feed \in Later
        /\ Indexes # Feed /\ Indexes \in Migrations /\ Outbox \in Migrations
        /\ Feed \in Migrations
    BY DeploymentAssumption DEF Later, Legacy, Migrations
  <1>2. \A m \in Later : m \in missing <=> m \notin Recorded
    BY DEF LaterIsRecorded, PendingWork
  <1>3. /\ Indexes \in missing <=> Indexes \in Pending
        /\ Outbox \in missing <=> Outbox \in Pending
        /\ Feed \in missing <=> Feed \in Pending
        /\ Indexes \in applied <=> Indexes \notin Pending
        /\ Feed \in applied <=> Feed \notin Pending
    BY <1>1, <1>2 DEF Pending
  <1>4. rowCount \in [RowKinds -> Nat]
    BY DEF DeployTypeOK
  <1>5. /\ rowCount.monitor \in Nat /\ rowCount.checked \in Nat /\ rowCount.open \in Nat
        /\ rowCount.resolved \in Nat /\ rowCount.update \in Nat /\ rowCount.link \in Nat
        /\ rowCount.counted \in Nat /\ rowCount.event \in Nat /\ rowCount.window \in Nat
    BY <1>4 DEF RowKinds
  <1> HIDE DEF missing, applied
  <1> DEFINE turns == IF Feed \notin Pending THEN 0 ELSE IF Indexes \notin Pending THEN 1 ELSE 2
             builds == (IF Indexes \in Pending THEN Priced(IndexBuilds) ELSE 0)
                         + (IF Outbox \in Pending THEN Priced(OutboxBuilds) ELSE 0)
                         + (IF Feed \in Pending THEN Priced(FeedBuilds) ELSE 0)
  <1>6. Turns(missing, applied) = turns
    BY <1>3 DEF Turns
  <1>7. Estimated(missing, applied) = builds + turns * Priced(Obsolete)
    BY <1>3, <1>6 DEF Estimated
  <1>8. StillDue <= builds + turns * Priced(Obsolete)
    <2> HIDE DEF turns, builds
    <2>1. CASE Feed \notin Pending
      <3>1. Indexes \notin Pending
        BY <1>1, <2>1, DeploymentAssumption DEF RecordedInOrder, Pending
      <3> QED BY <1>4, <1>5, <2>1, <3>1, WorkIsPriced, MigrationWrites
              DEF StillDue, Due, turns, builds
    <2>2. CASE Feed \in Pending /\ Indexes \notin Pending
      BY <1>4, <1>5, <2>2, WorkIsPriced, MigrationWrites DEF StillDue, Due, turns, builds
    <2>3. CASE Feed \in Pending /\ Indexes \in Pending
      BY <1>4, <1>5, <2>3, WorkIsPriced, MigrationWrites DEF StillDue, Due, turns, builds
    <2> QED BY <2>1, <2>2, <2>3
  <1> QED BY <1>7, <1>8 DEF missing, applied

-----------------------------------------------------------------------------
(* Initially: Wrangler's own state, before any deployment.                 *)

LEMMA DeployInvInit == DeployInit => DeployInv
  <1> SUFFICES ASSUME DeployInit PROVE DeployInv
    OBVIOUS
  <1> USE DeploymentAssumption
  <1>1. PICK k \in -1..Last :
          /\ objects = [m \in Migrations |-> IF m <= k THEN "full" ELSE "none"]
          /\ ledger = IF k = -1 THEN NoLedger ELSE 0..k
    BY DEF DeployInit
  <1>2. Recorded = 0..k
    BY <1>1 DEF Recorded, NoLedger
  <1>3. DeployTypeOK
    BY <1>1 DEF DeployInit, DeployTypeOK, SchemaObjects, Deployment, NoLedger, Migrations
  <1>4. RecordedIsPresent /\ LaterIsRecorded /\ RecordedInOrder
    BY <1>1, <1>2 DEF RecordedIsPresent, LaterIsRecorded, RecordedInOrder, Later, Migrations
  <1>5. LegacyTogether
    BY <1>1, <1>2 DEF LegacyTogether, Legacy, Migrations
  <1>6. RowsNeedTables /\ SeenHolds
    BY DEF RowsNeedTables, SeenHolds, Seen, DeployInit
  <1>7. \A d \in Deployers : Undisturbed(d)
    BY DEF Undisturbed, DeployInit
  <1> QED BY <1>3, <1>4, <1>5, <1>6, <1>7 DEF DeployInv, SchemaInv

-----------------------------------------------------------------------------
(* Steps of others: version 1.6, and other deployments.                    *)

\* A deployment keeps what it counts on, if nobody writes while it runs.
LEMMA OthersKeep ==
  ASSUME NEW e \in Deployers, Undisturbed(e), deploy'[e] = deploy[e],
         ~Running(e) \/ UNCHANGED <<objects, ledger, rowCount>>
  PROVE  Undisturbed(e)'
  <1>1. CASE ~Running(e)
    BY <1>1 DEF Running, Undisturbed
  <1>2. CASE UNCHANGED <<objects, ledger, rowCount>>
    BY <1>2, StillDueStays DEF Undisturbed, WithinCount, PendingWork, Pending, Recorded
  <1> QED BY <1>1, <1>2

\* What the schema keeps while legacy objects are added to it.
LEMMA OldWorkerKeeps ==
  ASSUME DeployInv, OldWorkerCreatesTables \/ \E m \in Legacy : OldWorkerAddsColumns(m)
  PROVE  DeployInv'
  <1> USE LegacyAndLater
  <1>1. /\ objects' \in SchemaObjects
        /\ \A m \in Migrations : objects[m] = "full" => objects'[m] = "full"
        /\ \A m \in Later : objects'[m] = objects[m]
        /\ objects'[LegacyLast] # "none"
        /\ UNCHANGED <<ledger, rowCount, deploy>>
        /\ disturbed' = disturbed \union {e \in Deployers : Running(e)}
    <2>1. CASE OldWorkerCreatesTables
      BY <2>1 DEF OldWorkerCreatesTables, DeployInv, SchemaInv, DeployTypeOK, SchemaObjects
    <2>2. ASSUME NEW m \in Legacy, OldWorkerAddsColumns(m)
          PROVE  /\ objects' \in SchemaObjects
                 /\ \A n \in Migrations : objects[n] = "full" => objects'[n] = "full"
                 /\ \A n \in Later : objects'[n] = objects[n]
                 /\ objects'[LegacyLast] # "none"
                 /\ UNCHANGED <<ledger, rowCount, deploy>>
                 /\ disturbed' = disturbed \union {e \in Deployers : Running(e)}
      <3>1. objects[m] = "partial" /\ m \notin Recorded
        BY <2>2 DEF OldWorkerAddsColumns, DeployInv, SchemaInv, RecordedIsPresent
      <3>2. objects[LegacyLast] # "none"
        BY <3>1 DEF DeployInv, SchemaInv, LegacyTogether
      <3> QED
        BY <2>2, <3>2 DEF OldWorkerAddsColumns, DeployInv, SchemaInv, DeployTypeOK, SchemaObjects
    <2> QED BY <2>1, <2>2
  <1>2. Recorded' = Recorded /\ Recorded \subseteq Migrations
    BY <1>1 DEF Recorded, DeployInv, SchemaInv, DeployTypeOK
  <1>3. DeployTypeOK'
    BY <1>1 DEF DeployInv, SchemaInv, DeployTypeOK
  <1>4. RecordedIsPresent' /\ LaterIsRecorded' /\ RecordedInOrder' /\ LegacyTogether'
    BY <1>1, <1>2 DEF DeployInv, SchemaInv, RecordedIsPresent, LaterIsRecorded,
                      RecordedInOrder, LegacyTogether
  <1>5. RowsNeedTables'
    BY <1>1 DEF DeployInv, SchemaInv, RowsNeedTables
  <1>6. CompleteLegacySchema => CompleteLegacySchema'
    BY <1>1 DEF CompleteLegacySchema
  <1>7. SeenHolds'
    BY <1>1, <1>2, <1>6 DEF DeployInv, SchemaInv, SeenHolds, Seen
  <1>8. ASSUME NEW e \in Deployers \ disturbed' PROVE Undisturbed(e)'
    <2>1. e \notin disturbed /\ ~Running(e) /\ deploy'[e] = deploy[e]
      BY <1>1, <1>8
    <2> QED BY <2>1, OthersKeep DEF DeployInv
  <1> QED BY <1>3, <1>4, <1>5, <1>7, <1>8 DEF DeployInv, SchemaInv

LEMMA AddRowsKeeps ==
  ASSUME DeployInv, AddRows
  PROVE  DeployInv'
  <1>1. /\ \E sort \in RowKinds : rowCount' = [rowCount EXCEPT ![sort] = @ + 1]
        /\ \E m \in Migrations : objects[m] = "full"
        /\ UNCHANGED <<objects, ledger, deploy>>
        /\ disturbed' = disturbed \union {e \in Deployers : Running(e)}
    BY DEF AddRows
  <1>2. DeployTypeOK'
    BY <1>1 DEF DeployInv, SchemaInv, DeployTypeOK
  <1>3. /\ RecordedIsPresent' /\ LaterIsRecorded' /\ RecordedInOrder' /\ LegacyTogether'
        /\ RowsNeedTables'
    BY <1>1 DEF DeployInv, SchemaInv, RecordedIsPresent, LaterIsRecorded,
                RecordedInOrder, LegacyTogether, RowsNeedTables, Recorded
  <1>4. SeenHolds'
    BY <1>1 DEF DeployInv, SchemaInv, SeenHolds, Seen, CompleteLegacySchema, Recorded
  <1>5. ASSUME NEW e \in Deployers \ disturbed' PROVE Undisturbed(e)'
    <2>1. e \notin disturbed /\ ~Running(e) /\ deploy'[e] = deploy[e]
      BY <1>1, <1>5
    <2> QED BY <2>1, OthersKeep DEF DeployInv
  <1> QED BY <1>2, <1>3, <1>4, <1>5 DEF DeployInv, SchemaInv

-----------------------------------------------------------------------------
(* Steps of a deployment that only look.                                   *)

\* A step of one deployment that writes nothing keeps the schema's part; what
\* it has to show is what it has seen.
Looks(d) ==
  /\ UNCHANGED <<objects, ledger, rowCount, disturbed>>
  /\ \E r \in Deployment : deploy' = [deploy EXCEPT ![d] = r]

LEMMA LooksKeeps ==
  ASSUME DeployInv, NEW d \in Deployers, Looks(d),
         Seen(d)', d \notin disturbed => Undisturbed(d)'
  PROVE  DeployInv'
  <1>1. PICK r \in Deployment : deploy' = [deploy EXCEPT ![d] = r]
    BY DEF Looks
  <1>2. /\ UNCHANGED <<objects, ledger, rowCount, disturbed>>
        /\ \A e \in Deployers \ {d} : deploy'[e] = deploy[e]
    BY <1>1 DEF Looks, DeployInv, SchemaInv, DeployTypeOK
  <1>3. DeployTypeOK'
    BY <1>1, <1>2 DEF DeployInv, SchemaInv, DeployTypeOK
  <1>4. /\ RecordedIsPresent' /\ LaterIsRecorded' /\ RecordedInOrder' /\ LegacyTogether'
        /\ RowsNeedTables'
    BY <1>2 DEF DeployInv, SchemaInv, RecordedIsPresent, LaterIsRecorded,
                RecordedInOrder, LegacyTogether, RowsNeedTables, Recorded
  <1>5. SeenHolds'
    <2>1. ASSUME NEW e \in Deployers PROVE Seen(e)'
      <3>1. CASE e = d
        BY <3>1
      <3>2. CASE e # d
        <4>1. Seen(e)
          BY DEF DeployInv, SchemaInv, SeenHolds
        <4> QED BY <3>2, <4>1, <1>2 DEF Seen, CompleteLegacySchema, Recorded
      <3> QED BY <3>1, <3>2
    <2> QED BY <2>1 DEF SeenHolds
  <1>6. ASSUME NEW e \in Deployers \ disturbed' PROVE Undisturbed(e)'
    <2>1. CASE e = d
      BY <2>1, <1>2
    <2>2. CASE e # d
      BY <2>2, <1>2, OthersKeep DEF DeployInv
    <2> QED BY <2>1, <2>2
  <1> QED BY <1>3, <1>4, <1>5, <1>6 DEF DeployInv, SchemaInv

\* The rows of a deployment's own record, one field changed.
LEMMA ProceedIsRow ==
  ASSUME DeployTypeOK, NEW d \in Deployers,
         NEW place \in {"idle", "reading", "inspecting", "listing", "counting", "creating",
                        "releases", "checking", "classifying", "recording", "migrating",
                        "stopped", "failed", "done"},
         Proceed(d, place)
  PROVE  /\ \E r \in Deployment : deploy' = [deploy EXCEPT ![d] = r]
         /\ deploy'[d] = [deploy[d] EXCEPT !.pc = place]
         /\ \A e \in Deployers \ {d} : deploy'[e] = deploy[e]
  <1>1. deploy[d] \in Deployment /\ [deploy[d] EXCEPT !.pc = place] \in Deployment
    BY DEF DeployTypeOK, Deployment
  <1>2. deploy' = [deploy EXCEPT ![d] = [deploy[d] EXCEPT !.pc = place]]
    BY DEF Proceed
  <1> QED BY <1>1, <1>2 DEF DeployTypeOK

LEMMA LookingKeeps ==
  ASSUME DeployInv, NEW d \in Deployers,
         \/ BeginDeploy(d) \/ ReadLedgerState(d) \/ InspectLedgerless(d)
         \/ ListObjects(d) \/ ListReleases(d) \/ CountWrites(d) \/ ReadLedger(d)
         \/ ClassifyLegacy(d) \/ FinishDeploy(d)
  PROVE  DeployInv'
  <1> USE LegacyAndLater
  <1>0. /\ DeployTypeOK /\ Seen(d)
        /\ d \notin disturbed => Undisturbed(d)
        /\ deploy[d] \in Deployment /\ rowCount \in [RowKinds -> Nat]
        /\ Recorded \subseteq Migrations
    BY DeploymentAssumption DEF DeployInv, SchemaInv, SeenHolds, DeployTypeOK, Recorded
  <1>w. PendingWork' = PendingWork /\ Pending' = Pending /\ Recorded' = Recorded
    BY DEF BeginDeploy, ReadLedgerState, InspectLedgerless, ListObjects, ListReleases,
           CountWrites, ReadLedger, ClassifyLegacy, FinishDeploy, PendingWork, Pending, Recorded
  <1>r. StillDue' = StillDue
    BY StillDueStays DEF BeginDeploy, ReadLedgerState, InspectLedgerless, ListObjects,
       ListReleases, CountWrites, ReadLedger, ClassifyLegacy, FinishDeploy
  <1>1. CASE BeginDeploy(d)
    <2>1. deploy'[d] = [deploy[d] EXCEPT !.pc = "reading"] /\ Looks(d)
      BY <1>0, <1>1, ProceedIsRow DEF BeginDeploy, Looks
    <2>2. Seen(d)' /\ (d \notin disturbed => Undisturbed(d)')
      BY <1>0, <1>1, <2>1 DEF BeginDeploy, Seen, Undisturbed, Deployment
    <2> QED BY <2>1, <2>2, LooksKeeps
  <1>2. CASE ReadLedgerState(d)
    <2> DEFINE place == IF ledger # NoLedger THEN "listing"
                        ELSE IF \A m \in Migrations : objects[m] = "none"
                               THEN "migrating" ELSE "inspecting"
    <2>1. deploy'[d] = [deploy[d] EXCEPT !.pc = place] /\ Looks(d)
      BY <1>0, <1>2, ProceedIsRow DEF ReadLedgerState, Looks
    <2>2. deploy[d].pc = "reading" /\ UNCHANGED <<objects, ledger, rowCount>>
      BY <1>2 DEF ReadLedgerState
    <2>3. deploy[d].recorded = {} /\ {} # NoLedger
      BY <1>0, <2>2 DEF Seen, NoLedger
    <2>4. Seen(d)'
      BY <1>0, <2>1, <2>2, <2>3 DEF Seen, Deployment
    <2>5. d \notin disturbed => Undisturbed(d)'
      <3> SUFFICES ASSUME d \notin disturbed PROVE Undisturbed(d)'
        OBVIOUS
      <3>1. deploy[d].writes = 0
        BY <1>0, <2>2 DEF Undisturbed
      <3>2. CASE place = "migrating"
        <4>1. \A m \in Migrations : objects[m] = "none"
          BY <3>2
        <4>2. \A sort \in RowKinds : rowCount[sort] = 0
          BY <4>1 DEF DeployInv, SchemaInv, RowsNeedTables
        <4>3. StillDue = 0
          <5>1. /\ Priced(IndexWrites) = 0 /\ Priced(OutboxWrites) = 0 /\ Priced(FeedWrites) = 0
            BY <1>0, <4>2, WorkIsPriced DEF RowKinds
          <5> QED BY <5>1, MigrationWrites DEF StillDue, Due
        <4> QED
          BY <1>0, <1>w, <1>r, <2>1, <2>2, <3>1, <3>2, <4>1, <4>3, DeploymentAssumption
             DEF Undisturbed, WithinCount, Deployment, Pending
      <3>3. CASE place # "migrating"
        BY <1>0, <2>1, <3>1, <3>3 DEF Undisturbed, Deployment
      <3> QED BY <3>2, <3>3
    <2> QED BY <2>1, <2>4, <2>5, LooksKeeps
  <1>3. CASE InspectLedgerless(d)
    <2>1. deploy[d].pc = "inspecting" /\ UNCHANGED <<objects, ledger, rowCount, disturbed>>
      BY <1>3 DEF InspectLedgerless
    <2>2. CASE CompleteLegacySchema /\ NoPostLegacyObjects
      <3> DEFINE entry == [deploy[d] EXCEPT !.pc = "listing", !.recorded = NoLedger]
      <3>1. deploy' = [deploy EXCEPT ![d] = entry] /\ entry \in Deployment
        BY <1>0, <1>3, <2>2 DEF InspectLedgerless, Deployment
      <3>2. deploy'[d] = entry
        BY <3>1 DEF DeployInv, SchemaInv, DeployTypeOK
      <3>3. /\ entry.pc = "listing" /\ entry.recorded = NoLedger /\ entry.writes = deploy[d].writes
            /\ entry.applied = deploy[d].applied
        BY <1>0 DEF Deployment
      <3>4. Looks(d) /\ CompleteLegacySchema'
        BY <2>1, <2>2, <3>1 DEF Looks, CompleteLegacySchema
      <3> HIDE DEF entry
      <3>5. Seen(d)' /\ (d \notin disturbed => Undisturbed(d)')
        BY <1>0, <2>1, <3>2, <3>3, <3>4 DEF Seen, Undisturbed
      <3> QED BY <3>4, <3>5, LooksKeeps
    <2>3. CASE ~(CompleteLegacySchema /\ NoPostLegacyObjects)
      <3>1. deploy'[d] = [deploy[d] EXCEPT !.pc = "stopped"] /\ Looks(d)
        BY <1>0, <1>3, <2>3, ProceedIsRow DEF InspectLedgerless, Looks
      <3>2. Seen(d)' /\ (d \notin disturbed => Undisturbed(d)')
        BY <1>0, <2>1, <3>1 DEF Seen, Undisturbed, Deployment
      <3> QED BY <3>1, <3>2, LooksKeeps
    <2> QED BY <2>2, <2>3
  <1>4. CASE ListObjects(d)
    <2> DEFINE place == IF ledger = NoLedger THEN "counting" ELSE "releases"
               entry == [deploy[d] EXCEPT !.pc = place, !.missing = PendingWork]
    <2>1. /\ deploy[d].pc = "listing" /\ UNCHANGED <<objects, ledger, rowCount, disturbed>>
          /\ deploy' = [deploy EXCEPT ![d] = entry]
      BY <1>4 DEF ListObjects
    <2>2. entry \in Deployment
      BY <1>0 DEF Deployment, PendingWork
    <2>3. /\ entry.pc = place /\ entry.recorded = deploy[d].recorded
          /\ entry.writes = deploy[d].writes /\ entry.missing = PendingWork
          /\ entry.applied = deploy[d].applied
      BY <1>0 DEF Deployment
    <2> HIDE DEF entry
    <2>4. deploy'[d] = entry /\ Looks(d)
      BY <2>1, <2>2 DEF Looks, DeployInv, SchemaInv, DeployTypeOK
    <2>5. Seen(d)'
      BY <1>0, <1>w, <2>1, <2>3, <2>4 DEF Seen, CompleteLegacySchema
    <2>6. deploy[d].applied = {} /\ (ledger = NoLedger => Recorded = {})
      BY <1>0, <2>1 DEF Seen, Recorded
    <2>7. d \notin disturbed => Undisturbed(d)'
      BY <1>0, <1>w, <2>1, <2>3, <2>4, <2>6 DEF Undisturbed
    <2> QED BY <2>4, <2>5, <2>7, LooksKeeps
  <1>9. CASE ListReleases(d)
    <2> DEFINE entry == [deploy[d] EXCEPT !.pc = "counting",
                                          !.applied = ledger \intersect {Indexes, Feed}]
    <2>1. /\ deploy[d].pc = "releases" /\ UNCHANGED <<objects, ledger, rowCount, disturbed>>
          /\ deploy' = [deploy EXCEPT ![d] = entry]
      BY <1>9 DEF ListReleases
    <2>2. ledger # NoLedger /\ Recorded = ledger
      BY <1>0, <2>1 DEF Seen, Recorded
    <2>3. entry \in Deployment
      BY <1>0, <2>2 DEF Deployment
    <2>4. /\ entry.pc = "counting" /\ entry.recorded = deploy[d].recorded
          /\ entry.writes = deploy[d].writes /\ entry.missing = deploy[d].missing
          /\ entry.applied = Recorded \intersect {Indexes, Feed}
      BY <1>0, <2>2 DEF Deployment
    <2> HIDE DEF entry
    <2>5. deploy'[d] = entry /\ Looks(d)
      BY <2>1, <2>3 DEF Looks, DeployInv, SchemaInv, DeployTypeOK
    <2>6. Seen(d)'
      BY <1>0, <1>w, <2>1, <2>4, <2>5 DEF Seen, CompleteLegacySchema
    <2>7. d \notin disturbed => Undisturbed(d)'
      BY <1>0, <1>w, <2>1, <2>4, <2>5 DEF Undisturbed
    <2> QED BY <2>5, <2>6, <2>7, LooksKeeps
  <1>5. CASE CountWrites(d)
    <2> DEFINE place == IF Estimated(deploy[d].missing, deploy[d].applied) > SafeWrites
                          THEN "stopped"
                        ELSE IF deploy[d].recorded = NoLedger THEN "creating" ELSE "checking"
               entry == [deploy[d] EXCEPT !.pc = place, !.missing = {}, !.applied = {}]
    <2>0. deploy' = [deploy EXCEPT ![d] = entry] /\ entry \in Deployment
      BY <1>0, <1>5 DEF CountWrites, Deployment
    <2>1. /\ deploy'[d] = [deploy[d] EXCEPT !.pc = place, !.missing = {}, !.applied = {}]
          /\ Looks(d)
      <3> HIDE DEF entry
      <3>1. deploy'[d] = entry /\ Looks(d)
        BY <1>5, <2>0 DEF Looks, CountWrites, DeployInv, SchemaInv, DeployTypeOK
      <3> QED BY <3>1 DEF entry
    <2> HIDE DEF entry
    <2>2. deploy[d].pc = "counting" /\ UNCHANGED <<objects, ledger, rowCount, disturbed>>
      BY <1>5 DEF CountWrites
    <2>3. Seen(d)'
      <3> HIDE DEF place
      <3>1. /\ deploy'[d].pc = place /\ deploy'[d].recorded = deploy[d].recorded
            /\ place \in {"stopped", "creating", "checking"}
            /\ place = "creating" => deploy[d].recorded = NoLedger
            /\ place = "checking" => deploy[d].recorded # NoLedger
        BY <1>0, <2>1 DEF Deployment, place
      <3>2. /\ deploy[d].recorded = NoLedger => CompleteLegacySchema
            /\ deploy[d].recorded # NoLedger => ledger # NoLedger
        BY <1>0, <2>2 DEF Seen
      <3>3. CompleteLegacySchema => CompleteLegacySchema'
        BY <2>2 DEF CompleteLegacySchema
      <3> QED BY <2>2, <3>1, <3>2, <3>3 DEF Seen
    <2>4. d \notin disturbed => Undisturbed(d)'
      <3> SUFFICES ASSUME d \notin disturbed PROVE Undisturbed(d)'
        OBVIOUS
      <3>1. /\ deploy[d].writes = 0 /\ deploy[d].missing = PendingWork
            /\ deploy[d].applied = Recorded \intersect {Indexes, Feed}
        BY <1>0, <2>2 DEF Undisturbed
      <3>2. CASE place = "stopped"
        BY <1>0, <2>1, <3>1, <3>2 DEF Undisturbed, Deployment
      <3>3. CASE place # "stopped"
        <4>1. ~(Estimated(PendingWork, Recorded \intersect {Indexes, Feed}) > SafeWrites)
          BY <3>1, <3>3
        <4>2. StillDue <= Estimated(PendingWork, Recorded \intersect {Indexes, Feed})
          BY EstimateCovers DEF DeployInv, SchemaInv
        <4>3. Estimated(PendingWork, Recorded \intersect {Indexes, Feed}) \in Nat
          BY <1>0, EstimateIsNumber
        <4>4. 0 + StillDue <= SafeWrites
          BY <1>0, <4>1, <4>2, <4>3, WritesAreNumbers, DeploymentAssumption
        <4> QED BY <1>0, <1>w, <1>r, <2>1, <2>2, <3>1, <3>3, <4>4
                DEF Undisturbed, WithinCount, Deployment
      <3> QED BY <3>2, <3>3
    <2> QED BY <2>1, <2>3, <2>4, LooksKeeps
  <1>6. CASE ReadLedger(d)
    <2> DEFINE place == IF LegacyLast \in ledger THEN "migrating" ELSE "classifying"
               entry == [deploy[d] EXCEPT !.pc = place, !.recorded = ledger \intersect Legacy]
    <2>1. /\ deploy[d].pc = "checking" /\ UNCHANGED <<objects, ledger, rowCount, disturbed>>
          /\ deploy' = [deploy EXCEPT ![d] = entry]
      BY <1>6 DEF ReadLedger
    <2>2. entry \in Deployment
      BY <1>0 DEF Deployment, Legacy
    <2>3. /\ entry.pc = place /\ entry.recorded = ledger \intersect Legacy
          /\ entry.writes = deploy[d].writes
      BY <1>0 DEF Deployment
    <2> HIDE DEF entry
    <2>4. deploy'[d] = entry /\ Looks(d)
      BY <2>1, <2>2 DEF Looks, DeployInv, SchemaInv, DeployTypeOK
    <2>5. ledger \intersect Legacy \subseteq Recorded
      BY DEF Recorded, NoLedger
    <2>6. Seen(d)'
      BY <1>0, <1>w, <2>1, <2>3, <2>4, <2>5 DEF Seen
    <2>7. d \notin disturbed => Undisturbed(d)'
      <3> SUFFICES ASSUME d \notin disturbed PROVE Undisturbed(d)'
        OBVIOUS
      <3>1. deploy[d].writes = 0 /\ WithinCount(d)
        BY <1>0, <2>1 DEF Undisturbed
      <3>2. WithinCount(d)'
        BY <1>r, <2>1, <2>3, <2>4, <3>1 DEF WithinCount
      <3>3. place = "migrating" => \A m \in Pending : objects[m] = "none"
        <4> SUFFICES ASSUME LegacyLast \in ledger, NEW m \in Pending PROVE objects[m] = "none"
          OBVIOUS
        <4>1. LegacyLast \in Recorded
          BY DEF Recorded, NoLedger
        <4>2. Legacy \subseteq Recorded
          BY <4>1, DeploymentAssumption DEF DeployInv, SchemaInv, RecordedInOrder, Legacy, Migrations
        <4>3. m \in Later /\ m \notin Recorded
          BY <4>2 DEF Pending
        <4> QED BY <4>3 DEF DeployInv, SchemaInv, LaterIsRecorded
      <3> QED BY <1>w, <2>1, <2>3, <2>4, <3>1, <3>2, <3>3 DEF Undisturbed
    <2> QED BY <2>4, <2>6, <2>7, LooksKeeps
  <1>7. CASE ClassifyLegacy(d)
    <2> DEFINE place == IF NoLegacyUpgradeObjects THEN "migrating"
                        ELSE IF Legacy \ {LegacyLast} \subseteq deploy[d].recorded
                                /\ CompleteLegacySchema
                               THEN "recording" ELSE "stopped"
    <2>1. deploy'[d] = [deploy[d] EXCEPT !.pc = place] /\ Looks(d)
      BY <1>0, <1>7, ProceedIsRow DEF ClassifyLegacy, Looks
    <2>2. deploy[d].pc = "classifying" /\ UNCHANGED <<objects, ledger, rowCount, disturbed>>
      BY <1>7 DEF ClassifyLegacy
    <2>3. Seen(d)'
      BY <1>0, <1>w, <2>1, <2>2 DEF Seen, Deployment, CompleteLegacySchema
    <2>4. d \notin disturbed => Undisturbed(d)'
      <3> SUFFICES ASSUME d \notin disturbed PROVE Undisturbed(d)'
        OBVIOUS
      <3>1. deploy[d].writes = 0 /\ WithinCount(d)
        BY <1>0, <2>2 DEF Undisturbed
      <3>2. WithinCount(d)'
        BY <1>0, <1>r, <2>1, <2>2, <3>1 DEF WithinCount, Deployment
      <3>3. place = "migrating" => \A m \in Pending : objects[m] = "none"
        BY DEF NoLegacyUpgradeObjects, DeployInv, SchemaInv, LaterIsRecorded,
               LegacyTogether, Pending
      <3> HIDE DEF place
      <3>4. deploy'[d].pc = place /\ deploy'[d].writes = 0 /\ place \in {"migrating", "recording", "stopped"}
        BY <1>0, <2>1, <3>1 DEF Deployment, place
      <3> QED BY <1>w, <2>2, <3>2, <3>3, <3>4 DEF Undisturbed
    <2> QED BY <2>1, <2>3, <2>4, LooksKeeps
  <1>8. CASE FinishDeploy(d)
    <2>1. deploy'[d] = [deploy[d] EXCEPT !.pc = "done"] /\ Looks(d)
      BY <1>0, <1>8, ProceedIsRow DEF FinishDeploy, Looks
    <2>2. deploy[d].pc = "migrating"
      BY <1>8 DEF FinishDeploy
    <2>3. Seen(d)'
      BY <1>0, <2>1 DEF Seen, Deployment
    <2>4. d \notin disturbed => Undisturbed(d)'
      <3> SUFFICES ASSUME d \notin disturbed PROVE Undisturbed(d)'
        OBVIOUS
      <3>1. WithinCount(d)
        BY <1>0, <2>2 DEF Undisturbed
      <3>2. deploy[d].writes \in Nat /\ StillDue \in Nat
        BY <1>0, WritesAreNumbers DEF Deployment
      <3>3. deploy[d].writes <= SafeWrites
        BY <1>0, <3>1, <3>2, DeploymentAssumption DEF WithinCount
      <3> QED BY <1>0, <2>1, <3>3 DEF Undisturbed, Deployment
    <2> QED BY <2>1, <2>3, <2>4, LooksKeeps
  <1> QED BY <1>1, <1>2, <1>3, <1>4, <1>5, <1>6, <1>7, <1>8, <1>9

-----------------------------------------------------------------------------
(* Steps of a deployment that write.                                       *)

LEMMA WriterKeeps ==
  ASSUME DeployInv, NEW d \in Deployers, NEW r \in Deployment,
         deploy' = [deploy EXCEPT ![d] = r], rowCount' = rowCount, Disturb(d),
         objects' \in SchemaObjects,
         \A m \in Migrations : objects[m] = "full" => objects'[m] = "full",
         ledger' \in SUBSET Migrations, Recorded \subseteq ledger',
         RecordedIsPresent', LaterIsRecorded', RecordedInOrder', LegacyTogether',
         Seen(d)', d \notin disturbed => Undisturbed(d)'
  PROVE  DeployInv'
  <1> USE LegacyAndLater
  <1>1. /\ deploy'[d] = r
        /\ \A e \in Deployers \ {d} : deploy'[e] = deploy[e]
        /\ disturbed' = disturbed \union {e \in Deployers : e # d /\ Running(e)}
    BY DEF DeployInv, SchemaInv, DeployTypeOK, Disturb
  <1>2. DeployTypeOK'
    BY <1>1 DEF DeployInv, SchemaInv, DeployTypeOK
  <1>3. Recorded' = ledger'
    BY DEF Recorded, NoLedger
  <1>4. CompleteLegacySchema => CompleteLegacySchema'
    BY DEF CompleteLegacySchema
  <1>5. RowsNeedTables'
    BY DEF DeployInv, SchemaInv, RowsNeedTables
  <1>6. SeenHolds'
    <2>1. ASSUME NEW e \in Deployers PROVE Seen(e)'
      <3>1. CASE e = d
        BY <3>1
      <3>2. CASE e # d
        <4>1. Seen(e)
          BY DEF DeployInv, SchemaInv, SeenHolds
        <4>2. ledger' # NoLedger
          BY DEF NoLedger
        <4> QED BY <3>2, <4>1, <4>2, <1>1, <1>3, <1>4 DEF Seen
      <3> QED BY <3>1, <3>2
    <2> QED BY <2>1 DEF SeenHolds
  <1>7. ASSUME NEW e \in Deployers \ disturbed' PROVE Undisturbed(e)'
    <2>1. CASE e = d
      BY <2>1, <1>1, <1>7
    <2>2. CASE e # d
      <3>1. e \notin disturbed /\ ~Running(e) /\ deploy'[e] = deploy[e]
        BY <2>2, <1>1, <1>7
      <3> QED BY <3>1, OthersKeep DEF DeployInv
    <2> QED BY <2>1, <2>2
  <1> QED BY <1>2, <1>5, <1>6, <1>7 DEF DeployInv, SchemaInv

\* Recording the whole schema of version 1.6, or the rest of it.
LEMMA RecordingKeeps ==
  ASSUME DeployInv, NEW d \in Deployers, CreateLedger(d) \/ RecordLegacy(d)
  PROVE  DeployInv'
  <1> USE LegacyAndLater
  <1>0. /\ DeployTypeOK /\ Seen(d)
        /\ d \notin disturbed => Undisturbed(d)
        /\ deploy[d] \in Deployment /\ rowCount \in [RowKinds -> Nat]
        /\ Recorded \subseteq Migrations
    BY DeploymentAssumption DEF DeployInv, SchemaInv, SeenHolds, DeployTypeOK, Recorded
  <1>1. /\ Proceed(d, "migrating") /\ Disturb(d) /\ UNCHANGED <<objects, rowCount>>
        /\ deploy[d].pc \in {"creating", "recording"}
    BY DEF CreateLedger, RecordLegacy
  <1>2. CompleteLegacySchema
    BY <1>0 DEF CreateLedger, RecordLegacy, Seen
  <1>3. ledger' = Recorded \union Legacy
    <2>1. CASE CreateLedger(d)
      BY <2>1 DEF CreateLedger, Recorded
    <2>2. CASE RecordLegacy(d)
      <3>1. deploy[d].pc = "recording"
        BY <2>2 DEF RecordLegacy
      <3>2. Legacy \ {LegacyLast} \subseteq Recorded
        BY <1>0, <3>1 DEF Seen
      <3>3. ledger # NoLedger
        BY <1>0, <3>1 DEF Seen
      <3>4. ledger' = ledger \union {LegacyLast}
        BY <2>2 DEF RecordLegacy
      <3> QED BY <3>2, <3>3, <3>4 DEF Recorded
    <2> QED BY <2>1, <2>2
  <1>4. PICK r \in Deployment : deploy' = [deploy EXCEPT ![d] = r]
    BY <1>0, <1>1, ProceedIsRow
  <1>5. deploy'[d] = [deploy[d] EXCEPT !.pc = "migrating"]
    BY <1>0, <1>1, ProceedIsRow
  <1>6. Recorded' = Recorded \union Legacy /\ Recorded' \subseteq Migrations
    BY <1>0, <1>3 DEF Recorded, NoLedger
  <1>7. RecordedIsPresent' /\ LaterIsRecorded' /\ LegacyTogether'
    BY <1>1, <1>2, <1>6 DEF DeployInv, SchemaInv, RecordedIsPresent, LaterIsRecorded,
                            LegacyTogether, CompleteLegacySchema
  <1>8. RecordedInOrder'
    <2>1. \A m \in Legacy, n \in Migrations : n < m => n \in Legacy
      BY DeploymentAssumption DEF Legacy, Migrations
    <2> QED BY <2>1, <1>6 DEF DeployInv, SchemaInv, RecordedInOrder
  <1>9. Seen(d)'
    BY <1>0, <1>5 DEF Seen, Deployment
  <1>10. d \notin disturbed => Undisturbed(d)'
    <2> SUFFICES ASSUME d \notin disturbed PROVE Undisturbed(d)'
      OBVIOUS
    <2>1. deploy[d].writes = 0 /\ WithinCount(d)
      BY <1>0, <1>1 DEF Undisturbed
    <2>2. StillDue' = StillDue
      <3>1. /\ Indexes \in Migrations \ Legacy /\ Outbox \in Migrations \ Legacy
            /\ Feed \in Migrations \ Legacy
        BY DeploymentAssumption DEF Migrations, Legacy
      <3>2. \A m \in {Indexes, Outbox, Feed} : m \in Pending' <=> m \in Pending
        BY <1>6, <3>1 DEF Pending
      <3>3. \A m : WritesOf(m)' = WritesOf(m)
        BY <1>1 DEF WritesOf, Priced
      <3> QED BY <3>2, <3>3 DEF StillDue, Due
    <2>3. WithinCount(d)'
      BY <1>0, <1>1, <1>5, <2>1, <2>2 DEF WithinCount, Deployment
    <2>4. \A m \in Pending' : objects'[m] = "none"
      BY <1>1, <1>6 DEF Pending, DeployInv, SchemaInv, LaterIsRecorded
    <2> QED BY <1>0, <1>5, <2>3, <2>4 DEF Undisturbed, Deployment
  <1> QED BY <1>0, <1>1, <1>3, <1>4, <1>6, <1>7, <1>8, <1>9, <1>10, WriterKeeps
             DEF DeployTypeOK

\* Wrangler's next migration: it creates what is not there, or fails.
LEMMA ApplyKeeps ==
  ASSUME DeployInv, NEW d \in Deployers, ApplyMigration(d)
  PROVE  DeployInv'
  <1> USE LegacyAndLater
  <1> DEFINE m == Min(Pending)
             more == WritesOf(m)
  <1>0. /\ DeployTypeOK /\ Seen(d)
        /\ d \notin disturbed => Undisturbed(d)
        /\ deploy[d] \in Deployment /\ rowCount \in [RowKinds -> Nat]
        /\ Recorded \subseteq Migrations
        /\ deploy[d].pc = "migrating" /\ Pending # {}
        /\ rowCount' = rowCount
    BY DeploymentAssumption
       DEF DeployInv, SchemaInv, SeenHolds, DeployTypeOK, Recorded, ApplyMigration
  <1>1. m \in Migrations /\ m \notin Recorded /\ \A n \in Pending : m <= n
    BY <1>0, FirstPending DEF Pending
  <1>2. CASE objects[m] = "none"
    <2>1. /\ objects' = [objects EXCEPT ![m] = "full"]
          /\ ledger' = Recorded \union {m}
          /\ deploy' = [deploy EXCEPT ![d].writes = @ + more]
          /\ Disturb(d)
      BY <1>2 DEF ApplyMigration
    <2> HIDE DEF m
    <2> DEFINE entry == [deploy[d] EXCEPT !.writes = @ + more]
    <2>2. more \in Nat
      BY <1>0, <1>1, WritesAreNumbers
    <2>3. entry \in Deployment /\ entry.pc = "migrating" /\ entry.writes = deploy[d].writes + more
      BY <1>0, <2>2 DEF Deployment
    <2>4. deploy' = [deploy EXCEPT ![d] = entry] /\ deploy'[d] = entry
      BY <1>0, <2>1 DEF DeployTypeOK
    <2> HIDE DEF entry, more
    <2>5. /\ objects' \in SchemaObjects
          /\ \A n \in Migrations : objects'[n] = IF n = m THEN "full" ELSE objects[n]
          /\ \A n \in Migrations : objects[n] = "full" => objects'[n] = "full"
      BY <1>0, <1>1, <2>1 DEF DeployTypeOK, SchemaObjects
    <2>6. Recorded' = Recorded \union {m} /\ Recorded' = ledger' /\ ledger' \in SUBSET Migrations
      BY <1>0, <1>1, <2>1 DEF Recorded, NoLedger
    <2>7. RecordedIsPresent' /\ LaterIsRecorded' /\ LegacyTogether'
      <3>1. RecordedIsPresent'
        BY <1>0, <2>5, <2>6 DEF DeployInv, SchemaInv, RecordedIsPresent
      <3>2. LaterIsRecorded'
        BY <2>5, <2>6 DEF DeployInv, SchemaInv, LaterIsRecorded
      <3>3. LegacyTogether'
        BY <2>5, <2>6 DEF DeployInv, SchemaInv, LegacyTogether
      <3> QED BY <3>1, <3>2, <3>3
    <2>8. RecordedInOrder'
      <3> SUFFICES ASSUME NEW k \in Recorded', NEW n \in Migrations, n < k
                   PROVE  n \in Recorded'
        BY DEF RecordedInOrder
      <3>1. CASE k \in Recorded
        BY <3>1, <2>6 DEF DeployInv, SchemaInv, RecordedInOrder
      <3>2. CASE k = m
        <4>1. n \notin Pending
          BY <3>2, <1>1
        <4> QED BY <4>1, <2>6 DEF Pending
      <3> QED BY <3>1, <3>2, <2>6
    <2>9. Seen(d)'
      BY <2>3, <2>4 DEF Seen
    <2>10. d \notin disturbed => Undisturbed(d)'
      <3> SUFFICES ASSUME d \notin disturbed PROVE Undisturbed(d)'
        OBVIOUS
      <3>1. WithinCount(d) /\ \A n \in Pending : objects[n] = "none"
        BY <1>0 DEF Undisturbed
      <3>2. \A n \in Pending' : objects'[n] = "none"
        BY <3>1, <2>5, <2>6 DEF Pending
      <3>3. WithinCount(d)'
        <4>1. \A n : WritesOf(n)' = WritesOf(n)
          BY <1>0 DEF WritesOf, Priced
        <4>2. \A n \in Migrations : n \in Pending' <=> n \in Pending /\ n # m
          BY <2>6 DEF Pending
        <4>3. /\ Indexes \in Migrations /\ Outbox \in Migrations /\ Feed \in Migrations
              /\ Indexes # Outbox /\ Indexes # Feed /\ Outbox # Feed
          BY DeploymentAssumption DEF Migrations
        <4>4. /\ Due(Indexes)' = IF Indexes = m THEN 0 ELSE Due(Indexes)
              /\ Due(Outbox)' = IF Outbox = m THEN 0 ELSE Due(Outbox)
              /\ Due(Feed)' = IF Feed = m THEN 0 ELSE Due(Feed)
          BY <4>1, <4>2, <4>3 DEF Due
        <4>5. m \in Pending /\ Due(m) = more
          BY <1>0, FirstPending DEF Due, m, more
        <4>6. m \notin {Indexes, Outbox, Feed} => more = 0
          BY <1>1, MigrationWrites DEF more
        <4>7. StillDue' = StillDue - more
          BY <1>0, <4>3, <4>4, <4>5, <4>6, <2>2, WritesAreNumbers DEF StillDue
        <4>8. deploy[d].writes + StillDue <= SafeWrites /\ deploy[d].writes \in Nat
          BY <1>0, <3>1 DEF WithinCount, Deployment
        <4> QED BY <1>0, <2>2, <2>3, <2>4, <4>7, <4>8, WritesAreNumbers, DeploymentAssumption
                DEF WithinCount
      <3> QED BY <3>2, <3>3, <2>3, <2>4 DEF Undisturbed
    <2> QED BY <1>0, <2>1, <2>3, <2>4, <2>5, <2>6, <2>7, <2>8, <2>9, <2>10, WriterKeeps
  <1>3. CASE objects[m] # "none"
    <2>1. Proceed(d, "failed") /\ UNCHANGED <<objects, ledger, rowCount, disturbed>>
      BY <1>3 DEF ApplyMigration
    <2>2. Looks(d) /\ deploy'[d] = [deploy[d] EXCEPT !.pc = "failed"]
      BY <2>1, <1>0, ProceedIsRow DEF Looks
    <2>3. Seen(d)'
      BY <1>0, <2>2 DEF Seen, Deployment
    <2>4. d \in disturbed
      BY <1>0, <1>1, <1>3 DEF Undisturbed, Pending
    <2> QED BY <2>2, <2>3, <2>4, LooksKeeps
  <1> QED BY <1>2, <1>3

LEMMA DeployInvStep == DeployInv /\ [DeployNext]_deployVars => DeployInv'
  <1> SUFFICES ASSUME DeployInv, [DeployNext]_deployVars PROVE DeployInv'
    OBVIOUS
  <1>1. ASSUME NEW d \in Deployers, DeployStep(d) PROVE DeployInv'
    BY <1>1, LookingKeeps, RecordingKeeps, ApplyKeeps DEF DeployStep
  <1>2. CASE UNCHANGED deployVars
    BY <1>2 DEF deployVars, DeployInv, SchemaInv, DeployTypeOK, RecordedIsPresent,
                LaterIsRecorded, RecordedInOrder, LegacyTogether, RowsNeedTables,
                SeenHolds, Seen, CompleteLegacySchema, Undisturbed, WithinCount, StillDue,
                Due, WritesOf, Priced, PendingWork, Pending, Recorded
  <1> QED BY <1>1, <1>2, OldWorkerKeeps, AddRowsKeeps DEF DeployNext

\* The ledger claims nothing whose objects are not all there, in whatever state
\* version 1.6 left the schema and however many deployments run at once
\* (reconcile-legacy-migration.mjs 482-545).
THEOREM DeploymentRecordsWhatIsPresent == DeploySpec => []RecordedIsPresent
  <1>1. DeployInv => RecordedIsPresent
    BY DEF DeployInv, SchemaInv
  <1> QED BY <1>1, DeployInvInit, DeployInvStep, PTL DEF DeploySpec

\* A deployment nobody disturbs does not collide with what exists, and what the
\* statements of its migrations write is within the limit (reconcile-legacy-migration.mjs 326-457 and 499-545).
THEOREM DeploymentSucceedsUndisturbed == DeploySpec => []UndisturbedDeploySucceeds
  <1>1. DeployInv => UndisturbedDeploySucceeds
    <2> SUFFICES ASSUME DeployInv, NEW d \in Deployers \ disturbed
                 PROVE  deploy[d].pc # "failed" /\ deploy[d].writes <= SafeWrites
      BY DEF UndisturbedDeploySucceeds
    <2>1. Undisturbed(d) /\ deploy[d] \in Deployment /\ rowCount \in [RowKinds -> Nat]
      BY DeploymentAssumption DEF DeployInv, SchemaInv, DeployTypeOK
    <2>2. CASE deploy[d].pc = "migrating"
      <3>1. deploy[d].writes \in Nat /\ StillDue \in Nat
        BY <2>1, WritesAreNumbers DEF Deployment
      <3> QED BY <2>1, <2>2, <3>1, DeploymentAssumption DEF Undisturbed, WithinCount
    <2>3. CASE deploy[d].pc # "migrating"
      BY <2>1, <2>3, DeploymentAssumption DEF Undisturbed
    <2> QED BY <2>2, <2>3
  <1> QED BY <1>1, DeployInvInit, DeployInvStep, PTL DEF DeploySpec

-----------------------------------------------------------------------------
(* The inductive invariant: what the statements before the one a start is  *)
(* at have established.  Nothing is known of a process that is down.       *)

\* The statements ensureSchema still has to run, from each of them on.
AfterTables   == {"triggers", "columns", "backfill", "index", "repair",
                  "oneOpen", "looking", "marking", "serving"}
AfterTriggers == AfterTables \ {"triggers"}
AfterColumns  == AfterTriggers \ {"columns"}
AfterBackfill == AfterColumns \ {"backfill"}
AfterIndex    == AfterBackfill \ {"index"}
AfterRepair   == AfterIndex \ {"repair"}
AfterOneOpen  == AfterRepair \ {"oneOpen"}

\* A start tries the columns from the first, and those tried are there.
ColumnsSoFar ==
  /\ boot \in {"tables", "triggers"} => column = 0
  /\ boot = "columns" => \A k \in 1..column : k \in file.columns

SchemaSoFar ==
  /\ boot \in AfterTables => file.tables = Tables
  /\ boot \in AfterTriggers => file.triggers = 1
  /\ boot \in AfterColumns => file.columns = Columns
  /\ boot \in AfterBackfill => file.cursor = "set"
  /\ boot \in AfterIndex => file.index = 1
  /\ boot \in AfterRepair => file.openIncidents <= 1
  /\ boot \in AfterOneOpen => file.oneOpen = 1

\* The index, once built, keeps incidents unique through later starts, and the
\* history is marked caught up only where no raw log is left.
IndexHolds == file.oneOpen = 1 => file.openIncidents <= 1
MarkHolds ==
  /\ file.marked = 1 => file.rawLogs = 0
  /\ boot = "marking" => file.rawLogs = 0

NodeInv == NodeTypeOK /\ ColumnsSoFar /\ SchemaSoFar /\ IndexHolds /\ MarkHolds

LEMMA NodeInvInit == NodeInit => NodeInv
  <1> SUFFICES ASSUME NodeInit PROVE NodeInv
    OBVIOUS
  <1> USE NodeAssumption
  <1>1. NodeTypeOK
    BY DEF NodeInit, NodeTypeOK, NewFile, Files, Columns, Stages
  <1>2. /\ boot = "down"
        /\ file.oneOpen = 1 => file.openIncidents <= 1
        /\ file.marked = 1 => file.rawLogs = 0
    BY DEF NodeInit, NewFile, LeftByEarlierVersion
  <1>3. ColumnsSoFar /\ SchemaSoFar
    BY <1>2 DEF ColumnsSoFar, SchemaSoFar, AfterTables, AfterTriggers, AfterColumns,
                AfterBackfill, AfterIndex, AfterRepair, AfterOneOpen
  <1>4. IndexHolds /\ MarkHolds
    BY <1>2 DEF IndexHolds, MarkHolds
  <1> QED BY <1>1, <1>3, <1>4 DEF NodeInv

\* Every step, statement by statement, preserves the types.
LEMMA NodeTypeStep == NodeTypeOK /\ [NodeNext]_nodeVars => NodeTypeOK'
  <1> SUFFICES ASSUME NodeTypeOK, [NodeNext]_nodeVars PROVE NodeTypeOK'
    OBVIOUS
  <1> USE NodeAssumption DEF NodeTypeOK, Files, Stages
  <1>1. CASE StartNode
    BY <1>1 DEF StartNode
  <1>2. CASE CreateTables
    BY <1>2 DEF CreateTables, ColumnsCreated
  <1>3. CASE CreateTriggers
    BY <1>3 DEF CreateTriggers
  <1>4. CASE AddColumn
    BY <1>4 DEF AddColumn, AfterColumn, Columns
  <1>5. CASE ColumnsDone \/ LookForLegacyLogs
    BY <1>5 DEF ColumnsDone, LookForLegacyLogs
  <1>6. CASE BackfillCursor
    BY <1>6 DEF BackfillCursor
  <1>7. CASE CreateCursorIndex
    BY <1>7 DEF CreateCursorIndex
  <1>8. CASE RepairIncidents
    BY <1>8 DEF RepairIncidents, OpenAfterRepair
  <1>9. CASE CreateOneOpenIndex
    BY <1>9 DEF CreateOneOpenIndex
  <1>10. CASE MarkCaughtUp
    BY <1>10 DEF MarkCaughtUp
  <1>11. CASE Crash
    BY <1>11 DEF Crash
  <1>12. CASE OpenAnIncident
    BY <1>12 DEF OpenAnIncident
  <1>13. CASE UNCHANGED nodeVars
    BY <1>13 DEF nodeVars
  <1> QED BY <1>1, <1>2, <1>3, <1>4, <1>5, <1>6, <1>7, <1>8, <1>9, <1>10, <1>11,
             <1>12, <1>13 DEF NodeNext, EnsureSchema

\* Every step establishes what the next statement needs and undoes nothing.
LEMMA NodeInvStep == NodeInv /\ [NodeNext]_nodeVars => NodeInv'
  <1> SUFFICES ASSUME NodeInv, [NodeNext]_nodeVars PROVE NodeInv'
    OBVIOUS
  <1>t. NodeTypeOK /\ NodeTypeOK'
    BY NodeTypeStep DEF NodeInv
  <1> USE NodeAssumption
  <1> USE DEF ColumnsSoFar, SchemaSoFar, IndexHolds, MarkHolds, AfterTables, AfterTriggers,
              AfterColumns, AfterBackfill, AfterIndex, AfterRepair, AfterOneOpen
  <1> SUFFICES ColumnsSoFar' /\ SchemaSoFar' /\ IndexHolds' /\ MarkHolds'
    BY <1>t DEF NodeInv
  <1>1. CASE StartNode
    BY <1>1 DEF StartNode, NodeInv
  <1>2. CASE CreateTables
    BY <1>t, <1>2 DEF CreateTables, NodeInv, NodeTypeOK, Files
  <1>3. CASE CreateTriggers
    BY <1>t, <1>3 DEF CreateTriggers, NodeInv, NodeTypeOK, Files
  <1>4. CASE AddColumn
    <2>1. /\ boot = "columns" /\ boot' = "columns" /\ column' = column + 1
          /\ file' = [file EXCEPT !.columns = @ \union {column + 1}]
      BY <1>4 DEF AddColumn, AfterColumn
    <2>2. ColumnsSoFar'
      BY <1>t, <2>1 DEF NodeInv, NodeTypeOK, Files
    <2>3. SchemaSoFar' /\ IndexHolds' /\ MarkHolds'
      BY <1>t, <2>1 DEF NodeInv, NodeTypeOK, Files
    <2> QED BY <2>2, <2>3
  <1>5. CASE ColumnsDone
    BY <1>t, <1>5 DEF ColumnsDone, NodeInv, NodeTypeOK, Files, Columns
  <1>6. CASE BackfillCursor
    BY <1>t, <1>6 DEF BackfillCursor, NodeInv, NodeTypeOK, Files
  <1>7. CASE CreateCursorIndex
    BY <1>t, <1>7 DEF CreateCursorIndex, NodeInv, NodeTypeOK, Files
  <1>8. CASE RepairIncidents
    BY <1>t, <1>8 DEF RepairIncidents, OpenAfterRepair, NodeInv, NodeTypeOK, Files
  <1>9. CASE CreateOneOpenIndex
    BY <1>t, <1>9 DEF CreateOneOpenIndex, NodeInv, NodeTypeOK, Files
  <1>10. CASE LookForLegacyLogs
    BY <1>t, <1>10 DEF LookForLegacyLogs, NodeInv, NodeTypeOK, Files
  <1>11. CASE MarkCaughtUp
    BY <1>t, <1>11 DEF MarkCaughtUp, NodeInv, NodeTypeOK, Files
  <1>12. CASE Crash
    BY <1>12 DEF Crash, NodeInv
  <1>13. CASE OpenAnIncident
    BY <1>t, <1>13 DEF OpenAnIncident, NodeInv, NodeTypeOK, Files
  <1>14. CASE UNCHANGED nodeVars
    BY <1>14 DEF nodeVars, NodeInv
  <1> QED BY <1>1, <1>2, <1>3, <1>4, <1>5, <1>6, <1>7, <1>8, <1>9, <1>10, <1>11,
             <1>12, <1>13, <1>14 DEF NodeNext, EnsureSchema

\* Whatever tables and columns it found, in whatever order earlier versions
\* added them, whatever columns the CREATE TABLEs leave to the ALTERs, and
\* however many starts died at whatever statement, a server that listens has
\* its whole schema (migrate.ts 372-482).
THEOREM NodeServesCompleteSchema == NodeSpec => []ServesCompleteSchema
  <1>1. NodeInv => ServesCompleteSchema
    BY DEF NodeInv, SchemaSoFar, MarkHolds, ServesCompleteSchema, AfterTables, AfterTriggers,
           AfterColumns, AfterBackfill, AfterIndex, AfterRepair, AfterOneOpen
  <1> QED BY <1>1, NodeInvInit, NodeInvStep, PTL DEF NodeSpec

-----------------------------------------------------------------------------
(* The calls of a page, and the places their answers go to.                *)

\* A load in flight holds the flag of its visit, so it is the only one of its
\* poller and visit.
Flagged(C, pages) == \A c \in C : c.after # "toggle" => c.poller \in pages[c.visit].inFlight

SingleLoads(C) ==
  \A c, d \in C :
    c.poller = d.poller /\ c.visit = d.visit /\ c.after # "toggle" /\ d.after # "toggle" => c = d

\* Two calls for one place are known to race.
Apart(C) ==
  \A c, d \in C : c # d /\ c.poller = d.poller =>
    (c.raced = 1 /\ d.raced = 1) \/ (c.visit # d.visit /\ ~Stored(c.poller))

CallsInv(C) == C \subseteq Calls /\ SingleLoads(C) /\ Apart(C)

\* A visit still to come has left nothing; one that is over has no timer.
VisitsInv ==
  /\ \A v \in Visits : v > visit => page[v] = Unopened
  /\ \A c \in calls : c.visit <= visit
  /\ NoTimerAfterLeaving

\* An answer on its way to the screen without a rival is as new as the screen.
UpToDate ==
  \A c \in calls :
    c.pc = "answered" /\ c.raced = 0 /\ (c.visit = visit \/ Stored(c.poller))
      => c.got >= shown[c.poller]

\* Nobody is ahead of the server.
Fresh ==
  /\ \A p \in Pollers : shown[p] <= newest
  /\ \A c \in calls : c.got <= newest

PollInv ==
  PollTypeOK /\ CallsInv(calls) /\ Flagged(calls, page) /\ VisitsInv /\ UpToDate /\ Fresh

\* A mark changes nothing but the mark.
LEMMA MarkedFields ==
  ASSUME NEW c \in Calls, NEW O
  PROVE  LET s == Marked(c, O)
         IN  /\ s \in Calls
             /\ s.poller = c.poller /\ s.visit = c.visit /\ s.after = c.after
             /\ s.pc = c.pc /\ s.got = c.got
             /\ s.raced = IF \E d \in O : Rival(c, d) THEN 1 ELSE c.raced
  <1> DEFINE r == IF \E d \in O : Rival(c, d) THEN 1 ELSE c.raced
  <1>1. r \in {0, 1}
    BY DEF Calls
  <1>2. Marked(c, O) = [c EXCEPT !.raced = r]
    BY DEF Marked
  <1> HIDE DEF r
  <1>3. LET s == [c EXCEPT !.raced = r]
        IN  /\ s \in Calls
            /\ s.poller = c.poller /\ s.visit = c.visit /\ s.after = c.after
            /\ s.pc = c.pc /\ s.got = c.got /\ s.raced = r
    BY <1>1 DEF Calls
  <1> QED BY <1>2, <1>3 DEF r

\* New loads whose flag is free, or a toggle, keep loads single, and every race
\* is marked.
LEMMA SentKeepsCalls ==
  ASSUME CallsInv(calls), NEW N \in SUBSET Calls,
         \A n, m \in N : n.poller = m.poller => n = m,
         \A n \in N, c \in calls :
           c.poller = n.poller /\ c.visit = n.visit => "toggle" \in {c.after, n.after}
  PROVE  CallsInv(Sent(N))
  <1> USE DEF CallsInv
  <1>1. Sent(N) \subseteq Calls
    BY MarkedFields DEF Sent
  <1> DEFINE Kept(s, t) ==
        /\ s.visit = t.visit /\ s.after # "toggle" /\ t.after # "toggle" => s = t
        /\ s # t => \/ s.raced = 1 /\ t.raced = 1
                    \/ s.visit # t.visit /\ ~Stored(s.poller)
  <1>2. ASSUME NEW s \in Sent(N), NEW t \in Sent(N), s.poller = t.poller
        PROVE  Kept(s, t)
    <2>1. ASSUME NEW c \in calls, NEW d \in calls, s = Marked(c, N), t = Marked(d, N)
          PROVE  Kept(s, t)
      <3> HIDE DEF CallsInv
      <3>1. c.poller = d.poller /\ c.visit = s.visit /\ d.visit = t.visit
            /\ c.after = s.after /\ d.after = t.after
        BY <1>2, <2>1, MarkedFields DEF CallsInv
      <3>2. (c.raced = 1 => s.raced = 1) /\ (d.raced = 1 => t.raced = 1) /\ c.poller = s.poller
        BY <1>2, <2>1, MarkedFields DEF CallsInv
      <3>3. c = d => s = t
        BY <2>1
      <3> QED BY <3>1, <3>2, <3>3 DEF CallsInv, SingleLoads, Apart
    <2>2. ASSUME NEW c \in calls, NEW n \in N, c.poller = n.poller
          PROVE  LET u == Marked(c, N)
                     w == Marked(n, calls)
                 IN  /\ u.visit # w.visit \/ "toggle" \in {u.after, w.after}
                     /\ \/ u.raced = 1 /\ w.raced = 1
                        \/ u.visit # w.visit /\ ~Stored(u.poller)
      <3>1. Rival(c, n) <=> Rival(n, c)
        BY <2>2 DEF Rival
      <3>2. Rival(c, n) \/ (c.visit # n.visit /\ ~Stored(c.poller))
        BY <2>2 DEF Rival
      <3>3. c \in Calls /\ n \in Calls
        OBVIOUS
      <3>4. Rival(c, n) => Marked(c, N).raced = 1 /\ Marked(n, calls).raced = 1
        BY <3>1, <3>3, MarkedFields
      <3>5. /\ Marked(c, N).poller = c.poller /\ Marked(c, N).visit = c.visit
            /\ Marked(c, N).after = c.after /\ Marked(n, calls).visit = n.visit
            /\ Marked(n, calls).after = n.after
        BY <3>3, MarkedFields
      <3> QED BY <2>2, <3>2, <3>4, <3>5
    <2>3. ASSUME NEW n \in N, NEW m \in N, s = Marked(n, calls), t = Marked(m, calls)
          PROVE  s = t
      BY <1>2, <2>3, MarkedFields
    <2>4. ASSUME NEW c \in calls, NEW n \in N, s = Marked(c, N), t = Marked(n, calls)
          PROVE  Kept(s, t)
      <3>1. c.poller = n.poller
        BY <1>2, <2>4, MarkedFields
      <3> QED BY <2>2, <2>4, <3>1
    <2>5. ASSUME NEW c \in calls, NEW n \in N, t = Marked(c, N), s = Marked(n, calls)
          PROVE  Kept(s, t)
      <3>1. c.poller = n.poller
        BY <1>2, <2>5, MarkedFields
      <3>2. /\ t.visit # s.visit \/ "toggle" \in {t.after, s.after}
            /\ \/ t.raced = 1 /\ s.raced = 1
               \/ t.visit # s.visit /\ ~Stored(t.poller)
        BY <2>2, <2>5, <3>1
      <3> QED BY <1>2, <3>2
    <2> QED BY <2>1, <2>3, <2>4, <2>5 DEF Sent
  <1>3. SingleLoads(Sent(N)) /\ Apart(Sent(N))
    BY <1>2 DEF SingleLoads, Apart
  <1> QED BY <1>1, <1>3

\* Loads of free pollers, or a toggle, are sent on a visit there has been.
LEMMA SendStep ==
  ASSUME PollInv, NEW v \in Visits, v <= visit, NEW P \in SUBSET Pollers,
         NEW after \in {"nothing", "schedule", "toggle"},
         after # "toggle" => P \intersect page[v].inFlight = {} /\ P \subseteq page'[v].inFlight,
         calls' = Sent({NewCall(p, v, after) : p \in P}),
         \A w \in Visits : page[w].inFlight \subseteq page'[w].inFlight,
         UNCHANGED <<kind, visit, newest, shown>>
  PROVE  /\ CallsInv(calls)' /\ Flagged(calls, page)' /\ UpToDate' /\ Fresh'
         /\ \A c \in calls' : c.visit <= visit'
  <1> DEFINE N == {NewCall(p, v, after) : p \in P}
  <1>1. N \in SUBSET Calls /\ \A n \in N : n.visit = v /\ n.after = after /\ n.pc = "sent" /\ n.got = 0
    BY PollingAssumption DEF NewCall, Calls
  <1>2. \A n, m \in N : n.poller = m.poller => n = m
    BY DEF NewCall
  <1>3. \A n \in N : after # "toggle" => n.poller \notin page[v].inFlight /\ n.poller \in page'[v].inFlight
    BY DEF NewCall
  <1>4. \A n \in N, c \in calls :
          c.poller = n.poller /\ c.visit = n.visit => "toggle" \in {c.after, n.after}
    BY <1>1, <1>3 DEF PollInv, Flagged
  <1>5. CallsInv(Sent(N))
    <2> HIDE DEF N
    <2> QED BY <1>1, <1>2, <1>4, SentKeepsCalls DEF PollInv
  <1>6. CallsInv(calls)'
    BY <1>5 DEF CallsInv, SingleLoads, Apart, Stored
  <1>7. ASSUME NEW s \in calls'
        PROVE  \/ \E c \in calls : /\ s.poller = c.poller /\ s.visit = c.visit
                                   /\ s.after = c.after /\ s.pc = c.pc /\ s.got = c.got
                                   /\ s.raced = 0 => c.raced = 0
               \/ s.pc = "sent" /\ s.visit = v /\ s.after = after /\ s.got = 0
                    /\ (after # "toggle" => s.poller \in page'[v].inFlight)
    <2> HIDE DEF N
    <2>1. CASE \E c \in calls : s = Marked(c, N)
      <3>1. PICK c \in calls : s = Marked(c, N)
        BY <2>1
      <3>2. c \in Calls
        BY DEF PollInv, CallsInv
      <3> QED BY <3>1, <3>2, MarkedFields
    <2>2. CASE \E n \in N : s = Marked(n, calls)
      <3>1. PICK n \in N : s = Marked(n, calls)
        BY <2>2
      <3>2. n \in Calls
        BY <1>1
      <3> QED BY <1>1, <1>3, <3>1, <3>2, MarkedFields
    <2>3. calls' = Sent(N)
      BY DEF N
    <2> QED BY <2>1, <2>2, <2>3 DEF Sent
  <1>8. Flagged(calls, page)'
    <2>1. \A c \in calls : c.visit \in Visits
      BY DEF PollInv, CallsInv, Calls
    <2> QED BY <1>7, <2>1 DEF PollInv, Flagged
  <1>9. UpToDate' /\ \A c \in calls' : c.visit <= visit'
    BY <1>7 DEF PollInv, UpToDate, VisitsInv, Stored
  <1>10. Fresh'
    BY <1>7 DEF PollInv, PollTypeOK, Fresh
  <1> QED BY <1>6, <1>8, <1>9, <1>10

\* The timers of a visit: none once it is over.
LEMMA ScheduledTimers ==
  ASSUME NEW v \in Visits, NEW P \in SUBSET Pollers, page[v] \in Pages,
         Destroyed(v) => page[v].timers = {}
  PROVE  /\ Scheduled(v, P) \in SUBSET Pollers
         /\ Destroyed(v) => Scheduled(v, P) = {}
  BY DEF Scheduled, Pages

LEMMA PollInvInit == PollInit => PollInv
  <1> SUFFICES ASSUME PollInit PROVE PollInv
    OBVIOUS
  <1> USE PollingAssumption
  <1>1. 1 \in Visits /\ Mounted(tab) \in Pages /\ Unopened \in Pages
    BY DEF Visits, Mounted, Unopened, Pages
  <1>2. /\ page \in [Visits -> Pages] /\ page[1] = Mounted(tab)
        /\ \A v \in Visits : v # 1 => page[v] = Unopened
    BY <1>1 DEF PollInit
  <1>3. \A c \in calls : /\ c \in Calls /\ c.visit = 1 /\ c.pc = "sent" /\ c.got = 0 /\ c.poller \in page[1].inFlight
                         /\ c = NewCall(c.poller, 1, "mount")
    BY <1>1, <1>2 DEF PollInit, MountCalls, NewCall, Calls, Mounted
  <1>4. PollTypeOK
    BY <1>1, <1>2, <1>3 DEF PollInit, PollTypeOK
  <1>5. CallsInv(calls) /\ Flagged(calls, page) /\ UpToDate
    BY <1>3 DEF CallsInv, SingleLoads, Apart, Flagged, UpToDate
  <1>6. VisitsInv
    BY <1>2, <1>3 DEF PollInit, VisitsInv, NoTimerAfterLeaving, Destroyed, Visits
  <1>7. Fresh
    BY <1>3 DEF PollInit, Fresh
  <1> QED BY <1>4, <1>5, <1>6, <1>7 DEF PollInv

LEMMA TimerFiresKeeps ==
  ASSUME PollInv, NEW p \in Pollers, TimerFires(p)
  PROVE  PollInv' /\ shown' = shown
  <1> USE PollingAssumption
  <1>0. /\ UNCHANGED <<kind, tab, visit, newest, shown, mishaps>> /\ visit \in Visits
        /\ page \in [Visits -> Pages] /\ page[visit] \in Pages /\ p \in page[visit].timers
        /\ ~Destroyed(visit) /\ visit \in Nat
    BY DEF TimerFires, PollInv, PollTypeOK, VisitsInv, NoTimerAfterLeaving, Visits
  <1>1. CASE MayLoad(visit, p)
    <2>1. /\ calls' = Sent({NewCall(q, visit, "schedule") : q \in {p}})
          /\ page' = [page EXCEPT ![visit].inFlight = @ \union {p}, ![visit].timers = @ \ {p}]
          /\ p \notin page[visit].inFlight
      BY <1>1 DEF TimerFires, MayLoad
    <2>2. page' \in [Visits -> Pages]
      BY <1>0, <2>1 DEF Pages
    <2>3. /\ page'[visit].inFlight = page[visit].inFlight \union {p}
          /\ \A w \in Visits : w # visit => page'[w] = page[w]
          /\ page'[visit].timers = page[visit].timers \ {p}
      BY <1>0, <2>1 DEF Pages
    <2>4. /\ CallsInv(calls)' /\ Flagged(calls, page)' /\ UpToDate' /\ Fresh'
          /\ \A c \in calls' : c.visit <= visit'
      <3>1. {p} \in SUBSET Pollers /\ {p} \intersect page[visit].inFlight = {} /\ visit <= visit
        BY <1>0, <2>1
      <3>2. \A w \in Visits : page[w].inFlight \subseteq page'[w].inFlight
        BY <2>3
      <3> QED BY <1>0, <2>1, <2>3, <3>1, <3>2, SendStep
    <2>5. VisitsInv'
      BY <1>0, <2>3, <2>4 DEF PollInv, VisitsInv, NoTimerAfterLeaving, Destroyed, Visits
    <2>6. PollTypeOK' /\ Fresh'
      BY <1>0, <2>2, <2>4 DEF PollInv, PollTypeOK, CallsInv, Fresh
    <2> QED BY <1>0, <2>4, <2>5, <2>6 DEF PollInv
  <1>2. CASE ~MayLoad(visit, p)
    <2>1. /\ calls' = calls /\ page' = [page EXCEPT ![visit].timers = Scheduled(visit, {p})]
      BY <1>2 DEF TimerFires
    <2>2. Scheduled(visit, {p}) \in SUBSET Pollers
      BY <1>0, ScheduledTimers
    <2>3. page' \in [Visits -> Pages] /\ page'[visit].inFlight = page[visit].inFlight
          /\ \A w \in Visits : w # visit => page'[w] = page[w]
      BY <1>0, <2>1, <2>2 DEF Pages
    <2>4. VisitsInv'
      BY <1>0, <2>1, <2>3 DEF PollInv, VisitsInv, NoTimerAfterLeaving, Destroyed, Visits
    <2>5. CallsInv(calls)' /\ UpToDate'
      BY <1>0, <2>1 DEF PollInv, CallsInv, SingleLoads, Apart, UpToDate, Stored
    <2>6. Flagged(calls, page)'
      BY <1>0, <2>1, <2>3 DEF PollInv, Flagged, CallsInv, Calls
    <2>7. PollTypeOK' /\ Fresh'
      BY <1>0, <2>1, <2>3 DEF PollInv, PollTypeOK, Fresh
    <2> QED BY <1>0, <2>4, <2>5, <2>6, <2>7 DEF PollInv
  <1> QED BY <1>1, <1>2

LEMMA BecomeVisibleKeeps ==
  ASSUME PollInv, BecomeVisible
  PROVE  PollInv' /\ shown' = shown
  <1> USE PollingAssumption
  <1> DEFINE L == Pollers \ page[visit].inFlight
  <1>1. /\ UNCHANGED <<kind, visit, newest, shown, mishaps>> /\ visit \in Visits
        /\ tab = "hidden" /\ tab' = "visible" /\ visit \in Nat
        /\ page \in [Visits -> Pages] /\ page[visit] \in Pages
        /\ calls' = Sent({NewCall(p, visit, "nothing") : p \in L})
        /\ page' = [page EXCEPT ![visit].inFlight = Pollers,
                                ![visit].timers = Scheduled(visit, Pollers)]
    BY DEF BecomeVisible, PollInv, PollTypeOK, Visits
  <1>2. Scheduled(visit, Pollers) \in SUBSET Pollers
    BY <1>1 DEF Scheduled, Pages
  <1>3. /\ page' \in [Visits -> Pages] /\ page'[visit].inFlight = Pollers
        /\ \A w \in Visits : w # visit => page'[w] = page[w]
    BY <1>1, <1>2 DEF Pages
  <1>4. /\ CallsInv(calls)' /\ Flagged(calls, page)' /\ UpToDate' /\ Fresh'
        /\ \A c \in calls' : c.visit <= visit'
    <2>1. L \in SUBSET Pollers /\ L \intersect page[visit].inFlight = {} /\ L \subseteq page'[visit].inFlight
      BY <1>3
    <2>2. \A w \in Visits : page[w].inFlight \subseteq page'[w].inFlight
      BY <1>1, <1>3 DEF Pages
    <2>3. visit <= visit
      BY <1>1
    <2> HIDE DEF L
    <2> QED BY <1>1, <2>1, <2>2, <2>3, SendStep
  <1>5. VisitsInv'
    BY <1>1, <1>3, <1>4 DEF PollInv, VisitsInv, NoTimerAfterLeaving, Destroyed, Visits
  <1>6. PollTypeOK' /\ Fresh'
    BY <1>1, <1>3, <1>4 DEF PollInv, PollTypeOK, CallsInv, Fresh
  <1> QED BY <1>1, <1>4, <1>5, <1>6 DEF PollInv

LEMMA ClickKeeps ==
  ASSUME PollInv, NEW v \in Visits, Click(v)
  PROVE  PollInv' /\ shown' = shown
  <1> USE PollingAssumption
  <1> DEFINE L == {p \in Pollers : MayLoad(v, p)}
  <1>1. /\ UNCHANGED <<kind, tab, visit, newest, shown>> /\ v <= visit /\ mishaps' \in 0..MaxMishaps
        /\ page \in [Visits -> Pages] /\ page[v] \in Pages
        /\ calls' = Sent({NewCall(p, v, "nothing") : p \in L})
        /\ page' = [page EXCEPT ![v].inFlight = @ \union L]
    BY DEF Click, Load, PollInv, PollTypeOK
  <1>2. L \in SUBSET Pollers /\ L \intersect page[v].inFlight = {}
    BY DEF MayLoad
  <1> HIDE DEF L
  <1>3. /\ page' \in [Visits -> Pages]
        /\ page'[v].inFlight = page[v].inFlight \union L /\ page'[v].timers = page[v].timers
        /\ \A w \in Visits : w # v => page'[w] = page[w]
    BY <1>1, <1>2 DEF Pages
  <1>4. /\ CallsInv(calls)' /\ Flagged(calls, page)' /\ UpToDate' /\ Fresh'
        /\ \A c \in calls' : c.visit <= visit'
    <2>1. \A w \in Visits : page[w].inFlight \subseteq page'[w].inFlight
      BY <1>3
    <2>2. L \subseteq page'[v].inFlight
      BY <1>3
    <2> QED BY <1>1, <1>2, <2>1, <2>2, SendStep
  <1>5. VisitsInv'
    BY <1>1, <1>3, <1>4 DEF PollInv, PollTypeOK, VisitsInv, NoTimerAfterLeaving, Destroyed, Visits
  <1>6. PollTypeOK' /\ Fresh'
    BY <1>1, <1>3, <1>4 DEF PollInv, PollTypeOK, CallsInv, Fresh
  <1> QED BY <1>1, <1>4, <1>5, <1>6 DEF PollInv

LEMMA ToggleKeeps ==
  ASSUME PollInv, Toggle
  PROVE  PollInv' /\ shown' = shown
  <1> USE PollingAssumption
  <1>1. /\ UNCHANGED <<kind, tab, visit, page, newest, shown>> /\ mishaps' \in 0..MaxMishaps
        /\ visit \in Visits /\ visit \in Nat
        /\ calls' = Sent({NewCall(p, visit, "toggle") : p \in {Current}})
    <2>1. {NewCall(Current, visit, "toggle")} = {NewCall(p, visit, "toggle") : p \in {Current}}
      OBVIOUS
    <2>2. calls' = Sent({NewCall(Current, visit, "toggle")})
      BY DEF Toggle
    <2>3. /\ UNCHANGED <<kind, tab, visit, page, newest, shown>> /\ mishaps' \in 0..MaxMishaps
          /\ visit \in Visits /\ visit \in Nat
      BY DEF Toggle, PollInv, PollTypeOK, Visits
    <2> QED BY <2>1, <2>2, <2>3
  <1>2. /\ CallsInv(calls)' /\ Flagged(calls, page)' /\ UpToDate' /\ Fresh'
        /\ \A c \in calls' : c.visit <= visit'
    <2>1. {Current} \in SUBSET Pollers /\ visit <= visit
      BY <1>1
    <2>2. \A w \in Visits : page[w].inFlight \subseteq page'[w].inFlight
      BY <1>1
    <2> QED BY <1>1, <2>1, <2>2, SendStep
  <1>3. VisitsInv' /\ PollTypeOK' /\ Fresh'
    BY <1>1, <1>2 DEF PollInv, PollTypeOK, CallsInv, Fresh, VisitsInv, NoTimerAfterLeaving, Destroyed
  <1> QED BY <1>1, <1>2, <1>3 DEF PollInv

LEMMA LeaveKeeps ==
  ASSUME PollInv, Leave
  PROVE  PollInv' /\ shown' = shown
  <1> USE PollingAssumption
  <1>1. /\ UNCHANGED <<kind, visit, calls, newest, shown, mishaps>> /\ tab' = "left"
        /\ visit \in Visits /\ page \in [Visits -> Pages] /\ page[visit] \in Pages
        /\ page' = [page EXCEPT ![visit].timers = {}]
    BY DEF Leave, PollInv, PollTypeOK
  <1>2. /\ page' \in [Visits -> Pages] /\ page'[visit].inFlight = page[visit].inFlight
        /\ page'[visit].timers = {} /\ \A w \in Visits : w # visit => page'[w] = page[w]
    BY <1>1 DEF Pages
  <1>3. VisitsInv'
    <2>1. \A v \in Visits : v < visit \/ v = visit \/ v > visit
      BY <1>1 DEF Visits
    <2>2. \A v \in Visits : v < visit => page[v].timers = {}
      BY DEF PollInv, VisitsInv, NoTimerAfterLeaving, Destroyed
    <2>3. ASSUME NEW v \in Visits, v > visit
          PROVE  page'[v] = Unopened /\ page'[v].timers = {} /\ v # visit
      <3>1. v # visit /\ page[v] = Unopened
        BY <1>1, <2>3 DEF PollInv, VisitsInv, Visits
      <3>2. Unopened.timers = {}
        BY DEF Unopened
      <3> QED BY <1>2, <3>1, <3>2
    <2>4. \A v \in Visits : page'[v].timers = {}
      BY <1>2, <2>1, <2>2, <2>3
    <2> QED BY <1>1, <2>3, <2>4 DEF PollInv, VisitsInv, NoTimerAfterLeaving
  <1>4. CallsInv(calls)' /\ UpToDate'
    BY <1>1 DEF PollInv, CallsInv, SingleLoads, Apart, UpToDate, Stored
  <1>5. Flagged(calls, page)'
    BY <1>1, <1>2 DEF PollInv, Flagged, CallsInv, Calls
  <1>6. PollTypeOK' /\ Fresh'
    BY <1>1, <1>2 DEF PollInv, PollTypeOK, Fresh
  <1> QED BY <1>1, <1>3, <1>4, <1>5, <1>6 DEF PollInv

\* Opened again: nothing is in flight for the new visit, and the screen shows
\* what the store holds.
LEMMA ReopenKeeps ==
  ASSUME PollInv, Reopen
  PROVE  PollInv' /\ visit' # visit
  <1> USE PollingAssumption
  <1> DEFINE N == MountCalls(visit', tab')
  <1>1. /\ UNCHANGED <<kind, newest, mishaps>> /\ tab = "left" /\ tab' = "visible"
        /\ visit' = visit + 1 /\ visit \in Nat /\ visit' \in Visits /\ visit' # visit
        /\ page \in [Visits -> Pages] /\ page' = [page EXCEPT ![visit'] = Mounted(tab')]
        /\ calls' = Sent(N)
        /\ \A p \in Pollers : shown'[p] = IF Stored(p) THEN shown[p] ELSE 0
        /\ shown' \in [Pollers -> 0..MaxSnapshots]
    BY DEF Reopen, PollInv, PollTypeOK, Visits
  <1>2. Mounted(tab') \in Pages /\ Mounted(tab').inFlight = Pollers
    BY <1>1 DEF Mounted, Pages
  <1>3. /\ page' \in [Visits -> Pages] /\ page'[visit'].inFlight = Pollers
        /\ \A w \in Visits : w # visit' => page'[w] = page[w]
    BY <1>1, <1>2
  <1>4. /\ N \in SUBSET Calls
        /\ \A n \in N : n.visit = visit' /\ n.pc = "sent" /\ n.got = 0
        /\ \A n, m \in N : n.poller = m.poller => n = m
    BY <1>1, <1>2 DEF MountCalls, NewCall, Calls, Mounted
  <1>5. \A c \in calls : c.visit <= visit /\ c.visit # visit' /\ c \in Calls
    BY <1>1 DEF PollInv, VisitsInv, CallsInv, Calls, Visits
  <1> HIDE DEF N
  <1>6. CallsInv(calls)'
    <2>1. CallsInv(Sent(N))
      BY <1>4, <1>5, SentKeepsCalls DEF PollInv
    <2> QED BY <1>1, <2>1 DEF CallsInv, SingleLoads, Apart, Stored
  <1>7. ASSUME NEW s \in calls'
        PROVE  \/ \E c \in calls : /\ s.poller = c.poller /\ s.visit = c.visit
                                   /\ s.after = c.after /\ s.pc = c.pc /\ s.got = c.got
                                   /\ s.raced = 0 => c.raced = 0
               \/ s.pc = "sent" /\ s.visit = visit' /\ s.got = 0
    <2>1. CASE \E c \in calls : s = Marked(c, N)
      <3>1. PICK c \in calls : s = Marked(c, N)
        BY <2>1
      <3> QED BY <1>5, <3>1, MarkedFields
    <2>2. CASE \E n \in N : s = Marked(n, calls)
      <3>1. PICK n \in N : s = Marked(n, calls)
        BY <2>2
      <3> QED BY <1>4, <3>1, MarkedFields
    <2> QED BY <1>1, <2>1, <2>2 DEF Sent
  <1>8. Flagged(calls, page)'
    <2>1. \A s \in calls' : s.poller \in Pollers
      BY <1>6 DEF CallsInv, Calls
    <2>2. \A c \in calls : c.visit \in Visits /\ page'[c.visit] = page[c.visit]
      BY <1>3, <1>5 DEF Calls
    <2> QED BY <1>3, <1>7, <2>1, <2>2 DEF PollInv, Flagged
  <1>9. UpToDate'
    <2>1. \A s \in calls' : s.poller \in Pollers
      BY <1>6 DEF CallsInv, Calls
    <2>2. ASSUME NEW s \in calls', s.pc = "answered", s.raced = 0, s.visit = visit' \/ Stored(s.poller)'
          PROVE  s.got >= shown'[s.poller]
      <3>1. PICK c \in calls : /\ s.poller = c.poller /\ s.visit = c.visit /\ s.pc = c.pc
                               /\ s.got = c.got /\ c.raced = 0
        BY <1>7, <2>2
      <3>2. Stored(c.poller)
        BY <1>1, <1>5, <2>2, <3>1 DEF Stored
      <3> QED BY <1>1, <2>1, <2>2, <3>1, <3>2 DEF PollInv, UpToDate
    <2> QED BY <2>2 DEF UpToDate
  <1>10. VisitsInv'
    <2>1. \A w \in Visits : w > visit' => page'[w] = Unopened
      BY <1>1, <1>3 DEF PollInv, VisitsInv, Visits
    <2>2. \A s \in calls' : s.visit <= visit'
      <3>1. \A c \in calls : c.visit <= visit'
        BY <1>1, <1>5 DEF Calls, Visits
      <3> QED BY <1>1, <1>7, <3>1
    <2>3. ASSUME NEW w \in Visits, Destroyed(w)' PROVE page'[w].timers = {}
      <3>1. w < visit' /\ w # visit'
        BY <1>1, <2>3 DEF Destroyed, Visits
      <3>2. page[w].timers = {}
        BY <1>1 DEF PollInv, VisitsInv, NoTimerAfterLeaving, Destroyed
      <3> QED BY <1>3, <3>1, <3>2
    <2> QED BY <2>1, <2>2, <2>3 DEF VisitsInv, NoTimerAfterLeaving
  <1>11. PollTypeOK'
    BY <1>1, <1>3, <1>6 DEF PollInv, PollTypeOK, CallsInv
  <1>12. Fresh'
    BY <1>1, <1>7 DEF PollInv, PollTypeOK, Fresh
  <1> QED BY <1>1, <1>6, <1>8, <1>9, <1>10, <1>11, <1>12 DEF PollInv

\* A call that answers or fails keeps its place.
LEMMA ReplaceKeeps ==
  ASSUME CallsInv(calls), Flagged(calls, page), NEW c \in calls, NEW e \in Calls,
         e.poller = c.poller, e.visit = c.visit, e.after = c.after, e.raced = c.raced
  PROVE  LET C == (calls \ {c}) \union {e} IN CallsInv(C) /\ Flagged(C, page)
  BY DEF CallsInv, Flagged, SingleLoads, Apart

LEMMA AnswerOrFailureKeeps ==
  ASSUME PollInv, NEW c \in calls, ServerAnswers(c) \/ CallFails(c)
  PROVE  PollInv' /\ shown' = shown
  <1> USE PollingAssumption
  <1>2. /\ UNCHANGED <<kind, tab, visit, page, shown>> /\ mishaps' \in 0..MaxMishaps
        /\ newest' \in 0..MaxSnapshots /\ newest' >= newest /\ newest \in 0..MaxSnapshots
    BY DEF ServerAnswers, CallFails, PollInv, PollTypeOK
  <1>3. PICK f \in Calls :
          /\ calls' = (calls \ {c}) \union {f}
          /\ f.poller = c.poller /\ f.visit = c.visit /\ f.after = c.after /\ f.raced = c.raced
          /\ f.pc = "answered" => f.got = newest'
          /\ f.got <= newest'
    <2>1. CASE ServerAnswers(c)
      <3> DEFINE g == [c EXCEPT !.pc = "answered", !.got = newest']
      <3>1. calls' = (calls \ {c}) \union {g}
        BY <2>1 DEF ServerAnswers
      <3>2. /\ g \in Calls /\ g.poller = c.poller /\ g.visit = c.visit
            /\ g.after = c.after /\ g.raced = c.raced /\ g.pc = "answered" /\ g.got = newest'
        BY <1>2 DEF PollInv, CallsInv, Calls
      <3> HIDE DEF g
      <3> QED BY <1>2, <3>1, <3>2
    <2>2. CASE CallFails(c)
      <3> DEFINE g == [c EXCEPT !.pc = "failed", !.got = 0]
      <3>1. calls' = (calls \ {c}) \union {g}
        BY <2>2 DEF CallFails
      <3>2. /\ g \in Calls /\ g.poller = c.poller /\ g.visit = c.visit
            /\ g.after = c.after /\ g.raced = c.raced /\ g.pc = "failed" /\ g.got = 0
        <4>1. c \in Calls /\ 0 \in 0..MaxSnapshots
          BY DEF PollInv, CallsInv
        <4> QED BY <4>1 DEF Calls
      <3> HIDE DEF g
      <3> QED BY <1>2, <3>1, <3>2
    <2> QED BY <2>1, <2>2
  <1>4. calls' = (calls \ {c}) \union {f}
    BY <1>3
  <1>5. CallsInv(calls)' /\ Flagged(calls, page)'
    <2>1. CallsInv(calls') /\ Flagged(calls', page)
      BY <1>3, <1>4, ReplaceKeeps DEF PollInv
    <2> QED BY <1>2, <2>1 DEF CallsInv, SingleLoads, Apart, Stored, Flagged
  <1>6. \A p \in Pollers : shown'[p] <= newest'
    BY <1>2 DEF PollInv, PollTypeOK, Fresh
  <1>7. UpToDate'
    <2>1. ASSUME f.pc = "answered" PROVE f.got >= shown'[f.poller]
      BY <1>2, <1>3, <1>6, <2>1 DEF PollInv, PollTypeOK, Calls
    <2>2. \A d \in calls : d.pc = "answered" /\ d.raced = 0 /\ (d.visit = visit' \/ Stored(d.poller)')
                             => d.got >= shown'[d.poller]
      BY <1>2 DEF PollInv, UpToDate, Stored
    <2> QED BY <1>4, <2>1, <2>2 DEF UpToDate
  <1>8. VisitsInv'
    BY <1>2, <1>3, <1>4 DEF PollInv, VisitsInv, NoTimerAfterLeaving, Destroyed
  <1>9. PollTypeOK' /\ Fresh'
    <2>1. \A d \in calls : d.got <= newest'
      BY <1>2 DEF PollInv, Fresh, CallsInv, Calls
    <2> QED BY <1>2, <1>3, <1>4, <1>5, <1>6, <2>1 DEF PollInv, PollTypeOK, CallsInv, Fresh
  <1> QED BY <1>2, <1>5, <1>7, <1>8, <1>9 DEF PollInv

\* An answer that is shown has no rival left on its way, and nothing is armed on
\* a visit that is over.
LEMMA ArriveKeeps ==
  ASSUME PollInv, NEW c \in calls, Arrive(c)
  PROVE  /\ PollInv'
         /\ \A p \in Pollers : shown'[p] < shown[p] =>
              \E d \in calls \ calls' : d.poller = p /\ d.raced = 1
  <1> USE PollingAssumption
  <1>1. /\ UNCHANGED <<kind, tab, visit, newest, mishaps>> /\ calls' = calls \ {c}
        /\ shown' = IF Shows(c) THEN [shown EXCEPT ![c.poller] = c.got] ELSE shown
    BY DEF Arrive
  <1>2. /\ c \in Calls /\ c.poller \in Pollers /\ c.visit \in Visits /\ c.got \in 0..MaxSnapshots
        /\ c.raced \in {0, 1} /\ c.visit <= visit /\ visit \in Visits
        /\ shown \in [Pollers -> 0..MaxSnapshots] /\ page \in [Visits -> Pages]
    BY DEF PollInv, PollTypeOK, CallsInv, Calls, VisitsInv
  <1>3. \A p \in Pollers : p # c.poller \/ ~Shows(c) => shown'[p] = shown[p]
    BY <1>1, <1>2
  <1>4. Shows(c) => shown'[c.poller] = c.got
    BY <1>1, <1>2
  <1>5. PICK timers \in SUBSET Pollers, mounting \in SUBSET Pollers :
          /\ \/ page' = page /\ c.after = "toggle"
             \/ /\ c.after # "toggle"
                /\ page' = [page EXCEPT ![c.visit] =
                             [inFlight |-> page[c.visit].inFlight \ {c.poller},
                              timers |-> timers, mounting |-> mounting]]
          /\ Destroyed(c.visit) => timers = {}
    <2>1. CASE c.after = "toggle"
      BY <2>1 DEF Arrive
    <2>2. CASE c.after # "toggle"
      <3> DEFINE T == Scheduled(c.visit, FollowUp(c))
                 M == IF c.after = "mount" THEN page[c.visit].mounting \ {c.poller}
                      ELSE page[c.visit].mounting
      <3>1. page[c.visit] \in Pages /\ (Destroyed(c.visit) => page[c.visit].timers = {})
        BY <1>2 DEF PollInv, VisitsInv, NoTimerAfterLeaving
      <3>2. FollowUp(c) \in SUBSET Pollers
        BY <1>2 DEF FollowUp
      <3>3. T \in SUBSET Pollers /\ (Destroyed(c.visit) => T = {})
        BY <1>2, <3>1, <3>2, ScheduledTimers
      <3>4. M \in SUBSET Pollers
        BY <3>1 DEF Pages
      <3>5. page' = [page EXCEPT ![c.visit] =
                      [inFlight |-> page[c.visit].inFlight \ {c.poller}, timers |-> T, mounting |-> M]]
        BY <2>2 DEF Arrive
      <3> HIDE DEF T, M
      <3> QED BY <2>2, <3>3, <3>4, <3>5
    <2> QED BY <2>1, <2>2
  <1>6. /\ page' \in [Visits -> Pages] /\ \A w \in Visits : w # c.visit => page'[w] = page[w]
        /\ \A w \in Visits : page'[w].timers = page[w].timers \/ (w = c.visit /\ page'[w].timers = timers)
        /\ \A w \in Visits, p \in Pollers :
             p \in page[w].inFlight /\ (w # c.visit \/ p # c.poller \/ c.after = "toggle")
               => p \in page'[w].inFlight
    BY <1>2, <1>5 DEF Pages
  <1>7. CallsInv(calls)'
    BY <1>1 DEF PollInv, CallsInv, SingleLoads, Apart, Stored
  <1>8. Flagged(calls, page)'
    <2> SUFFICES ASSUME NEW d \in calls, d # c, d.after # "toggle"
                 PROVE  d.poller \in page'[d.visit].inFlight
      BY <1>1 DEF Flagged
    <2>1. d.visit \in Visits /\ d.poller \in Pollers /\ d.poller \in page[d.visit].inFlight
      BY DEF PollInv, CallsInv, Calls, Flagged
    <2>2. d.visit # c.visit \/ d.poller # c.poller \/ c.after = "toggle"
      BY DEF PollInv, CallsInv, SingleLoads
    <2> QED BY <1>6, <2>1, <2>2
  <1>9. VisitsInv'
    <2>1. \A w \in Visits : w > visit' => page'[w] = Unopened
      BY <1>1, <1>2, <1>6 DEF PollInv, VisitsInv, Visits
    <2>2. NoTimerAfterLeaving'
      <3>1. \A w \in Visits : Destroyed(w)' <=> Destroyed(w)
        BY <1>1 DEF Destroyed
      <3> QED BY <1>5, <1>6, <3>1 DEF PollInv, VisitsInv, NoTimerAfterLeaving
    <2> QED BY <1>1, <2>1, <2>2 DEF PollInv, VisitsInv
  <1>10. UpToDate'
    <2> SUFFICES ASSUME NEW d \in calls, d # c, d.pc = "answered", d.raced = 0,
                        d.visit = visit \/ Stored(d.poller)
                 PROVE  d.got >= shown'[d.poller]
      BY <1>1 DEF UpToDate, Stored
    <2>1. d.got >= shown[d.poller] /\ d.poller \in Pollers
      BY DEF PollInv, UpToDate, CallsInv, Calls
    <2>2. d.poller # c.poller \/ ~Shows(c)
      BY DEF PollInv, CallsInv, Apart, Shows
    <2> QED BY <1>3, <2>1, <2>2
  <1>11. PollTypeOK' /\ Fresh'
    <2>1. c.got <= newest
      BY DEF PollInv, Fresh
    <2> QED BY <1>1, <1>2, <1>3, <1>4, <1>6, <1>7, <2>1 DEF PollInv, PollTypeOK, CallsInv, Fresh, Shows
  <1>12. ASSUME NEW p \in Pollers, shown'[p] < shown[p]
         PROVE  \E d \in calls \ calls' : d.poller = p /\ d.raced = 1
    <2>1. p = c.poller /\ Shows(c)
      BY <1>2, <1>3, <1>12
    <2>2. c.raced = 1
      BY <1>2, <1>4, <1>12, <2>1 DEF PollInv, UpToDate, Shows
    <2> QED BY <1>1, <2>1, <2>2
  <1> QED BY <1>7, <1>8, <1>9, <1>10, <1>11, <1>12 DEF PollInv

LEMMA PollInvStep ==
  ASSUME PollInv, [PollNext]_pollVars
  PROVE  /\ PollInv'
         /\ [\A p \in Pollers : shown'[p] < shown[p] =>
               visit' # visit \/ \E c \in calls \ calls' : c.poller = p /\ c.raced = 1]_pollVars
  <1> USE PollingAssumption
  <1>0. shown \in [Pollers -> Nat] /\ \A p \in Pollers : ~(shown[p] < shown[p])
    BY DEF PollInv, PollTypeOK
  <1>1. ASSUME NEW p \in Pollers, TimerFires(p) PROVE PollInv' /\ shown' = shown
    BY <1>1, TimerFiresKeeps
  <1>2. CASE BecomeVisible
    BY <1>0, <1>2, BecomeVisibleKeeps
  <1>3. ASSUME NEW v \in Visits, Click(v) PROVE PollInv' /\ shown' = shown
    BY <1>3, ClickKeeps
  <1>4. CASE Toggle
    BY <1>0, <1>4, ToggleKeeps
  <1>5. CASE Leave
    BY <1>0, <1>5, LeaveKeeps
  <1>6. CASE Reopen
    BY <1>6, ReopenKeeps
  <1>7. ASSUME NEW c \in calls, ServerAnswers(c) \/ CallFails(c) PROVE PollInv' /\ shown' = shown
    BY <1>7, AnswerOrFailureKeeps
  <1>8. CASE BecomeHidden \/ DataChanges \/ UNCHANGED pollVars
    <2>1. /\ UNCHANGED <<kind, visit, page, calls, shown, mishaps>>
          /\ tab' \in {"visible", "hidden", "left"} /\ (tab' = "left" => tab = "left")
          /\ newest' \in 0..MaxSnapshots /\ newest' >= newest /\ newest \in 0..MaxSnapshots
      BY <1>8 DEF BecomeHidden, DataChanges, pollVars, PollInv, PollTypeOK
    <2>2. CallsInv(calls)' /\ Flagged(calls, page)' /\ UpToDate'
      BY <2>1 DEF PollInv, CallsInv, SingleLoads, Apart, Flagged, UpToDate, Stored
    <2>3. VisitsInv'
      BY <2>1 DEF PollInv, VisitsInv, NoTimerAfterLeaving, Destroyed
    <2>4. Fresh'
      <3>1. \A p \in Pollers : shown[p] \in Nat
        BY <1>0
      <3>2. \A c \in calls : c.got \in Nat
        BY DEF PollInv, CallsInv, Calls
      <3> QED BY <2>1, <3>1, <3>2 DEF PollInv, Fresh
    <2> QED BY <1>0, <2>1, <2>2, <2>3, <2>4 DEF PollInv, PollTypeOK
  <1>9. ASSUME NEW c \in calls, Arrive(c)
        PROVE  PollInv' /\ \A p \in Pollers : shown'[p] < shown[p] =>
                             \E d \in calls \ calls' : d.poller = p /\ d.raced = 1
    BY <1>9, ArriveKeeps
  <1> QED BY <1>0, <1>1, <1>2, <1>3, <1>4, <1>5, <1>6, <1>7, <1>8, <1>9 DEF PollNext

\* What is shown goes back only where calls raced that the flag does not keep
\* apart, in whatever order answers arrive, however often the tab is hidden and
\* shown, the page left and opened again ((app)/+page.svelte 57-97, monitors/[id]
\* 101-142 and 212-222).
THEOREM PollingGoesBackOnlyInRaces == PollSpec => GoesBackOnlyInRaces
  <1>1. PollInv /\ [PollNext]_pollVars => PollInv'
    BY PollInvStep
  <1>2. PollInv /\ [PollNext]_pollVars =>
          [\A p \in Pollers : shown'[p] < shown[p] =>
             visit' # visit \/ \E c \in calls \ calls' : c.poller = p /\ c.raced = 1]_pollVars
    BY PollInvStep
  <1> QED BY <1>1, <1>2, PollInvInit, PTL DEF PollSpec, GoesBackOnlyInRaces

\* A page that was left arms no timer, whatever was still loading, and however
\* many visits came after it ((app)/+page.svelte 103-117 and 147-159).
THEOREM PollingStopsAfterLeaving == PollSpec => []NoTimerAfterLeaving
  <1>1. PollInv => NoTimerAfterLeaving
    BY DEF PollInv, VisitsInv
  <1>2. PollInv /\ [PollNext]_pollVars => PollInv'
    BY PollInvStep
  <1> QED BY <1>1, <1>2, PollInvInit, PTL DEF PollSpec

-----------------------------------------------------------------------------
(* The parts side by side.                                                 *)

\* Whatever a step of the whole is, it is a step or a stutter of every part.
LEMMA EveryPartSteps ==
  ASSUME [BackgroundNext]_backgroundVars
  PROVE  /\ [Next]_vars /\ [AdmissionNext]_admissionVars /\ [CheckNext]_checkVars
         /\ [LegacyNext]_legacyVars /\ [DeployNext]_deployVars
         /\ [NodeNext]_nodeVars /\ [PollNext]_pollVars
  BY Zenon DEF BackgroundNext, backgroundVars

\* A part at rest satisfies the invariant of its own proof.
LEMMA HistoryRests == HistoryAtRest => LegacyTypeInv
  <1> SUFFICES ASSUME HistoryAtRest PROVE LegacyTypeInv
    OBVIOUS
  <1>1. \A r \in Sweepers : sweep[r] = Local("idle", 0, 0, {})
    BY DEF HistoryAtRest
  <1> QED
    BY <1>1, LegacyAssumption DEF HistoryAtRest, LegacyTypeInv, LegacyTypeOK, Clock, LogStates,
       Settings, Sweep, Local, Logs

LEMMA NodeRests == NodeAtRest => NodeInv
  <1> SUFFICES ASSUME NodeAtRest PROVE NodeInv
    OBVIOUS
  <1>1. NodeTypeOK
    BY NodeAssumption DEF NodeAtRest, NodeTypeOK, Files, Columns
  <1>2. file.tables = Tables /\ file.triggers = 1 /\ file.columns = Columns /\ file.index = 1
        /\ file.oneOpen = 1 /\ file.openIncidents = 0 /\ file.cursor = "set" /\ file.rawLogs = 0
        /\ file.marked = 1 /\ boot = "serving" /\ column = NumColumns
    BY DEF NodeAtRest
  <1>3. ColumnsSoFar /\ SchemaSoFar
    BY <1>2, NodeAssumption DEF ColumnsSoFar, SchemaSoFar, Columns
  <1>4. IndexHolds /\ MarkHolds
    BY <1>2 DEF IndexHolds, MarkHolds
  <1> QED BY <1>1, <1>3, <1>4 DEF NodeInv

LEMMA PageRests == PageAtRest => PollInv
  <1> SUFFICES ASSUME PageAtRest PROVE PollInv
    OBVIOUS
  <1> USE PollingAssumption
  <1>1. /\ Unopened \in Pages /\ visit = MaxVisits /\ calls = {} /\ newest = 1
        /\ page = [v \in Visits |-> Unopened] /\ shown = [p \in Pollers |-> 1]
    BY DEF PageAtRest, Unopened, Pages
  <1>2. PollTypeOK
    BY <1>1 DEF PageAtRest, PollTypeOK, Visits
  <1>3. CallsInv(calls) /\ Flagged(calls, page) /\ UpToDate /\ Fresh
    BY <1>1 DEF CallsInv, SingleLoads, Apart, Flagged, UpToDate, Fresh
  <1>4. VisitsInv
    BY <1>1 DEF VisitsInv, NoTimerAfterLeaving, Unopened, Visits
  <1> QED BY <1>2, <1>3, <1>4 DEF PollInv

\* The invariants of the parts.
BackgroundInv ==
  LeaseInv /\ AdmissionInv /\ CheckInv /\ LegacyTypeInv /\ DeployInv /\ NodeInv /\ PollInv

LEMMA BackgroundStarts == BackgroundInit => BackgroundInv
  <1> SUFFICES ASSUME BackgroundInit PROVE BackgroundInv
    OBVIOUS
  <1>1. Init /\ AdmissionInit /\ CheckInit /\ DeployInit
    BY Zenon DEF BackgroundInit
  <1>2. (PollInit \/ PageAtRest) /\ (NodeInit \/ NodeAtRest) /\ (LegacyInit \/ HistoryAtRest)
    BY Zenon DEF BackgroundInit
  <1> QED
    BY Zenon, <1>1, <1>2, InitEstablishesLeaseInv, AdmissionStarts, CheckInvInit, DeployInvInit,
       LegacyTypesStart, HistoryRests, NodeInvInit, NodeRests, PollInvInit, PageRests
       DEF BackgroundInv

LEMMA BackgroundStep == BackgroundInv /\ [BackgroundNext]_backgroundVars => BackgroundInv'
  <1> SUFFICES ASSUME BackgroundInv, [BackgroundNext]_backgroundVars PROVE BackgroundInv'
    OBVIOUS
  <1>1. LeaseInv' /\ AdmissionInv' /\ CheckInv' /\ LegacyTypeInv'
    BY Zenon, EveryPartSteps, StepPreservesLeaseInv, AdmissionStep, CheckInvStep, LegacyTypesStep
       DEF BackgroundInv
  <1>2. DeployInv' /\ NodeInv' /\ PollInv'
    BY Zenon, EveryPartSteps, DeployInvStep, NodeInvStep, PollInvStep DEF BackgroundInv
  <1> QED BY Zenon, <1>1, <1>2 DEF BackgroundInv

LEMMA BackgroundTypesFollow == BackgroundInv => BackgroundTypeOK
  BY Zenon DEF BackgroundInv, BackgroundTypeOK, LeaseInv, AdmissionInv, CheckInv, LegacyTypeInv,
     DeployInv, SchemaInv, NodeInv, PollInv

\* For any number of runs, checks, rows of history, migrations, columns and
\* calls of a page, no count leaves its range, a batch never claims rows that
\* are not there, no schema holds a column out of reach (migrate.ts 387-438,
\* cron.ts 19-42, rollup-backfill.ts, (app)/+page.svelte 57-97).
THEOREM BackgroundKeepsTypes == BackgroundSpec => []BackgroundTypeOK
  BY BackgroundStarts, BackgroundStep, BackgroundTypesFollow, PTL DEF BackgroundSpec

=============================================================================
