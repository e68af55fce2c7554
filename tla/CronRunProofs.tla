---------------------------- MODULE CronRunProofs ---------------------------
(***************************************************************************)
(* Proofs about a cron run, for any invocations, monitors, checks, rows    *)
(* and bounds: its lease (SchedulerLease), which monitors it admits and    *)
(* what that costs (CheckAdmission), when a check ends (Checker), and the  *)
(* history of the old Worker it catches up with (LegacyHistory).           *)
(***************************************************************************)
EXTENDS SchedulerLease, CheckAdmission, Checker, LegacyHistory, FiniteSums

-----------------------------------------------------------------------------
(* The lease.                                                              *)

USE LeaseAssumption

\* The row's unexpired term belongs to its holder, a run that has acquired.
RowIsHoldersTerm ==
  /\ holder \in Runs => pc[holder] \in WorkingPhases \union {"done"}
  /\ leaseUntil > 0 => holder \in Runs /\ leaseUntil = term[holder]
  /\ holder \in Runs /\ Working(holder) => leaseUntil = term[holder]

\* A clock value a run has read is not in the future.
StampsArePast == \A r \in Runs : stamp[r] <= now

\* A run is displaced only once its own term has ended.
DisplacedHasExpired == \A r \in Runs : Displaced(r) => term[r] <= now

LeaseInv ==
  /\ TypeOK
  /\ RowIsHoldersTerm
  /\ StampsArePast
  /\ DisplacedHasExpired

-----------------------------------------------------------------------------

LEMMA InitEstablishesLeaseInv == Init => LeaseInv
<1> SUFFICES ASSUME Init
             PROVE  LeaseInv
  OBVIOUS
<1>1. TypeOK
  BY DEF Init, TypeOK, Phases
<1>2. RowIsHoldersTerm /\ StampsArePast /\ DisplacedHasExpired
  BY DEF Init, RowIsHoldersTerm, StampsArePast, DisplacedHasExpired, Displaced,
         Working, WorkingPhases
<1> QED
  BY <1>1, <1>2 DEF LeaseInv

\* One step per action: what each leaves of the four parts of LeaseInv.
LEMMA StepPreservesLeaseInv == LeaseInv /\ [Next]_vars => LeaseInv'
<1> SUFFICES ASSUME LeaseInv, [Next]_vars
             PROVE  LeaseInv'
  OBVIOUS
<1> USE DEF LeaseInv, TypeOK, RowIsHoldersTerm, StampsArePast,
            DisplacedHasExpired, Displaced, Working, WorkingPhases, Phases
<1>1. CASE Tick
  BY <1>1 DEF Tick, row, run
<1>2. ASSUME NEW r \in Runs, Start(r)
      PROVE  LeaseInv'
  BY <1>2 DEF Start, row
<1>3. ASSUME NEW r \in Runs, Acquire(r)
      PROVE  LeaseInv'
  BY <1>3 DEF Acquire, LeaseFree, WriteLease
<1>4. ASSUME NEW r \in Runs, Skip(r)
      PROVE  LeaseInv'
  BY <1>4 DEF Skip, row
<1>5. ASSUME NEW r \in Runs, NothingDue(r)
      PROVE  LeaseInv'
  BY <1>5 DEF NothingDue, row
<1>6. ASSUME NEW r \in Runs, BeginRenewal(r)
      PROVE  LeaseInv'
  BY <1>6 DEF BeginRenewal, row
<1>7. ASSUME NEW r \in Runs, Renew(r)
      PROVE  LeaseInv'
  BY <1>7 DEF Renew, HoldsLease, WriteLease
<1>8. ASSUME NEW r \in Runs, LoseLease(r)
      PROVE  LeaseInv'
  BY <1>8 DEF LoseLease, row
<1>9. ASSUME NEW r \in Runs, Persist(r)
      PROVE  LeaseInv'
  BY <1>9 DEF Persist, row
<1>10. ASSUME NEW r \in Runs, FinishAlerts(r)
       PROVE  LeaseInv'
  BY <1>10 DEF FinishAlerts, row
<1>11. ASSUME NEW r \in Runs, Throw(r)
       PROVE  LeaseInv'
  BY <1>11 DEF Throw, row
<1>12. ASSUME NEW r \in Runs, Release(r)
       PROVE  LeaseInv'
  BY <1>12 DEF Release, HoldsLease
<1>13. ASSUME NEW r \in Runs, ReleaseFails(r)
       PROVE  LeaseInv'
  BY <1>13 DEF ReleaseFails, row
<1>14. CASE UNCHANGED vars
  BY <1>14 DEF vars, row, run
<1> QED
  BY <1>1, <1>2, <1>3, <1>4, <1>5, <1>6, <1>7, <1>8, <1>9, <1>10, <1>11,
     <1>12, <1>13, <1>14 DEF Next, Step

\* The inductive invariant holds of every behaviour of cron.ts's lease.
THEOREM LeaseInvariant == Spec => []LeaseInv
  BY InitEstablishesLeaseInv, StepPreservesLeaseInv, PTL DEF Spec

\* Every variable of the lease and of its runs keeps its type.
THEOREM LeaseTypeOK == Spec => []TypeOK
<1>1. LeaseInv => TypeOK
  BY DEF LeaseInv
<1> QED
  BY <1>1, LeaseInvariant, PTL

\* Two runs are never both inside the term they were granted.
THEOREM LeaseTermsExclusive == Spec => []TermsExclusive
<1>1. LeaseInv => TermsExclusive
  BY DEF LeaseInv, TypeOK, DisplacedHasExpired, Displaced, TermsExclusive
<1> QED
  BY <1>1, LeaseInvariant, PTL

\* A displaced run begins no batch and leaves its successor's row alone.
THEOREM LeaseFencesDisplacedRuns == Spec => DisplacedRunIsFenced
<1>1. ASSUME LeaseInv, [Next]_vars, NEW r \in Runs, Displaced(r),
             pc'[r] # pc[r]
      PROVE  /\ pc'[r] \in {"renewing", "alerting", "releasing", "done"}
             /\ UNCHANGED row
  <2> USE DEF Displaced, Working, WorkingPhases
  <2>1. PICK q \in Runs : Step(q)
    BY <1>1 DEF Next, Tick, vars, run
  <2>2. q = r
    BY <1>1, <2>1 DEF LeaseInv, TypeOK, Step, Start, Acquire, Skip, NothingDue,
       BeginRenewal, Renew, LoseLease, Persist, FinishAlerts, Throw, Release,
       ReleaseFails
  <2>3. Step(r)
    BY <2>1, <2>2
  <2> QED
    BY <1>1, <2>3 DEF LeaseInv, TypeOK, Step, Start, Acquire, Skip, NothingDue,
       BeginRenewal, Renew, LoseLease, Persist, FinishAlerts, Throw, Release,
       ReleaseFails, HoldsLease, row
<1>2. LeaseInv /\ [Next]_vars =>
        [\A r \in Runs : Displaced(r) /\ pc'[r] # pc[r] =>
           /\ pc'[r] \in {"renewing", "alerting", "releasing", "done"}
           /\ UNCHANGED row]_vars
  BY <1>1
<1> QED
  BY <1>2, LeaseInvariant, PTL DEF Spec, DisplacedRunIsFenced

\* A run is turned away only by another run's unexpired term.
THEOREM LeaseBlockedByLiveTermOnly == Spec => BlockedByLiveTermOnly
<1>1. ASSUME LeaseInv, [Next]_vars, NEW r \in Runs,
             pc[r] = "acquiring", pc'[r] = "skipped"
      PROVE  \E q \in Runs \ {r} : holder = q /\ stamp[r] < term[q]
  <2>1. PICK q \in Runs : Step(q)
    BY <1>1 DEF Next, Tick, vars, run
  <2>2. Skip(r)
    BY <1>1, <2>1 DEF LeaseInv, TypeOK, Step, Start, Acquire, Skip, NothingDue,
       BeginRenewal, Renew, LoseLease, Persist, FinishAlerts, Throw, Release,
       ReleaseFails
  <2>3. leaseUntil > 0 /\ stamp[r] < leaseUntil
    BY <1>1, <2>2 DEF LeaseInv, TypeOK, Skip, LeaseFree
  <2>4. holder \in Runs /\ leaseUntil = term[holder] /\ holder # r
    BY <1>1, <2>3 DEF LeaseInv, RowIsHoldersTerm, WorkingPhases
  <2> QED
    BY <2>3, <2>4
<1>2. LeaseInv /\ [Next]_vars =>
        [\A r \in Runs : pc[r] = "acquiring" /\ pc'[r] = "skipped" =>
           \E q \in Runs \ {r} : holder = q /\ stamp[r] < term[q]]_vars
  BY <1>1
<1> QED
  BY <1>2, LeaseInvariant, PTL DEF Spec, BlockedByLiveTermOnly

HIDE LeaseAssumption

-----------------------------------------------------------------------------
(* The order in which monitors are due, and the first of them.             *)

LEMMA MonitorsFinite ==
  /\ IsFiniteSet(MonitorNos) /\ Cardinality(MonitorNos) = NumMonitors
  /\ MonitorNos \subseteq Nat
<1>1. NumMonitors \in Nat /\ 1 \in Int /\ NumMonitors \in Int
  BY AdmissionAssumption
<1>2. /\ IsFiniteSet(1..NumMonitors)
      /\ Cardinality(1..NumMonitors) = IF 1 > NumMonitors THEN 0 ELSE NumMonitors - 1 + 1
  BY <1>1, FS_Interval
<1> QED
  BY <1>1, <1>2 DEF MonitorNos

LEMMA DueOrder ==
  ASSUME AdmissionTypeOK
  PROVE  /\ \A m \in MonitorNos : ~DueBefore(m, m)
         /\ \A m, n \in MonitorNos : m = n \/ DueBefore(m, n) \/ DueBefore(n, m)
         /\ \A m, n, x \in MonitorNos :
              DueBefore(m, n) /\ DueBefore(n, x) => DueBefore(m, x)
<1>1. /\ \A m \in MonitorNos : dueIn[m] \in Int /\ m \in Int
  BY MonitorsFinite DEF AdmissionTypeOK
<1> QED
  BY <1>1 DEF DueBefore

\* The members of S before m.
Before(S, m) == {n \in S : DueBefore(n, m)}

LEMMA BeforeGrows ==
  ASSUME AdmissionTypeOK, NEW S \in SUBSET MonitorNos, NEW m \in S, NEW n \in S
  PROVE  /\ Cardinality(Before(S, m)) \in Nat
         /\ DueBefore(n, m) => Cardinality(Before(S, n)) < Cardinality(Before(S, m))
<1>1. IsFiniteSet(S)
  BY MonitorsFinite, FS_Subset
<1>2. IsFiniteSet(Before(S, m)) /\ IsFiniteSet(Before(S, n))
  BY <1>1, FS_Subset DEF Before
<1>3. ASSUME DueBefore(n, m)
      PROVE  /\ Before(S, n) \in SUBSET Before(S, m) /\ Before(S, n) # Before(S, m)
  BY <1>3, DueOrder DEF Before
<1> QED
  BY <1>2, <1>3, FS_Subset, FS_CardinalityType

LEMMA FirstOfFacts ==
  ASSUME AdmissionTypeOK, NEW S \in SUBSET MonitorNos, NEW k \in Nat
  PROVE  /\ FirstOf(k, S) \in SUBSET S
         /\ \A n \in FirstOf(k, S), m \in S \ FirstOf(k, S) : DueBefore(n, m)
         /\ Cardinality(FirstOf(k, S)) \in Nat /\ Cardinality(FirstOf(k, S)) <= k
         /\ S # {} /\ k > 0 => FirstOf(k, S) # {}
<1> DEFINE F == FirstOf(k, S)
<1>1. F = {m \in S : Cardinality(Before(S, m)) < k}
  BY DEF FirstOf, Before
<1>2. \A m \in S : Cardinality(Before(S, m)) \in Nat
  BY BeforeGrows
<1>3. ASSUME NEW n \in F, NEW m \in S \ F PROVE DueBefore(n, m)
  <2>1. n \in S /\ Cardinality(Before(S, n)) < Cardinality(Before(S, m))
    BY <1>1, <1>2
  <2>2. ~DueBefore(m, n) /\ m # n
    BY <2>1, <1>2, <1>3, BeforeGrows
  <2> QED
    BY <2>1, <2>2, DueOrder
<1>4. IsFiniteSet(F) /\ Cardinality(F) \in Nat
  BY <1>1, MonitorsFinite, FS_Subset, FS_CardinalityType
<1>5. Cardinality(F) <= k
  <2> DEFINE rank == [m \in F |-> Cardinality(Before(S, m))]
  <2>1. rank \in [F -> 0..(k - 1)]
    BY <1>1, <1>2
  <2>2. ASSUME NEW m \in F, NEW n \in F, rank[m] = rank[n] PROVE m = n
    <3>1. m \in S /\ n \in S /\ Cardinality(Before(S, m)) = Cardinality(Before(S, n))
      BY <1>1, <2>2
    <3>2. ~DueBefore(m, n) /\ ~DueBefore(n, m)
      BY <1>2, <3>1, BeforeGrows
    <3> QED
      BY <3>1, <3>2, DueOrder
  <2>3. rank \in Injection(F, 0..(k - 1))
    BY <2>1, <2>2 DEF Injection, IsInjective
  <2>4. IsFiniteSet(0..(k - 1)) /\ Cardinality(0..(k - 1)) = k
    BY FS_Interval
  <2> HIDE DEF rank, F
  <2> QED
    BY <1>4, <2>3, <2>4, FS_Injection
<1>6. ASSUME S # {}, k > 0 PROVE F # {}
  <2> DEFINE ranks == {Cardinality(Before(S, m)) : m \in S}
  <2>1. ranks \subseteq Nat /\ ranks # {}
    BY <1>2, <1>6
  <2>2. PICK r \in ranks : \A q \in ranks : r <= q
    BY <2>1, LeastNumber
  <2>3. PICK m \in S : \A n \in S : Cardinality(Before(S, m)) <= Cardinality(Before(S, n))
    BY <2>2
  <2>4. Before(S, m) = {}
    <3> SUFFICES ASSUME NEW n \in Before(S, m) PROVE FALSE
      OBVIOUS
    <3>1. n \in S /\ DueBefore(n, m)
      BY DEF Before
    <3> QED
      BY <1>2, <2>3, <3>1, BeforeGrows
  <2>5. Cardinality(Before(S, m)) = 0
    BY <2>4, FS_EmptySet
  <2> QED
    BY <1>1, <1>6, <2>5
<1> QED
  BY <1>1, <1>3, <1>4, <1>5, <1>6

-----------------------------------------------------------------------------
(* The invariant of admission.                                             *)

DueNow == {m \in MonitorNos : dueIn[m] <= 0}

CronRow ==
  [pc: {"idle", "admitting", "alerting"}, reserved: {0, 1},
   due: SUBSET MonitorNos, checked: SUBSET MonitorNos, used: Nat, sent: Nat]

\* Whatever was checked was due before whatever was left.
EarliestFirst ==
  \A n \in cron.checked, m \in DueNow \ cron.checked : DueBefore(n, m)

\* An invocation that still admits batches has charged what it sends, leaves the
\* drain its share, and affords its first batch.
AdmittingInv ==
  cron.pc = "admitting" =>
    /\ cron.sent <= cron.reserved + cron.used + 7
    /\ cron.reserved + cron.used <= ObservationBudget
    /\ cron.due = FirstOf(MaxChecksPerRun, DueNow) /\ cron.due # {}
    /\ cron.checked \subseteq cron.due
    /\ cron.checked = {} => cron.used <= 7
    /\ EarliestFirst

\* The scheduled invocation of this minute has yet to come, or to end.
Upcoming == trigger + (IF cron.pc = "admitting" /\ cron.reserved = 0 THEN 1 ELSE 0)

Ahead(m) == {n \in MonitorNos : DueBefore(n, m)}

\* The minutes a monitor has waited and the monitors that go before it.
Waiting ==
  \A m \in DueNow :
    Cardinality(Ahead(m)) - dueIn[m] <= NumMonitors - 2 + setbacks + Upcoming

AdmissionInv ==
  /\ AdmissionTypeOK /\ cron \in CronRow
  /\ WithinQueryBudget /\ AdmittingInv /\ Waiting

\* No way through alert-manager.ts takes more queries than it is charged.
LEMMA EstimateIsEnough ==
  ASSUME NEW c \in Charges
  PROVE  /\ c.charged \in 0..MaxEstimate /\ c.sent \in Nat
         /\ c.sent <= c.charged
<1>1. PICK o \in Observations : \E n \in AlertQueries(o) :
        c = [charged |-> EstimatedQueries(o), sent |-> 2 + (IF o.diagnostic THEN 1 ELSE 0) + n]
  BY DEF Charges, LongestWay
<1>2. PICK n \in AlertQueries(o) :
        c = [charged |-> EstimatedQueries(o), sent |-> 2 + (IF o.diagnostic THEN 1 ELSE 0) + n]
  BY <1>1
<1>3. /\ o.previous \in {"pending", "up", "down"} /\ o.status \in {"up", "down"}
      /\ o.alerted \in BOOLEAN /\ o.diagnostic \in BOOLEAN
  BY DEF Observations
<1> DEFINE first == 2 + (IF o.diagnostic THEN 1 ELSE 0)
<1>4. first \in Nat /\ c.charged = EstimatedQueries(o) /\ c.sent = first + n
  BY <1>2
<1>5. HealthyQueries \subseteq 0..12 /\ FailedQueries \subseteq 0..12
  BY DEF HealthyQueries, FailedQueries, Enqueued
<1>6. CASE o.status = "up" /\ o.previous = "pending" /\ ~o.alerted
  <2>1. n \in 0..4
    BY <1>6 DEF AlertQueries
  <2>2. EstimatedQueries(o) = first + 4
    BY <1>6 DEF EstimatedQueries
  <2> QED
    BY <1>4, <2>1, <2>2, EstimateAssumption, AdmissionAssumption
<1>7. CASE ~(o.status = "up" /\ o.previous = "pending" /\ ~o.alerted)
  <2>1. n \in 0..12
    BY <1>3, <1>5, <1>7 DEF AlertQueries
  <2>2. EstimatedQueries(o) = first + 12
    BY <1>7 DEF EstimatedQueries
  <2> QED
    BY <1>4, <2>1, <2>2, EstimateAssumption, AdmissionAssumption
<1> QED
  BY <1>6, <1>7

LEMMA AheadAtMost ==
  ASSUME AdmissionTypeOK, NEW m \in MonitorNos
  PROVE  /\ IsFiniteSet(Ahead(m)) /\ Cardinality(Ahead(m)) \in Nat
         /\ Cardinality(Ahead(m)) <= NumMonitors - 1
         /\ NumMonitors >= 1
<1>1. m \notin Ahead(m) /\ Ahead(m) \in SUBSET MonitorNos
  BY DueOrder DEF Ahead
<1>2. NumMonitors \in Nat /\ IsFiniteSet(MonitorNos) /\ Cardinality(MonitorNos) = NumMonitors
  BY MonitorsFinite, AdmissionAssumption
<1>3. /\ IsFiniteSet(Ahead(m)) /\ Cardinality(Ahead(m)) < NumMonitors
      /\ Cardinality(Ahead(m)) \in Nat
  BY <1>1, <1>2, FS_Subset, FS_CardinalityType
<1> QED
  BY <1>2, <1>3

LEMMA AdmissionStarts == AdmissionInit => AdmissionInv
<1> SUFFICES ASSUME AdmissionInit
             PROVE  AdmissionInv
  OBVIOUS
<1> USE AdmissionAssumption
<1>1. AdmissionTypeOK /\ cron \in CronRow /\ cron.pc = "idle" /\ cron.sent = 0
  BY DEF AdmissionInit, AdmissionTypeOK, NoCron, CronRow
<1>2. ASSUME NEW m \in MonitorNos
      PROVE  Cardinality(Ahead(m)) \in Nat /\ Cardinality(Ahead(m)) <= NumMonitors - 1
  BY <1>1, AheadAtMost
<1>3. Waiting
  BY <1>1, <1>2 DEF Waiting, DueNow, AdmissionInit, Upcoming
<1> QED
  BY <1>1, <1>3 DEF AdmissionInv, WithinQueryBudget, AdmittingInv

LEMMA MinuteKeeps ==
  ASSUME AdmissionInv, Minute
  PROVE  AdmissionInv'
<1> USE AdmissionAssumption
<1>1. AdmissionTypeOK /\ cron \in CronRow /\ Waiting
  BY DEF AdmissionInv
<1>2. AdmissionTypeOK' /\ cron' \in CronRow /\ cron.pc = "idle" /\ cron' = cron
  BY <1>1 DEF Minute, AdmissionTypeOK
<1>3. Upcoming = 0 /\ Upcoming' = 1 /\ setbacks \in Nat /\ setbacks' = setbacks
  BY <1>1, <1>2 DEF Upcoming, Minute, AdmissionTypeOK
<1>4. ASSUME NEW m \in DueNow'
      PROVE  Cardinality(Ahead(m)') - dueIn'[m] <= NumMonitors - 2 + setbacks' + Upcoming'
  <2>1. m \in MonitorNos /\ dueIn[m] \in Int /\ dueIn'[m] = dueIn[m] - 1 /\ dueIn'[m] <= 0
    BY <1>1 DEF DueNow, Minute, AdmissionTypeOK
  <2>2. Ahead(m)' = Ahead(m)
    BY <1>1, <2>1 DEF Ahead, DueBefore, Minute, AdmissionTypeOK
  <2>3. Cardinality(Ahead(m)) \in Nat /\ Cardinality(Ahead(m)) <= NumMonitors - 1
    BY <1>1, <2>1, AheadAtMost
  <2>4. CASE dueIn[m] <= 0
    <3>1. Cardinality(Ahead(m)) - dueIn[m] <= NumMonitors - 2 + setbacks + Upcoming
      BY <1>1, <2>1, <2>4 DEF Waiting, DueNow
    <3> QED
      BY <1>3, <2>1, <2>2, <2>3, <3>1
  <2>5. CASE dueIn[m] = 1
    BY <1>3, <2>1, <2>2, <2>3, <2>5
  <2> QED
    BY <2>1, <2>4, <2>5
<1>5. Waiting'
  BY <1>4 DEF Waiting
<1> QED
  BY <1>2, <1>5 DEF AdmissionInv, WithinQueryBudget, AdmittingInv

\* While neither due times nor the slack change, everybody waits as before.
LEMMA WaitingKept ==
  ASSUME AdmissionInv, UNCHANGED <<dueIn, setbacks>>, Upcoming' = Upcoming
  PROVE  Waiting'
<1>1. ASSUME NEW m \in DueNow'
      PROVE  Cardinality(Ahead(m)') - dueIn'[m] <= NumMonitors - 2 + setbacks' + Upcoming'
  <2>1. m \in DueNow /\ Ahead(m)' = Ahead(m) /\ dueIn'[m] = dueIn[m]
    BY DEF DueNow, Ahead, DueBefore
  <2>2. Cardinality(Ahead(m)) - dueIn[m] <= NumMonitors - 2 + setbacks + Upcoming
    BY <2>1 DEF AdmissionInv, Waiting
  <2> QED
    BY <2>1, <2>2
<1> QED
  BY <1>1 DEF Waiting

LEMMA BeginCronKeeps ==
  ASSUME AdmissionInv, NEW reserved \in {0, 1}, NEW catchup \in CatchupQueries,
         BeginCron(reserved, catchup)
  PROVE  AdmissionInv'
<1> USE AdmissionAssumption
<1> DEFINE due == FirstOf(MaxChecksPerRun, DueNow)
<1>1. AdmissionTypeOK /\ cron \in CronRow /\ cron.pc = "idle"
  BY DEF AdmissionInv, BeginCron
<1>2. /\ due \in SUBSET MonitorNos /\ due \subseteq DueNow
      /\ DueNow # {} => due # {}
  <2>1. DueNow \in SUBSET MonitorNos
    BY DEF DueNow
  <2> QED
    BY <1>1, <2>1, FirstOfFacts
<1>3. cron' = IF due = {} THEN NoCron
              ELSE [pc |-> "admitting", reserved |-> reserved, due |-> due,
                    checked |-> {}, used |-> catchup,
                    sent |-> reserved + catchup + 7]
  BY DEF BeginCron, DueNow
<1>4. DueNow' = DueNow /\ FirstOf(MaxChecksPerRun, DueNow)' = due
  BY DEF BeginCron, DueNow, FirstOf, DueBefore
<1>5. catchup \in 1..7
  BY DEF CatchupQueries
<1> HIDE DEF due
<1>6. cron' \in CronRow
  BY <1>2, <1>3, <1>5 DEF CronRow, NoCron
<1>7. AdmissionTypeOK'
  BY <1>1, <1>6 DEF BeginCron, AdmissionTypeOK, CronRow
<1>8. WithinQueryBudget' /\ AdmittingInv'
  BY <1>3, <1>4, <1>5
  DEF WithinQueryBudget, AdmittingInv, NoCron, ObservationBudget, FixedQueries, EarliestFirst
<1>9. Waiting'
  <2>1. CASE due = {}
    BY <1>2, <1>4, <2>1 DEF Waiting
  <2>2. CASE due # {}
    <3>1. Upcoming' = Upcoming
      BY <1>1, <1>3, <2>2 DEF Upcoming, BeginCron, AdmissionTypeOK
    <3> QED
      BY <1>1, <3>1, WaitingKept DEF BeginCron, AdmissionTypeOK
  <2> QED
    BY <2>1, <2>2
<1> QED
  BY <1>6, <1>7, <1>8, <1>9 DEF AdmissionInv

\* A batch is no larger than what fits into the remaining budget.
LEMMA BatchFits ==
  ASSUME AdmissionInv, cron.pc = "admitting"
  PROVE  /\ Remaining \in Int /\ Remaining = ObservationBudget - cron.reserved - cron.used - 1
         /\ NextBatch \in Nat
         /\ NextBatch > 0 => NextBatch * MaxEstimate <= Remaining
         /\ cron.checked = {} => NextBatch > 0
         /\ NextBatch > 0 => cron.due \ cron.checked # {}
<1> USE AdmissionAssumption
<1> DEFINE left == Cardinality(cron.due \ cron.checked)
<1>1. /\ Remaining \in Int /\ Remaining = ObservationBudget - cron.reserved - cron.used - 1
      /\ cron.due \in SUBSET MonitorNos
      /\ cron.checked = {} => cron.used <= 7 /\ cron.due # {}
      /\ cron.reserved \in {0, 1} /\ cron.used \in Nat
  BY DEF Remaining, ObservationBudget, FixedQueries, AdmissionInv, AdmittingInv, CronRow
<1>2. IsFiniteSet(cron.due \ cron.checked) /\ left \in Nat
  BY <1>1, MonitorsFinite, FS_Subset, FS_CardinalityType
<1>3. cron.checked = {} => left > 0
  BY <1>1, <1>2, FS_EmptySet
<1>4. /\ Fits \in Int /\ Fits * MaxEstimate <= Remaining
      /\ Remaining >= MaxEstimate => Fits >= 1
  BY <1>1 DEF Fits
<1>5. cron.checked = {} => Remaining >= MaxEstimate
  BY <1>1 DEF ObservationBudget, FixedQueries
<1> DEFINE least == Min({Concurrency, left, Fits})
<1>6. least \in {Concurrency, left, Fits} /\ least <= Concurrency /\ least <= left /\ least <= Fits
  <2>1. \E x \in {Concurrency, left, Fits} : \A y \in {Concurrency, left, Fits} : x <= y
    BY <1>2, <1>4
  <2> QED
    BY <2>1 DEF Min
<1>7. NextBatch = IF Fits < 0 THEN 0 ELSE least
  BY DEF NextBatch
<1> HIDE DEF least, left
<1>8. NextBatch \in Nat /\ (NextBatch <= Fits \/ NextBatch = 0)
  BY <1>2, <1>4, <1>6, <1>7
<1>9. NextBatch > 0 => NextBatch * MaxEstimate <= Fits * MaxEstimate
  BY <1>4, <1>8
<1>10. NextBatch > 0 => NextBatch * MaxEstimate <= Remaining
  <2>1. NextBatch * MaxEstimate \in Int /\ Fits * MaxEstimate \in Int
    BY <1>4, <1>8
  <2> QED
    BY <1>1, <1>4, <1>9, <2>1
<1>11. cron.checked = {} => NextBatch > 0
  BY <1>2, <1>3, <1>4, <1>5, <1>6, <1>7
<1>12. NextBatch > 0 => left # 0
  BY <1>2, <1>4, <1>6, <1>7
<1>13. left # 0 => cron.due \ cron.checked # {}
  BY FS_EmptySet DEF left
<1> QED
  BY <1>1, <1>8, <1>10, <1>11, <1>12, <1>13

LEMMA AdmitBatchKeeps ==
  ASSUME AdmissionInv, AdmitBatch
  PROVE  AdmissionInv'
<1> USE AdmissionAssumption
<1> DEFINE left == cron.due \ cron.checked
           batch == FirstOf(NextBatch, left)
<1>1. /\ cron \in CronRow /\ AdmissionTypeOK /\ cron.pc = "admitting" /\ NextBatch > 0
      /\ UNCHANGED <<dueIn, interval, trigger, setbacks>>
  BY DEF AdmissionInv, AdmitBatch
<1>2. /\ Remaining \in Int /\ Remaining = ObservationBudget - cron.reserved - cron.used - 1
      /\ NextBatch \in Nat /\ NextBatch * MaxEstimate <= Remaining
  BY <1>1, BatchFits
<1>3. left \in SUBSET MonitorNos
  BY <1>1 DEF CronRow
<1>4. /\ batch \in SUBSET left /\ batch # {}
      /\ \A n \in batch, m \in left \ batch : DueBefore(n, m)
      /\ IsFiniteSet(batch) /\ Cardinality(batch) \in Nat /\ Cardinality(batch) <= NextBatch
  <2>1. left # {}
    BY <1>1, BatchFits
  <2> HIDE DEF left
  <2>2. /\ FirstOf(NextBatch, left) \in SUBSET left /\ FirstOf(NextBatch, left) # {}
        /\ \A n \in FirstOf(NextBatch, left), m \in left \ FirstOf(NextBatch, left) :
             DueBefore(n, m)
        /\ Cardinality(FirstOf(NextBatch, left)) \in Nat
        /\ Cardinality(FirstOf(NextBatch, left)) <= NextBatch
    BY <1>1, <1>2, <1>3, <2>1, FirstOfFacts
  <2>3. batch \in SUBSET MonitorNos
    BY <1>3, <2>2
  <2>4. IsFiniteSet(batch)
    BY <2>3, MonitorsFinite, FS_Subset
  <2> QED
    BY <2>2, <2>4
<1>5. PICK cost \in [batch -> Charges] :
        LET charged == [m \in batch |-> cost[m].charged]
            sent == [m \in batch |-> cost[m].sent]
        IN  cron' = [cron EXCEPT
              !.checked = @ \cup batch,
              !.used = @ + 1 + MapThenSumSet(LAMBDA m : charged[m], batch),
              !.sent = @ + 1 + MapThenSumSet(LAMBDA m : sent[m], batch)]
  BY DEF AdmitBatch
<1> DEFINE charged == [m \in batch |-> cost[m].charged]
           sent == [m \in batch |-> cost[m].sent]
           sum == MapThenSumSet(LAMBDA m : charged[m], batch)
           made == MapThenSumSet(LAMBDA m : sent[m], batch)
<1>6. cron' = [cron EXCEPT !.checked = cron.checked \cup batch,
                 !.used = cron.used + 1 + sum, !.sent = cron.sent + 1 + made]
  BY <1>5
<1>6a. /\ sum \in Nat /\ sum <= Cardinality(batch) * MaxEstimate
       /\ made \in Nat /\ made <= sum
  <2> DEFINE c == charged
             t == sent
  <2>1. ASSUME NEW m \in batch
        PROVE  /\ c[m] \in 0..MaxEstimate /\ c[m] \in Nat /\ t[m] \in Nat /\ t[m] <= c[m]
    <3>1. cost[m] \in Charges
      BY <1>5
    <3> QED
      BY <3>1, EstimateIsEnough
  <2>2. IsFiniteSet(batch)
    BY <1>4
  <2>3. c \in [batch -> 0..MaxEstimate] /\ c \in [batch -> Nat] /\ t \in [batch -> Nat]
    BY <2>1
  <2>4. \A m \in batch : t[m] <= c[m]
    BY <2>1
  <2> HIDE DEF c, t, batch
  <2>5. /\ MapThenSumSet(LAMBDA m : c[m], batch) \in Nat
        /\ MapThenSumSet(LAMBDA m : c[m], batch) <= Cardinality(batch) * MaxEstimate
    BY <2>2, <2>3, SumAtMost
  <2>6. /\ MapThenSumSet(LAMBDA m : t[m], batch) \in Nat
        /\ MapThenSumSet(LAMBDA m : t[m], batch) <= MapThenSumSet(LAMBDA m : c[m], batch)
    BY <2>2, <2>3, <2>4, SumsCompare
  <2> QED
    BY <2>5, <2>6 DEF c, t
<1>7. sum \in Nat /\ sum <= Remaining
  <2>1. sum \in Nat /\ sum <= Cardinality(batch) * MaxEstimate
    BY <1>6a
  <2> DEFINE c == Cardinality(batch)
  <2>2. c \in Nat /\ c <= NextBatch
    BY <1>4
  <2> HIDE DEF sum, batch, c
  <2>3. c * MaxEstimate <= NextBatch * MaxEstimate
    BY <1>2, <2>2
  <2>4. c * MaxEstimate \in Nat /\ NextBatch * MaxEstimate \in Nat
    BY <1>2, <2>2
  <2>5. sum <= c * MaxEstimate
    BY <2>1 DEF c
  <2> QED
    BY <1>2, <2>1, <2>3, <2>4, <2>5
<1>7a. made \in Nat /\ made <= sum
  BY <1>6a
<1> HIDE DEF sum, made
<1>8. /\ cron'.pc = "admitting" /\ cron'.reserved = cron.reserved /\ cron'.due = cron.due
      /\ cron'.checked = cron.checked \cup batch
      /\ cron'.used = cron.used + 1 + sum /\ cron'.sent = cron.sent + 1 + made
  BY <1>1, <1>6 DEF CronRow
<1>9. cron' \in CronRow
  <2> DEFINE c == cron.checked \cup batch
             u == cron.used + 1 + sum
             t == cron.sent + 1 + made
  <2>1. c \in SUBSET MonitorNos
    BY <1>1, <1>3, <1>4 DEF CronRow
  <2>2. u \in Nat /\ t \in Nat
    BY <1>1, <1>7, <1>7a DEF CronRow
  <2>3. cron' = [cron EXCEPT !.checked = c, !.used = u, !.sent = t]
    BY <1>6
  <2> HIDE DEF c, u, t
  <2> QED
    BY <1>1, <2>1, <2>2, <2>3 DEF CronRow
<1>10. AdmissionTypeOK'
  BY <1>1, <1>9 DEF AdmissionTypeOK, CronRow
<1>11. /\ cron.sent <= cron.reserved + cron.used + 7
       /\ cron.due = FirstOf(MaxChecksPerRun, DueNow) /\ cron.due # {}
       /\ cron.checked \subseteq cron.due
       /\ EarliestFirst
  BY <1>1 DEF AdmissionInv, AdmittingInv
<1>12. DueNow' = DueNow /\ cron'.due = FirstOf(MaxChecksPerRun, DueNow)'
  BY <1>1, <1>8, <1>11 DEF DueNow, FirstOf, DueBefore
<1>13. EarliestFirst'
  <2> SUFFICES ASSUME NEW n \in cron.checked \cup batch,
                      NEW m \in DueNow \ (cron.checked \cup batch)
               PROVE  DueBefore(n, m)
    BY <1>1, <1>8, <1>12 DEF EarliestFirst, DueBefore
  <2>1. CASE n \in cron.checked
    BY <1>11, <2>1 DEF EarliestFirst
  <2>2. CASE n \in batch /\ m \in left
    BY <1>4, <2>2
  <2>3. CASE n \in batch /\ m \notin cron.due
    <3>1. n \in cron.due /\ m \in DueNow \ cron.due /\ DueNow \in SUBSET MonitorNos
      BY <1>4, <2>3 DEF DueNow
    <3> QED
      BY <1>1, <1>11, <3>1, FirstOfFacts
  <2> QED
    BY <2>1, <2>2, <2>3
<1>14. AdmittingInv'
  <2>1. cron.used \in Nat /\ cron.sent \in Nat /\ cron.reserved \in {0, 1}
        /\ ObservationBudget \in Int
    BY <1>1 DEF CronRow, ObservationBudget, FixedQueries
  <2>2. /\ cron'.sent <= cron'.reserved + cron'.used + 7
        /\ cron'.reserved + cron'.used <= ObservationBudget
    BY <1>2, <1>7, <1>7a, <1>8, <1>11, <2>1
  <2>3. cron'.checked # {} /\ cron'.checked \subseteq cron'.due
    BY <1>4, <1>8, <1>11
  <2> QED
    BY <1>8, <1>11, <1>12, <1>13, <2>2, <2>3 DEF AdmittingInv, ObservationBudget, FixedQueries
<1>15. WithinQueryBudget'
  BY <1>8, <1>9, <1>14
  DEF WithinQueryBudget, AdmittingInv, CronRow, ObservationBudget, FixedQueries
<1>16. Waiting'
  <2>1. Upcoming' = Upcoming
    BY <1>1, <1>8 DEF Upcoming
  <2> QED
    BY <1>1, <2>1, WaitingKept DEF AdmissionTypeOK
<1> QED
  BY <1>9, <1>10, <1>14, <1>15, <1>16 DEF AdmissionInv

LEMMA FinishCronKeeps ==
  ASSUME AdmissionInv, FinishCron
  PROVE  AdmissionInv'
<1> USE AdmissionAssumption, DrainAssumption
<1>1. PICK edited \in SUBSET cron.checked : \E retry \in SUBSET (cron.checked \ edited) :
        /\ setbacks' = setbacks + Cardinality(edited) /\ setbacks' <= MaxSetbacks
        /\ dueIn' = [m \in MonitorNos |->
             IF m \in edited THEN 0 ELSE IF m \in retry THEN 1
             ELSE IF m \in cron.checked THEN interval[m] ELSE dueIn[m]]
        /\ cron' = [cron EXCEPT !.pc = "alerting",
             !.sent = @ + 1 + (IF retry = {} THEN 0 ELSE 2) + 1 + RowQueries * DrainAttempts + 1]
  BY DEF FinishCron
<1>1a. PICK retry \in SUBSET (cron.checked \ edited) :
        /\ setbacks' = setbacks + Cardinality(edited) /\ setbacks' <= MaxSetbacks
        /\ dueIn' = [m \in MonitorNos |->
             IF m \in edited THEN 0 ELSE IF m \in retry THEN 1
             ELSE IF m \in cron.checked THEN interval[m] ELSE dueIn[m]]
        /\ cron' = [cron EXCEPT !.pc = "alerting",
             !.sent = @ + 1 + (IF retry = {} THEN 0 ELSE 2) + 1 + RowQueries * DrainAttempts + 1]
  BY <1>1
<1>2. /\ cron \in CronRow /\ AdmissionTypeOK /\ cron.pc = "admitting" /\ NextBatch = 0
      /\ UNCHANGED <<interval, trigger>>
  BY DEF AdmissionInv, FinishCron
<1>3. /\ cron.sent <= cron.reserved + cron.used + 7
      /\ cron.reserved + cron.used <= ObservationBudget
      /\ cron.checked # {} /\ EarliestFirst
  BY <1>2, BatchFits DEF AdmissionInv, AdmittingInv
<1>3a. /\ Cardinality(edited) \in Nat /\ (edited # {} => Cardinality(edited) >= 1)
       /\ setbacks \in Nat /\ setbacks' \in 0..MaxSetbacks
       /\ setbacks' = setbacks + Cardinality(edited)
  <2>1. edited \in SUBSET MonitorNos
    BY <1>1a, <1>2 DEF CronRow
  <2>2. IsFiniteSet(edited)
    BY <2>1, MonitorsFinite, FS_Subset
  <2>3. Cardinality(edited) \in Nat /\ (edited # {} => Cardinality(edited) # 0)
    BY <2>2, FS_CardinalityType, FS_EmptySet
  <2> QED
    BY <1>1a, <1>2, <2>3 DEF AdmissionTypeOK
<1> DEFINE drain == 1 + RowQueries * DrainAttempts
           more == 1 + (IF retry = {} THEN 0 ELSE 2) + drain + 1
<1>4. /\ drain \in Nat /\ more \in Nat /\ more <= 4 + drain
      /\ DrainAttempts = 2 => drain <= MaxDrain
      /\ DrainAttempts # 2 => drain <= MinDrain
  <2>1. DrainAttempts \in {1, 2}
    BY DEF DrainAttempts
  <2>2. CASE DrainAttempts = 1
    BY <2>2 DEF RowQueries
  <2>3. CASE DrainAttempts = 2
    BY <2>3 DEF RowQueries
  <2> QED
    BY <2>1, <2>2, <2>3
<1>5. cron' = [cron EXCEPT !.pc = "alerting", !.sent = cron.sent + more]
  <2> DEFINE marker == IF retry = {} THEN 0 ELSE 2
             rows == RowQueries * DrainAttempts
  <2>1. cron.sent \in Nat /\ marker \in Nat /\ rows \in Nat
    BY <1>2 DEF CronRow, RowQueries, DrainAttempts
  <2>2. cron' = [cron EXCEPT !.pc = "alerting",
                             !.sent = cron.sent + 1 + marker + 1 + rows + 1]
    BY <1>1a
  <2>3. more = 1 + marker + (1 + rows) + 1
    OBVIOUS
  <2> HIDE DEF marker, rows, more
  <2>4. cron.sent + 1 + marker + 1 + rows + 1 = cron.sent + more
    BY <2>1, <2>3
  <2> QED
    BY <2>2, <2>4
<1> HIDE DEF drain
<1> HIDE DEF more
<1>6. cron' \in CronRow /\ cron'.pc = "alerting" /\ cron'.sent = cron.sent + more
  <2> DEFINE t == cron.sent + more
  <2>1. t \in Nat
    BY <1>2, <1>4 DEF CronRow
  <2>2. cron' = [cron EXCEPT !.pc = "alerting", !.sent = t]
    BY <1>5
  <2> HIDE DEF t
  <2>3. cron' \in CronRow /\ cron'.pc = "alerting" /\ cron'.sent = t
    BY <1>2, <2>1, <2>2 DEF CronRow
  <2> QED
    BY <2>3 DEF t
<1>7. WithinQueryBudget'
  <2>1. cron.used \in Nat /\ cron.sent \in Nat /\ cron.reserved \in {0, 1}
    BY <1>2 DEF CronRow
  <2>2. CASE DrainAttempts = 2
    <3>1. QueryBudget - cron.reserved - 11 - cron.used >= MaxDrain
      BY <2>2 DEF DrainAttempts, FixedQueries
    <3> QED
      BY <1>3, <1>4, <1>6, <2>1, <2>2, <3>1 DEF WithinQueryBudget
  <2>3. CASE DrainAttempts # 2
    BY <1>3, <1>4, <1>6, <2>1, <2>3 DEF WithinQueryBudget, ObservationBudget, FixedQueries
  <2> QED
    BY <2>2, <2>3
<1>8. ASSUME NEW m \in MonitorNos
      PROVE  /\ dueIn'[m] \in Int
             /\ m \in edited => dueIn'[m] = 0
             /\ m \in cron.checked \ edited => dueIn'[m] >= 1
             /\ m \notin cron.checked => dueIn'[m] = dueIn[m]
  BY <1>1a, <1>2 DEF AdmissionTypeOK
<1>9. AdmissionTypeOK'
  <2>1. dueIn' \in [MonitorNos -> Int]
    BY <1>1a, <1>8
  <2> QED
    BY <1>2, <1>3a, <1>6, <2>1 DEF AdmissionTypeOK, CronRow
<1>10. Waiting'
  <2> SUFFICES ASSUME NEW m \in DueNow'
               PROVE  Cardinality(Ahead(m)') - dueIn'[m]
                        <= NumMonitors - 2 + setbacks' + Upcoming'
    BY DEF Waiting
  <2>1. m \in MonitorNos /\ dueIn'[m] <= 0 /\ dueIn'[m] \in Int
    BY <1>8 DEF DueNow
  <2>2. /\ Upcoming' = trigger /\ Upcoming \in {trigger, trigger + 1} /\ trigger \in {0, 1}
    BY <1>2, <1>6 DEF Upcoming, AdmissionTypeOK
  <2>3. /\ Cardinality(Ahead(m)') \in Nat /\ Cardinality(Ahead(m)') <= NumMonitors - 1
    <3> DEFINE A == Ahead(m)'
    <3>1. A \in SUBSET MonitorNos /\ m \notin A
      BY <2>1, MonitorsFinite DEF Ahead, DueBefore
    <3>2. NumMonitors \in Nat /\ IsFiniteSet(MonitorNos) /\ Cardinality(MonitorNos) = NumMonitors
      BY MonitorsFinite
    <3> HIDE DEF A
    <3>3. /\ IsFiniteSet(A) /\ Cardinality(A) \in Nat /\ Cardinality(A) <= NumMonitors
          /\ Cardinality(A) # NumMonitors
      BY <2>1, <3>1, <3>2, FS_Subset, FS_CardinalityType
    <3> QED
      BY <3>2, <3>3 DEF A
  <2>4. CASE m \in cron.checked
    <3>1. m \in edited /\ dueIn'[m] = 0 /\ setbacks' >= 1
      BY <1>3a, <1>8, <2>1, <2>4
    <3> QED
      BY <1>3a, <2>2, <2>3, <3>1
  <2>5. CASE m \notin cron.checked
    <3>1. m \in DueNow /\ dueIn'[m] = dueIn[m]
      BY <1>8, <2>1, <2>5 DEF DueNow
    <3>2. cron.checked \subseteq Ahead(m)
      <4>1. cron.checked \subseteq MonitorNos /\ m \in DueNow \ cron.checked
        BY <1>2, <2>5, <3>1 DEF CronRow
      <4> QED
        BY <1>3, <4>1 DEF EarliestFirst, Ahead
    <3>3. Ahead(m)' \in SUBSET Ahead(m) /\ Ahead(m)' \cap (cron.checked \ edited) = {}
      <4>1. ASSUME NEW n \in Ahead(m)' PROVE n \in Ahead(m) /\ n \notin cron.checked \ edited
        <5>1. n \in MonitorNos /\ (dueIn'[n] < dueIn'[m] \/ (dueIn'[n] = dueIn'[m] /\ n < m))
          BY DEF Ahead, DueBefore
        <5>2. n \notin cron.checked \ edited
          BY <1>8, <2>1, <5>1
        <5>3. CASE n \in cron.checked
          BY <3>2, <5>2, <5>3
        <5>4. CASE n \notin cron.checked
          BY <1>8, <3>1, <5>1, <5>4 DEF Ahead, DueBefore
        <5> QED
          BY <5>2, <5>3, <5>4
      <4> QED
        BY <4>1
    <3>4. Cardinality(Ahead(m)) \in Nat /\ IsFiniteSet(Ahead(m))
      BY <1>2, <2>1, AheadAtMost
    <3>5. Cardinality(Ahead(m)) - dueIn[m] <= NumMonitors - 2 + setbacks + Upcoming
      BY <3>1 DEF AdmissionInv, Waiting
    <3>6. Cardinality(Ahead(m)') <= Cardinality(Ahead(m))
      BY <3>3, <3>4, FS_Subset
    <3>7. CASE edited # {}
      BY <1>3a, <2>1, <2>2, <2>3, <3>1, <3>4, <3>5, <3>6, <3>7
    <3>8. CASE edited = {}
      <4>1. Ahead(m)' # Ahead(m)
        BY <1>3, <3>2, <3>3, <3>8
      <4>2. Cardinality(Ahead(m)') < Cardinality(Ahead(m))
        BY <2>3, <3>3, <3>4, <4>1, FS_Subset
      <4> QED
        BY <1>3a, <2>1, <2>2, <2>3, <3>1, <3>4, <3>5, <4>2
    <3> QED
      BY <3>7, <3>8
  <2> QED
    BY <2>4, <2>5
<1> QED
  BY <1>6, <1>7, <1>9, <1>10 DEF AdmissionInv, AdmittingInv

LEMMA EndingKeeps ==
  ASSUME AdmissionInv, EndCron \/ FailCron
  PROVE  AdmissionInv'
<1> USE AdmissionAssumption
<1>1. /\ cron \in CronRow /\ AdmissionTypeOK /\ cron' = NoCron
      /\ UNCHANGED <<dueIn, interval, trigger>>
  BY DEF AdmissionInv, EndCron, FailCron
<1>2. cron' \in CronRow /\ cron'.pc = "idle" /\ cron'.sent = 0
  BY <1>1 DEF CronRow, NoCron
<1>3. AdmissionTypeOK'
  BY <1>1, <1>2 DEF AdmissionTypeOK, CronRow, EndCron, FailCron
<1>4. Waiting'
  <2> SUFFICES ASSUME NEW m \in DueNow'
               PROVE  Cardinality(Ahead(m)') - dueIn'[m]
                        <= NumMonitors - 2 + setbacks' + Upcoming'
    BY DEF Waiting
  <2>1. m \in DueNow /\ Ahead(m)' = Ahead(m) /\ dueIn'[m] = dueIn[m] /\ m \in MonitorNos
    BY <1>1 DEF DueNow, Ahead, DueBefore
  <2>2. Cardinality(Ahead(m)) - dueIn[m] <= NumMonitors - 2 + setbacks + Upcoming
    BY <2>1 DEF AdmissionInv, Waiting
  <2>3. Cardinality(Ahead(m)) \in Nat /\ dueIn[m] \in Int
    BY <1>1, <2>1, AheadAtMost DEF AdmissionTypeOK
  <2>4. setbacks + Upcoming <= setbacks' + Upcoming' /\ setbacks \in Nat /\ setbacks' \in Nat
    BY <1>1, <1>2 DEF EndCron, FailCron, Upcoming, AdmissionTypeOK
  <2>5. Upcoming \in Int /\ Upcoming' \in Int
    BY <1>1 DEF Upcoming, AdmissionTypeOK
  <2> QED
    BY <2>1, <2>2, <2>3, <2>4, <2>5
<1> QED
  BY <1>2, <1>3, <1>4 DEF AdmissionInv, WithinQueryBudget, AdmittingInv

LEMMA TurnAwayKeeps ==
  ASSUME AdmissionInv, TurnAway
  PROVE  AdmissionInv'
<1> USE AdmissionAssumption
<1>1. /\ cron \in CronRow /\ AdmissionTypeOK /\ UNCHANGED <<dueIn, interval, cron>>
      /\ trigger = 1 /\ trigger' = 0 /\ setbacks' = setbacks + 1
      /\ setbacks \in 0..MaxSetbacks /\ setbacks < MaxSetbacks
  BY DEF AdmissionInv, TurnAway, AdmissionTypeOK
<1>2. AdmissionTypeOK'
  BY <1>1 DEF AdmissionTypeOK
<1>3. /\ setbacks \in Nat /\ setbacks' = setbacks + 1
      /\ Upcoming \in Int /\ Upcoming' = Upcoming - 1
  BY <1>1 DEF Upcoming
<1>4. Waiting'
  <2> SUFFICES ASSUME NEW m \in DueNow'
               PROVE  Cardinality(Ahead(m)') - dueIn'[m]
                        <= NumMonitors - 2 + setbacks' + Upcoming'
    BY DEF Waiting
  <2>1. m \in DueNow /\ Ahead(m)' = Ahead(m) /\ dueIn'[m] = dueIn[m] /\ m \in MonitorNos
    BY <1>1 DEF DueNow, Ahead, DueBefore
  <2>2. Cardinality(Ahead(m)) - dueIn[m] <= NumMonitors - 2 + setbacks + Upcoming
    BY <2>1 DEF AdmissionInv, Waiting
  <2>3. Cardinality(Ahead(m)) \in Nat /\ dueIn[m] \in Int
    BY <1>1, <2>1, AheadAtMost DEF AdmissionTypeOK
  <2> QED
    BY <1>3, <2>1, <2>2, <2>3
<1>5. WithinQueryBudget' /\ AdmittingInv'
  BY <1>1 DEF AdmissionInv, WithinQueryBudget, AdmittingInv, DueNow, FirstOf, EarliestFirst,
     DueBefore
<1> QED
  BY <1>1, <1>2, <1>4, <1>5 DEF AdmissionInv

LEMMA AdmissionStep == AdmissionInv /\ [AdmissionNext]_admissionVars => AdmissionInv'
<1> SUFFICES ASSUME AdmissionInv, [AdmissionNext]_admissionVars
             PROVE  AdmissionInv'
  OBVIOUS
<1>1. CASE UNCHANGED admissionVars
  BY <1>1 DEF admissionVars, AdmissionInv, AdmissionTypeOK, WithinQueryBudget, AdmittingInv,
     Waiting, Upcoming, DueNow, Ahead, FirstOf, EarliestFirst, DueBefore
<1> QED
  BY <1>1, MinuteKeeps, BeginCronKeeps, AdmitBatchKeeps, FinishCronKeeps, EndingKeeps,
     TurnAwayKeeps
  DEF AdmissionNext

LEMMA AdmissionInvariant == AdmissionSpec => []AdmissionInv
  BY AdmissionStarts, AdmissionStep, PTL DEF AdmissionSpec

\* However the catch-up, the checks, their alerts, the retry marker and the drain
\* turn out, what an invocation sends stays within the platform's queries
\* (cron.ts 25-42, 363-392, 486-495, 638-643).
THEOREM QueriesStayWithinBudget == AdmissionSpec => []WithinQueryBudget
<1>1. AdmissionInv => WithinQueryBudget
  BY DEF AdmissionInv
<1> QED
  BY <1>1, AdmissionInvariant, PTL

\* Everybody who goes before a due monitor goes once: it waits no more minutes
\* than there are other monitors, lost invocations and edits (cron.ts 432-454 and
\* 485-604).
THEOREM MonitorsDoNotStarve == AdmissionSpec => []NoMonitorStarves
<1>1. ASSUME AdmissionInv, NEW m \in MonitorNos
      PROVE  dueIn[m] >= -(NumMonitors - 1 + setbacks) - trigger
  <2>1. /\ dueIn[m] \in Int /\ setbacks \in Nat /\ trigger \in {0, 1} /\ NumMonitors \in Nat
        /\ AdmissionTypeOK
    BY <1>1, AdmissionAssumption DEF AdmissionInv, AdmissionTypeOK
  <2>2. Cardinality(Ahead(m)) \in Nat /\ NumMonitors >= 1
    BY <2>1, AheadAtMost
  <2>3. Upcoming \in {trigger, trigger + 1}
    BY <2>1 DEF Upcoming
  <2>4. CASE dueIn[m] <= 0
    <3>1. Cardinality(Ahead(m)) - dueIn[m] <= NumMonitors - 2 + setbacks + Upcoming
      BY <1>1, <2>4 DEF AdmissionInv, Waiting, DueNow
    <3> QED
      BY <2>1, <2>2, <2>3, <3>1
  <2>5. CASE dueIn[m] > 0
    BY <2>1, <2>2, <2>5
  <2> QED
    BY <2>1, <2>4, <2>5
<1>2. AdmissionInv => NoMonitorStarves
  BY <1>1 DEF NoMonitorStarves
<1> QED
  BY <1>2, AdmissionInvariant, PTL

-----------------------------------------------------------------------------
(* A check in flight.                                                      *)

\* A check that still waits has time left and room for one more chunk.
CheckInv ==
  /\ CheckTypeOK
  /\ \A k \in Checks : wait[k] # "done" => elapsed <= Deadline(k) /\ received[k] <= BodyLimit

\* checkTimeoutSeconds stays between one tick and MAX_CHECK_DEADLINE_MS.
LEMMA DeadlineRange ==
  ASSUME CheckTypeOK, NEW k \in Checks
  PROVE  Deadline(k) \in 1..MaxDeadline
  <1>1. asked[k].timeout \in Int
    BY CheckerAssumption DEF CheckTypeOK, Monitor
  <1> QED BY <1>1, CheckerAssumption DEF Deadline

LEMMA CheckInvInit == CheckInit => CheckInv
  <1> SUFFICES ASSUME CheckInit PROVE CheckInv
    OBVIOUS
  <1>1. CheckTypeOK
    BY CheckerAssumption DEF CheckInit, CheckTypeOK
  <1>2. ASSUME NEW k \in Checks PROVE elapsed <= Deadline(k) /\ received[k] <= BodyLimit
    <2>1. Deadline(k) \in 1..MaxDeadline
      BY <1>1, DeadlineRange
    <2> QED BY <2>1, CheckerAssumption DEF CheckInit
  <1> QED BY <1>1, <1>2 DEF CheckInv

\* What a step of one check may do: it ends that check, or lets it wait for
\* something else or for one more chunk.
CheckStep(k) ==
  /\ UNCHANGED <<elapsed, asked>>
  /\ aborted' \in {aborted, aborted \cup {k}}
  /\ received' = received \/ received' = [received EXCEPT ![k] = @ + 1]
  /\ \/ /\ wait' = [wait EXCEPT ![k] = "done"]
        /\ \E s \in {"up", "down"} : verdict' = [verdict EXCEPT ![k] = s]
     \/ /\ \/ wait' = wait
           \/ \E p \in {"digest", "body"} : wait' = [wait EXCEPT ![k] = p]
        /\ wait[k] # "done"
        /\ verdict' = verdict
        /\ received' # received => received[k] + 1 <= BodyLimit
  /\ received' # received => wait[k] # "done"

LEMMA StepsAreCheckSteps ==
  ASSUME CheckInv, NEW k \in Checks,
         \/ TimerFiresFor(k) \/ Reject(k) \/ ConnectionFails(k)
         \/ ProtocolMismatch(k) \/ Chunk(k)
         \/ \E head \in Heads : Headers(k, head) \/ DigestAnswer(k, head)
         \/ \E body \in Bodies : BodyEnds(k, body)
  PROVE  CheckStep(k)
  <1> USE DEF CheckStep, Return, Await
  <1>1. CASE TimerFiresFor(k)
    BY <1>1 DEF TimerFiresFor, TimerDue
  <1>2. CASE Reject(k)
    BY <1>2 DEF Reject
  <1>3. CASE ConnectionFails(k)
    BY <1>3 DEF ConnectionFails
  <1>4. CASE ProtocolMismatch(k)
    BY <1>4 DEF ProtocolMismatch
  <1>5. CASE Chunk(k)
    <2>1. CASE received[k] + 1 > BodyLimit
      BY <1>5, <2>1 DEF Chunk
    <2>2. CASE ~(received[k] + 1 > BodyLimit)
      <3>1. received[k] + 1 <= BodyLimit
        BY <2>2, CheckerAssumption DEF CheckInv, CheckTypeOK
      <3> QED BY <1>5, <2>2, <3>1 DEF Chunk
    <2> QED BY <2>1, <2>2
  <1>6. ASSUME NEW head \in Heads, Headers(k, head) PROVE CheckStep(k)
    <2>1. asked[k] \in Monitor
      BY DEF CheckInv, CheckTypeOK
    <2>2. asked[k].kind \in {"http", "dns", "ping"}
      BY <2>1 DEF Monitor
    <2>3. CASE asked[k].kind = "http"
      <3>1. AfterHttpHead(k, head)
        BY <1>6, <2>3 DEF Headers
      <3> QED BY <1>6, <3>1 DEF Headers, AfterHttpHead
    <2>4. CASE asked[k].kind = "dns"
      <3>1. AfterDnsHead(k, head)
        BY <1>6, <2>4 DEF Headers
      <3> QED BY <1>6, <3>1 DEF Headers, AfterDnsHead
    <2>5. CASE asked[k].kind = "ping"
      <3>1. Return(k, "up")
        BY <1>6, <2>5 DEF Headers
      <3> QED BY <1>6, <3>1 DEF Headers
    <2> QED BY <2>2, <2>3, <2>4, <2>5
  <1>7. ASSUME NEW head \in Heads, DigestAnswer(k, head) PROVE CheckStep(k)
    BY <1>7 DEF DigestAnswer
  <1>8. ASSUME NEW body \in Bodies, BodyEnds(k, body) PROVE CheckStep(k)
    BY <1>8 DEF BodyEnds
  <1> QED BY <1>1, <1>2, <1>3, <1>4, <1>5, <1>6, <1>7, <1>8

LEMMA CheckStepKeeps ==
  ASSUME CheckInv, NEW k \in Checks, CheckStep(k)
  PROVE  CheckInv'
  <1> USE CheckerAssumption
  <1>1. \A j \in Checks : received[j] \in 0..(BodyLimit + 1) /\ Deadline(j)' = Deadline(j)
    BY DEF CheckInv, CheckTypeOK, CheckStep, Deadline
  <1>2. wait' \in [Checks -> {"fetch", "digest", "body", "done"}]
    BY DEF CheckInv, CheckTypeOK, CheckStep
  <1>3. verdict' \in [Checks -> {"none", "up", "down"}]
    BY DEF CheckInv, CheckTypeOK, CheckStep
  <1>4. received' \in [Checks -> 0..(BodyLimit + 1)]
    BY <1>1 DEF CheckInv, CheckTypeOK, CheckStep
  <1>5. CheckTypeOK'
    BY <1>2, <1>3, <1>4 DEF CheckInv, CheckTypeOK, CheckStep
  <1>6. ASSUME NEW j \in Checks, wait'[j] # "done"
        PROVE  elapsed' <= Deadline(j)' /\ received'[j] <= BodyLimit
    <2>1. wait[j] # "done" /\ (j = k /\ received'[j] # received[j] => received[k] + 1 <= BodyLimit)
      BY <1>6 DEF CheckInv, CheckTypeOK, CheckStep
    <2>2. CASE j = k /\ received' # received
      <3>1. received[k] + 1 <= BodyLimit
        BY <1>6, <2>2 DEF CheckStep, CheckInv, CheckTypeOK
      <3> QED BY <1>1, <2>1, <2>2, <3>1 DEF CheckStep, CheckInv, CheckTypeOK
    <2>3. CASE j # k \/ received' = received
      <3>1. received'[j] = received[j]
        BY <2>3 DEF CheckStep, CheckInv, CheckTypeOK
      <3> QED BY <1>1, <2>1, <3>1 DEF CheckStep, CheckInv
    <2> QED BY <2>2, <2>3
  <1> QED BY <1>5, <1>6 DEF CheckInv

\* Time passes only while no timer is due and no aborted wait is left.
LEMMA PassTimeKeeps ==
  ASSUME CheckInv, PassTime
  PROVE  CheckInv'
  <1> USE CheckerAssumption
  <1>1. CheckTypeOK'
    BY DEF CheckInv, CheckTypeOK, PassTime
  <1>2. ASSUME NEW k \in Checks, wait'[k] # "done"
        PROVE  elapsed' <= Deadline(k)' /\ received'[k] <= BodyLimit
    <2>1. wait[k] # "done" /\ Aborts(k)
      BY <1>2 DEF PassTime, CheckInv, CheckTypeOK, Aborts
    <2>2. k \notin aborted /\ ~(elapsed >= Deadline(k))
      BY <2>1 DEF PassTime, RejectionDue, TimerDue
    <2>3. Deadline(k) \in 1..MaxDeadline /\ Deadline(k)' = Deadline(k)
      BY DeadlineRange DEF CheckInv, PassTime, Deadline
    <2> QED BY <2>1, <2>2, <2>3 DEF CheckInv, CheckTypeOK, PassTime
  <1> QED BY <1>1, <1>2 DEF CheckInv

LEMMA CheckInvStep == CheckInv /\ [CheckNext]_checkVars => CheckInv'
  <1> SUFFICES ASSUME CheckInv, [CheckNext]_checkVars PROVE CheckInv'
    OBVIOUS
  <1>1. CASE UNCHANGED checkVars
    BY <1>1 DEF checkVars, CheckInv, CheckTypeOK, Deadline
  <1>2. CASE PassTime
    BY <1>2, PassTimeKeeps
  <1>3. CASE CheckNext /\ ~PassTime
    <2>1. PICK k \in Checks :
            \/ TimerFiresFor(k) \/ Reject(k) \/ ConnectionFails(k)
            \/ ProtocolMismatch(k) \/ Chunk(k)
            \/ \E head \in Heads : Headers(k, head) \/ DigestAnswer(k, head)
            \/ \E body \in Bodies : BodyEnds(k, body)
      BY <1>3 DEF CheckNext
    <2> QED BY <2>1, StepsAreCheckSteps, CheckStepKeeps
  <1> QED BY <1>1, <1>2, <1>3

\* No check of a batch waits past its deadline or the lease renewed before it,
\* whatever the server sends and however many requests a check makes
\* (checker.ts 34-42 and 344-506).
THEOREM ChecksEndByDeadline == CheckSpec => []EndsByDeadline
  <1>1. CheckInv => EndsByDeadline
    <2> SUFFICES ASSUME CheckInv, NEW k \in Checks, wait[k] # "done"
                 PROVE  elapsed <= Deadline(k) /\ elapsed < LeaseLeft
      BY DEF EndsByDeadline
    <2> QED BY DeadlineRange, CheckerAssumption DEF CheckInv, CheckTypeOK
  <1> QED BY <1>1, CheckInvInit, CheckInvStep, PTL DEF CheckSpec

-----------------------------------------------------------------------------
(* The inductive invariant.  What a run remembers of the rows it selected  *)
(* does not occur in it: every batch asks again what is still raw.         *)

Markers == {"done", "cursor", "nextAt", "retainAt"}

RowsInv ==
  /\ log \in [Logs -> LogStates]
  /\ counted \in [Logs -> Nat]
  /\ DOMAIN settings = Markers

HistoryInv == RowsInv /\ CountedOnce /\ DoneMeansDone

\* The batch reads the present rows: it counts raw ones and only those.
LEMMA StillRawIsRaw == ASSUME NEW r PROVE StillRaw(r) \subseteq Raw
  BY DEF StillRaw

\* What retention deletes has been counted.
LEMMA ExpiredIsCounted ==
  ASSUME NEW k, NEW t
  PROVE  \A l \in First(k, Expired(t)) : l \in Logs /\ log[l] = "legacy"
  BY DEF First, Expired

\* Initially nothing is counted and nothing has been moved.
LEMMA HistoryInit == LegacyInit => HistoryInv
  <1> SUFFICES ASSUME LegacyInit PROVE HistoryInv
    OBVIOUS
  <1>1. RowsInv
    BY DEF LegacyInit, RowsInv, LogStates, Markers
  <1>2. CountedOnce
    BY DEF LegacyInit, CountedOnce
  <1>3. DoneMeansDone
    BY DEF LegacyInit, DoneMeansDone
  <1> QED BY <1>1, <1>2, <1>3 DEF HistoryInv

\* A step that touches neither rows, rollups, markers nor the history of late
\* writes preserves everything.
LEMMA HistoryUntouched ==
  ASSUME HistoryInv, UNCHANGED <<log, counted, settings, tardy>>
  PROVE  HistoryInv'
  BY DEF HistoryInv, RowsInv, CountedOnce, DoneMeansDone, Raw

-----------------------------------------------------------------------------
(* The steps that do touch them.                                           *)

LEMMA MarkDoneKeeps ==
  ASSUME HistoryInv, NEW r \in Sweepers, MarkDone(r)
  PROVE  HistoryInv'
  <1>1. RowsInv'
    BY DEF HistoryInv, RowsInv, MarkDone
  <1>2. CountedOnce'
    BY DEF HistoryInv, MarkDone, CountedOnce
  <1>3. DoneMeansDone'
    <2>1. CASE MayMark
      BY <2>1 DEF MarkDone, MayMark, DoneMeansDone, Raw
    <2>2. CASE ~MayMark
      BY <2>2 DEF HistoryInv, MarkDone, DoneMeansDone, Raw
    <2> QED BY <2>1, <2>2
  <1> QED BY <1>1, <1>2, <1>3 DEF HistoryInv

LEMMA ApplyBatchKeeps ==
  ASSUME HistoryInv, NEW r \in Sweepers, ApplyBatch(r)
  PROVE  HistoryInv'
  <1>1. /\ counted' = [l \in Logs |-> IF l \in StillRaw(r) THEN counted[l] + 1 ELSE counted[l]]
        /\ log' = [l \in Logs |-> IF l \in StillRaw(r) THEN "legacy" ELSE log[l]]
        /\ tardy' = tardy
    BY DEF ApplyBatch
  <1>2. /\ DOMAIN settings' = Markers
        /\ settings'.done = settings.done
    BY DEF ApplyBatch, HistoryInv, RowsInv, Markers
  <1>3. RowsInv'
    BY <1>1, <1>2 DEF HistoryInv, RowsInv, LogStates
  <1>4. CountedOnce'
    <2> SUFFICES ASSUME NEW l \in Logs
                 PROVE  /\ counted'[l] <= 1
                        /\ log'[l] \in {"absent", "raw", "reset"} => counted'[l] = 0
                        /\ log'[l] \in {"legacy", "expired"} => counted'[l] = 1
      BY DEF CountedOnce
    <2>1. CASE l \in StillRaw(r)
      <3>1. log[l] = "raw" /\ counted[l] = 0
        BY <2>1, StillRawIsRaw DEF Raw, HistoryInv, CountedOnce
      <3>2. counted'[l] = 1 /\ log'[l] = "legacy"
        BY <1>1, <2>1, <3>1
      <3> QED BY <3>2
    <2>2. CASE l \notin StillRaw(r)
      <3>1. counted'[l] = counted[l] /\ log'[l] = log[l]
        BY <1>1, <2>2
      <3> QED BY <3>1 DEF HistoryInv, CountedOnce
    <2> QED BY <2>1, <2>2
  <1>5. DoneMeansDone'
    <2>1. Raw' \subseteq Raw
      BY <1>1 DEF Raw
    <2> QED BY <1>1, <1>2, <2>1 DEF HistoryInv, DoneMeansDone
  <1> QED BY <1>3, <1>4, <1>5 DEF HistoryInv

LEMMA RetainKeeps ==
  ASSUME HistoryInv, NEW r \in Sweepers, Retain(r)
  PROVE  HistoryInv'
  <1> DEFINE due == settings.retainAt <= sweep[r].at
             gone == First(DeleteLimit, Expired(sweep[r].at))
  <1>1. CASE ~due
    <2>1. UNCHANGED <<log, counted, settings, tardy>>
      BY <1>1 DEF Retain
    <2> QED BY <2>1, HistoryUntouched
  <1>2. CASE due
    <2>1. /\ log' = [l \in Logs |-> IF l \in gone THEN "expired" ELSE log[l]]
          /\ UNCHANGED <<counted, tardy>>
      BY <1>2 DEF Retain
    <2>2. DOMAIN settings' = Markers /\ settings'.done = settings.done
      BY <1>2 DEF Retain, HistoryInv, RowsInv, Markers
    <2>3. \A l \in gone : log[l] = "legacy"
      BY ExpiredIsCounted
    <2> HIDE DEF gone
    <2>4. RowsInv'
      BY <2>1, <2>2 DEF HistoryInv, RowsInv, LogStates
    <2>5. CountedOnce'
      BY <2>1, <2>3 DEF HistoryInv, CountedOnce
    <2>6. Raw' \subseteq Raw
      BY <2>1 DEF Raw
    <2>7. DoneMeansDone'
      BY <2>1, <2>2, <2>6 DEF HistoryInv, DoneMeansDone
    <2> QED BY <2>4, <2>5, <2>7 DEF HistoryInv
  <1> QED BY <1>1, <1>2

LEMMA DropHistoryKeeps ==
  ASSUME HistoryInv, DropHistory
  PROVE  HistoryInv'
  <1>1. RowsInv'
    BY DEF HistoryInv, RowsInv, DropHistory, LogStates
  <1>2. CountedOnce'
    BY DEF HistoryInv, RowsInv, DropHistory, CountedOnce
  <1>3. Raw' = {}
    BY DEF DropHistory, Raw
  <1>4. DoneMeansDone'
    BY <1>3 DEF DoneMeansDone
  <1> QED BY <1>1, <1>2, <1>4 DEF HistoryInv

LEMMA LegacyWriteKeeps ==
  ASSUME HistoryInv, NEW x \in Logs, LegacyWrite(x)
  PROVE  HistoryInv'
  <1>1. RowsInv'
    BY DEF HistoryInv, RowsInv, LegacyWrite, LogStates
  <1>2. CountedOnce'
    BY DEF HistoryInv, RowsInv, LegacyWrite, CountedOnce
  <1>3. Raw' \subseteq Raw \union {x}
    BY DEF HistoryInv, RowsInv, LegacyWrite, Raw
  <1>4. DoneMeansDone'
    BY <1>3 DEF HistoryInv, LegacyWrite, DoneMeansDone
  <1> QED BY <1>1, <1>2, <1>4 DEF HistoryInv

\* Every step preserves the invariant.
LEMMA HistoryStep == HistoryInv /\ [LegacyNext]_legacyVars => HistoryInv'
  <1> SUFFICES ASSUME HistoryInv, [LegacyNext]_legacyVars PROVE HistoryInv'
    OBVIOUS
  <1>1. ASSUME NEW r \in Sweepers, SweepBegin(r) \/ ReadMarkers(r) \/ SelectBatch(r)
                                   \/ Rescan(r) \/ CutShort(r)
        PROVE  HistoryInv'
    <2>1. UNCHANGED <<log, counted, settings, tardy>>
      BY <1>1 DEF SweepBegin, ReadMarkers, SelectBatch, Rescan, CutShort
    <2> QED BY <2>1, HistoryUntouched
  <1>2. CASE OldWorkerEnds \/ ClockTick \/ UNCHANGED legacyVars
    <2>1. UNCHANGED <<log, counted, settings, tardy>>
      BY <1>2 DEF OldWorkerEnds, ClockTick, legacyVars
    <2> QED BY <2>1, HistoryUntouched
  <1> QED
    BY <1>1, <1>2, MarkDoneKeeps, ApplyBatchKeeps, RetainKeeps, DropHistoryKeeps,
       LegacyWriteKeeps DEF LegacyNext, SweepStep

\* A row of the old Worker is in the rollups exactly when it is not waiting any
\* more, and exactly once, however runs overlap, die and repeat one another
\* (cron.ts 266-334 and 129-157).
THEOREM LegacyRowsCountedOnce == LegacySpec => []CountedOnce
  <1>1. HistoryInv => CountedOnce
    BY DEF HistoryInv
  <1> QED BY <1>1, HistoryInit, HistoryStep, PTL DEF LegacySpec

\* What is raw after the catch-up was declared done was written after that
\* (cron.ts 254-264).
THEOREM LegacyDoneMeansDone == LegacySpec => []DoneMeansDone
  <1>1. HistoryInv => DoneMeansDone
    BY DEF HistoryInv
  <1> QED BY <1>1, HistoryInit, HistoryStep, PTL DEF LegacySpec

-----------------------------------------------------------------------------
(* The types of the catch-up.  A run that applies a batch has selected     *)
(* something, so that there is a last row to move the cursor to.           *)

LegacyTypeInv ==
  /\ LegacyTypeOK
  /\ \A r \in Sweepers : sweep[r].pc = "applying" => sweep[r].rows # {}

LEMMA LastIsElement ==
  ASSUME NEW S \in SUBSET Logs, S # {} PROVE LastOf(S) \in S
  <1> DEFINE U == {n \in Nat : \A x \in S : x <= n}
  <1>1. Logs \subseteq Nat /\ NumLogs \in U
    BY LegacyAssumption DEF Logs
  <1>2. PICK n \in U : \A y \in U : n <= y
    BY <1>1, LeastNumber
  <1>3. n \in S
    <2> SUFFICES ASSUME n \notin S PROVE FALSE
      OBVIOUS
    <2>1. \A x \in S : x \in Nat /\ x <= n /\ x # n /\ x >= 1
      BY <1>1, <1>2 DEF Logs
    <2>2. n - 1 \in U
      BY <1>2, <2>1
    <2> QED BY <1>2, <2>2
  <1>4. \A x \in S : x <= n
    BY <1>2
  <1> QED BY <1>3, <1>4 DEF LastOf

LEMMA LegacyTypesStart == LegacyInit => LegacyTypeInv
  <1> SUFFICES ASSUME LegacyInit PROVE LegacyTypeInv
    OBVIOUS
  <1>1. \A r \in Sweepers : sweep[r] = Local("idle", 0, 0, {})
    BY DEF LegacyInit
  <1> QED
    BY <1>1, LegacyAssumption DEF LegacyInit, LegacyTypeInv, LegacyTypeOK, Clock, LogStates, Settings,
       Sweep, Local, Logs

\* A run that goes on.
LEMMA SweepOfType ==
  ASSUME LegacyTypeInv, NEW r \in Sweepers, NEW x \in Sweep,
         x.pc = "applying" => x.rows # {}, sweep' = [sweep EXCEPT ![r] = x]
  PROVE  /\ sweep' \in [Sweepers -> Sweep]
         /\ \A q \in Sweepers : sweep'[q].pc = "applying" => sweep'[q].rows # {}
  BY DEF LegacyTypeInv, LegacyTypeOK

LEMMA LocalOfType ==
  ASSUME LegacyTypeInv, NEW r \in Sweepers,
         NEW place \in {"idle", "reading", "selecting", "rescanning", "marking",
                        "retaining"}, Goto(r, place)
  PROVE  /\ sweep' \in [Sweepers -> Sweep]
         /\ \A q \in Sweepers : sweep'[q].pc = "applying" => sweep'[q].rows # {}
  <1> DEFINE x == Local(place, IF place = "idle" THEN 0 ELSE sweep[r].at, 0, {})
  <1>1. sweep[r].at \in 0..Horizon /\ 0 \in 0..Horizon /\ 0 \in 0..NumLogs
    BY LegacyAssumption DEF LegacyTypeInv, LegacyTypeOK, Sweep
  <1>2. x \in Sweep /\ x.pc # "applying"
    BY <1>1 DEF Local, Sweep
  <1>3. sweep' = [sweep EXCEPT ![r] = x]
    BY DEF Goto
  <1> HIDE DEF x
  <1> QED BY <1>2, <1>3, SweepOfType

LEMMA SweepStepTypes ==
  ASSUME LegacyTypeInv, NEW r \in Sweepers, SweepStep(r) \/ CutShort(r)
  PROVE  LegacyTypeInv'
  <1> USE LegacyAssumption
  <1>0. /\ sweep \in [Sweepers -> Sweep] /\ clock \in 0..Horizon /\ settings \in Settings
        /\ sweep[r] \in Sweep /\ 0 \in 0..NumLogs /\ 0 \in 0..Horizon
        /\ log \in [Logs -> LogStates] /\ counted \in [Logs -> Nat]
    BY DEF LegacyTypeInv, LegacyTypeOK, Clock
  <1>1. ASSUME sweep' \in [Sweepers -> Sweep],
               \A q \in Sweepers : sweep'[q].pc = "applying" => sweep'[q].rows # {},
               settings' \in Settings, log' \in [Logs -> LogStates],
               counted' \in [Logs -> Nat], cuts' \in 0..MaxCuts,
               UNCHANGED <<clock, oldWorker, tardy>>
        PROVE  LegacyTypeInv'
    BY <1>1 DEF LegacyTypeInv, LegacyTypeOK
  <1>2. cuts \in 0..MaxCuts
    BY DEF LegacyTypeInv, LegacyTypeOK
  <1>3. CASE SweepBegin(r)
    <2>1. Local("reading", clock, 0, {}) \in Sweep
      BY <1>0 DEF Local, Sweep
    <2>2. Local("reading", clock, 0, {}).pc # "applying"
      BY DEF Local
    <2> QED BY <1>0, <1>1, <1>2, <1>3, <2>1, <2>2, SweepOfType DEF SweepBegin
  <1>4. CASE ReadMarkers(r)
    <2> DEFINE x == Local("selecting", sweep[r].at, settings.cursor, {})
    <2>1. x \in Sweep /\ x.pc # "applying"
      BY <1>0 DEF Local, Sweep, Settings
    <2>2. Goto(r, "retaining") \/ sweep' = [sweep EXCEPT ![r] = x]
      BY <1>4 DEF ReadMarkers
    <2> HIDE DEF x
    <2>3. /\ sweep' \in [Sweepers -> Sweep]
          /\ \A q \in Sweepers : sweep'[q].pc = "applying" => sweep'[q].rows # {}
      BY <2>1, <2>2, SweepOfType, LocalOfType
    <2> QED BY <1>0, <1>1, <1>2, <1>4, <2>3 DEF ReadMarkers
  <1>5. CASE SelectBatch(r) \/ Rescan(r)
    <2>1. PICK found \in SUBSET Logs :
            \/ Goto(r, "rescanning") \/ Goto(r, "marking")
            \/ found # {} /\ sweep' = [sweep EXCEPT ![r] = Local("applying", sweep[r].at, 0, found)]
      <3>1. \A k, S : S \subseteq Logs => First(k, S) \subseteq Logs
        BY DEF First
      <3>2. CASE SelectBatch(r)
        <4> DEFINE found == First(BatchSize, {l \in Raw : l > sweep[r].cursor})
        <4>1. found \in SUBSET Logs
          BY <3>1 DEF Raw
        <4>2. AfterEmptyBatch(r) \in {"rescanning", "marking"}
          BY DEF AfterEmptyBatch
        <4> HIDE DEF found
        <4>3. IF found = {} THEN Goto(r, AfterEmptyBatch(r))
              ELSE sweep' = [sweep EXCEPT ![r] = Local("applying", sweep[r].at, 0, found)]
          BY <3>2 DEF SelectBatch, found
        <4> QED BY <4>1, <4>2, <4>3
      <3>3. CASE Rescan(r)
        <4> DEFINE found == First(BatchSize, Raw)
        <4>1. found \in SUBSET Logs
          BY <3>1 DEF Raw
        <4> HIDE DEF found
        <4>2. IF found = {} THEN Goto(r, "marking")
              ELSE sweep' = [sweep EXCEPT ![r] = Local("applying", sweep[r].at, 0, found)]
          BY <3>3 DEF Rescan, found
        <4> QED BY <4>1, <4>2
      <3> QED BY <1>5, <3>2, <3>3
    <2> DEFINE x == Local("applying", sweep[r].at, 0, found)
    <2>2. x \in Sweep /\ x.rows = found
      BY <1>0 DEF Local, Sweep
    <2> HIDE DEF x
    <2>3. /\ sweep' \in [Sweepers -> Sweep]
          /\ \A q \in Sweepers : sweep'[q].pc = "applying" => sweep'[q].rows # {}
      BY <2>1, <2>2, SweepOfType, LocalOfType DEF x
    <2> QED BY <1>0, <1>1, <1>2, <1>5, <2>3 DEF SelectBatch, Rescan
  <1>6. CASE MarkDone(r)
    <2>1. settings' \in Settings /\ Goto(r, "retaining")
      BY <1>0, <1>6 DEF MarkDone, Settings
    <2> QED BY <1>0, <1>1, <1>2, <1>6, <2>1, LocalOfType DEF MarkDone
  <1>7. CASE ApplyBatch(r)
    <2>1. sweep[r].rows \in SUBSET Logs /\ sweep[r].rows # {}
      BY <1>0, <1>7 DEF ApplyBatch, LegacyTypeInv, Sweep
    <2>2. LastOf(sweep[r].rows) \in 0..NumLogs
      BY <2>1, LastIsElement DEF Logs
    <2> DEFINE t == IF sweep[r].at + CatchUpInterval <= Horizon
                    THEN sweep[r].at + CatchUpInterval ELSE Horizon
    <2>3. /\ t \in 0..Horizon
          /\ settings' = [settings EXCEPT !.cursor = LastOf(sweep[r].rows), !.nextAt = t]
      <3>1. sweep[r].at \in 0..Horizon
        BY <1>0 DEF Sweep
      <3>2. t \in 0..Horizon
        BY <3>1
      <3> QED BY <1>7, <3>2 DEF ApplyBatch
    <2> HIDE DEF t
    <2>4. settings' \in Settings
      BY <1>0, <2>2, <2>3 DEF Settings
    <2>5. log' \in [Logs -> LogStates] /\ counted' \in [Logs -> Nat]
      BY <1>0, <1>7 DEF ApplyBatch, LogStates
    <2>6. Goto(r, "retaining") /\ UNCHANGED <<clock, oldWorker, cuts, tardy>>
      BY <1>7 DEF ApplyBatch
    <2> QED BY <1>1, <1>2, <2>4, <2>5, <2>6, LocalOfType
  <1>8. CASE Retain(r)
    <2>1. sweep[r].at \in 0..Horizon
      BY <1>0 DEF Sweep
    <2>2. settings' \in Settings
      BY <1>0, <1>8, <2>1 DEF Retain, Settings
    <2>3. log' \in [Logs -> LogStates]
      BY <1>0, <1>8 DEF Retain, LogStates
    <2>4. Goto(r, "idle") /\ UNCHANGED <<clock, oldWorker, counted, cuts, tardy>>
      BY <1>8 DEF Retain
    <2> QED BY <1>0, <1>1, <1>2, <2>2, <2>3, <2>4, LocalOfType
  <1>9. CASE CutShort(r)
    <2>1. cuts' \in 0..MaxCuts
      BY <1>2, <1>9 DEF CutShort
    <2> QED BY <1>0, <1>1, <1>9, <2>1, LocalOfType DEF CutShort
  <1> QED BY <1>3, <1>4, <1>5, <1>6, <1>7, <1>8, <1>9 DEF SweepStep

LEMMA LegacyTypesStep == LegacyTypeInv /\ [LegacyNext]_legacyVars => LegacyTypeInv'
  <1> SUFFICES ASSUME LegacyTypeInv, [LegacyNext]_legacyVars PROVE LegacyTypeInv'
    OBVIOUS
  <1> USE LegacyAssumption DEF LegacyTypeInv, LegacyTypeOK
  <1>1. CASE DropHistory
    BY <1>1 DEF DropHistory, LogStates
  <1>2. ASSUME NEW l \in Logs, LegacyWrite(l) PROVE LegacyTypeInv'
    BY <1>2 DEF LegacyWrite, LogStates
  <1>3. CASE OldWorkerEnds
    BY <1>3 DEF OldWorkerEnds
  <1>4. CASE ClockTick
    BY <1>4 DEF ClockTick, Clock
  <1>5. CASE UNCHANGED legacyVars
    BY <1>5 DEF legacyVars
  <1> QED BY <1>1, <1>2, <1>3, <1>4, <1>5, SweepStepTypes DEF LegacyNext

=============================================================================
