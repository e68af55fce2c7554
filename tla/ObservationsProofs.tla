------------------------- MODULE ObservationsProofs -------------------------
(***************************************************************************)
(* Proofs about Observations, for every set of cron runs and pushes, every *)
(* kind of monitor, interval, day length and bound: type correctness, that *)
(* the two tables implement UptimeLedger, and, from an invariant on what   *)
(* each request has read, that no push is lost to one cron run, no miss is *)
(* false and no payload gives way to an older one.                         *)
(***************************************************************************)
EXTENDS Observations, TLAPS

USE ObservationsAssumption

\* NULL is not the day of any timestamp.
LEMMA NoDayIsNoDay == NoDay \notin Days
<1>1. ASSUME NEW t \in Times
      PROVE  UtcDay(t) # NoDay
  <2>1. t % DayLength < DayLength
    BY DEF Times
  <2> QED
    BY <2>1 DEF UtcDay, NoDay, Times
<1> QED
  BY <1>1 DEF Days

LEMMA UtcDayType == \A t \in Times : UtcDay(t) \in Days
  BY DEF Days

LEMMA MaxOfType == \A a, b \in Times : MaxOf(a, b) \in Times
  BY DEF MaxOf

LEMMA TallyAfterType ==
  ASSUME TypeOK, NEW t \in Times, NEW s \in Status
  PROVE  TallyAfter(t, s) \in [Status -> Nat]
  BY DEF TypeOK, MonitorRow, TallyAfter

LEMMA InitType == Init => TypeOK
<1> SUFFICES ASSUME Init
             PROVE  TypeOK
  OBVIOUS
<1>1. mon \in MonitorRow
  BY DEF Init, MonitorRow, Status, Times
<1>2. rollup \in [Days -> [Status -> Nat]]
  BY DEF Init, Blank
<1>3. req \in [Requests -> Request]
  BY DEF Init, NewRequest, Ended, Request, Phases, Status, Times
<1>4. rivals \in [Pushes -> [cron: 0..2, other: {0, 1}]]
  BY DEF Init
<1>5. edit \in [pc: {"idle", "read"}, at: Times,
                nextCheckAt: 0..(MaxTime + Interval)]
  BY DEF Init, Times
<1> QED
  BY <1>1, <1>2, <1>3, <1>4, <1>5 DEF TypeOK, Init, Times

\* The archive moves whole tallies, so both tables keep their types.
LEMMA ArchiveDayType ==
  ASSUME TypeOK, NEW t \in Times, ArchiveDay(t)
  PROVE  rollup' \in [Days -> [Status -> Nat]]
<1>1. CASE ~DayEnded(t)
  BY <1>1 DEF ArchiveDay, TypeOK
<1>2. CASE DayEnded(t)
  <2>1. mon.statsDay \in Days
    BY <1>2 DEF DayEnded, TypeOK, MonitorRow
  <2>2. [s \in Status |-> rollup[mon.statsDay][s] + mon.tally[s]]
          \in [Status -> Nat]
    BY <2>1 DEF TypeOK, MonitorRow
  <2> QED
    BY <1>2, <2>1, <2>2 DEF ArchiveDay, TypeOK
<1> QED
  BY <1>1, <1>2

LEMMA NoteRivalType ==
  ASSUME TypeOK, NEW source, NoteRival(source)
  PROVE  rivals' \in [Pushes -> [cron: 0..2, other: {0, 1}]]
  BY DEF TypeOK, NoteRival, MinOf

LEMMA CommitType ==
  ASSUME TypeOK, NEW q \in Requests, NEW t \in Times, NEW s \in Status,
         Commit(q, t, s)
  PROVE  /\ mon' \in MonitorRow
         /\ rollup' \in [Days -> [Status -> Nat]]
         /\ lastPingAt' \in Times
         /\ req' \in [Requests -> Request]
         /\ rivals' \in [Pushes -> [cron: 0..2, other: {0, 1}]]
<1>1. rollup' \in [Days -> [Status -> Nat]]
  BY ArchiveDayType DEF Commit
<1>2. rivals' \in [Pushes -> [cron: 0..2, other: {0, 1}]]
  BY NoteRivalType DEF Commit
<1>3. lastPingAt' \in Times
  BY MaxOfType DEF Commit, MovePingCursor, TypeOK
<1>4. req' \in [Requests -> Request]
  BY DEF Commit, TypeOK, Request, MonitorRow, Ended, Phases, Status, Times
<1>5. mon' \in MonitorRow
  <2>1. t + Interval \in 0..(MaxTime + Interval)
    BY DEF Times
  <2>2. HistoryRevisionAfter(t) \in Nat
    BY DEF HistoryRevisionAfter, TypeOK, MonitorRow
  <2>3. req[q].payload \in Times
    BY DEF TypeOK, Request
  <2> QED
    BY <2>1, <2>2, <2>3, UtcDayType, TallyAfterType
    DEF Commit, UpdateMonitor, TypeOK, MonitorRow
<1> QED
  BY <1>1, <1>2, <1>3, <1>4, <1>5

\* TypeOK as facts about the values a step reads.
LEMMA ReadType ==
  ASSUME TypeOK
  PROVE  /\ now \in Times /\ lastPingAt \in Times
         /\ mon \in MonitorRow
         /\ \A q \in Requests : req[q] \in Request
  BY DEF TypeOK, Times

\* The two ways a request's local state is left: changed in place, or ended.
LEMMA ChangeType ==
  ASSUME TypeOK, NEW q \in Requests, NEW x \in Request,
         req' = [req EXCEPT ![q] = x]
  PROVE  req' \in [Requests -> Request]
  BY DEF TypeOK

LEMMA EndType ==
  ASSUME TypeOK, NEW q \in Requests, NEW outcome \in Phases, End(q, outcome)
  PROVE  req' \in [Requests -> Request]
  BY DEF TypeOK, End, Ended, Request, Status, Times

LEMMA CronStepType ==
  ASSUME TypeOK, NEW r \in CronRuns, CronStep(r)
  PROVE  TypeOK'
<1> r \in Requests
  BY DEF Requests
<1>1. /\ req[r] \in Request /\ mon \in MonitorRow
      /\ now \in Times /\ lastPingAt \in Times
  BY ReadType
<1>2. CASE CronBegin(r)
  <2> DEFINE x == [req[r] EXCEPT !.pc = "selecting", !.checkedAt = now]
  <2>1. x \in Request
    BY <1>1 DEF Request, Phases, MonitorRow
  <2>2. req' = [req EXCEPT ![r] = x]
    BY <1>2 DEF CronBegin
  <2> HIDE DEF x
  <2>3. req' \in [Requests -> Request]
    BY <2>1, <2>2, ChangeType
  <2> QED
    BY <1>2, <2>3 DEF CronBegin, TypeOK
<1>3. CASE CronSelect(r)
  <2>1. CASE Due(r)
    <3> DEFINE x == [req[r] EXCEPT
           !.pc = IF Kind = "check" THEN "checking" ELSE "prefetching",
           !.rev = mon.rev, !.cursor = mon.lastCheckedAt,
           !.metrics = mon.metrics]
    <3>1. x \in Request
      BY <1>1 DEF Request, Phases, MonitorRow
    <3>2. req' = [req EXCEPT ![r] = x]
      BY <1>3, <2>1 DEF CronSelect
    <3> HIDE DEF x
    <3>3. req' \in [Requests -> Request]
      BY <3>1, <3>2, ChangeType
    <3> QED
      BY <1>3, <2>1, <3>3 DEF CronSelect, TypeOK
  <2>2. CASE ~Due(r)
    BY <1>3, <2>2, EndType DEF CronSelect, TypeOK, Phases
  <2> QED
    BY <2>1, <2>2
<1>4. CASE CronPrefetchToken(r)
  <2> DEFINE s == InboundStatus(r, lastPingAt)
  <2> DEFINE x == [req[r] EXCEPT !.pc = "persisting", !.ping = lastPingAt,
                               !.status = s]
  <2>1. s \in Status
    BY DEF InboundStatus, Status
  <2>2. x \in Request
    BY <1>1, <2>1 DEF Request, Phases, MonitorRow
  <2>3. req' = [req EXCEPT ![r] = x]
    BY <1>4 DEF CronPrefetchToken
  <2> HIDE DEF x
  <2>4. req' \in [Requests -> Request]
    BY <2>2, <2>3, ChangeType
  <2> QED
    BY <1>4, <2>4 DEF CronPrefetchToken, TypeOK
<1>5. CASE CronCheckTarget(r)
  <2>1. PICK s \in Status :
          req' = [req EXCEPT ![r] =
            [@ EXCEPT !.pc = "persisting", !.status = s]]
    BY <1>5 DEF CronCheckTarget
  <2> DEFINE x == [req[r] EXCEPT !.pc = "persisting", !.status = s]
  <2>2. x \in Request
    BY <1>1 DEF Request, Phases, MonitorRow
  <2>3. req' = [req EXCEPT ![r] = x]
    BY <2>1
  <2> HIDE DEF x
  <2>4. req' \in [Requests -> Request]
    BY <2>2, <2>3, ChangeType
  <2> QED
    BY <1>5, <2>4 DEF CronCheckTarget, TypeOK
<1>6. CASE CronPersist(r)
  <2>1. req[r].checkedAt \in Times /\ req[r].status \in Status
    BY DEF TypeOK, Request
  <2>2. CASE Commit(r, req[r].checkedAt, req[r].status)
    BY <1>6, <2>1, <2>2, CommitType DEF CronPersist, TypeOK
  <2>3. CASE /\ End(r, "rejected")
             /\ UNCHANGED <<mon, rollup, lastPingAt, rivals>>
    BY <1>6, <2>3, EndType DEF CronPersist, TypeOK, Phases
  <2> QED
    BY <1>6, <2>2, <2>3 DEF CronPersist
<1>7. CASE RescheduleFailedAlert(r)
  <2>1. mon' \in MonitorRow
    <3>1. RedoCursor(r) \in 0..(MaxTime + Interval)
      BY DEF RedoCursor, MinOf, TypeOK, MonitorRow, Request, Times
    <3> QED
      BY <1>7, <3>1 DEF RescheduleFailedAlert, TypeOK, MonitorRow
  <2> DEFINE x == [req[r] EXCEPT !.pc = "settled"]
  <2>2. x \in Request
    BY <1>1 DEF Request, Phases, MonitorRow
  <2>3. req' = [req EXCEPT ![r] = x]
    BY <1>7 DEF RescheduleFailedAlert
  <2> HIDE DEF x
  <2>4. req' \in [Requests -> Request]
    BY <2>2, <2>3, ChangeType
  <2> QED
    BY <1>7, <2>4, <2>1 DEF RescheduleFailedAlert, TypeOK
<1> QED
  BY <1>2, <1>3, <1>4, <1>5, <1>6, <1>7 DEF CronStep, CronCheck

LEMMA PushStepType ==
  ASSUME TypeOK, NEW p \in Pushes, PushStep(p)
  PROVE  TypeOK'
<1> p \in Requests
  BY DEF Requests
<1>1. /\ req[p] \in Request /\ mon \in MonitorRow
      /\ now \in Times /\ lastPingAt \in Times
  BY ReadType
<1>2. CASE PushBegin(p)
  <2> DEFINE t == IF Kind = "heartbeat" THEN now ELSE 0
  <2> DEFINE x == [req[p] EXCEPT !.pc = "authenticating", !.checkedAt = t]
  <2>1. t \in Times
    BY <1>1 DEF Times
  <2> HIDE DEF t
  <2>2. x \in Request
    BY <1>1, <2>1 DEF Request, Phases, MonitorRow
  <2>3. req' = [req EXCEPT ![p] = x]
    BY <1>2 DEF PushBegin, t
  <2> HIDE DEF x
  <2>4. req' \in [Requests -> Request]
    BY <2>2, <2>3, ChangeType
  <2> QED
    BY <1>2, <2>4 DEF PushBegin, TypeOK
<1>3. CASE PushReadToken(p)
  <2> DEFINE x == [req[p] EXCEPT !.pc = "loading", !.ping = lastPingAt]
  <2>1. x \in Request
    BY <1>1 DEF Request, Phases, MonitorRow
  <2>2. req' = [req EXCEPT ![p] = x]
    BY <1>3 DEF PushReadToken
  <2> HIDE DEF x
  <2>3. req' \in [Requests -> Request]
    BY <2>1, <2>2, ChangeType
  <2> QED
    BY <1>3, <2>3 DEF PushReadToken, TypeOK
<1>4. CASE PushReadMonitor(p)
  <2>1. CASE mon.active = 1
    <3> DEFINE x == [req[p] EXCEPT
           !.pc = IF Kind = "agent" THEN "parsing" ELSE "persisting",
           !.rev = mon.rev, !.cursor = mon.lastCheckedAt]
    <3>1. x \in Request
      BY <1>1 DEF Request, Phases, MonitorRow
    <3>2. req' = [req EXCEPT ![p] = x]
      BY <1>4, <2>1 DEF PushReadMonitor
    <3> HIDE DEF x
    <3>3. req' \in [Requests -> Request]
      BY <3>1, <3>2, ChangeType
    <3> QED
      BY <1>4, <2>1, <3>3 DEF PushReadMonitor, TypeOK
  <2>2. CASE mon.active # 1
    BY <1>4, <2>2, EndType DEF PushReadMonitor, TypeOK, Phases
  <2> QED
    BY <2>1, <2>2
<1>5. CASE PushParse(p)
  <2>1. PICK s \in Status :
          req' = [req EXCEPT ![p] =
            [@ EXCEPT !.pc = "persisting", !.status = s,
                      !.checkedAt = now, !.payload = now]]
    BY <1>5 DEF PushParse
  <2> DEFINE x == [req[p] EXCEPT !.pc = "persisting", !.status = s,
                               !.checkedAt = now, !.payload = now]
  <2>2. x \in Request
    BY <1>1 DEF Request, Phases, MonitorRow
  <2>3. req' = [req EXCEPT ![p] = x]
    BY <2>1
  <2> HIDE DEF x
  <2>4. req' \in [Requests -> Request]
    BY <2>2, <2>3, ChangeType
  <2> QED
    BY <1>5, <2>4 DEF PushParse, TypeOK
<1>6. CASE PushPersist(p)
  <2>1. req[p].checkedAt \in Times /\ req[p].status \in Status
    BY DEF TypeOK, Request
  <2>2. CASE Commit(p, req[p].checkedAt, req[p].status)
    BY <1>6, <2>1, <2>2, CommitType DEF PushPersist, TypeOK
  <2>3. CASE ~CasHolds(p, req[p].checkedAt, req[p].ping)
    <3> DEFINE x == [req[p] EXCEPT !.pc = "rereading",
                                 !.pending = {"monitor", "token"}]
    <3>1. x \in Request
      BY <1>1 DEF Request, Phases, MonitorRow
    <3>2. req' = [req EXCEPT ![p] = x]
      BY <1>6, <2>3 DEF PushPersist
    <3> HIDE DEF x
    <3>3. req' \in [Requests -> Request]
      BY <3>1, <3>2, ChangeType
    <3> QED
      BY <1>6, <2>3, <3>3 DEF PushPersist, TypeOK
  <2> QED
    BY <1>6, <2>2, <2>3 DEF PushPersist
<1>7. CASE RereadMonitor(p)
  <2> DEFINE w == req[p].pending \ {"monitor"}
  <2> DEFINE x == [req[p] EXCEPT !.pending = w, !.rev = mon.rev,
                               !.cursor = mon.lastCheckedAt,
                               !.active = mon.active]
  <2>1. w \in SUBSET {"monitor", "token"}
    BY <1>1 DEF Request
  <2> HIDE DEF w
  <2>2. x \in Request
    BY <1>1, <2>1 DEF Request, Phases, MonitorRow
  <2>3. req' = [req EXCEPT ![p] = x]
    BY <1>7 DEF RereadMonitor, w
  <2> HIDE DEF x
  <2>4. req' \in [Requests -> Request]
    BY <2>2, <2>3, ChangeType
  <2> QED
    BY <1>7, <2>4 DEF RereadMonitor, TypeOK
<1>8. CASE RereadToken(p)
  <2> DEFINE w == req[p].pending \ {"token"}
  <2> DEFINE x == [req[p] EXCEPT !.pending = w, !.freshPing = lastPingAt]
  <2>1. w \in SUBSET {"monitor", "token"}
    BY <1>1 DEF Request
  <2> HIDE DEF w
  <2>2. x \in Request
    BY <1>1, <2>1 DEF Request, Phases, MonitorRow
  <2>3. req' = [req EXCEPT ![p] = x]
    BY <1>8 DEF RereadToken, w
  <2> HIDE DEF x
  <2>4. req' \in [Requests -> Request]
    BY <2>2, <2>3, ChangeType
  <2> QED
    BY <1>8, <2>4 DEF RereadToken, TypeOK
<1>9. CASE PushRetry(p)
  <2>1. RetryTime(p) \in Times
    BY MaxOfType DEF RetryTime, TypeOK, Request
  <2>2. CASE \E s \in Status : Commit(p, RetryTime(p), s)
    BY <1>9, <2>1, <2>2, CommitType DEF PushRetry, TypeOK
  <2>3. CASE /\ End(p, "rejected")
             /\ UNCHANGED <<mon, rollup, lastPingAt, rivals>>
    BY <1>9, <2>3, EndType DEF PushRetry, TypeOK, Phases
  <2> QED
    BY <1>9, <2>2, <2>3 DEF PushRetry, Status
<1> QED
  BY <1>2, <1>3, <1>4, <1>5, <1>6, <1>7, <1>8, <1>9 DEF PushStep

LEMMA ActiveRowType ==
  ASSUME NEW m \in MonitorRow, NEW a \in {0, 1}, NEW k \in Nat,
         NEW n \in 0..(MaxTime + Interval)
  PROVE  [m EXCEPT !.rev = k, !.active = a, !.nextCheckAt = n] \in MonitorRow
  BY DEF MonitorRow

LEMMA ResetRowType ==
  ASSUME NEW m \in MonitorRow, NEW k \in Nat, NEW h \in Nat,
         NEW z \in [Status -> Nat]
  PROVE  [m EXCEPT !.rev = k, !.lastCheckedAt = 0, !.nextCheckAt = 0,
                   !.historyRevision = h, !.statsDay = NoDay, !.tally = z]
           \in MonitorRow
<1>1. /\ 0 \in Times /\ 0 \in 0..(MaxTime + Interval)
      /\ NoDay \in Days \union {NoDay}
  BY DEF Times
<1> QED
  BY <1>1 DEF MonitorRow

LEMMA AdminStepType ==
  ASSUME TypeOK, AdminStep
  PROVE  TypeOK'
<1> DEFINE k == mon.rev + 1
<1>1. ASSUME AdminWrite
      PROVE  /\ adminOps' \in 0..MaxAdmin
             /\ rivals' \in [Pushes -> [cron: 0..2, other: {0, 1}]]
  BY <1>1, NoteRivalType DEF AdminWrite, TypeOK
<1>2. /\ mon \in MonitorRow /\ k \in Nat
      /\ mon.nextCheckAt \in 0..(MaxTime + Interval)
      /\ now \in 0..(MaxTime + Interval)
      /\ edit.at \in 0..(MaxTime + Interval)
      /\ edit.nextCheckAt \in 0..(MaxTime + Interval)
  BY DEF TypeOK, MonitorRow, Times
<1>3. ASSUME NEW a \in {0, 1}, SetActive(a)
      PROVE  TypeOK'
  <2> DEFINE n == IF a = 1 THEN now ELSE mon.nextCheckAt
  <2>1. mon' = [mon EXCEPT !.rev = k, !.active = a, !.nextCheckAt = n]
    BY <1>3 DEF SetActive
  <2>2. n \in 0..(MaxTime + Interval)
    BY <1>2
  <2> HIDE DEF n, k
  <2>3. mon' \in MonitorRow
    BY <1>2, <2>1, <2>2, ActiveRowType
  <2> QED
    BY <1>1, <1>3, <2>3 DEF SetActive, TypeOK
<1>4. ASSUME NEW a \in {0, 1}, EditWrite(a)
      PROVE  TypeOK'
  <2> DEFINE n == IF a = 1 THEN edit.at ELSE edit.nextCheckAt
  <2>1. mon' = [mon EXCEPT !.rev = k, !.active = a, !.nextCheckAt = n]
    BY <1>4 DEF EditWrite
  <2>2. n \in 0..(MaxTime + Interval)
    BY <1>2
  <2> HIDE DEF n, k
  <2>3. mon' \in MonitorRow
    BY <1>2, <2>1, <2>2, ActiveRowType
  <2> QED
    BY <1>1, <1>4, <2>3 DEF EditWrite, TypeOK
<1>5. CASE EditRead
  BY <1>2, <1>5 DEF EditRead, TypeOK, Times
<1>6. CASE ResetStats
  <2> DEFINE h == mon.historyRevision + 1
             z == [s \in Status |-> 0]
  <2>1. mon' = [mon EXCEPT !.rev = k, !.lastCheckedAt = 0, !.nextCheckAt = 0,
                           !.historyRevision = h, !.statsDay = NoDay,
                           !.tally = z]
    BY <1>6 DEF ResetStats
  <2>2. h \in Nat /\ z \in [Status -> Nat]
    BY <1>2 DEF MonitorRow
  <2>3. rollup' \in [Days -> [Status -> Nat]]
    BY <1>6 DEF ResetStats, Blank
  <2> HIDE DEF h, z, k
  <2>4. mon' \in MonitorRow
    BY <1>2, <2>1, <2>2, ResetRowType
  <2> QED
    BY <1>1, <1>6, <2>3, <2>4 DEF ResetStats, TypeOK
<1> QED
  BY <1>3, <1>4, <1>5, <1>6 DEF AdminStep

LEMMA StepType == TypeOK /\ [Next]_vars => TypeOK'
<1> SUFFICES ASSUME TypeOK, [Next]_vars
             PROVE  TypeOK'
  OBVIOUS
<1>1. CASE Tick
  BY <1>1 DEF Tick, TypeOK
<1>2. CASE UNCHANGED vars
  BY <1>2 DEF vars, TypeOK
<1> QED
  BY <1>1, <1>2, CronStepType, PushStepType, AdminStepType DEF Next

\* Every row and every request keeps its type; in particular next_check_at
\* never lies further ahead than one interval.
THEOREM ObservationsTypeOK == Spec => []TypeOK
  BY InitType, StepType, PTL DEF Spec

-----------------------------------------------------------------------------
(* Refinement: a committed batch enters one check, a statistics reset      *)
(* empties the ledger, and nothing else is visible to it.                  *)

\* What a commit adds to each cell of the ledger: one check, in one cell.
LEMMA CommitAddsOneCheck ==
  ASSUME TypeOK, NEW q \in Requests, NEW t \in Times, NEW s \in Status,
         Commit(q, t, s)
  PROVE  LedgerValue' = [LedgerValue EXCEPT ![UtcDay(t)][s] = @ + 1]
<1> DEFINE cell(d, x) ==
      rollup[d][x] + (IF mon.statsDay = d THEN mon.tally[x] ELSE 0)
<1>1. /\ mon \in MonitorRow /\ rollup \in [Days -> [Status -> Nat]]
      /\ mon.tally \in [Status -> Nat] /\ mon.statsDay \in Days \union {NoDay}
  BY DEF TypeOK, MonitorRow
<1>2. mon'.statsDay = UtcDay(t) /\ mon'.tally = TallyAfter(t, s)
  BY DEF Commit, UpdateMonitor
<1>3. ASSUME NEW d \in Days, NEW x \in Status
      PROVE  rollup'[d][x] + (IF mon'.statsDay = d THEN mon'.tally[x] ELSE 0)
               = cell(d, x) + (IF d = UtcDay(t) /\ x = s THEN 1 ELSE 0)
  <2>1. TallyAfter(t, s)[x] =
          (IF mon.statsDay = UtcDay(t) THEN mon.tally[x] ELSE 0)
            + (IF x = s THEN 1 ELSE 0)
    BY <1>3 DEF TallyAfter
  <2>2. CASE DayEnded(t)
    <3>1. rollup' = [rollup EXCEPT ![mon.statsDay] =
            [y \in Status |-> rollup[mon.statsDay][y] + mon.tally[y]]]
      BY <2>2 DEF Commit, ArchiveDay
    <3>2. rollup'[d][x] =
            rollup[d][x] + (IF mon.statsDay = d THEN mon.tally[x] ELSE 0)
      BY <1>1, <1>3, <3>1
    <3>3. mon.statsDay # UtcDay(t)
      BY <2>2 DEF DayEnded
    <3> QED
      BY <1>1, <1>2, <1>3, <2>1, <3>2, <3>3
  <2>3. CASE ~DayEnded(t)
    <3>1. rollup' = rollup
      BY <2>3 DEF Commit, ArchiveDay
    <3>2. CASE mon.statsDay = UtcDay(t)
      BY <1>1, <1>2, <1>3, <2>1, <3>1, <3>2
    <3>3. CASE mon.statsDay # UtcDay(t)
      <4>1. mon.statsDay = d => mon.tally[x] = 0
        BY <1>1, <1>3, <2>3, <3>3, NoDayIsNoDay
        DEF DayEnded, DayChecks, Status
      <4> QED
        BY <1>1, <1>2, <1>3, <2>1, <3>1, <3>3, <4>1
    <3> QED
      BY <3>2, <3>3
  <2> QED
    BY <2>2, <2>3
<1>4. LedgerValue = [d \in Days |-> [x \in Status |-> cell(d, x)]]
  BY DEF LedgerValue
<1>5. LedgerValue' = [d \in Days |-> [x \in Status |->
        cell(d, x) + (IF d = UtcDay(t) /\ x = s THEN 1 ELSE 0)]]
  BY <1>3 DEF LedgerValue
<1> HIDE DEF cell
<1>6. UtcDay(t) \in Days
  BY UtcDayType
<1>7. ASSUME NEW d \in Days, NEW x \in Status
      PROVE  cell(d, x) \in Nat
  BY <1>1, <1>7 DEF cell
<1> QED
  BY <1>4, <1>5, <1>6, <1>7

LEMMA CommitEnters ==
  ASSUME TypeOK, NEW q \in Requests \ Counted, NEW t \in Times,
         NEW s \in Status, mon.lastCheckedAt <= t, Commit(q, t, s)
  PROVE  Ledger!Enter(q, t, s)
<1>1. LedgerValue' = [LedgerValue EXCEPT ![UtcDay(t)][s] = @ + 1]
  BY CommitAddsOneCheck
<1>2. Counted' = Counted \union {q}
  BY DEF Commit, Counted, TypeOK, Ended
<1>3. mon'.lastCheckedAt = t
  BY DEF Commit, UpdateMonitor
<1> QED
  BY <1>1, <1>2, <1>3 DEF Ledger!Enter

LEMMA ResetResets ==
  ASSUME TypeOK, ResetStats
  PROVE  Ledger!Reset
<1>1. mon'.lastCheckedAt = 0 /\ mon'.statsDay = NoDay /\ rollup' = Blank
  BY DEF ResetStats, TypeOK, MonitorRow
<1>2. LedgerValue' = Ledger!Blank
  BY <1>1, NoDayIsNoDay
  DEF LedgerValue, Blank, Ledger!Blank, Status, Ledger!Status
<1>3. Counted' = Counted
  BY DEF ResetStats, Counted
<1> QED
  BY <1>1, <1>2, <1>3 DEF Ledger!Reset

ledgerVars == <<LedgerValue, Counted, mon.lastCheckedAt>>

\* A step that leaves both tables alone and records no check is a stutter.
LEMMA QuietStep ==
  ASSUME UNCHANGED rollup, mon'.statsDay = mon.statsDay,
         mon'.tally = mon.tally, mon'.lastCheckedAt = mon.lastCheckedAt,
         Counted' = Counted
  PROVE  UNCHANGED ledgerVars
  BY DEF ledgerVars, LedgerValue

\* Changing one request's local state records nothing unless its outcome does.
LEMMA SameCounted ==
  ASSUME TypeOK, NEW q \in Requests, NEW x,
         req' = [req EXCEPT ![q] = x],
         x.pc \in {"accepted", "settled"}
           <=> req[q].pc \in {"accepted", "settled"}
  PROVE  Counted' = Counted
  BY DEF Counted, TypeOK

\* Until it persists, a request records no check.
LEMMA CronPreparationCountsNothing ==
  ASSUME TypeOK, NEW r \in CronRuns,
         \/ CronBegin(r)
         \/ CronSelect(r)
         \/ CronPrefetchToken(r)
         \/ CronCheckTarget(r)
  PROVE  Counted' = Counted
<1> r \in Requests
  BY DEF Requests
<1>1. req[r] \in Request
  BY ReadType
<1>2. CASE CronBegin(r)
  <2> DEFINE x == [req[r] EXCEPT !.pc = "selecting", !.checkedAt = now]
  <2>1. x.pc \notin {"accepted", "settled"}
    BY <1>1 DEF Request
  <2>2. req' = [req EXCEPT ![r] = x]
    BY <1>2 DEF CronBegin
  <2>3. req[r].pc \notin {"accepted", "settled"}
    BY <1>2 DEF CronBegin
  <2> HIDE DEF x
  <2> QED
    BY <2>1, <2>2, <2>3, SameCounted
<1>3. CASE CronSelect(r)
  <2>1. CASE Due(r)
    <3> DEFINE x == [req[r] EXCEPT
           !.pc = IF Kind = "check" THEN "checking" ELSE "prefetching",
           !.rev = mon.rev, !.cursor = mon.lastCheckedAt,
           !.metrics = mon.metrics]
    <3>1. x.pc \notin {"accepted", "settled"}
      BY <1>1 DEF Request
    <3>2. req' = [req EXCEPT ![r] = x]
      BY <1>3, <2>1 DEF CronSelect
    <3>3. req[r].pc \notin {"accepted", "settled"}
      BY <1>3 DEF CronSelect
    <3> HIDE DEF x
    <3> QED
      BY <3>1, <3>2, <3>3, SameCounted
  <2>2. CASE ~Due(r)
    BY <1>3, <2>2, SameCounted DEF CronSelect, End, Ended
  <2> QED
    BY <2>1, <2>2
<1>4. CASE CronPrefetchToken(r)
  <2> DEFINE x == [req[r] EXCEPT !.pc = "persisting", !.ping = lastPingAt,
                              !.status = InboundStatus(r, lastPingAt)]
  <2>1. x.pc \notin {"accepted", "settled"}
    BY <1>1 DEF Request
  <2>2. req' = [req EXCEPT ![r] = x]
    BY <1>4 DEF CronPrefetchToken
  <2>3. req[r].pc \notin {"accepted", "settled"}
    BY <1>4 DEF CronPrefetchToken
  <2> HIDE DEF x
  <2> QED
    BY <2>1, <2>2, <2>3, SameCounted
<1>5. CASE CronCheckTarget(r)
  <2>1. PICK s \in Status : req' = [req EXCEPT ![r] =
          [@ EXCEPT !.pc = "persisting", !.status = s]]
    BY <1>5 DEF CronCheckTarget
  <2> DEFINE x == [req[r] EXCEPT !.pc = "persisting", !.status = s]
  <2>2. x.pc \notin {"accepted", "settled"}
    BY <1>1 DEF Request
  <2>3. req' = [req EXCEPT ![r] = x]
    BY <2>1
  <2>4. req[r].pc \notin {"accepted", "settled"}
    BY <1>5 DEF CronCheckTarget
  <2> HIDE DEF x
  <2> QED
    BY <2>2, <2>3, <2>4, SameCounted
<1> QED
  BY <1>2, <1>3, <1>4, <1>5

LEMMA PushPreparationCountsNothing ==
  ASSUME TypeOK, NEW p \in Pushes,
         \/ PushBegin(p)
         \/ PushReadToken(p)
         \/ PushReadMonitor(p)
         \/ PushParse(p)
         \/ RereadMonitor(p)
         \/ RereadToken(p)
  PROVE  Counted' = Counted
<1> p \in Requests
  BY DEF Requests
<1>1. req[p] \in Request
  BY ReadType
<1>2. CASE PushBegin(p)
  <2> DEFINE x == [req[p] EXCEPT !.pc = "authenticating",
           !.checkedAt = IF Kind = "heartbeat" THEN now ELSE 0]
  <2>1. x.pc \notin {"accepted", "settled"}
    BY <1>1 DEF Request
  <2>2. req' = [req EXCEPT ![p] = x]
    BY <1>2 DEF PushBegin
  <2>3. req[p].pc \notin {"accepted", "settled"}
    BY <1>2 DEF PushBegin
  <2> HIDE DEF x
  <2> QED
    BY <2>1, <2>2, <2>3, SameCounted
<1>3. CASE PushReadToken(p)
  <2> DEFINE x == [req[p] EXCEPT !.pc = "loading", !.ping = lastPingAt]
  <2>1. x.pc \notin {"accepted", "settled"}
    BY <1>1 DEF Request
  <2>2. req' = [req EXCEPT ![p] = x]
    BY <1>3 DEF PushReadToken
  <2>3. req[p].pc \notin {"accepted", "settled"}
    BY <1>3 DEF PushReadToken
  <2> HIDE DEF x
  <2> QED
    BY <2>1, <2>2, <2>3, SameCounted
<1>4. CASE PushReadMonitor(p)
  <2>1. CASE mon.active = 1
    <3> DEFINE x == [req[p] EXCEPT
           !.pc = IF Kind = "agent" THEN "parsing" ELSE "persisting",
           !.rev = mon.rev, !.cursor = mon.lastCheckedAt]
    <3>1. x.pc \notin {"accepted", "settled"}
      BY <1>1 DEF Request
    <3>2. req' = [req EXCEPT ![p] = x]
      BY <1>4, <2>1 DEF PushReadMonitor
    <3>3. req[p].pc \notin {"accepted", "settled"}
      BY <1>4 DEF PushReadMonitor
    <3> HIDE DEF x
    <3> QED
      BY <3>1, <3>2, <3>3, SameCounted
  <2>2. CASE ~(mon.active = 1)
    BY <1>4, <2>2, SameCounted DEF PushReadMonitor, End, Ended
  <2> QED
    BY <2>1, <2>2
<1>5. CASE PushParse(p)
  <2>1. PICK s \in Status : req' = [req EXCEPT ![p] =
          [@ EXCEPT !.pc = "persisting", !.status = s,
            !.checkedAt = now, !.payload = now]]
    BY <1>5 DEF PushParse
  <2> DEFINE x == [req[p] EXCEPT !.pc = "persisting", !.status = s,
            !.checkedAt = now, !.payload = now]
  <2>2. x.pc \notin {"accepted", "settled"}
    BY <1>1 DEF Request
  <2>3. req' = [req EXCEPT ![p] = x]
    BY <2>1
  <2>4. req[p].pc \notin {"accepted", "settled"}
    BY <1>5 DEF PushParse
  <2> HIDE DEF x
  <2> QED
    BY <2>2, <2>3, <2>4, SameCounted
<1>6. CASE RereadMonitor(p)
  <2> DEFINE x == [req[p] EXCEPT
           !.pending = req[p].pending \ {"monitor"}, !.rev = mon.rev,
           !.cursor = mon.lastCheckedAt, !.active = mon.active]
  <2>1. req' = [req EXCEPT ![p] = x]
    BY <1>6 DEF RereadMonitor
  <2>2. req[p].pc \notin {"accepted", "settled"}
    BY <1>6 DEF RereadMonitor
  <2>3. x.pc \notin {"accepted", "settled"}
    BY <1>1, <2>2 DEF Request
  <2> HIDE DEF x
  <2> QED
    BY <2>3, <2>1, <2>2, SameCounted
<1>7. CASE RereadToken(p)
  <2> DEFINE x == [req[p] EXCEPT
           !.pending = req[p].pending \ {"token"}, !.freshPing = lastPingAt]
  <2>1. req' = [req EXCEPT ![p] = x]
    BY <1>7 DEF RereadToken
  <2>2. req[p].pc \notin {"accepted", "settled"}
    BY <1>7 DEF RereadToken
  <2>3. x.pc \notin {"accepted", "settled"}
    BY <1>1, <2>2 DEF Request
  <2> HIDE DEF x
  <2> QED
    BY <2>3, <2>1, <2>2, SameCounted
<1> QED
  BY <1>2, <1>3, <1>4, <1>5, <1>6, <1>7

LEMMA CronStepRefines ==
  ASSUME TypeOK, NEW r \in CronRuns, CronStep(r)
  PROVE  [Ledger!LedgerNext]_ledgerVars
<1> r \in Requests
  BY DEF Requests
<1>1. CASE CronPersist(r) /\ CasHolds(r, req[r].checkedAt, req[r].ping)
  <2>1. r \in Requests \ Counted
    BY <1>1 DEF CronPersist, Counted
  <2>2. /\ req[r].checkedAt \in Times /\ req[r].status \in Status
        /\ mon.lastCheckedAt <= req[r].checkedAt
    BY <1>1 DEF TypeOK, Request, CasHolds
  <2>3. Ledger!Enter(r, req[r].checkedAt, req[r].status)
    BY <1>1, <2>1, <2>2, CommitEnters DEF CronPersist
  <2> QED
    BY <2>2, <2>3 DEF Ledger!LedgerNext, Ledger!Status, Status
<1>2. CASE CronPersist(r) /\ ~CasHolds(r, req[r].checkedAt, req[r].ping)
  <2>1. Counted' = Counted
    BY <1>2, SameCounted DEF CronPersist, End, Ended
  <2> QED
    BY <1>2, <2>1, QuietStep DEF CronPersist
<1>3. CASE RescheduleFailedAlert(r)
  <2>1. Counted' = Counted
    BY <1>3 DEF RescheduleFailedAlert, Counted, TypeOK, Request
  <2>2. /\ mon'.statsDay = mon.statsDay /\ mon'.tally = mon.tally
        /\ mon'.lastCheckedAt = mon.lastCheckedAt
    BY <1>3 DEF RescheduleFailedAlert, TypeOK, MonitorRow
  <2> QED
    BY <1>3, <2>1, <2>2, QuietStep DEF RescheduleFailedAlert
<1>4. CASE CronBegin(r) \/ CronSelect(r) \/ CronPrefetchToken(r)
             \/ CronCheckTarget(r)
  <2>1. Counted' = Counted
    BY <1>4, CronPreparationCountsNothing
  <2> QED
    BY <1>4, <2>1, QuietStep
    DEF CronBegin, CronSelect, CronPrefetchToken, CronCheckTarget
<1> QED
  BY <1>1, <1>2, <1>3, <1>4 DEF CronStep, CronCheck

LEMMA PushStepRefines ==
  ASSUME TypeOK, NEW p \in Pushes, PushStep(p)
  PROVE  [Ledger!LedgerNext]_ledgerVars
<1> p \in Requests
  BY DEF Requests
<1>1. CASE PushPersist(p) /\ CasHolds(p, req[p].checkedAt, req[p].ping)
  <2>1. p \in Requests \ Counted
    BY <1>1 DEF PushPersist, Counted
  <2>2. /\ req[p].checkedAt \in Times /\ req[p].status \in Status
        /\ mon.lastCheckedAt <= req[p].checkedAt
    BY <1>1 DEF TypeOK, Request, CasHolds
  <2>3. Ledger!Enter(p, req[p].checkedAt, req[p].status)
    BY <1>1, <2>1, <2>2, CommitEnters DEF PushPersist
  <2> QED
    BY <2>2, <2>3 DEF Ledger!LedgerNext, Ledger!Status, Status
<1>2. CASE PushPersist(p) /\ ~CasHolds(p, req[p].checkedAt, req[p].ping)
  <2> DEFINE x == [req[p] EXCEPT !.pc = "rereading",
                                 !.pending = {"monitor", "token"}]
  <2>1. x.pc \notin {"accepted", "settled"}
    BY ReadType DEF Request
  <2>2. req' = [req EXCEPT ![p] = x]
    BY <1>2 DEF PushPersist
  <2>3. req[p].pc \notin {"accepted", "settled"}
    BY <1>2 DEF PushPersist
  <2> HIDE DEF x
  <2>4. Counted' = Counted
    BY <2>1, <2>2, <2>3, SameCounted
  <2> QED
    BY <1>2, <2>4, QuietStep DEF PushPersist
<1>3. CASE PushRetry(p)
  <2>1. p \in Requests \ Counted /\ RetryTime(p) \in Times
    BY <1>3, MaxOfType DEF PushRetry, Counted, RetryTime, TypeOK, Request
  <2>2. CASE MayRetry(p) /\ CasHolds(p, RetryTime(p), req[p].freshPing)
    <3>1. mon.lastCheckedAt <= RetryTime(p)
      BY <2>2 DEF CasHolds
    <3>2. PICK s \in Status : Commit(p, RetryTime(p), s)
      BY <1>3, <2>2 DEF PushRetry, Status
    <3>3. Ledger!Enter(p, RetryTime(p), s)
      BY <2>1, <3>1, <3>2, CommitEnters
    <3> QED
      BY <2>1, <3>3 DEF Ledger!LedgerNext, Ledger!Status, Status
  <2>3. CASE ~(MayRetry(p) /\ CasHolds(p, RetryTime(p), req[p].freshPing))
    <3>1. Counted' = Counted
      BY <1>3, <2>3, SameCounted DEF PushRetry, End, Ended
    <3> QED
      BY <1>3, <2>3, <3>1, QuietStep DEF PushRetry
  <2> QED
    BY <2>2, <2>3
<1>4. CASE PushBegin(p) \/ PushReadToken(p) \/ PushReadMonitor(p)
             \/ PushParse(p) \/ RereadMonitor(p) \/ RereadToken(p)
  <2>1. Counted' = Counted
    BY <1>4, PushPreparationCountsNothing
  <2> QED
    BY <1>4, <2>1, QuietStep
    DEF PushBegin, PushReadToken, PushReadMonitor, PushParse, RereadMonitor,
        RereadToken
<1> QED
  BY <1>1, <1>2, <1>3, <1>4 DEF PushStep

LEMMA AdminStepRefines ==
  ASSUME TypeOK, AdminStep
  PROVE  [Ledger!LedgerNext]_ledgerVars
<1>1. CASE ResetStats
  BY <1>1, ResetResets DEF Ledger!LedgerNext
<1>2. ASSUME NEW a \in {0, 1}, SetActive(a) \/ EditWrite(a)
      PROVE  [Ledger!LedgerNext]_ledgerVars
  <2>1. /\ mon'.statsDay = mon.statsDay /\ mon'.tally = mon.tally
        /\ mon'.lastCheckedAt = mon.lastCheckedAt
    BY <1>2 DEF SetActive, EditWrite, TypeOK, MonitorRow
  <2> QED
    BY <1>2, <2>1, QuietStep DEF SetActive, EditWrite, Counted
<1>3. CASE EditRead
  BY <1>3, QuietStep DEF EditRead, Counted
<1> QED
  BY <1>1, <1>2, <1>3 DEF AdminStep

LEMMA StepRefines == TypeOK /\ [Next]_vars => [Ledger!LedgerNext]_ledgerVars
<1>1. ASSUME Tick \/ UNCHANGED vars
      PROVE  UNCHANGED ledgerVars
  BY <1>1, QuietStep DEF Tick, vars, Counted
<1> QED
  BY <1>1, CronStepRefines, PushStepRefines, AdminStepRefines DEF Next

LEMMA InitRefines == Init => Ledger!LedgerInit
<1> SUFFICES ASSUME Init
             PROVE  Ledger!LedgerInit
  OBVIOUS
<1>1. LedgerValue = Ledger!Blank
  BY NoDayIsNoDay
  DEF Init, LedgerValue, Blank, Ledger!Blank, Status, Ledger!Status
<1>2. Counted = {}
  BY DEF Init, Counted, NewRequest, Ended
<1> QED
  BY <1>1, <1>2 DEF Ledger!LedgerInit, Init

\* The monitors row and the rollup table together are the promised ledger,
\* whatever the number of runs, pushes and administrative writes.
THEOREM ObservationsImplementLedger == Spec => ImplementsLedger
<1>1. TypeOK /\ [Next]_vars
        => [Ledger!LedgerNext]_<<LedgerValue, Counted, mon.lastCheckedAt>>
  BY StepRefines DEF ledgerVars
<1> QED
  BY <1>1, InitRefines, ObservationsTypeOK, PTL
  DEF Spec, ImplementsLedger, Ledger!LedgerSpec

-----------------------------------------------------------------------------
(* The writes of the monitors row, and what they never do.                 *)

\* Every step that writes the row or its rollups is one of five.
RowWrites ==
  \/ \E q \in Requests \ Counted, t \in Times, s \in Status : Commit(q, t, s)
  \/ \E r \in CronRuns : RescheduleFailedAlert(r)
  \/ \E a \in {0, 1} : SetActive(a) \/ EditWrite(a)
  \/ ResetStats

LEMMA CronStepWrites ==
  ASSUME TypeOK, NEW r \in CronRuns, CronStep(r)
  PROVE  RowWrites \/ UNCHANGED <<mon, rollup>>
<1> r \in Requests
  BY DEF Requests
<1>1. CASE CronPersist(r) /\ CasHolds(r, req[r].checkedAt, req[r].ping)
  <2>1. r \in Requests \ Counted
    BY <1>1 DEF CronPersist, Counted
  <2>2. req[r].checkedAt \in Times /\ req[r].status \in Status
    BY DEF TypeOK, Request
  <2>3. Commit(r, req[r].checkedAt, req[r].status)
    BY <1>1 DEF CronPersist
  <2> QED
    BY <2>1, <2>2, <2>3 DEF RowWrites
<1>2. CASE CronPersist(r) /\ ~CasHolds(r, req[r].checkedAt, req[r].ping)
  BY <1>2 DEF CronPersist
<1>3. CASE RescheduleFailedAlert(r)
  BY <1>3 DEF RowWrites
<1>4. CASE CronBegin(r) \/ CronSelect(r) \/ CronPrefetchToken(r)
             \/ CronCheckTarget(r)
  BY <1>4 DEF CronBegin, CronSelect, CronPrefetchToken, CronCheckTarget
<1> QED
  BY <1>1, <1>2, <1>3, <1>4 DEF CronStep, CronCheck

LEMMA PushStepWrites ==
  ASSUME TypeOK, NEW p \in Pushes, PushStep(p)
  PROVE  RowWrites \/ UNCHANGED <<mon, rollup>>
<1> p \in Requests
  BY DEF Requests
<1>1. CASE PushPersist(p) /\ CasHolds(p, req[p].checkedAt, req[p].ping)
  <2>1. p \in Requests \ Counted
    BY <1>1 DEF PushPersist, Counted
  <2>2. req[p].checkedAt \in Times /\ req[p].status \in Status
    BY DEF TypeOK, Request
  <2>3. Commit(p, req[p].checkedAt, req[p].status)
    BY <1>1 DEF PushPersist
  <2> QED
    BY <2>1, <2>2, <2>3 DEF RowWrites
<1>2. CASE PushPersist(p) /\ ~CasHolds(p, req[p].checkedAt, req[p].ping)
  BY <1>2 DEF PushPersist
<1>3. CASE PushRetry(p) /\ MayRetry(p) /\ CasHolds(p, RetryTime(p), req[p].freshPing)
  <2>1. p \in Requests \ Counted /\ RetryTime(p) \in Times
    BY <1>3, MaxOfType DEF PushRetry, Counted, RetryTime, TypeOK, Request
  <2>2. PICK s \in Status : Commit(p, RetryTime(p), s)
    BY <1>3 DEF PushRetry, Status
  <2> QED
    BY <2>1, <2>2 DEF RowWrites
<1>4. CASE PushRetry(p) /\ ~(MayRetry(p) /\ CasHolds(p, RetryTime(p), req[p].freshPing))
  BY <1>4 DEF PushRetry
<1>5. CASE PushBegin(p) \/ PushReadToken(p) \/ PushReadMonitor(p)
             \/ PushParse(p) \/ RereadMonitor(p) \/ RereadToken(p)
  BY <1>5 DEF PushBegin, PushReadToken, PushReadMonitor, PushParse, RereadMonitor,
              RereadToken
<1> QED
  BY <1>1, <1>2, <1>3, <1>4, <1>5 DEF PushStep

LEMMA StepWrites ==
  ASSUME TypeOK, [Next]_vars
  PROVE  RowWrites \/ UNCHANGED <<mon, rollup>>
<1>1. CASE Tick \/ EditRead \/ UNCHANGED vars
  BY <1>1 DEF Tick, EditRead, vars
<1>2. CASE AdminStep /\ ~EditRead
  BY <1>2 DEF AdminStep, RowWrites
<1> QED
  BY <1>1, <1>2, CronStepWrites, PushStepWrites DEF Next

\* Cached history is never served for days that have changed since, whatever
\* the number of requests and the hour they commit at.
LEMMA StepChangesRevision ==
  ASSUME TypeOK, [Next]_vars, rollup' # rollup
  PROVE  mon'.historyRevision > mon.historyRevision
<1>1. ASSUME NEW q \in Requests, NEW t \in Times, NEW s \in Status, Commit(q, t, s)
      PROVE  mon'.historyRevision > mon.historyRevision
  BY <1>1 DEF Commit, ArchiveDay, UpdateMonitor, HistoryRevisionAfter, TypeOK, MonitorRow
<1>2. CASE ResetStats
  BY <1>2 DEF ResetStats, TypeOK, MonitorRow
<1> QED
  BY <1>1, <1>2, StepWrites DEF RowWrites, RescheduleFailedAlert, SetActive, EditWrite

\* History filed under a history_revision never changes (check-storage.ts 116-158
\* and 183-187).
THEOREM HistoryFollowsRevision == Spec => HistoryChangesRevision
<1>1. TypeOK /\ [Next]_vars
        => [rollup' # rollup => mon'.historyRevision > mon.historyRevision]_vars
  BY StepChangesRevision
<1> QED
  BY <1>1, ObservationsTypeOK, PTL DEF Spec, HistoryChangesRevision

\* An edit writes a clock reading of the past.
EditClock == edit.at \in Nat /\ edit.at <= now

LEMMA EditClockInductive == TypeOK /\ EditClock /\ [Next]_vars => EditClock'
<1> SUFFICES ASSUME TypeOK, EditClock, [Next]_vars
             PROVE  EditClock'
  OBVIOUS
<1>0. now \in Nat
  BY DEF TypeOK
<1>1. CASE Tick
  BY <1>0, <1>1 DEF Tick, EditClock
<1>2. CASE EditRead
  BY <1>0, <1>2 DEF EditRead, EditClock
<1>3. ASSUME NEW a \in {0, 1}, EditWrite(a)
      PROVE  EditClock'
  BY <1>3 DEF EditWrite, EditClock, TypeOK
<1>4. CASE UNCHANGED <<now, edit>>
  BY <1>4 DEF EditClock
<1>5. ASSUME NEW r \in CronRuns, CronStep(r)
      PROVE  UNCHANGED <<now, edit>>
  BY <1>5 DEF CronStep, CronCheck, CronBegin, CronSelect, CronPrefetchToken, CronCheckTarget,
              CronPersist, RescheduleFailedAlert
<1>6. ASSUME NEW p \in Pushes, PushStep(p)
      PROVE  UNCHANGED <<now, edit>>
  BY <1>6 DEF PushStep, PushBegin, PushReadToken, PushReadMonitor, PushParse,
              PushPersist, RereadMonitor, RereadToken, PushRetry
<1> QED
  BY <1>1, <1>2, <1>3, <1>4, <1>5, <1>6
  DEF Next, AdminStep, SetActive, ResetStats, vars

LEMMA StepPostponesOnlyForChecks ==
  ASSUME TypeOK, EditClock, [Next]_vars,
         mon.active = 1, mon'.active = 1, Counted' = Counted
  PROVE  mon'.nextCheckAt <= MaxOf(mon.nextCheckAt, now)
<1>0. /\ now \in Nat /\ mon.nextCheckAt \in Nat /\ mon \in MonitorRow
      /\ edit.at \in Nat /\ edit.at <= now
  BY ObservationsAssumption DEF TypeOK, MonitorRow, EditClock
<1>1. ASSUME NEW q \in Requests \ Counted, NEW t \in Times, NEW s \in Status,
             Commit(q, t, s)
      PROVE  FALSE
  <2>1. req'[q].pc = "accepted"
    BY <1>1 DEF Commit, Ended, TypeOK
  <2> QED
    BY <1>1, <2>1 DEF Counted
<1>2. ASSUME NEW r \in CronRuns, RescheduleFailedAlert(r)
      PROVE  mon'.nextCheckAt <= mon.nextCheckAt
  <2>1. req[r].checkedAt + RetrySeconds \in Nat
    BY ReadType, ObservationsAssumption DEF Requests, Request, Times
  <2> QED
    BY <1>0, <1>2, <2>1 DEF RescheduleFailedAlert, RedoCursor, MinOf, MonitorRow
<1>3. ASSUME NEW a \in {0, 1}, SetActive(a) \/ EditWrite(a)
      PROVE  mon'.nextCheckAt <= now
  <2>1. CASE SetActive(a)
    <3>1. mon'.active = a /\ (a = 1 => mon'.nextCheckAt = now)
      BY <1>0, <2>1 DEF SetActive, MonitorRow
    <3> QED
      BY <1>0, <3>1
  <2>2. CASE EditWrite(a)
    <3>1. mon'.active = a /\ (a = 1 => mon'.nextCheckAt = edit.at)
      BY <1>0, <2>2 DEF EditWrite, MonitorRow
    <3> QED
      BY <1>0, <3>1
  <2> QED
    BY <1>3, <2>1, <2>2
<1>4. ASSUME ResetStats
      PROVE  mon'.nextCheckAt = 0
  BY <1>0, <1>4 DEF ResetStats, MonitorRow
<1>5. CASE UNCHANGED <<mon, rollup>>
  BY <1>0, <1>5 DEF MaxOf
<1>6. CASE RowWrites
  <2>1. mon'.nextCheckAt <= mon.nextCheckAt \/ mon'.nextCheckAt <= now
    BY <1>0, <1>1, <1>2, <1>3, <1>4, <1>6 DEF RowWrites
  <2>2. mon' \in MonitorRow
    BY StepType DEF TypeOK
  <2> QED
    BY <1>0, <2>1, <2>2, ObservationsAssumption DEF MaxOf, MonitorRow
<1> QED
  BY <1>5, <1>6, StepWrites

\* Only an accepted check puts the next one off: no redo of a failed alert,
\* edit, resume or reset defers it (cron.ts 409-434, monitors.ts 343-364).
THEOREM ChecksAreNotPostponed == Spec => OnlyChecksPostpone
<1>1. TypeOK /\ EditClock /\ [Next]_vars
        => [mon.active = 1 /\ mon'.active = 1 /\ Counted' = Counted
              => mon'.nextCheckAt <= MaxOf(mon.nextCheckAt, now)]_vars
  BY StepPostponesOnlyForChecks
<1>2. Init => EditClock
  BY DEF Init, EditClock
<1> QED
  BY <1>1, <1>2, EditClockInductive, ObservationsTypeOK, PTL
  DEF Spec, OnlyChecksPostpone

-----------------------------------------------------------------------------
(* What a request has read, and what it may still rely on.                 *)

\* Nothing a request has read or the row holds is of the future, and a payload
\* in the row moved the ping cursor at least to its own second.
Past(q) == req[q].checkedAt <= now /\ req[q].cursor <= now /\ req[q].ping <= now

RowIsPast ==
  mon.lastCheckedAt <= now /\ lastPingAt <= now /\ mon.payload <= lastPingAt

\* A cron run that is about to record a miss has seen a cursor that says so.
HonestMiss(r) ==
  /\ req[r].pc = "checking" => Kind = "check"
  /\ Kind = "heartbeat" /\ req[r].pc = "persisting" /\ req[r].status = "down"
       => req[r].ping = 0 \/ req[r].checkedAt > req[r].ping + Window

\* A heartbeat carries a time, which the cursor covers once it is accepted.
Covered(p) ==
  Kind = "heartbeat" =>
    /\ InFlight(p) \/ p \in Counted => req[p].checkedAt >= 1
    /\ p \in Counted => req[p].checkedAt <= lastPingAt

\* An agent's payload arrived after its request read the ping cursor.
Ordered(p) ==
  Kind = "agent" /\ req[p].pc \in {"persisting", "rereading"}
    => req[p].ping <= req[p].payload /\ req[p].payload <= req[p].checkedAt

\* What a push has read still holds while nobody else wrote; one cron commit
\* leaves the ping cursor alone, and what is read after it holds until the next.
Undisturbed(p) ==
  rivals[p].other = 0 =>
    /\ req[p].pc \in {"loading", "parsing", "persisting", "rereading"}
         => lastPingAt = req[p].ping
    /\ req[p].pc \in {"parsing", "persisting", "rereading"} => mon.active = 1
    /\ rivals[p].cron = 0 =>
         /\ req[p].pc \in {"authenticating", "loading"} /\ Kind # "agent"
              => mon.lastCheckedAt <= req[p].checkedAt
         /\ req[p].pc \in {"parsing", "persisting"}
              => mon.rev = req[p].rev /\ mon.lastCheckedAt = req[p].cursor
         /\ req[p].pc = "persisting" => req[p].cursor <= req[p].checkedAt
    /\ req[p].pc = "rereading" => rivals[p].cron >= 1
    /\ req[p].pc = "rereading" /\ rivals[p].cron = 1 =>
         /\ "monitor" \notin req[p].pending
              => /\ mon.rev = req[p].rev /\ mon.lastCheckedAt = req[p].cursor
                 /\ req[p].active = 1
         /\ "token" \notin req[p].pending => req[p].freshPing = lastPingAt
    /\ req[p].pc = "rejected" => rivals[p].cron = 2

RequestInv(q) ==
  /\ Past(q)
  /\ q \in CronRuns => HonestMiss(q)
  /\ q \in Pushes => Covered(q) /\ Ordered(q) /\ Undisturbed(q)

SnapshotInv == TypeOK /\ RowIsPast /\ \A q \in Requests : RequestInv(q)

LEMMA SnapshotInit == Init => SnapshotInv
<1> SUFFICES ASSUME Init PROVE SnapshotInv
  OBVIOUS
<1>1. now = 1 /\ lastPingAt = 0 /\ mon.lastCheckedAt = 0 /\ mon.payload = 0
  BY DEF Init
<1>2. ASSUME NEW q \in Requests PROVE RequestInv(q)
  <2>1. req[q] = NewRequest
    BY DEF Init
  <2>2. /\ req[q].pc = "idle" /\ req[q].checkedAt = 0 /\ req[q].cursor = 0
        /\ req[q].ping = 0
    BY <2>1 DEF NewRequest, Ended
  <2> QED
    BY <1>1, <2>2 DEF RequestInv, Past, HonestMiss, Covered, Ordered, Undisturbed,
                      InFlight, Counted
<1> QED
  BY <1>1, <1>2, InitType DEF SnapshotInv, RowIsPast

LEMMA ReadSnapshot ==
  ASSUME SnapshotInv
  PROVE  /\ TypeOK /\ RowIsPast
         /\ now \in Nat /\ now >= 1 /\ lastPingAt \in Nat
         /\ mon.lastCheckedAt \in Nat /\ mon.payload \in Nat /\ mon.rev \in Nat
         /\ \A q \in Requests :
              /\ RequestInv(q) /\ req[q] \in Request
              /\ req[q].checkedAt \in Nat /\ req[q].cursor \in Nat
              /\ req[q].ping \in Nat /\ req[q].payload \in Nat
         /\ \A p \in Pushes : rivals[p].cron \in 0..2 /\ rivals[p].other \in {0, 1}
  BY DEF SnapshotInv, TypeOK, Request, MonitorRow, Times

\* A step of one request that writes nothing leaves the others as they were.
LEMMA LocalStep ==
  ASSUME SnapshotInv, TypeOK', NEW q \in Requests, NEW x,
         req' = [req EXCEPT ![q] = x], RequestInv(q)',
         UNCHANGED <<now, mon, lastPingAt, rivals>>
  PROVE  SnapshotInv'
<1>1. ASSUME NEW w \in Requests, w # q PROVE RequestInv(w)'
  <2>1. req'[w] = req[w] /\ RequestInv(w)
    BY <1>1 DEF SnapshotInv, TypeOK
  <2> QED
    BY <2>1 DEF RequestInv, Past, HonestMiss, Covered, Ordered, Undisturbed, InFlight,
                Counted
<1>2. RowIsPast'
  BY DEF SnapshotInv, RowIsPast
<1> QED
  BY <1>1, <1>2 DEF SnapshotInv

\* A request that ends without a write: a push has been disturbed.
LEMMA EndingStep ==
  ASSUME SnapshotInv, TypeOK', NEW q \in Requests,
         NEW outcome \in {"rejected", "refused", "notDue"}, End(q, outcome),
         q \in Pushes /\ outcome = "rejected" /\ rivals[q].other = 0 => rivals[q].cron = 2,
         UNCHANGED <<now, mon, lastPingAt, rivals>>
  PROVE  SnapshotInv'
<1> DEFINE x == Ended(outcome, 0, "up", 0)
<1>1. req' = [req EXCEPT ![q] = x]
  BY DEF End
<1>2. /\ x.pc = outcome /\ x.checkedAt = 0 /\ x.cursor = 0 /\ x.ping = 0
  BY DEF Ended
<1>3. req'[q] = x
  BY <1>1 DEF SnapshotInv, TypeOK
<1> HIDE DEF x
<1>4. RequestInv(q)'
  BY <1>2, <1>3, ReadSnapshot
  DEF RequestInv, Past, HonestMiss, Covered, Ordered, Undisturbed, InFlight, Counted
<1> QED
  BY <1>1, <1>4, LocalStep

-----------------------------------------------------------------------------
(* Commits.                                                                *)

LEMMA CommitKeepsSnapshots ==
  ASSUME SnapshotInv, TypeOK', NEW q \in Requests, NEW t \in Times, NEW s \in Status,
         Commit(q, t, s), now' = now,
         req[q].pc \in {"persisting", "rereading"},
         req[q].checkedAt <= t, t <= now
  PROVE  SnapshotInv'
<1>1. /\ t \in Nat /\ now \in Nat /\ now >= 1 /\ lastPingAt \in Nat
      /\ mon.payload \in Nat /\ mon.payload <= lastPingAt /\ lastPingAt <= now
      /\ req[q].payload \in Nat /\ req[q].checkedAt \in Nat
  BY ReadSnapshot DEF RowIsPast, Times
<1>2. /\ mon'.lastCheckedAt = t /\ mon'.active = mon.active
      /\ mon'.payload = IF FromAgent(q) THEN req[q].payload ELSE mon.payload
  BY DEF Commit, UpdateMonitor
<1>3. lastPingAt' = IF q \in Pushes THEN MaxOf(lastPingAt, t) ELSE lastPingAt
  BY DEF Commit, MovePingCursor
<1>4. /\ lastPingAt' \in Nat /\ lastPingAt <= lastPingAt' /\ lastPingAt' <= now
      /\ q \in Pushes => t <= lastPingAt'
  BY <1>1, <1>3 DEF MaxOf
<1>5. RowIsPast'
  <2>1. FromAgent(q) => req[q].payload <= req[q].checkedAt /\ q \in Pushes
    BY ReadSnapshot DEF FromAgent, RequestInv, Ordered
  <2>2. mon'.payload <= lastPingAt'
    <3>1. CASE FromAgent(q)
      BY <1>1, <1>2, <1>4, <2>1, <3>1
    <3>2. CASE ~FromAgent(q)
      BY <1>1, <1>2, <1>4, <3>2
    <3> QED
      BY <3>1, <3>2
  <2> QED
    BY <1>2, <1>4, <2>2 DEF RowIsPast
<1>6. /\ req'[q].pc = "accepted" /\ req'[q].checkedAt = t
      /\ req'[q].cursor = 0 /\ req'[q].ping = 0
      /\ \A w \in Requests : w # q => req'[w] = req[w]
  BY DEF Commit, Ended, SnapshotInv, TypeOK
<1>7. RequestInv(q)'
  <2>1. Past(q)'
    BY <1>1, <1>6 DEF Past
  <2>2. ASSUME q \in Pushes PROVE Covered(q)'
    <3>1. Kind = "heartbeat" => t >= 1
      BY <1>1, <2>2, ReadSnapshot DEF RequestInv, Covered, InFlight
    <3> QED
      BY <1>4, <1>6, <2>2, <3>1 DEF Covered
  <2> QED
    BY <1>6, <2>1, <2>2 DEF RequestInv, HonestMiss, Ordered, Undisturbed
<1>8. ASSUME NEW w \in Requests, w # q PROVE RequestInv(w)'
  <2>1. RequestInv(w) /\ req'[w] = req[w] /\ req[w].checkedAt \in Nat
    BY <1>6, <1>8, ReadSnapshot
  <2>2. Past(w)' /\ (w \in CronRuns => HonestMiss(w)')
    BY <2>1 DEF RequestInv, Past, HonestMiss
  <2>3. ASSUME w \in Pushes PROVE Covered(w)' /\ Ordered(w)'
    BY <1>1, <1>4, <2>1, <2>3 DEF RequestInv, Covered, Ordered, InFlight, Counted
  <2>4. ASSUME w \in Pushes PROVE Undisturbed(w)'
    <3>1. /\ rivals[w].cron \in 0..2 /\ rivals[w].other \in {0, 1} /\ Undisturbed(w)
      BY <2>1, <2>4, ReadSnapshot DEF RequestInv
    <3>2. CASE ~InFlight(w)
      <4>1. rivals'[w] = rivals[w]
        BY <2>4, <3>2 DEF Commit, NoteRival
      <4> QED
        BY <2>1, <3>1, <3>2, <4>1 DEF Undisturbed, InFlight
    <3>3. CASE InFlight(w) /\ q \in CronRuns
      <4>1. rivals'[w] = [cron |-> MinOf(rivals[w].cron + 1, 2), other |-> rivals[w].other]
        BY <2>4, <3>3 DEF Commit, NoteRival
      <4>2. /\ rivals'[w].other = rivals[w].other /\ rivals'[w].cron >= 1
            /\ rivals'[w].cron = 1 => rivals[w].cron = 0
        BY <3>1, <4>1 DEF MinOf
      <4>3. lastPingAt' = lastPingAt
        BY <1>3, <3>3, ObservationsAssumption
      <4> QED
        BY <1>2, <2>1, <3>1, <3>3, <4>2, <4>3 DEF Undisturbed, InFlight
    <3>4. CASE InFlight(w) /\ q \notin CronRuns
      <4>1. rivals'[w].other = 1
        BY <2>4, <3>4 DEF Commit, NoteRival
      <4> QED
        BY <4>1 DEF Undisturbed
    <3> QED
      BY <3>2, <3>3, <3>4
  <2> QED
    BY <2>2, <2>3, <2>4 DEF RequestInv
<1> QED
  BY <1>5, <1>7, <1>8 DEF SnapshotInv

-----------------------------------------------------------------------------
(* The steps of a cron run.                                                *)

LEMMA CronStepKeepsSnapshots ==
  ASSUME SnapshotInv, TypeOK', NEW r \in CronRuns, CronStep(r)
  PROVE  SnapshotInv'
<1>1. /\ r \in Requests /\ r \notin Pushes
      /\ TypeOK /\ RowIsPast /\ RequestInv(r) /\ req[r] \in Request
      /\ req[r].checkedAt \in Nat /\ req[r].ping \in Nat /\ req[r].cursor \in Nat
      /\ req \in [Requests -> Request]
  BY ReadSnapshot, ObservationsAssumption DEF Requests, TypeOK
<1>2. CASE CronBegin(r)
  <2> DEFINE x == [req[r] EXCEPT !.pc = "selecting", !.checkedAt = now]
  <2>1. req' = [req EXCEPT ![r] = x] /\ UNCHANGED <<now, mon, lastPingAt, rivals>>
    BY <1>2 DEF CronBegin
  <2>2. /\ x.pc = "selecting" /\ x.checkedAt = now /\ x.cursor = req[r].cursor
        /\ x.ping = req[r].ping
    BY <1>1 DEF Request
  <2>3. req'[r] = x
    BY <1>1, <2>1
  <2> HIDE DEF x
  <2>4. RequestInv(r)'
    BY <1>1, <2>1, <2>2, <2>3, ReadSnapshot DEF RequestInv, Past, HonestMiss
  <2> QED
    BY <1>1, <2>1, <2>4, LocalStep
<1>3. CASE CronSelect(r) /\ Due(r)
  <2> DEFINE place == IF Kind = "check" THEN "checking" ELSE "prefetching"
             x == [req[r] EXCEPT !.pc = place, !.rev = mon.rev,
                     !.cursor = mon.lastCheckedAt, !.metrics = mon.metrics]
  <2>1. req' = [req EXCEPT ![r] = x] /\ UNCHANGED <<now, mon, lastPingAt, rivals>>
    BY <1>3 DEF CronSelect
  <2>2. /\ x.pc = place /\ x.checkedAt = req[r].checkedAt
        /\ x.cursor = mon.lastCheckedAt /\ x.ping = req[r].ping
    BY <1>1 DEF Request
  <2>3. req'[r] = x
    BY <1>1, <2>1
  <2> HIDE DEF x
  <2>4. RequestInv(r)'
    BY <1>1, <2>1, <2>2, <2>3 DEF RequestInv, Past, HonestMiss, RowIsPast
  <2> QED
    BY <1>1, <2>1, <2>4, LocalStep
<1>4. CASE CronSelect(r) /\ ~Due(r)
  BY <1>1, <1>4, EndingStep DEF CronSelect
<1>5. CASE CronPrefetchToken(r)
  <2> DEFINE seen == InboundStatus(r, lastPingAt)
             x == [req[r] EXCEPT !.pc = "persisting", !.ping = lastPingAt,
                     !.status = seen]
  <2>1. req' = [req EXCEPT ![r] = x] /\ UNCHANGED <<now, mon, lastPingAt, rivals>>
    BY <1>5 DEF CronPrefetchToken
  <2>2. /\ x.pc = "persisting" /\ x.checkedAt = req[r].checkedAt
        /\ x.cursor = req[r].cursor /\ x.ping = lastPingAt /\ x.status = seen
    BY <1>1 DEF Request
  <2>3. req'[r] = x
    BY <1>1, <2>1
  <2>4. Kind = "heartbeat" /\ seen = "down"
          => lastPingAt = 0 \/ req[r].checkedAt > lastPingAt + Window
    BY DEF InboundStatus
  <2> HIDE DEF x, seen
  <2>5. RequestInv(r)'
    BY <1>1, <2>1, <2>2, <2>3, <2>4 DEF RequestInv, Past, HonestMiss, RowIsPast
  <2> QED
    BY <1>1, <2>1, <2>5, LocalStep
<1>6. CASE CronCheckTarget(r)
  <2>1. Kind # "heartbeat"
    BY <1>1, <1>6, ObservationsAssumption DEF CronCheckTarget, RequestInv, HonestMiss
  <2>2. PICK s \in Status :
          req' = [req EXCEPT ![r] = [@ EXCEPT !.pc = "persisting", !.status = s]]
    BY <1>6 DEF CronCheckTarget
  <2> DEFINE x == [req[r] EXCEPT !.pc = "persisting", !.status = s]
  <2>3. /\ x.pc = "persisting" /\ x.checkedAt = req[r].checkedAt
        /\ x.cursor = req[r].cursor /\ x.ping = req[r].ping
    BY <1>1 DEF Request
  <2>4. req' = [req EXCEPT ![r] = x] /\ req'[r] = x
    BY <1>1, <2>2
  <2>5. UNCHANGED <<now, mon, lastPingAt, rivals>>
    BY <1>6 DEF CronCheckTarget
  <2> HIDE DEF x
  <2>6. RequestInv(r)'
    BY <1>1, <2>1, <2>3, <2>4, <2>5 DEF RequestInv, Past, HonestMiss
  <2> QED
    BY <1>1, <2>4, <2>5, <2>6, LocalStep
<1>7. CASE CronPersist(r)
  <2>1. CASE CasHolds(r, req[r].checkedAt, req[r].ping)
    <3>1. Commit(r, req[r].checkedAt, req[r].status) /\ now' = now
      BY <1>7, <2>1 DEF CronPersist
    <3>2. req[r].checkedAt \in Times /\ req[r].status \in Status
      BY <1>1 DEF Request
    <3>3. req[r].checkedAt <= now /\ req[r].pc = "persisting"
      BY <1>1, <1>7 DEF RequestInv, Past, CronPersist
    <3> QED
      BY <1>1, <3>1, <3>2, <3>3, CommitKeepsSnapshots
  <2>2. CASE ~CasHolds(r, req[r].checkedAt, req[r].ping)
    BY <1>1, <1>7, <2>2, EndingStep DEF CronPersist
  <2> QED
    BY <2>1, <2>2
<1>8. CASE RescheduleFailedAlert(r)
  <2>1. /\ mon'.rev = mon.rev /\ mon'.active = mon.active
        /\ mon'.lastCheckedAt = mon.lastCheckedAt /\ mon'.payload = mon.payload
    BY <1>1, <1>8 DEF RescheduleFailedAlert, TypeOK, MonitorRow
  <2>2. /\ req'[r] = [req[r] EXCEPT !.pc = "settled"]
        /\ \A w \in Requests : w # r => req'[w] = req[w]
        /\ UNCHANGED <<now, lastPingAt, rivals>>
    BY <1>1, <1>8 DEF RescheduleFailedAlert
  <2>3. /\ req'[r].pc = "settled" /\ req'[r].checkedAt = req[r].checkedAt
        /\ req'[r].cursor = req[r].cursor /\ req'[r].ping = req[r].ping
    BY <1>1, <2>2 DEF Request
  <2>4. RequestInv(r)'
    BY <1>1, <2>2, <2>3 DEF RequestInv, Past, HonestMiss
  <2>5. ASSUME NEW w \in Requests, w # r PROVE RequestInv(w)'
    <3>1. req'[w] = req[w] /\ RequestInv(w)
      BY <2>2, <2>5, ReadSnapshot
    <3> QED
      BY <2>1, <2>2, <3>1 DEF RequestInv, Past, HonestMiss, Covered, Ordered,
                              Undisturbed, InFlight, Counted
  <2>6. RowIsPast'
    BY <1>1, <2>1, <2>2 DEF RowIsPast
  <2> QED
    BY <2>4, <2>5, <2>6 DEF SnapshotInv
<1> QED
  BY <1>2, <1>3, <1>4, <1>5, <1>6, <1>7, <1>8 DEF CronStep, CronCheck

-----------------------------------------------------------------------------
(* The steps of a push, each as it leaves the request.                     *)

LEMMA PushReads ==
  ASSUME SnapshotInv, TypeOK', NEW p \in Pushes,
         \/ PushBegin(p) \/ PushReadToken(p) \/ (PushReadMonitor(p) /\ mon.active = 1)
         \/ PushParse(p)
  PROVE  SnapshotInv'
<1>1. /\ p \in Requests /\ p \notin CronRuns
      /\ TypeOK /\ RowIsPast /\ RequestInv(p) /\ req[p] \in Request
      /\ req[p].checkedAt \in Nat /\ req[p].ping \in Nat /\ req[p].cursor \in Nat
      /\ now \in Nat /\ now >= 1 /\ lastPingAt \in Nat /\ mon.lastCheckedAt \in Nat
      /\ rivals[p].cron \in 0..2 /\ rivals[p].other \in {0, 1}
      /\ req \in [Requests -> Request]
  BY ReadSnapshot, ObservationsAssumption DEF Requests, TypeOK
<1>2. CASE PushBegin(p)
  <2> DEFINE t == IF Kind = "heartbeat" THEN now ELSE 0
             x == [req[p] EXCEPT !.pc = "authenticating", !.checkedAt = t]
  <2>1. req' = [req EXCEPT ![p] = x] /\ UNCHANGED <<now, mon, lastPingAt, rivals>>
    BY <1>2 DEF PushBegin
  <2>2. /\ x.pc = "authenticating" /\ x.checkedAt = t /\ x.cursor = req[p].cursor
        /\ x.ping = req[p].ping
    BY <1>1 DEF Request
  <2>3. req'[p] = x
    BY <1>1, <2>1
  <2>4. Kind # "agent" => Kind = "heartbeat"
    BY <1>2, ObservationsAssumption DEF PushBegin
  <2> HIDE DEF x
  <2>5. Past(p)' /\ Ordered(p)'
    BY <1>1, <2>1, <2>2, <2>3 DEF RequestInv, Past, Ordered
  <2>6. Covered(p)'
    BY <1>1, <2>2, <2>3 DEF Covered, Counted
  <2>7. Undisturbed(p)'
    BY <1>1, <2>1, <2>2, <2>3, <2>4 DEF Undisturbed, RowIsPast
  <2>8. RequestInv(p)'
    BY <1>1, <2>5, <2>6, <2>7 DEF RequestInv
  <2> QED
    BY <1>1, <2>1, <2>8, LocalStep
<1>3. CASE PushReadToken(p)
  <2> DEFINE x == [req[p] EXCEPT !.pc = "loading", !.ping = lastPingAt]
  <2>1. req' = [req EXCEPT ![p] = x] /\ UNCHANGED <<now, mon, lastPingAt, rivals>>
    BY <1>3 DEF PushReadToken
  <2>2. /\ x.pc = "loading" /\ x.checkedAt = req[p].checkedAt
        /\ x.cursor = req[p].cursor /\ x.ping = lastPingAt
    BY <1>1 DEF Request
  <2>3. req'[p] = x
    BY <1>1, <2>1
  <2> HIDE DEF x
  <2>4. Past(p)' /\ Ordered(p)'
    BY <1>1, <2>1, <2>2, <2>3 DEF RequestInv, Past, Ordered, RowIsPast
  <2>5. Covered(p)'
    BY <1>1, <1>3, <2>2, <2>3 DEF RequestInv, Covered, Counted, InFlight, PushReadToken
  <2>6. Undisturbed(p)'
    BY <1>1, <1>3, <2>1, <2>2, <2>3 DEF RequestInv, Undisturbed, PushReadToken
  <2>7. RequestInv(p)'
    BY <1>1, <2>4, <2>5, <2>6 DEF RequestInv
  <2> QED
    BY <1>1, <2>1, <2>7, LocalStep
<1>4. CASE PushReadMonitor(p) /\ mon.active = 1
  <2> DEFINE place == IF Kind = "agent" THEN "parsing" ELSE "persisting"
             x == [req[p] EXCEPT !.pc = place, !.rev = mon.rev,
                                 !.cursor = mon.lastCheckedAt]
  <2>1. req' = [req EXCEPT ![p] = x] /\ UNCHANGED <<now, mon, lastPingAt, rivals>>
    BY <1>4 DEF PushReadMonitor
  <2>2. /\ x.pc = place /\ x.checkedAt = req[p].checkedAt /\ x.rev = mon.rev
        /\ x.cursor = mon.lastCheckedAt /\ x.ping = req[p].ping
    BY <1>1 DEF Request
  <2>3. req'[p] = x /\ req[p].pc = "loading"
    BY <1>1, <1>4, <2>1 DEF PushReadMonitor
  <2>4. place \in {"parsing", "persisting"} /\ (Kind = "agent" => place = "parsing")
    OBVIOUS
  <2>5. place = "persisting" => Kind # "agent"
    OBVIOUS
  <2> HIDE DEF x, place
  <2>6. Past(p)' /\ Ordered(p)'
    BY <1>1, <2>1, <2>2, <2>3, <2>4 DEF RequestInv, Past, Ordered, RowIsPast
  <2>7. Covered(p)'
    BY <1>1, <2>2, <2>3, <2>4 DEF RequestInv, Covered, Counted, InFlight
  <2>8. Undisturbed(p)'
    BY <1>1, <1>4, <2>1, <2>2, <2>3, <2>4, <2>5 DEF RequestInv, Undisturbed
  <2>9. RequestInv(p)'
    BY <1>1, <2>6, <2>7, <2>8 DEF RequestInv
  <2> QED
    BY <1>1, <2>1, <2>9, LocalStep
<1>5. CASE PushParse(p)
  <2>1. PICK s \in Status :
          req' = [req EXCEPT ![p] = [@ EXCEPT !.pc = "persisting", !.status = s,
                                              !.checkedAt = now, !.payload = now]]
    BY <1>5 DEF PushParse
  <2> DEFINE x == [req[p] EXCEPT !.pc = "persisting", !.status = s,
                                 !.checkedAt = now, !.payload = now]
  <2>2. /\ x.pc = "persisting" /\ x.checkedAt = now /\ x.payload = now
        /\ x.rev = req[p].rev /\ x.cursor = req[p].cursor /\ x.ping = req[p].ping
    BY <1>1 DEF Request
  <2>3. req' = [req EXCEPT ![p] = x] /\ req'[p] = x
    BY <1>1, <2>1
  <2>4. UNCHANGED <<now, mon, lastPingAt, rivals>> /\ req[p].pc = "parsing"
    BY <1>5 DEF PushParse
  <2> HIDE DEF x
  <2>5. Past(p)' /\ Ordered(p)'
    BY <1>1, <2>2, <2>3, <2>4 DEF RequestInv, Past, Ordered
  <2>6. Covered(p)'
    BY <1>1, <2>2, <2>3 DEF Covered, Counted
  <2>7. Undisturbed(p)'
    BY <1>1, <2>2, <2>3, <2>4 DEF RequestInv, Undisturbed, RowIsPast
  <2>8. RequestInv(p)'
    BY <1>1, <2>5, <2>6, <2>7 DEF RequestInv
  <2> QED
    BY <1>1, <2>3, <2>4, <2>8, LocalStep
<1> QED
  BY <1>2, <1>3, <1>4, <1>5

\* The first attempt: it commits, or somebody wrote since the row was read.
LEMMA PushPersistKeepsSnapshots ==
  ASSUME SnapshotInv, TypeOK', NEW p \in Pushes, PushPersist(p)
  PROVE  SnapshotInv'
<1>1. /\ p \in Requests /\ p \notin CronRuns
      /\ TypeOK /\ RowIsPast /\ RequestInv(p) /\ req[p] \in Request
      /\ req[p].checkedAt \in Nat /\ req[p].ping \in Nat /\ req[p].cursor \in Nat
      /\ rivals[p].cron \in 0..2 /\ rivals[p].other \in {0, 1}
      /\ req \in [Requests -> Request]
      /\ req[p].pc = "persisting"
  BY ReadSnapshot, ObservationsAssumption DEF Requests, TypeOK, PushPersist
<1>2. CASE CasHolds(p, req[p].checkedAt, req[p].ping)
  <2>1. Commit(p, req[p].checkedAt, req[p].status) /\ now' = now
    BY <1>2 DEF PushPersist
  <2>2. req[p].checkedAt \in Times /\ req[p].status \in Status
    BY <1>1 DEF Request
  <2>3. req[p].checkedAt <= now
    BY <1>1 DEF RequestInv, Past
  <2> QED
    BY <1>1, <2>1, <2>2, <2>3, CommitKeepsSnapshots
<1>3. CASE ~CasHolds(p, req[p].checkedAt, req[p].ping)
  <2> DEFINE x == [req[p] EXCEPT !.pc = "rereading", !.pending = {"monitor", "token"}]
  <2>1. req' = [req EXCEPT ![p] = x] /\ UNCHANGED <<now, mon, lastPingAt, rivals>>
    BY <1>3 DEF PushPersist
  <2>2. /\ x.pc = "rereading" /\ x.pending = {"monitor", "token"}
        /\ x.checkedAt = req[p].checkedAt /\ x.payload = req[p].payload
        /\ x.cursor = req[p].cursor /\ x.ping = req[p].ping
    BY <1>1 DEF Request
  <2>3. req'[p] = x
    BY <1>1, <2>1
  <2>4. ASSUME rivals[p].other = 0 PROVE rivals[p].cron >= 1
    <3> SUFFICES ASSUME rivals[p].cron = 0 PROVE FALSE
      BY <1>1
    <3>1. /\ lastPingAt = req[p].ping /\ mon.rev = req[p].rev
          /\ mon.lastCheckedAt = req[p].cursor /\ req[p].cursor <= req[p].checkedAt
      BY <1>1, <2>4 DEF RequestInv, Undisturbed
    <3> QED
      BY <1>3, <3>1 DEF CasHolds
  <2> HIDE DEF x
  <2>5. Past(p)' /\ Ordered(p)'
    BY <1>1, <2>1, <2>2, <2>3 DEF RequestInv, Past, Ordered
  <2>6. Covered(p)'
    BY <1>1, <2>2, <2>3 DEF RequestInv, Covered, Counted, InFlight
  <2>7. Undisturbed(p)'
    BY <1>1, <2>1, <2>2, <2>3, <2>4 DEF RequestInv, Undisturbed
  <2>8. RequestInv(p)'
    BY <1>1, <2>5, <2>6, <2>7 DEF RequestInv
  <2> QED
    BY <1>1, <2>1, <2>8, LocalStep
<1> QED
  BY <1>2, <1>3

LEMMA RereadKeepsSnapshots ==
  ASSUME SnapshotInv, TypeOK', NEW p \in Pushes, RereadMonitor(p) \/ RereadToken(p)
  PROVE  SnapshotInv'
<1>1. /\ p \in Requests /\ p \notin CronRuns
      /\ TypeOK /\ RowIsPast /\ RequestInv(p) /\ req[p] \in Request
      /\ rivals[p].cron \in 0..2 /\ rivals[p].other \in {0, 1}
      /\ req \in [Requests -> Request]
      /\ req[p].pc = "rereading"
  BY ReadSnapshot, ObservationsAssumption
  DEF Requests, TypeOK, RereadMonitor, RereadToken
<1>2. CASE RereadMonitor(p)
  <2> DEFINE x == [req[p] EXCEPT !.pending = req[p].pending \ {"monitor"},
                     !.rev = mon.rev, !.cursor = mon.lastCheckedAt, !.active = mon.active]
  <2>1. req' = [req EXCEPT ![p] = x] /\ UNCHANGED <<now, mon, lastPingAt, rivals>>
    BY <1>2 DEF RereadMonitor
  <2>2. /\ x.pc = "rereading" /\ x.pending = req[p].pending \ {"monitor"}
        /\ x.checkedAt = req[p].checkedAt /\ x.payload = req[p].payload
        /\ x.cursor = mon.lastCheckedAt /\ x.ping = req[p].ping
        /\ x.rev = mon.rev /\ x.active = mon.active /\ x.freshPing = req[p].freshPing
    BY <1>1 DEF Request
  <2>3. req'[p] = x
    BY <1>1, <2>1
  <2> HIDE DEF x
  <2>4. Past(p)' /\ Ordered(p)'
    BY <1>1, <2>1, <2>2, <2>3 DEF RequestInv, Past, Ordered, RowIsPast
  <2>5. Covered(p)'
    BY <1>1, <2>2, <2>3 DEF RequestInv, Covered, Counted, InFlight
  <2>6. Undisturbed(p)'
    BY <1>1, <2>1, <2>2, <2>3 DEF RequestInv, Undisturbed
  <2>7. RequestInv(p)'
    BY <1>1, <2>4, <2>5, <2>6 DEF RequestInv
  <2> QED
    BY <1>1, <2>1, <2>7, LocalStep
<1>3. CASE RereadToken(p)
  <2> DEFINE x == [req[p] EXCEPT !.pending = req[p].pending \ {"token"},
                                 !.freshPing = lastPingAt]
  <2>1. req' = [req EXCEPT ![p] = x] /\ UNCHANGED <<now, mon, lastPingAt, rivals>>
    BY <1>3 DEF RereadToken
  <2>2. /\ x.pc = "rereading" /\ x.pending = req[p].pending \ {"token"}
        /\ x.checkedAt = req[p].checkedAt /\ x.payload = req[p].payload
        /\ x.cursor = req[p].cursor /\ x.ping = req[p].ping
        /\ x.rev = req[p].rev /\ x.active = req[p].active /\ x.freshPing = lastPingAt
    BY <1>1 DEF Request
  <2>3. req'[p] = x
    BY <1>1, <2>1
  <2> HIDE DEF x
  <2>4. Past(p)' /\ Ordered(p)'
    BY <1>1, <2>1, <2>2, <2>3 DEF RequestInv, Past, Ordered
  <2>5. Covered(p)'
    BY <1>1, <2>2, <2>3 DEF RequestInv, Covered, Counted, InFlight
  <2>6. Undisturbed(p)'
    BY <1>1, <2>1, <2>2, <2>3 DEF RequestInv, Undisturbed
  <2>7. RequestInv(p)'
    BY <1>1, <2>4, <2>5, <2>6 DEF RequestInv
  <2> QED
    BY <1>1, <2>1, <2>7, LocalStep
<1> QED
  BY <1>2, <1>3

\* The retry fails only when an administrator, another push or a second cron
\* run wrote: one cron commit changes neither what was read again nor the ping
\* cursor.
LEMMA PushRetryKeepsSnapshots ==
  ASSUME SnapshotInv, TypeOK', NEW p \in Pushes, PushRetry(p)
  PROVE  SnapshotInv'
<1>1. /\ p \in Requests
      /\ TypeOK /\ RowIsPast /\ RequestInv(p) /\ req[p] \in Request
      /\ req[p].checkedAt \in Nat /\ req[p].cursor \in Nat /\ now \in Nat
      /\ rivals[p].cron \in 0..2 /\ rivals[p].other \in {0, 1}
      /\ req[p].pc = "rereading" /\ req[p].pending = {}
  BY ReadSnapshot DEF Requests, PushRetry
<1>2. CASE MayRetry(p) /\ CasHolds(p, RetryTime(p), req[p].freshPing)
  <2>1. now' = now
    BY <1>2 DEF PushRetry
  <2>2. PICK s \in Status : Commit(p, RetryTime(p), s)
    BY <1>2 DEF PushRetry, Status
  <2>3. RetryTime(p) \in Times
    BY <1>1, MaxOfType DEF RetryTime, Request
  <2>4. req[p].checkedAt <= RetryTime(p) /\ RetryTime(p) <= now
    BY <1>1 DEF RetryTime, MaxOf, RequestInv, Past
  <2> QED
    BY <1>1, <2>1, <2>2, <2>3, <2>4, CommitKeepsSnapshots
<1>3. CASE ~(MayRetry(p) /\ CasHolds(p, RetryTime(p), req[p].freshPing))
  <2>1. End(p, "rejected") /\ UNCHANGED <<now, mon, lastPingAt, rivals>>
    BY <1>3 DEF PushRetry
  <2>2. ASSUME rivals[p].other = 0 PROVE rivals[p].cron = 2
    <3> SUFFICES ASSUME rivals[p].cron # 2 PROVE FALSE
      OBVIOUS
    <3>1. rivals[p].cron = 1
      BY <1>1, <2>2 DEF RequestInv, Undisturbed
    <3>2. /\ lastPingAt = req[p].ping /\ req[p].freshPing = lastPingAt
          /\ mon.rev = req[p].rev /\ mon.lastCheckedAt = req[p].cursor
          /\ req[p].active = 1
      BY <1>1, <2>2, <3>1 DEF RequestInv, Undisturbed
    <3>3. mon.lastCheckedAt <= RetryTime(p)
      BY <1>1, <3>2 DEF RetryTime, MaxOf
    <3> QED
      BY <1>3, <3>2, <3>3 DEF MayRetry, CasHolds
  <2> QED
    BY <1>1, <2>1, <2>2, EndingStep
<1> QED
  BY <1>2, <1>3

LEMMA PushStepKeepsSnapshots ==
  ASSUME SnapshotInv, TypeOK', NEW p \in Pushes, PushStep(p)
  PROVE  SnapshotInv'
<1>1. CASE PushReadMonitor(p) /\ mon.active # 1
  <2>1. End(p, "refused") /\ UNCHANGED <<now, mon, lastPingAt, rivals>>
    BY <1>1 DEF PushReadMonitor
  <2> QED
    BY <2>1, EndingStep DEF Requests
<1> QED
  BY <1>1, PushReads, PushPersistKeepsSnapshots, RereadKeepsSnapshots,
     PushRetryKeepsSnapshots DEF PushStep

-----------------------------------------------------------------------------
(* Time, and the administrator, whose writes disturb every push in flight. *)

LEMMA AdminStepKeepsSnapshots ==
  ASSUME SnapshotInv, TypeOK', NoteRival("admin"), UNCHANGED <<now, lastPingAt, req>>,
         mon'.lastCheckedAt \in {mon.lastCheckedAt, 0}, mon'.payload = mon.payload
  PROVE  SnapshotInv'
<1>1. RowIsPast'
  BY ReadSnapshot DEF RowIsPast
<1>2. ASSUME NEW w \in Requests PROVE RequestInv(w)'
  <2>1. RequestInv(w)
    BY ReadSnapshot
  <2>2. ASSUME w \in Pushes PROVE Undisturbed(w)'
    <3>1. CASE InFlight(w)
      <4>1. rivals'[w].other = 1
        BY <2>2, <3>1 DEF NoteRival
      <4> QED
        BY <4>1 DEF Undisturbed
    <3>2. CASE ~InFlight(w)
      <4>1. rivals'[w] = rivals[w]
        BY <2>2, <3>2 DEF NoteRival
      <4> QED
        BY <2>1, <2>2, <3>2, <4>1 DEF RequestInv, Undisturbed, InFlight
    <3> QED
      BY <3>1, <3>2
  <2> QED
    BY <2>1, <2>2 DEF RequestInv, Past, HonestMiss, Covered, Ordered, InFlight, Counted
<1> QED
  BY <1>1, <1>2 DEF SnapshotInv

LEMMA StepKeepsSnapshots == SnapshotInv /\ [Next]_vars => SnapshotInv'
<1> SUFFICES ASSUME SnapshotInv, [Next]_vars
             PROVE  SnapshotInv'
  OBVIOUS
<1>1. TypeOK'
  BY StepType DEF SnapshotInv
<1>2. CASE Tick \/ EditRead \/ UNCHANGED vars
  <2>1. /\ UNCHANGED <<mon, lastPingAt, req, rivals>>
        /\ now' = now \/ now' = now + 1
    BY <1>2 DEF Tick, EditRead, vars
  <2>2. RowIsPast'
    BY <2>1, ReadSnapshot DEF RowIsPast
  <2>3. ASSUME NEW w \in Requests PROVE RequestInv(w)'
    BY <2>1, ReadSnapshot DEF RequestInv, Past, HonestMiss, Covered, Ordered, Undisturbed,
                              InFlight, Counted
  <2> QED
    BY <1>1, <2>2, <2>3 DEF SnapshotInv
<1>3. ASSUME NEW a \in {0, 1}, SetActive(a) \/ EditWrite(a) \/ ResetStats
      PROVE  SnapshotInv'
  <2>1. NoteRival("admin") /\ UNCHANGED <<now, lastPingAt, req>>
    BY <1>3 DEF SetActive, EditWrite, ResetStats, AdminWrite
  <2>2. mon'.lastCheckedAt \in {mon.lastCheckedAt, 0} /\ mon'.payload = mon.payload
    BY <1>3 DEF SetActive, EditWrite, ResetStats, SnapshotInv, TypeOK, MonitorRow
  <2> QED
    BY <1>1, <2>1, <2>2, AdminStepKeepsSnapshots
<1> QED
  BY <1>1, <1>2, <1>3, CronStepKeepsSnapshots, PushStepKeepsSnapshots
  DEF Next, AdminStep

LEMMA SnapshotInvariant == Spec => []SnapshotInv
  BY SnapshotInit, StepKeepsSnapshots, PTL DEF Spec

-----------------------------------------------------------------------------
(* What follows from it.                                                   *)

\* A push is lost only to an administrator, to another push or to two cron
\* commits, whatever else races with it (check-storage.ts 388-429).
THEOREM PushesSurviveOneCron == Spec => []PushSurvivesOneCron
<1>1. SnapshotInv => PushSurvivesOneCron
  BY ReadSnapshot DEF PushSurvivesOneCron, RequestInv, Undisturbed, Requests
<1> QED
  BY <1>1, SnapshotInvariant, PTL

\* A cron run's check is recorded by its own batch.
LEMMA CountedByPersist ==
  ASSUME SnapshotInv, [Next]_vars, NEW r \in CronRuns, r \in Counted', r \notin Counted
  PROVE  CronPersist(r) /\ CasHolds(r, req[r].checkedAt, req[r].ping)
<1>1. /\ r \in Requests /\ r \notin Pushes /\ req \in [Requests -> Request]
      /\ req[r].pc \notin {"accepted", "settled"}
      /\ req'[r].pc \in {"accepted", "settled"}
  BY ReadSnapshot, ObservationsAssumption DEF Requests, TypeOK, Counted
<1>2. req'[r] # req[r]
  BY <1>1
<1>3. ASSUME NEW p \in Pushes, PushStep(p) PROVE FALSE
  <2>1. p # r
    BY <1>1
  <2>2. req'[r] = req[r]
    BY <1>1, <1>3, <2>1
    DEF PushStep, PushBegin, PushReadToken, PushReadMonitor, PushParse, PushPersist,
        RereadMonitor, RereadToken, PushRetry, Commit, End
  <2> QED
    BY <1>2, <2>2
<1>4. ASSUME NEW w \in CronRuns, w # r, CronStep(w) PROVE FALSE
  <2>1. req'[r] = req[r]
    BY <1>1, <1>4
    DEF CronStep, CronCheck, CronBegin, CronSelect, CronPrefetchToken, CronCheckTarget,
        CronPersist, RescheduleFailedAlert, Commit, End
  <2> QED
    BY <1>2, <2>1
<1>5. CASE CronStep(r)
  <2> req[r] \in Request
    BY ReadSnapshot, <1>1
  <2>1. CASE CronBegin(r) \/ CronPrefetchToken(r) \/ CronCheckTarget(r)
    <3>1. CASE CronBegin(r)
      BY <1>1, <3>1 DEF CronBegin, Request
    <3>2. CASE CronPrefetchToken(r)
      BY <1>1, <3>2 DEF CronPrefetchToken, Request
    <3>3. CASE CronCheckTarget(r)
      BY <1>1, <3>3 DEF CronCheckTarget, Request
    <3> QED
      BY <2>1, <3>1, <3>2, <3>3
  <2>2. CASE CronSelect(r)
    <3>1. CASE Due(r)
      <4> DEFINE place == IF Kind = "check" THEN "checking" ELSE "prefetching"
                 x == [req[r] EXCEPT !.pc = place, !.rev = mon.rev,
                         !.cursor = mon.lastCheckedAt, !.metrics = mon.metrics]
      <4>1. req' = [req EXCEPT ![r] = x]
        BY <2>2, <3>1 DEF CronSelect
      <4>2. x.pc \in {"checking", "prefetching"}
        BY DEF Request
      <4> HIDE DEF x
      <4> QED
        BY <1>1, <4>1, <4>2
    <3>2. CASE ~Due(r)
      BY <1>1, <2>2, <3>2 DEF CronSelect, End, Ended
    <3> QED
      BY <3>1, <3>2
  <2>3. CASE RescheduleFailedAlert(r)
    BY <1>1, <2>3 DEF RescheduleFailedAlert
  <2>4. CASE CronPersist(r) /\ ~CasHolds(r, req[r].checkedAt, req[r].ping)
    <3>1. req'[r].pc = "rejected"
      BY <1>1, <2>4 DEF CronPersist, End, Ended
    <3> QED
      BY <1>1, <3>1
  <2> QED
    BY <1>5, <2>1, <2>2, <2>3, <2>4 DEF CronStep, CronCheck
<1>6. CASE Tick \/ AdminStep \/ UNCHANGED vars
  BY <1>2, <1>6 DEF Tick, AdminStep, SetActive, EditRead, EditWrite, ResetStats, vars
<1> QED
  BY <1>3, <1>4, <1>5, <1>6 DEF Next

LEMMA StepRecordsNoFalseMiss ==
  ASSUME SnapshotInv, [Next]_vars, NEW r \in CronRuns, NEW p \in Pushes,
         Kind = "heartbeat", r \in Counted', r \notin Counted,
         req'[r].status = "down", p \in Counted
  PROVE  req[p].checkedAt + Window < req'[r].checkedAt
<1>1. CronPersist(r) /\ CasHolds(r, req[r].checkedAt, req[r].ping)
  BY CountedByPersist
<1>2. /\ r \in Requests /\ p \in Requests
      /\ RequestInv(r) /\ RequestInv(p)
      /\ req[r].checkedAt \in Nat /\ req[r].ping \in Nat /\ req[p].checkedAt \in Nat
      /\ lastPingAt \in Nat /\ Window \in Nat /\ req \in [Requests -> Request]
  BY ReadSnapshot, ObservationsAssumption DEF Requests, TypeOK
<1>3. req'[r].status = req[r].status /\ req'[r].checkedAt = req[r].checkedAt
  BY <1>1, <1>2 DEF CronPersist, Commit, Ended
<1>4. lastPingAt = req[r].ping
  BY <1>1 DEF CasHolds
<1>5. req[r].ping = 0 \/ req[r].checkedAt > req[r].ping + Window
  BY <1>1, <1>2, <1>3 DEF RequestInv, HonestMiss, CronPersist
<1>6. 1 <= req[p].checkedAt /\ req[p].checkedAt <= lastPingAt
  BY <1>2 DEF RequestInv, Covered
<1> QED
  BY <1>2, <1>3, <1>4, <1>5, <1>6

\* No cron run records a miss at a time an accepted ping covers: the cursor it
\* judged from is compared again by its batch (check-storage.ts 26-31 and
\* 216-230).
THEOREM NoMissIsFalse == Spec => NoFalseMiss
<1>1. SnapshotInv /\ [Next]_vars
        => [\A r \in CronRuns, p \in Pushes :
              /\ Kind = "heartbeat"
              /\ r \in Counted' \ Counted /\ req'[r].status = "down"
              /\ p \in Counted
              => req[p].checkedAt + Window < req'[r].checkedAt]_vars
  BY StepRecordsNoFalseMiss
<1> QED
  BY <1>1, SnapshotInvariant, PTL DEF Spec, NoFalseMiss

\* A commit of a push found the ping cursor as its request had first read it.
LEMMA CommitsOfPushes ==
  ASSUME SnapshotInv, NEW p \in Pushes, PushStep(p)
  PROVE  \/ UNCHANGED mon
         \/ /\ \E t \in Times, s \in Status : Commit(p, t, s)
            /\ req[p].pc \in {"persisting", "rereading"}
            /\ Kind = "agent" => lastPingAt = req[p].ping
<1>1. p \in Requests /\ req[p] \in Request
  BY ReadSnapshot DEF Requests
<1>2. CASE PushPersist(p) /\ CasHolds(p, req[p].checkedAt, req[p].ping)
  <2>1. req[p].checkedAt \in Times /\ req[p].status \in Status
    BY <1>1 DEF Request
  <2>2. Commit(p, req[p].checkedAt, req[p].status) /\ req[p].pc = "persisting"
    BY <1>2 DEF PushPersist
  <2> QED
    BY <1>2, <2>1, <2>2 DEF CasHolds
<1>3. CASE PushRetry(p) /\ MayRetry(p) /\ CasHolds(p, RetryTime(p), req[p].freshPing)
  <2>1. RetryTime(p) \in Times
    BY <1>1, MaxOfType DEF RetryTime, Request
  <2>2. PICK s \in Status : Commit(p, RetryTime(p), s)
    BY <1>3 DEF PushRetry, Status
  <2> QED
    BY <1>3, <2>1, <2>2 DEF PushRetry, MayRetry, CasHolds
<1> QED
  BY <1>2, <1>3 DEF PushStep, PushBegin, PushReadToken, PushReadMonitor, PushParse,
                    PushPersist, RereadMonitor, RereadToken, PushRetry

LEMMA StepKeepsNewerPayload ==
  ASSUME SnapshotInv, [Next]_vars
  PROVE  mon'.payload >= mon.payload
<1>1. mon.payload \in Nat /\ lastPingAt \in Nat /\ mon.payload <= lastPingAt
  BY ReadSnapshot DEF RowIsPast
<1>2. ASSUME NEW p \in Pushes, PushStep(p) PROVE mon'.payload >= mon.payload
  <2>1. CASE UNCHANGED mon
    BY <1>1, <2>1
  <2>2. CASE /\ \E t \in Times, s \in Status : Commit(p, t, s)
             /\ req[p].pc \in {"persisting", "rereading"}
             /\ Kind = "agent" => lastPingAt = req[p].ping
    <3>1. mon'.payload = IF Kind = "agent" THEN req[p].payload ELSE mon.payload
      BY <2>2 DEF Commit, UpdateMonitor, FromAgent
    <3>2. /\ req[p].payload \in Nat /\ req[p].ping \in Nat
          /\ Kind = "agent" => req[p].ping <= req[p].payload
      BY <2>2, ReadSnapshot DEF Requests, RequestInv, Ordered
    <3> QED
      BY <1>1, <2>2, <3>1, <3>2
  <2> QED
    BY <1>2, <2>1, <2>2, CommitsOfPushes
<1>3. ASSUME ~\E p \in Pushes : PushStep(p) PROVE mon'.payload = mon.payload
  <2>1. ASSUME NEW r \in CronRuns, CronStep(r) PROVE mon'.payload = mon.payload
    <3>1. r \notin Pushes /\ mon \in MonitorRow
      BY ReadSnapshot, ObservationsAssumption DEF TypeOK
    <3>2. CASE RescheduleFailedAlert(r)
      BY <3>1, <3>2 DEF RescheduleFailedAlert, MonitorRow
    <3>3. CASE CronPersist(r)
      BY <3>1, <3>3 DEF CronPersist, Commit, UpdateMonitor, FromAgent
    <3> QED
      BY <2>1, <3>2, <3>3
      DEF CronStep, CronCheck, CronBegin, CronSelect, CronPrefetchToken, CronCheckTarget
  <2>2. CASE Tick \/ AdminStep \/ UNCHANGED vars
    BY <2>2, ReadSnapshot
    DEF Tick, AdminStep, SetActive, EditRead, EditWrite, ResetStats, vars, TypeOK, MonitorRow
  <2> QED
    BY <1>3, <2>1, <2>2 DEF Next
<1> QED
  BY <1>1, <1>2, <1>3

\* The metrics of an agent never give way to a payload of an earlier second:
\* whoever commits found the ping cursor as it was before its payload came
\* (check-storage.ts 417-429).
THEOREM NewerPayloadsAreKept == Spec => NewerPayloadKept
<1>1. SnapshotInv /\ [Next]_vars => [mon'.payload >= mon.payload]_vars
  BY StepKeepsNewerPayload
<1> QED
  BY <1>1, SnapshotInvariant, PTL DEF Spec, NewerPayloadKept

=============================================================================
