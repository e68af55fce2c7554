---------------------------- MODULE Observations ----------------------------
(***************************************************************************)
(* How checks of one monitor become durable (services/check-storage.ts),   *)
(* with the requests that produce them: cron runs (cron.ts), heartbeat and *)
(* agent pushes (routes/heartbeat.ts, routes/agent.ts), and the edits,     *)
(* pauses and statistics resets that race with them (routes/monitors.ts).  *)
(*                                                                         *)
(* Every SQL statement or batch is one atomic step, and a request may stop *)
(* between any two.  Cron runs are not serialised here: a run that lost    *)
(* its lease may still commit (SchedulerLease), so nothing below relies on *)
(* the lease.  A monitor's statements never touch another monitor's rows,  *)
(* hence one monitor.  Response times, messages, SSL state, diagnostics    *)
(* and metric samples are left out.                                        *)
(***************************************************************************)
EXTENDS Integers

CONSTANTS
  CronRuns,      \* cron invocations that may select the monitor
  Pushes,        \* heartbeat or agent requests
  Kind,          \* "check" (http, dns, ping), "heartbeat" or "agent"
  Interval,      \* monitors.interval
  Window,        \* heartbeat interval plus grace
  RetrySeconds,  \* delay before a check whose alert handling failed is redone
  DayLength,     \* 86400
  MaxTime,       \* bound on the clock
  MaxAdmin       \* bound on administrative writes

Requests == CronRuns \union Pushes

ASSUME ObservationsAssumption ==
  /\ CronRuns \intersect Pushes = {}
  /\ Kind \in {"check", "heartbeat", "agent"}
  /\ Interval \in Nat /\ Window \in Nat /\ RetrySeconds \in Nat
  /\ DayLength \in Nat \ {0}
  /\ MaxTime \in Nat \ {0} /\ MaxAdmin \in Nat

VARIABLES
  now,         \* wall clock; timestamp 0 stands for NULL
  mon,         \* the monitors row
  rollup,      \* monitor_daily_rollups of the monitor
  lastPingAt,  \* heartbeat_tokens.last_ping_at
  req,         \* the local state of each request
  edit,        \* the local state of PUT /api/monitors/:id
  adminOps,    \* administrative writes so far
  rivals       \* history: writes that committed while each push was in flight

vars == <<now, mon, rollup, lastPingAt, req, edit, adminOps, rivals>>

-----------------------------------------------------------------------------
Status == {"up", "down"}
Times  == 0..MaxTime
UtcDay(t) == t - (t % DayLength)
Days   == {UtcDay(t) : t \in Times}
NoDay  == -DayLength     \* NULL: the day of no timestamp
Blank  == [d \in Days |-> [s \in Status |-> 0]]

MaxOf(a, b) == IF a >= b THEN a ELSE b
MinOf(a, b) == IF a <= b THEN a ELSE b

\* rev stands for the random observation_revision: every write draws a token
\* nobody has seen, and tokens are only compared for equality.  tally holds
\* day_up_count and day_down_count; metrics is the status inside last_metrics
\* and payload (history) the second its payload arrived.
MonitorRow ==
  [rev: Nat, active: {0, 1}, lastCheckedAt: Times,
   nextCheckAt: 0..(MaxTime + Interval),
   statsDay: Days \union {NoDay}, tally: [Status -> Nat],
   historyRevision: Nat, metrics: Status \union {"none"}, payload: Times]

Phases == {"idle", "selecting", "prefetching", "checking", "authenticating",
           "loading", "parsing", "persisting", "rereading",
           "accepted", "settled", "rejected", "refused", "notDue"}

Request ==
  [pc: Phases, checkedAt: Times, status: Status, payload: Times,
   rev: Nat, cursor: Times, active: {0, 1}, metrics: Status \union {"none"},
   ping: Times, freshPing: Times, pending: SUBSET {"monitor", "token"},
   wrote: Nat]

\* A request that has not begun, or has ended and forgotten all but its outcome.
Ended(outcome, t, s, rev) ==
  [pc |-> outcome, checkedAt |-> t, status |-> s, wrote |-> rev,
   payload |-> 0, rev |-> 0, cursor |-> 0, active |-> 1, metrics |-> "none",
   ping |-> 0, freshPing |-> 0, pending |-> {}]

NewRequest == Ended("idle", 0, "up", 0)

TypeOK ==
  /\ now \in 1..MaxTime
  /\ mon \in MonitorRow
  /\ rollup \in [Days -> [Status -> Nat]]
  /\ lastPingAt \in Times
  /\ req \in [Requests -> Request]
  /\ edit \in [pc: {"idle", "read"}, at: Times, nextCheckAt: 0..(MaxTime + Interval)]
  /\ adminOps \in 0..MaxAdmin
  /\ rivals \in [Pushes -> [cron: 0..2, other: {0, 1}]]

Init ==
  /\ now = 1
  /\ mon = [rev |-> 0, active |-> 1, lastCheckedAt |-> 0, nextCheckAt |-> 0,
            statsDay |-> NoDay, tally |-> [s \in Status |-> 0],
            historyRevision |-> 0, metrics |-> "none", payload |-> 0]
  /\ rollup = Blank
  /\ lastPingAt = 0
  /\ req = [q \in Requests |-> NewRequest]
  /\ edit = [pc |-> "idle", at |-> 0, nextCheckAt |-> 0]
  /\ adminOps = 0
  /\ rivals = [p \in Pushes |-> [cron |-> 0, other |-> 0]]

Tick ==
  /\ now < MaxTime
  /\ now' = now + 1
  /\ UNCHANGED <<mon, rollup, lastPingAt, req, edit, adminOps, rivals>>

-----------------------------------------------------------------------------
(* persistCheckObservations: one batch, all of its statements or none.     *)

\* Mutant: only the cursor is compared, so a stale snapshot may commit.
CursorHolds(q, t, ping) == mon.lastCheckedAt <= t

\* The guard repeated by the archive and the update statements.
CasHolds(q, t, ping) ==
  /\ mon.rev = req[q].rev
  /\ mon.lastCheckedAt <= t
  /\ Kind # "check" =>
       mon.lastCheckedAt = req[q].cursor /\ lastPingAt = ping

DayChecks == mon.tally["up"] + mon.tally["down"]

\* The monitors row still counts a day before that of t.
DayEnded(t) ==
  mon.statsDay # NoDay /\ mon.statsDay # UtcDay(t) /\ DayChecks > 0

ArchiveDay(t) ==
  rollup' = IF DayEnded(t)
              THEN [rollup EXCEPT ![mon.statsDay] =
                      [s \in Status |-> @[s] + mon.tally[s]]]
              ELSE rollup

\* Mutant: the new day starts from the counters of the day before.
TallyKept(t, s) == [mon.tally EXCEPT ![s] = @ + 1]

\* day_up_count and day_down_count after a check of status s at t.
TallyAfter(t, s) ==
  [x \in Status |-> (IF mon.statsDay = UtcDay(t) THEN mon.tally[x] ELSE 0)
                    + (IF x = s THEN 1 ELSE 0)]

\* Mutant: archiving a day leaves the cache key of its history unchanged.
HistoryRevisionKept(t) == mon.historyRevision

HistoryRevisionAfter(t) ==
  IF DayEnded(t) THEN mon.historyRevision + 1 ELSE mon.historyRevision

FromAgent(q) == q \in Pushes /\ Kind = "agent"

UpdateMonitor(q, t, s) ==
  mon' = [rev             |-> mon.rev + 1,
          active          |-> mon.active,
          lastCheckedAt   |-> t,
          nextCheckAt     |-> t + Interval,
          statsDay        |-> UtcDay(t),
          tally           |-> TallyAfter(t, s),
          historyRevision |-> HistoryRevisionAfter(t),
          metrics         |-> IF FromAgent(q) THEN s ELSE mon.metrics,
          payload         |-> IF FromAgent(q) THEN req[q].payload ELSE mon.payload]

MovePingCursor(q, t) ==
  lastPingAt' = IF q \in Pushes THEN MaxOf(lastPingAt, t) ELSE lastPingAt

\* History: a write of the given source counts for every push in flight.
InFlight(p) == req[p].pc \in {"authenticating", "loading", "parsing",
                              "persisting", "rereading"}
NoteRival(source) ==
  rivals' = [p \in Pushes |->
    IF ~InFlight(p) THEN rivals[p]
    ELSE IF source = "cron"
           THEN [cron |-> MinOf(rivals[p].cron + 1, 2), other |-> rivals[p].other]
           ELSE [cron |-> rivals[p].cron, other |-> 1]]

Commit(q, t, s) ==
  /\ ArchiveDay(t)
  /\ UpdateMonitor(q, t, s)
  /\ MovePingCursor(q, t)
  /\ NoteRival(IF q \in CronRuns THEN "cron" ELSE "push")
  /\ req' = [req EXCEPT ![q] = Ended("accepted", t, s, mon.rev + 1)]

-----------------------------------------------------------------------------
(* A cron run, from its clock reading to the scheduling of a redo.         *)

\* A request ends without having written anything.
End(q, outcome) == req' = [req EXCEPT ![q] = Ended(outcome, 0, "up", 0)]

CronBegin(r) ==
  /\ req[r].pc = "idle"
  /\ req' = [req EXCEPT ![r] = [@ EXCEPT !.pc = "selecting", !.checkedAt = now]]
  /\ UNCHANGED <<now, mon, rollup, lastPingAt, edit, adminOps, rivals>>

Due(r) == mon.active = 1 /\ mon.nextCheckAt <= req[r].checkedAt

CronSelect(r) ==
  /\ req[r].pc = "selecting"
  /\ IF Due(r)
       THEN req' = [req EXCEPT ![r] =
              [@ EXCEPT !.pc = IF Kind = "check" THEN "checking" ELSE "prefetching",
                        !.rev = mon.rev, !.cursor = mon.lastCheckedAt,
                        !.metrics = mon.metrics]]
       ELSE End(r, "notDue")
  /\ UNCHANGED <<now, mon, rollup, lastPingAt, edit, adminOps, rivals>>

\* checkHeartbeat, then for an agent the status of its last snapshot.
InboundStatus(r, ping) ==
  IF ping = 0 \/ req[r].checkedAt > ping + Window THEN "down"
  ELSE IF Kind = "heartbeat" \/ req[r].metrics = "up" THEN "up" ELSE "down"

CronPrefetchToken(r) ==
  /\ req[r].pc = "prefetching"
  /\ req' = [req EXCEPT ![r] =
       [@ EXCEPT !.pc = "persisting", !.ping = lastPingAt,
                 !.status = InboundStatus(r, lastPingAt)]]
  /\ UNCHANGED <<now, mon, rollup, lastPingAt, edit, adminOps, rivals>>

CronCheckTarget(r) ==
  /\ req[r].pc = "checking"
  /\ \E s \in Status :
       req' = [req EXCEPT ![r] = [@ EXCEPT !.pc = "persisting", !.status = s]]
  /\ UNCHANGED <<now, mon, rollup, lastPingAt, edit, adminOps, rivals>>

CronPersist(r) ==
  /\ req[r].pc = "persisting"
  /\ IF CasHolds(r, req[r].checkedAt, req[r].ping)
       THEN Commit(r, req[r].checkedAt, req[r].status)
       ELSE /\ End(r, "rejected")
            /\ UNCHANGED <<mon, rollup, lastPingAt, rivals>>
  /\ UNCHANGED <<now, edit, adminOps>>

\* Mutant: the redo replaces the cursor instead of pulling it forward.
RedoCursorReplaced(r) == req[r].checkedAt + RetrySeconds

RedoCursor(r) == MinOf(mon.nextCheckAt, req[r].checkedAt + RetrySeconds)

\* processAlert threw: rescheduleFailedAlertObservations.
RescheduleFailedAlert(r) ==
  /\ req[r].pc = "accepted"
  /\ req' = [req EXCEPT ![r].pc = "settled"]
  /\ mon' = IF mon.rev = req[r].wrote
              THEN [mon EXCEPT !.nextCheckAt = RedoCursor(r)]
              ELSE mon
  /\ UNCHANGED <<now, rollup, lastPingAt, edit, adminOps, rivals>>

-----------------------------------------------------------------------------
(* A push.  A heartbeat reads the clock first; an agent push reads it when *)
(* its payload has been read and parsed.                                   *)

PushBegin(p) ==
  /\ Kind # "check"
  /\ req[p].pc = "idle"
  /\ req' = [req EXCEPT ![p] =
       [@ EXCEPT !.pc = "authenticating",
                 !.checkedAt = IF Kind = "heartbeat" THEN now ELSE 0]]
  /\ UNCHANGED <<now, mon, rollup, lastPingAt, edit, adminOps, rivals>>

PushReadToken(p) ==
  /\ req[p].pc = "authenticating"
  /\ req' = [req EXCEPT ![p] = [@ EXCEPT !.pc = "loading", !.ping = lastPingAt]]
  /\ UNCHANGED <<now, mon, rollup, lastPingAt, edit, adminOps, rivals>>

PushReadMonitor(p) ==
  /\ req[p].pc = "loading"
  /\ IF mon.active = 1
       THEN req' = [req EXCEPT ![p] =
              [@ EXCEPT !.pc = IF Kind = "agent" THEN "parsing" ELSE "persisting",
                        !.rev = mon.rev, !.cursor = mon.lastCheckedAt]]
       ELSE End(p, "refused")
  /\ UNCHANGED <<now, mon, rollup, lastPingAt, edit, adminOps, rivals>>

PushParse(p) ==
  /\ req[p].pc = "parsing"
  /\ \E s \in Status :
       req' = [req EXCEPT ![p] = [@ EXCEPT !.pc = "persisting", !.status = s,
                                           !.checkedAt = now, !.payload = now]]
  /\ UNCHANGED <<now, mon, rollup, lastPingAt, edit, adminOps, rivals>>

PushPersist(p) ==
  /\ req[p].pc = "persisting"
  /\ IF CasHolds(p, req[p].checkedAt, req[p].ping)
       THEN Commit(p, req[p].checkedAt, req[p].status)
       ELSE /\ req' = [req EXCEPT ![p] = [@ EXCEPT !.pc = "rereading",
                                           !.pending = {"monitor", "token"}]]
            /\ UNCHANGED <<mon, rollup, lastPingAt, rivals>>
  /\ UNCHANGED <<now, edit, adminOps>>

\* Promise.all of two reads: either may be answered first.
RereadMonitor(p) ==
  /\ req[p].pc = "rereading"
  /\ "monitor" \in req[p].pending
  /\ req' = [req EXCEPT ![p] =
       [@ EXCEPT !.pending = req[p].pending \ {"monitor"}, !.rev = mon.rev,
                 !.cursor = mon.lastCheckedAt, !.active = mon.active]]
  /\ UNCHANGED <<now, mon, rollup, lastPingAt, edit, adminOps, rivals>>

RereadToken(p) ==
  /\ req[p].pc = "rereading"
  /\ "token" \in req[p].pending
  /\ req' = [req EXCEPT ![p] =
       [@ EXCEPT !.pending = req[p].pending \ {"token"}, !.freshPing = lastPingAt]]
  /\ UNCHANGED <<now, mon, rollup, lastPingAt, edit, adminOps, rivals>>

\* Mutant: the retry keeps the timestamp of the first attempt.
RetryTimeKept(p) == req[p].checkedAt

RetryTime(p) == MaxOf(req[p].checkedAt, req[p].cursor)

\* Mutant: the retry does not look at the ping cursor.
MayRetryBlindly(p) == req[p].active = 1

\* Only a changed ping cursor shows that another push won.
MayRetry(p) == req[p].active = 1 /\ req[p].freshPing = req[p].ping

\* An agent payload is evaluated again, against thresholds an edit may have
\* changed; a heartbeat is up whatever happens.
PushRetry(p) ==
  /\ req[p].pc = "rereading"
  /\ req[p].pending = {}
  /\ IF MayRetry(p) /\ CasHolds(p, RetryTime(p), req[p].freshPing)
       THEN \E s \in (IF Kind = "agent" THEN Status ELSE {"up"}) :
              Commit(p, RetryTime(p), s)
       ELSE /\ End(p, "rejected")
            /\ UNCHANGED <<mon, rollup, lastPingAt, rivals>>
  /\ UNCHANGED <<now, edit, adminOps>>

-----------------------------------------------------------------------------
(* Administrative writes (routes/monitors.ts).                             *)

AdminWrite ==
  /\ adminOps < MaxAdmin
  /\ adminOps' = adminOps + 1
  /\ NoteRival("admin")

\* PATCH /bulk, pause and resume.
SetActive(a) ==
  /\ AdminWrite
  /\ mon' = [mon EXCEPT !.rev = @ + 1, !.active = a,
                        !.nextCheckAt = IF a = 1 THEN now ELSE @]
  /\ UNCHANGED <<now, rollup, lastPingAt, req, edit>>

\* PUT reads the clock and the row, validates, then writes one UPDATE.
EditRead ==
  /\ edit.pc = "idle"
  /\ adminOps < MaxAdmin
  /\ edit' = [pc |-> "read", at |-> now, nextCheckAt |-> mon.nextCheckAt]
  /\ UNCHANGED <<now, mon, rollup, lastPingAt, req, adminOps, rivals>>

EditWrite(a) ==
  /\ edit.pc = "read"
  /\ AdminWrite
  /\ mon' = [mon EXCEPT !.rev = @ + 1, !.active = a,
                        !.nextCheckAt = IF a = 1 THEN edit.at
                                                 ELSE edit.nextCheckAt]
  /\ edit' = [edit EXCEPT !.pc = "idle"]
  /\ UNCHANGED <<now, rollup, lastPingAt, req>>

\* POST /:id/reset-stats: one batch; the ping cursor is kept.
ResetStats ==
  /\ AdminWrite
  /\ rollup' = Blank
  /\ mon' = [mon EXCEPT !.rev = @ + 1, !.lastCheckedAt = 0, !.nextCheckAt = 0,
                        !.historyRevision = @ + 1, !.statsDay = NoDay,
                        !.tally = [s \in Status |-> 0]]
  /\ UNCHANGED <<now, lastPingAt, req, edit>>

-----------------------------------------------------------------------------
\* checkMonitor: what the token says, or the target, by the monitor's type.
CronCheck(r) ==
  /\ req[r].pc \in {"prefetching", "checking"}
  /\ CronPrefetchToken(r) \/ CronCheckTarget(r)

CronStep(r) ==
  \/ CronBegin(r) \/ CronSelect(r) \/ CronCheck(r)
  \/ CronPersist(r) \/ RescheduleFailedAlert(r)

PushStep(p) ==
  \/ PushBegin(p) \/ PushReadToken(p) \/ PushReadMonitor(p) \/ PushParse(p)
  \/ PushPersist(p) \/ RereadMonitor(p) \/ RereadToken(p) \/ PushRetry(p)

AdminStep ==
  \/ \E a \in {0, 1} : SetActive(a) \/ EditWrite(a)
  \/ EditRead
  \/ ResetStats

Next ==
  \/ Tick
  \/ \E r \in CronRuns : CronStep(r)
  \/ \E p \in Pushes : PushStep(p)
  \/ AdminStep

Spec == Init /\ [][Next]_vars

-----------------------------------------------------------------------------
(* Properties.                                                             *)

\* Requests whose check has been recorded.
Counted == {q \in Requests : req[q].pc \in {"accepted", "settled"}}

\* The checks of each day, whichever of the two tables holds them.
LedgerValue ==
  [d \in Days |-> [s \in Status |->
     rollup[d][s] + (IF mon.statsDay = d THEN mon.tally[s] ELSE 0)]]

\* The two tables together are the promised ledger: every accepted check is
\* counted exactly once, on its own UTC day, across midnight, retries,
\* overlapping runs and resets; a rejected one leaves no trace
\* (check-storage.ts 116-270).
Ledger == INSTANCE UptimeLedger WITH
  DayOf   <- UtcDay,
  ledger  <- LedgerValue,
  entered <- Counted,
  lastAt  <- mon.lastCheckedAt
ImplementsLedger == Ledger!LedgerSpec

\* A cron run never records a missed heartbeat at a time the last accepted
\* ping still covers, however the push and the run interleave (the inbound
\* guard of check-storage.ts 26-31 and 216-230).
NoFalseMiss ==
  [][\A r \in CronRuns, p \in Pushes :
       /\ Kind = "heartbeat"
       /\ r \in Counted' \ Counted /\ req'[r].status = "down"
       /\ p \in Counted
       => req[p].checkedAt + Window < req'[r].checkedAt]_vars

\* A push is lost only to another push, to an administrator, or to two cron
\* commits: one cron compare-and-swap alone cannot drop it
\* (check-storage.ts 388-393).
PushSurvivesOneCron ==
  \A p \in Pushes :
    req[p].pc = "rejected" => rivals[p].other = 1 \/ rivals[p].cron = 2

\* Completed history changes only under a new history_revision, the key the
\* response cache files it under (check-storage.ts 116-158 and 183-187).
HistoryChangesRevision ==
  [][rollup' # rollup => mon'.historyRevision > mon.historyRevision]_vars

\* Of an active monitor only an accepted check puts the next one off: neither
\* the redo of a failed alert, which may find its observation long superseded,
\* nor an edit that read the row and the clock before other writes, nor a
\* reset defers a check beyond what is scheduled and beyond the present
\* (cron.ts 409-434, monitors.ts 343-364).
OnlyChecksPostpone ==
  [][mon.active = 1 /\ mon'.active = 1 /\ Counted' = Counted
       => mon'.nextCheckAt <= MaxOf(mon.nextCheckAt, now)]_vars

\* The metrics of an agent never give way to a payload received in an earlier
\* second, although a retry stamps the observation with a later time
\* (check-storage.ts 417-429).  Within one second the ping cursor cannot tell
\* two payloads apart, and neither does this property.
NewerPayloadKept == [][mon'.payload >= mon.payload]_vars

=============================================================================
