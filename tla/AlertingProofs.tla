--------------------------- MODULE AlertingProofs ---------------------------
(***************************************************************************)
(* Theorems about Alerting, for any channels, drains, delays and bounds:   *)
(* claims are exclusive and fence their rows, incidents follow the status  *)
(* however often the handler is cut short, the counter behind surge        *)
(* protection never passes one, drains that end within their claims take   *)
(* turns and record a DOWN that was received before they drop it, every    *)
(* row, drain and handler keeps its type, and an outage that a channel     *)
(* shows is remembered.                                                    *)
(***************************************************************************)
EXTENDS Alerting, FiniteSums, TLAPS

-----------------------------------------------------------------------------
(* Part 1: claims.                                                         *)
(*                                                                         *)
(* What every record and row has, and that no step works with a clock      *)
(* value of the future, nor, once it has read the clock, with none.        *)

ProcFields  == {"pc", "at", "seen", "state", "hadIncident", "late", "key", "fan"}
DrainFields == {"pc", "at", "left", "key", "row", "status", "sentAt", "applied",
                "sent", "list", "attempts", "retryAt"}
RowFields   == {"created", "remaining", "attempts", "delivered", "applied",
                "nextAt", "token", "until"}

ClockInv  == now \in Nat \ {0}
Stamp     == Nat \ {0}
ProcInv   ==
  /\ DOMAIN proc = ProcFields /\ proc.at \in Nat /\ proc.at <= now
  /\ proc.pc \notin Outcomes => proc.at \in Stamp
DrainRec(x) ==
  /\ DOMAIN x = DrainFields /\ x.at \in Nat /\ x.at <= now
  /\ x.pc # "idle" => x.at \in Stamp
  /\ x.pc \notin {"idle", "claiming"} => x.row.created \in Stamp
DrainInv  ==
  /\ drain = [d \in Drainers |-> drain[d]]
  /\ \A d \in Drainers : DrainRec(drain[d])
IsRow(r)  == DOMAIN r = RowFields /\ r.until \in Nat /\ r.created \in Stamp
OutboxInv ==
  /\ outbox = [k \in DOMAIN outbox |-> outbox[k]]
  /\ \A k \in DOMAIN outbox : IsRow(outbox[k])
ShapeInv == ClockInv /\ ProcInv /\ DrainInv /\ OutboxInv

ClaimInv == ShapeInv /\ OneLiveClaim

\* The ways a step may treat the outbox.  A row it removes or changes is
\* unclaimed, or claimed by a drain that moves on in the same step.
Inserts == \E k, row : InsertRow(k, row) /\ IsRow(row) /\ row.until = 0
Cancels == \E K : DeleteRows(K) /\ \A k \in K \cap DOMAIN outbox : outbox[k].until <= now
HolderMoves(d) == drain'[d].pc # drain[d].pc
Rewrites(d) ==
  \E k \in DOMAIN outbox : \E row :
    /\ outbox[k].token = d /\ HolderMoves(d)
    /\ outbox' = [outbox EXCEPT ![k] = row]
    /\ IsRow(row) /\ row.until \in {0, outbox[k].until}
Removes(d) ==
  \E k \in DOMAIN outbox :
    outbox[k].token = d /\ HolderMoves(d) /\ DeleteRows({k})
Claims ==
  \E k \in DOMAIN outbox : \E row :
    /\ \A j \in DOMAIN outbox : outbox[j].until <= now
    /\ outbox' = [outbox EXCEPT ![k] = row] /\ IsRow(row)
Reschedules ==
  \E k \in DOMAIN outbox : \E row :
    /\ outbox[k].until <= now
    /\ outbox' = [outbox EXCEPT ![k] = row]
    /\ IsRow(row) /\ row.until = outbox[k].until

OutboxStep ==
  \/ outbox' = outbox
  \/ Inserts \/ Cancels \/ Claims \/ Reschedules
  \/ \E d \in Drainers : Rewrites(d) \/ Removes(d)

LEMMA RowReplaced ==
  ASSUME OutboxInv, NEW k \in DOMAIN outbox, NEW row, IsRow(row),
         outbox' = [outbox EXCEPT ![k] = row]
  PROVE  /\ OutboxInv' /\ DOMAIN outbox' = DOMAIN outbox
         /\ outbox'[k] = row
         /\ \A j \in DOMAIN outbox \ {k} : outbox'[j] = outbox[j]
<1>1. DOMAIN outbox' = DOMAIN outbox
  OBVIOUS
<1>2. /\ outbox'[k] = row
      /\ \A j \in DOMAIN outbox \ {k} : outbox'[j] = outbox[j]
  OBVIOUS
<1>3. outbox' = [j \in DOMAIN outbox' |-> outbox'[j]]
  BY DEF OutboxInv
<1> QED
  BY <1>1, <1>2, <1>3 DEF OutboxInv, IsRow

\* Each of these ways keeps one live claim, while time stands still.
LEMMA OutboxStepKeepsClaim ==
  ASSUME ShapeInv, OneLiveClaim, OutboxStep, now' = now
  PROVE  OutboxInv' /\ OneLiveClaim'
<1> USE DEF ShapeInv, ClockInv, OneLiveClaim, Live
<1>1. CASE outbox' = outbox
  BY <1>1 DEF OutboxInv, IsRow
<1>2. CASE Inserts
  BY <1>2 DEF Inserts, InsertRow, OutboxInv, IsRow
<1>3. CASE Cancels
  BY <1>3 DEF Cancels, DeleteRows, OutboxInv, IsRow
<1>4. CASE Claims
  <2>1. PICK k, row :
          /\ k \in DOMAIN outbox
          /\ \A j \in DOMAIN outbox : outbox[j].until <= now
          /\ outbox' = [outbox EXCEPT ![k] = row] /\ IsRow(row)
    BY <1>4 DEF Claims
  <2>2. /\ OutboxInv' /\ DOMAIN outbox' = DOMAIN outbox
        /\ outbox'[k] = row
        /\ \A j \in DOMAIN outbox \ {k} : outbox'[j] = outbox[j]
    BY <2>1, RowReplaced
  <2> QED
    BY <2>1, <2>2 DEF OutboxInv, IsRow
<1>5. CASE Reschedules
  <2>1. PICK k, row :
          /\ k \in DOMAIN outbox
          /\ outbox[k].until <= now
          /\ outbox' = [outbox EXCEPT ![k] = row]
          /\ IsRow(row) /\ row.until = outbox[k].until
    BY <1>5 DEF Reschedules
  <2>2. /\ OutboxInv' /\ DOMAIN outbox' = DOMAIN outbox
        /\ outbox'[k] = row
        /\ \A j \in DOMAIN outbox \ {k} : outbox'[j] = outbox[j]
    BY <2>1, RowReplaced
  <2> QED
    BY <2>1, <2>2 DEF OutboxInv, IsRow
<1>6. ASSUME NEW d \in Drainers, Rewrites(d) PROVE OutboxInv' /\ OneLiveClaim'
  <2>1. PICK k, row :
          /\ k \in DOMAIN outbox
          /\ outbox' = [outbox EXCEPT ![k] = row]
          /\ IsRow(row) /\ row.until \in {0, outbox[k].until}
    BY <1>6 DEF Rewrites
  <2>2. /\ OutboxInv' /\ DOMAIN outbox' = DOMAIN outbox
        /\ outbox'[k] = row
        /\ \A j \in DOMAIN outbox \ {k} : outbox'[j] = outbox[j]
    BY <2>1, RowReplaced
  <2> QED
    BY <2>1, <2>2 DEF OutboxInv, IsRow
<1>7. ASSUME NEW d \in Drainers, Removes(d) PROVE OutboxInv' /\ OneLiveClaim'
  BY <1>7 DEF Removes, DeleteRows, OutboxInv, IsRow
<1> QED
  BY <1>1, <1>2, <1>3, <1>4, <1>5, <1>6, <1>7 DEF OutboxStep

\* A live row that changes or goes is its holder's, who moves on.
RowsFenced ==
  \A k \in DOMAIN outbox :
    Live(k) /\ ~(k \in DOMAIN outbox' /\ outbox'[k] = outbox[k])
      => drain'[outbox[k].token] # drain[outbox[k].token]

LEMMA OutboxStepIsFenced ==
  ASSUME ShapeInv, OutboxStep
  PROVE  RowsFenced
<1> USE DEF ShapeInv, ClockInv, OutboxInv, IsRow, Stamp, RowsFenced, Live, HolderMoves
<1>1. CASE outbox' = outbox
  BY <1>1
<1>2. CASE Inserts
  BY <1>2 DEF Inserts, InsertRow
<1>3. CASE Cancels
  BY <1>3 DEF Cancels, DeleteRows
<1>4. CASE Claims
  BY <1>4 DEF Claims
<1>5. CASE Reschedules
  BY <1>5 DEF Reschedules
<1>6. ASSUME NEW d \in Drainers, Rewrites(d) PROVE RowsFenced
  BY <1>6 DEF Rewrites
<1>7. ASSUME NEW d \in Drainers, Removes(d) PROVE RowsFenced
  BY <1>7 DEF Removes, DeleteRows
<1> QED
  BY <1>1, <1>2, <1>3, <1>4, <1>5, <1>6, <1>7 DEF OutboxStep

\* The handler: it only inserts rows nobody holds and cancels unclaimed ones.
HandlerEffect == ProcInv' /\ OutboxStep

LEMMA EndingRecord ==
  ASSUME NEW outcome
  PROVE  /\ DOMAIN Ending(outcome) = ProcFields
         /\ Ending(outcome).at = 0 /\ Ending(outcome).pc = outcome
BY DEF Ending, ProcFields

LEMMA NewRowRecord ==
  ASSUME NEW created, NEW channels, NEW nextAt, NEW applied
  PROVE  LET r == NewRow(created, channels, nextAt, applied)
         IN /\ DOMAIN r = RowFields
            /\ r.until = 0 /\ r.created = created
BY DEF NewRow, RowFields

LEMMA CancelsUnclaimed ==
  ASSUME ShapeInv, NEW kinds, NEW at, at \in Nat, at <= now, CancelUnclaimed(kinds, at)
  PROVE  OutboxStep
<1>1. \A k \in {j \in DOMAIN outbox : j.kind \in kinds /\ Unclaimed(j, at)} :
        outbox[k].until <= now
  BY DEF ShapeInv, ClockInv, OutboxInv, IsRow, Unclaimed
<1> QED
  BY <1>1 DEF CancelUnclaimed, OutboxStep, Cancels

LEMMA EndingKeepsProc ==
  ASSUME ShapeInv, now' = now, NEW outcome \in Outcomes, EndHandler(outcome)
  PROVE  ProcInv'
BY EndingRecord DEF ShapeInv, ClockInv, ProcInv, EndHandler

LEMMA GotoKeepsProc ==
  ASSUME ShapeInv, now' = now, proc.pc \notin Outcomes, NEW pc, Goto(pc)
  PROVE  ProcInv'
BY DEF ShapeInv, ProcInv, ProcFields, Goto

LEMMA QueueingKeepsProc ==
  ASSUME ShapeInv, now' = now, proc.pc \notin Outcomes, NEW pc, NEW key,
         proc' = [proc EXCEPT !.pc = pc, !.key = key]
  PROVE  ProcInv'
BY DEF ShapeInv, ProcInv, ProcFields

LEMMA HandlerOutbox ==
  ASSUME ShapeInv, HandlerStep
  PROVE  HandlerEffect /\ now' = now
<1> USE DEF HandlerEffect, Outcomes, Stamp
<1>1. CASE CheckWindow
  <2>1. EndHandler("muted") \/ Goto("recordDown")
    BY <1>1 DEF CheckWindow
  <2>2. now' = now /\ outbox' = outbox /\ proc.pc \notin Outcomes
    BY <1>1 DEF CheckWindow, store
  <2> QED
    BY <2>1, <2>2, EndingKeepsProc, GotoKeepsProc, QueueingKeepsProc DEF OutboxStep
<1>2. CASE RecordFailed
  <2>1. now' = now /\ outbox' = outbox /\ proc.pc \notin Outcomes
    BY <1>2 DEF RecordFailed
  <2>2. CASE EndHandler("tolerated")
    BY <2>1, <2>2, EndingKeepsProc DEF OutboxStep
  <2>3. CASE proc' = [proc EXCEPT !.pc = "readIncident", !.state = alert']
    BY <2>1, <2>3 DEF ShapeInv, ProcInv, ProcFields, OutboxStep
  <2> QED
    BY <1>2, <2>2, <2>3 DEF RecordFailed
<1>3. CASE ReadIncident
  BY <1>3 DEF ShapeInv, ClockInv, ProcInv, ProcFields, EndHandler, Goto,
    ReadIncident, store, OutboxStep
<1>4. CASE Reopen
  BY <1>4 DEF ShapeInv, ClockInv, ProcInv, ProcFields, EndHandler, Goto,
    Reopen, store, OutboxStep
<1>5. CASE ForgetAlerts
  BY <1>5 DEF ShapeInv, ClockInv, ProcInv, ProcFields, EndHandler, Goto,
    ForgetAlerts, store, OutboxStep
<1>6. CASE MarkDown
  BY <1>6 DEF ShapeInv, ClockInv, ProcInv, ProcFields, EndHandler, Goto,
    MarkDown, store, OutboxStep
<1>7. CASE OpenIncident
  <2>1. \/ EndHandler("done")
        \/ \E key : proc' = [proc EXCEPT !.pc = "channels", !.key = key]
    BY <1>7 DEF OpenIncident
  <2>2. now' = now /\ outbox' = outbox /\ proc.pc \notin Outcomes
    BY <1>7 DEF OpenIncident, store
  <2> QED
    BY <2>1, <2>2, EndingKeepsProc, GotoKeepsProc, QueueingKeepsProc DEF OutboxStep
<1>8. CASE RecordHealthy
  BY <1>8 DEF ShapeInv, ClockInv, ProcInv, ProcFields, EndHandler, Goto,
    RecordHealthy, store, OutboxStep
<1>9. CASE Probe
  BY <1>9 DEF ShapeInv, ClockInv, ProcInv, ProcFields, EndHandler, Goto,
    Probe, store, OutboxStep
<1>10. CASE SettlePending
  BY <1>10 DEF ShapeInv, ClockInv, ProcInv, ProcFields, EndHandler, Goto,
    SettlePending, store, OutboxStep
<1>11. CASE CloseOnly
  BY <1>11, EndingRecord DEF ShapeInv, ClockInv, ProcInv, ProcFields, EndHandler, Goto,
    CloseOnly, store, OutboxStep
<1>12. CASE FlipUp
  BY <1>12 DEF ShapeInv, ClockInv, ProcInv, ProcFields, EndHandler, Goto,
    FlipUp, store, OutboxStep
<1>13. CASE CloseIncidents
  BY <1>13 DEF ShapeInv, ClockInv, ProcInv, ProcFields, EndHandler, Goto,
    CloseIncidents, store, OutboxStep
<1>14. CASE FindLateDown
  BY <1>14 DEF ShapeInv, ClockInv, ProcInv, ProcFields, EndHandler, Goto,
    FindLateDown, store, OutboxStep
<1>15. CASE RecordEvidence
  <2>1. EndHandler("yielded") \/ Goto("cancelDown")
    BY <1>15 DEF RecordEvidence
  <2>2. now' = now /\ outbox' = outbox /\ proc.pc \notin Outcomes
    BY <1>15 DEF RecordEvidence, store
  <2> QED
    BY <2>1, <2>2, EndingKeepsProc, GotoKeepsProc, QueueingKeepsProc DEF OutboxStep
<1>16. CASE RereadAlert
  BY <1>16 DEF ShapeInv, ClockInv, ProcInv, ProcFields, EndHandler, Goto,
    RereadAlert, store, OutboxStep
<1>17. CASE CheckWindowUp
  <2>1. \/ Goto("muteRecovery") \/ Goto("clear")
        \/ \E key : proc' = [proc EXCEPT !.pc = "channels", !.key = key]
    BY <1>17 DEF CheckWindowUp
  <2>2. now' = now /\ outbox' = outbox /\ proc.pc \notin Outcomes
    BY <1>17 DEF CheckWindowUp, store
  <2> QED
    BY <2>1, <2>2, EndingKeepsProc, GotoKeepsProc, QueueingKeepsProc DEF OutboxStep
<1>18. CASE ResetAlert
  BY <1>18, EndingRecord DEF ShapeInv, ClockInv, ProcInv, ProcFields, EndHandler, Goto,
    ResetAlert, store, OutboxStep
<1>19. CASE ClearSettled
  BY <1>19, EndingRecord DEF ShapeInv, ClockInv, ProcInv, ProcFields, EndHandler, Goto,
    ClearSettled, store, OutboxStep
<1>20. CASE ReadChannels
  BY <1>20 DEF ShapeInv, ClockInv, ProcInv, ProcFields, EndHandler, Goto,
    ReadChannels, store, OutboxStep
<1>21. CASE ApplyNow
  BY <1>21, EndingRecord DEF ShapeInv, ClockInv, ProcInv, ProcFields, EndHandler, Goto,
    ApplyNow, store, OutboxStep
<1>22. CASE CancelRecovery
  BY <1>22, CancelsUnclaimed, GotoKeepsProc DEF CancelRecovery, ShapeInv, ProcInv
<1>23. CASE CancelDown
  BY <1>23, CancelsUnclaimed, GotoKeepsProc DEF CancelDown, ShapeInv, ProcInv
<1>24. CASE MuteRecovery
  BY <1>24, CancelsUnclaimed, GotoKeepsProc DEF MuteRecovery, ShapeInv, ProcInv
<1>25. CASE Enqueue
  BY <1>25, EndingRecord, NewRowRecord DEF ShapeInv, ClockInv, ProcInv, EndHandler,
    Enqueue, OutboxStep, Inserts, IsRow
<1> QED
  BY <1>1, <1>2, <1>3, <1>4, <1>5, <1>6, <1>7, <1>8, <1>9, <1>10, <1>11, <1>12, <1>13, <1>14, <1>15, <1>16, <1>17, <1>18, <1>19, <1>20, <1>21, <1>22, <1>23, <1>24, <1>25 DEF HandlerStep

\* A drain: it writes only the row it holds, or claims when nothing is claimed.
LEMMA RestingRecord ==
  ASSUME NEW pc, NEW at, NEW left
  PROVE  /\ DOMAIN Resting(pc, at, left) = DrainFields
         /\ Resting(pc, at, left).at = at /\ Resting(pc, at, left).pc = pc
BY DEF Resting, DrainFields

LEMMA SetDrainKeeps ==
  ASSUME ShapeInv, now' = now, NEW d \in Drainers, NEW x, DrainRec(x), SetDrain(d, x)
  PROVE  DrainInv' /\ drain'[d] = x
BY DEF ShapeInv, DrainInv, DrainRec, SetDrain

Busy(d) == drain[d].pc \notin {"idle", "claiming"}

LEMMA DrainToKeeps ==
  ASSUME ShapeInv, now' = now, NEW d \in Drainers, Busy(d), NEW pc, DrainTo(d, pc)
  PROVE  DrainInv' /\ drain'[d].pc = pc
<1>1. DrainRec([drain[d] EXCEPT !.pc = pc])
  BY DEF ShapeInv, DrainInv, DrainRec, DrainFields, Busy
<1>2. [drain[d] EXCEPT !.pc = pc].pc = pc
  BY DEF ShapeInv, DrainInv, DrainRec, DrainFields, Busy
<1> QED
  BY <1>1, <1>2, SetDrainKeeps DEF DrainTo

LEMMA PutBackKeeps ==
  ASSUME ShapeInv, now' = now, NEW d \in Drainers, Busy(d), NEW t, PutBack(d, t)
  PROVE  DrainInv' /\ drain'[d].pc = "releasing"
<1> DEFINE x == [drain[d] EXCEPT !.pc = "releasing", !.retryAt = Later(t)]
<1>1. DrainRec(x) /\ x.pc = "releasing"
  BY DEF ShapeInv, DrainInv, DrainRec, DrainFields, Busy
<1> QED
  BY <1>1, SetDrainKeeps DEF PutBack

LEMMA NextScanKeeps ==
  ASSUME ShapeInv, now' = now, NEW d \in Drainers, Busy(d), NextScan(d)
  PROVE  DrainInv' /\ drain'[d].pc \in {"claiming", "idle"}
<1>1. DrainRec(Resting("claiming", drain[d].at, drain[d].left))
      /\ DrainRec(Resting("idle", 0, 0))
  BY RestingRecord DEF ShapeInv, ClockInv, DrainInv, DrainRec, Busy, Stamp
<1> QED
  BY <1>1, SetDrainKeeps, RestingRecord DEF NextScan

LEMMA DeferKeeps ==
  ASSUME ShapeInv, now' = now, NEW d \in Drainers, Busy(d), Defer(d)
  PROVE  DrainInv'
<1>1. \E list, attempts, retryAt :
        SetDrain(d, [drain[d] EXCEPT !.pc = "releasing", !.sent = 0, !.list = list,
                                     !.attempts = attempts, !.retryAt = retryAt])
  BY DEF Defer
<1>2. \A list, attempts, retryAt :
        DrainRec([drain[d] EXCEPT !.pc = "releasing", !.sent = 0, !.list = list,
                                  !.attempts = attempts, !.retryAt = retryAt])
  BY DEF ShapeInv, DrainInv, DrainRec, DrainFields, Busy
<1> QED
  BY <1>1, <1>2, SetDrainKeeps

\* Every write is keyed by the drain's token.
LEMMA ClaimedWrite ==
  ASSUME ShapeInv, NEW d \in Drainers, NEW row, WriteClaimed(d, row), HolderMoves(d),
         Holds(d) => IsRow(row) /\ row.until \in {0, Stored(d).until}
  PROVE  OutboxStep
<1>1. CASE Holds(d)
  BY <1>1 DEF Holds, WriteClaimed, Stored, OutboxStep, Rewrites
<1>2. CASE ~Holds(d)
  BY <1>2 DEF WriteClaimed, OutboxStep
<1> QED
  BY <1>1, <1>2

LEMMA StoredRow ==
  ASSUME ShapeInv, NEW d \in Drainers, Holds(d)
  PROVE  IsRow(Stored(d))
BY DEF ShapeInv, OutboxInv, Holds, Stored

\* The steps that leave the outbox alone.
DrainEffect == DrainInv' /\ OutboxStep /\ now' = now

LEMMA QuietDrainSteps ==
  ASSUME ShapeInv, NEW d \in Drainers,
         \/ \E n \in 1..MaxAttempts : StartDrain(d, n)
         \/ NothingToClaim(d) \/ ReadSubject(d) \/ Settle(d) \/ SettleLast(d)
         \/ ListChannels(d) \/ ProviderAccepts(d) \/ ProviderRejects(d)
         \/ ApplySent(d) \/ LateDownEvidence(d) \/ LateRecoveryLookup(d)
         \/ DrainFault(d)
  PROVE  DrainEffect
<1> USE DEF OutboxStep, DrainEffect, store, Busy
<1>1. ASSUME NEW n \in 1..MaxAttempts, StartDrain(d, n) PROVE DrainEffect
  <2>1. DrainRec(Resting("claiming", now, n))
    BY RestingRecord DEF ShapeInv, ClockInv, DrainRec, Stamp
  <2> QED
    BY <1>1, <2>1, SetDrainKeeps DEF StartDrain
<1>2. DrainRec(Resting("idle", 0, 0))
  BY RestingRecord DEF ShapeInv, ClockInv, DrainRec, Stamp
<1>3. CASE NothingToClaim(d)
  BY <1>2, <1>3, SetDrainKeeps DEF NothingToClaim
<1>4. CASE ReadSubject(d)
  <2>1. \/ PutBack(d, window.to + 1)
        \/ SetDrain(d, [drain[d] EXCEPT !.pc = Route(d), !.status = lastStatus,
                                        !.sentAt = alert.sentAt])
    BY <1>4 DEF ReadSubject
  <2>2. now' = now /\ outbox' = outbox /\ Busy(d)
    BY <1>4 DEF ReadSubject
  <2>3. DrainRec([drain[d] EXCEPT !.pc = Route(d), !.status = lastStatus,
                                  !.sentAt = alert.sentAt])
    BY <2>2 DEF ShapeInv, DrainInv, DrainRec, DrainFields
  <2> QED
    BY <2>1, <2>2, <2>3, SetDrainKeeps, PutBackKeeps
<1>5. CASE Settle(d)
  <2>1. /\ \E pc : SetDrain(d, [drain[d] EXCEPT !.pc = pc])
        /\ now' = now /\ outbox' = outbox /\ Busy(d)
    BY <1>5 DEF Settle
  <2> QED
    BY <2>1, DrainToKeeps DEF DrainTo
<1>6. CASE SettleLast(d)
  <2>1. /\ DrainTo(d, "dropping") \/ PutBack(d, drain[d].at + InitialRetry)
        /\ now' = now /\ outbox' = outbox /\ Busy(d)
    BY <1>6 DEF SettleLast
  <2> QED
    BY <2>1, DrainToKeeps, PutBackKeeps
<1>7. CASE ListChannels(d)
  <2>1. /\ \E list, attempts, pc :
             SetDrain(d, [drain[d] EXCEPT !.list = list, !.attempts = attempts,
                                          !.pc = pc])
        /\ now' = now /\ outbox' = outbox /\ Busy(d)
    BY <1>7 DEF ListChannels
  <2>2. \A list, attempts, pc :
          DrainRec([drain[d] EXCEPT !.list = list, !.attempts = attempts, !.pc = pc])
    BY <2>1 DEF ShapeInv, DrainInv, DrainRec, DrainFields
  <2> QED
    BY <2>1, <2>2, SetDrainKeeps
<1>8. CASE ProviderAccepts(d)
  <2>1. /\ \E c, list :
             SetDrain(d, [drain[d] EXCEPT !.pc = "recording", !.sent = c, !.list = list])
        /\ now' = now /\ outbox' = outbox /\ Busy(d)
    BY <1>8 DEF ProviderAccepts
  <2>2. \A c, list :
          DrainRec([drain[d] EXCEPT !.pc = "recording", !.sent = c, !.list = list])
    BY <2>1 DEF ShapeInv, DrainInv, DrainRec, DrainFields
  <2> QED
    BY <2>1, <2>2, SetDrainKeeps
<1>9. CASE ProviderRejects(d)
  BY <1>9, DeferKeeps DEF ProviderRejects
<1>10. CASE ApplySent(d)
  <2>1. /\ \E pc : DrainTo(d, pc)
        /\ now' = now /\ outbox' = outbox /\ Busy(d)
    BY <1>10 DEF ApplySent
  <2> QED
    BY <2>1, DrainToKeeps
<1>11. CASE LateDownEvidence(d)
  <2>1. /\ DrainTo(d, "stageRecovery") \/ PutBack(d, drain[d].at + 1)
        /\ now' = now /\ outbox' = outbox /\ Busy(d)
    BY <1>11 DEF LateDownEvidence
  <2> QED
    BY <2>1, DrainToKeeps, PutBackKeeps
<1>12. CASE LateRecoveryLookup(d)
  <2>1. /\ \E pc : DrainTo(d, pc)
        /\ now' = now /\ outbox' = outbox /\ Busy(d)
    BY <1>12 DEF LateRecoveryLookup
  <2> QED
    BY <2>1, DrainToKeeps
<1>13. CASE DrainFault(d)
  <2>1. /\ (Busy(d) /\ Defer(d)) \/ SetDrain(d, Resting("idle", 0, 0))
        /\ now' = now /\ outbox' = outbox
    BY <1>13 DEF DrainFault, ProviderTimesOut, StatementFails, CrashDrain, Busy
  <2> QED
    BY <1>2, <2>1, SetDrainKeeps, DeferKeeps
<1> QED
  BY <1>1, <1>3, <1>4, <1>5, <1>6, <1>7, <1>8, <1>9, <1>10, <1>11, <1>12, <1>13

\* A claim is made only when every claim of the monitor has expired.
LEMMA ClaimStep ==
  ASSUME ShapeInv, NEW d \in Drainers, NEW k \in DOMAIN outbox, Claim(d, k)
  PROVE  DrainEffect
<1> DEFINE at == drain[d].at
           claimed == [outbox[k] EXCEPT !.token = d, !.until = Later(at + ClaimSeconds)]
           x == [Resting("reading", at, drain[d].left - 1) EXCEPT
                   !.key = k, !.row = outbox[k], !.applied = outbox[k].applied,
                   !.list = outbox[k].remaining, !.attempts = outbox[k].attempts]
<1>1. now' = now /\ outbox' = [outbox EXCEPT ![k] = claimed] /\ SetDrain(d, x)
  BY DEF Claim
<1>2. at \in Nat /\ at <= now
  BY DEF ShapeInv, DrainInv, DrainRec
<1>3. DrainRec(x)
  <2>1. drain[d].pc = "claiming" /\ outbox[k].created \in Stamp
    BY DEF Claim, ShapeInv, OutboxInv, IsRow
  <2>2. at \in Stamp
    BY <2>1 DEF ShapeInv, DrainInv, DrainRec
  <2> HIDE DEF at
  <2> QED
    BY <1>2, <2>1, <2>2, RestingRecord DEF DrainRec, DrainFields
<1>4. \A j \in DOMAIN outbox : outbox[j].until <= now
  <2>1. \A j \in DOMAIN outbox : outbox[j].until <= at
    BY DEF Claim, Claimable, Unclaimed
  <2> QED
    BY <1>2, <2>1 DEF ShapeInv, ClockInv, OutboxInv, IsRow
<1>5. IsRow(claimed)
  <2>1. Later(at + ClaimSeconds) \in Nat
    BY <1>2, StoreAssumption DEF Later, MinOf
  <2> HIDE DEF at
  <2> QED
    BY <2>1 DEF ShapeInv, OutboxInv, IsRow, RowFields
<1> HIDE DEF at, claimed, x
<1>6. Claims
  BY <1>1, <1>4, <1>5 DEF Claims
<1> QED
  BY <1>1, <1>3, <1>6, SetDrainKeeps DEF DrainEffect, OutboxStep

\* The other steps that write.
LEMMA NoteAppliedStep ==
  ASSUME ShapeInv, NEW d \in Drainers, NoteApplied(d)
  PROVE  DrainEffect
<1> DEFINE pc == Onwards(d, drain[d].status, drain[d].sentAt, 1)
           x == [drain[d] EXCEPT !.applied = 1, !.pc = pc]
           row == [Stored(d) EXCEPT !.applied = 1]
<1>1. now' = now /\ WriteClaimed(d, row) /\ SetDrain(d, x) /\ drain[d].pc = "noting"
  BY DEF NoteApplied
<1>2. pc # "noting"
  BY DEF Onwards
<1> HIDE DEF pc
<1>3. DrainRec(x) /\ x.pc = pc
  BY <1>1 DEF ShapeInv, DrainInv, DrainRec, DrainFields, Busy
<1>4. Holds(d) => IsRow(row) /\ row.until = Stored(d).until
  BY StoredRow DEF IsRow, RowFields
<1> HIDE DEF x, row
<1>5. DrainInv' /\ HolderMoves(d)
  BY <1>1, <1>2, <1>3, SetDrainKeeps DEF HolderMoves
<1> QED
  BY <1>1, <1>4, <1>5, ClaimedWrite DEF DrainEffect

LEMMA RecordProgressStep ==
  ASSUME ShapeInv, NEW d \in Drainers, RecordProgress(d)
  PROVE  DrainEffect
<1> DEFINE pc == IF drain[d].list # <<>> THEN "releasing"
                 ELSE IF drain[d].applied = 1 THEN "dropping" ELSE "applying"
           x == [drain[d] EXCEPT !.attempts = 0, !.retryAt = drain[d].at, !.pc = pc]
           row == [Stored(d) EXCEPT !.remaining = drain[d].list, !.attempts = 0,
                     !.delivered = Stored(d).delivered + 1, !.nextAt = drain[d].at]
<1>1. /\ now' = now /\ WriteClaimed(d, row) /\ SetDrain(d, x)
      /\ drain[d].pc = "recording"
  BY DEF RecordProgress
<1>2. pc # "recording"
  OBVIOUS
<1> HIDE DEF pc
<1>3. DrainRec(x) /\ x.pc = pc
  BY <1>1 DEF ShapeInv, DrainInv, DrainRec, DrainFields, Busy
<1>4. Holds(d) => IsRow(row) /\ row.until = Stored(d).until
  BY StoredRow DEF IsRow, RowFields
<1> HIDE DEF x, row
<1>5. DrainInv' /\ HolderMoves(d)
  BY <1>1, <1>2, <1>3, SetDrainKeeps DEF HolderMoves
<1> QED
  BY <1>1, <1>4, <1>5, ClaimedWrite DEF DrainEffect

LEMMA DropStep ==
  ASSUME ShapeInv, NEW d \in Drainers, Drop(d)
  PROVE  DrainEffect
<1>1. /\ now' = now /\ NextScan(d) /\ drain[d].pc = "dropping"
      /\ IF Holds(d) THEN DeleteRows({drain[d].key}) ELSE outbox' = outbox
  BY DEF Drop
<1>2. DrainInv' /\ HolderMoves(d)
  BY <1>1, NextScanKeeps DEF HolderMoves, Busy
<1>3. OutboxStep
  BY <1>1, <1>2 DEF OutboxStep, Removes, Holds
<1> QED
  BY <1>1, <1>2, <1>3 DEF DrainEffect

LEMMA ReleaseStep ==
  ASSUME ShapeInv, NEW d \in Drainers, Release(d)
  PROVE  DrainEffect
<1> DEFINE row == [Stored(d) EXCEPT !.remaining = drain[d].list,
                     !.attempts = drain[d].attempts, !.nextAt = drain[d].retryAt,
                     !.token = NoClaim, !.until = 0]
<1>1. now' = now /\ NextScan(d) /\ drain[d].pc = "releasing" /\ WriteClaimed(d, row)
  BY DEF Release
<1>2. DrainInv' /\ HolderMoves(d)
  BY <1>1, NextScanKeeps DEF HolderMoves, Busy
<1>3. Holds(d) => IsRow(row) /\ row.until = 0
  BY StoredRow DEF IsRow, RowFields
<1> HIDE DEF row
<1> QED
  BY <1>1, <1>2, <1>3, ClaimedWrite DEF DrainEffect

LEMMA StageStep ==
  ASSUME ShapeInv, NEW d \in Drainers, StageRecovery(d) \/ StageAlert(d)
  PROVE  DrainEffect
<1>1. /\ now' = now /\ Busy(d)
      /\ \E key, wanted, applied : Stage(d, key, wanted, applied)
  BY DEF StageRecovery, StageAlert, Busy
<1>2. PICK key, wanted, applied : Stage(d, key, wanted, applied)
  BY <1>1
<1>3. CASE InsertRow(key, NewRow(drain[d].at, LinkedChannels, drain[d].at, applied))
           /\ DrainTo(d, "dropping")
  <2>1. drain[d].at \in Stamp
    BY <1>1 DEF Busy, ShapeInv, DrainInv, DrainRec
  <2>2. Inserts
    BY <1>3, <2>1, NewRowRecord DEF Inserts, IsRow
  <2> QED
    BY <1>1, <1>3, <2>2, DrainToKeeps DEF DrainEffect, OutboxStep
<1>4. CASE outbox' = outbox /\ PutBack(d, drain[d].at + 1)
  BY <1>1, <1>4, PutBackKeeps DEF DrainEffect, OutboxStep
<1> QED
  BY <1>2, <1>3, <1>4 DEF Stage

LEMMA DrainOutboxKeeps ==
  ASSUME ShapeInv, NEW d \in Drainers, DrainOutbox(d) \/ FailDrain(d)
  PROVE  DrainEffect /\ proc' = proc
<1>1. proc' = proc /\ (DrainStep(d) \/ DrainFault(d))
  BY DEF DrainOutbox, FailDrain
<1> QED
  BY <1>1, QuietDrainSteps, ClaimStep, NoteAppliedStep, RecordProgressStep, DropStep,
     ReleaseStep, StageStep DEF DrainStep

LEMMA AdminStepKeeps ==
  ASSUME ShapeInv, AdminStep
  PROVE  ProcInv' /\ OutboxStep /\ now' = now /\ drain' = drain
<1> USE DEF Admin, OutboxStep
<1>1. CASE SetWindow
  BY <1>1 DEF SetWindow, ShapeInv, ProcInv
<1>2. ASSUME NEW c \in Channels, ToggleChannel(c)
      PROVE  ProcInv' /\ OutboxStep /\ now' = now /\ drain' = drain
  BY <1>2 DEF ToggleChannel, ShapeInv, ProcInv
<1>3. CASE ResetStats
  BY <1>3, EndingKeepsProc DEF ResetStats, Outcomes
<1>4. ASSUME NEW k \in DOMAIN outbox, RetryDelivery(k)
      PROVE  ProcInv' /\ OutboxStep /\ now' = now /\ drain' = drain
  <2> DEFINE row == [outbox[k] EXCEPT !.nextAt = now]
  <2>1. IsRow(row) /\ row.until = outbox[k].until
    BY DEF ShapeInv, OutboxInv, IsRow, RowFields
  <2>2. outbox[k].until <= now /\ outbox' = [outbox EXCEPT ![k] = row]
    BY <1>4 DEF RetryDelivery, Unclaimed
  <2> HIDE DEF row
  <2>3. Reschedules
    BY <2>1, <2>2 DEF Reschedules
  <2> QED
    BY <1>4, <2>3 DEF RetryDelivery, ShapeInv, ProcInv
<1> QED
  BY <1>1, <1>2, <1>3, <1>4 DEF AdminStep

\* An observation starts a handler whose clock value is the present.
LEMMA NewObservationKeeps ==
  ASSUME ShapeInv, NewObservation
  PROVE  ProcInv' /\ OutboxStep /\ now' = now /\ drain' = drain
<1>1. PICK s \in {"up", "down"} : Observe(s)
  BY DEF NewObservation
<1> DEFINE first == Ending(IF s = "up" THEN "recordUp" ELSE "window")
<1>2. DOMAIN first = ProcFields
  BY EndingRecord
<1>3. proc' = [first EXCEPT !.at = now, !.seen = lastStatus]
  BY <1>1 DEF Observe
<1> HIDE DEF first
<1>4. now' = now /\ outbox' = outbox /\ drain' = drain
  BY <1>1 DEF Observe, store, NewObservation
<1> QED
  BY <1>2, <1>3, <1>4 DEF ShapeInv, ClockInv, ProcInv, ProcFields, OutboxStep, Stamp

LEMMA TickKeepsClaims ==
  ASSUME ClaimInv, Tick
  PROVE  ClaimInv' /\ outbox' = outbox
<1>1. now' = now + 1 /\ UNCHANGED <<proc, drain, outbox>>
  BY DEF Tick, store
<1>2. ShapeInv'
  BY <1>1 DEF ClaimInv, ShapeInv, ClockInv, ProcInv, DrainInv, DrainRec, OutboxInv, IsRow
<1>3. OneLiveClaim'
  BY <1>1 DEF ClaimInv, ShapeInv, ClockInv, OutboxInv, IsRow, OneLiveClaim, Live
<1> QED
  BY <1>1, <1>2, <1>3 DEF ClaimInv

\* Every step but the clock's is an OutboxStep that keeps what it works with.
LEMMA StepIsOutboxStep ==
  ASSUME ShapeInv, Next, ~Tick
  PROVE  ProcInv' /\ DrainInv' /\ OutboxStep /\ now' = now
<1>1. CASE NewObservation
  BY <1>1, NewObservationKeeps DEF ShapeInv, DrainInv, DrainRec
<1>2. CASE Handle
  <2>1. HandlerEffect /\ now' = now /\ drain' = drain
    BY <1>2, HandlerOutbox DEF Handle
  <2> QED
    BY <2>1 DEF HandlerEffect, ShapeInv, DrainInv, DrainRec
<1>3. ASSUME NEW d \in Drainers, DrainOutbox(d) \/ FailDrain(d)
      PROVE  ProcInv' /\ DrainInv' /\ OutboxStep /\ now' = now
  BY <1>3, DrainOutboxKeeps DEF DrainEffect, ShapeInv, ProcInv
<1>4. CASE AdminStep
  BY <1>4, AdminStepKeeps DEF ShapeInv, DrainInv, DrainRec
<1> QED
  BY <1>1, <1>2, <1>3, <1>4 DEF Next

LEMMA InitEstablishesClaims == Init => ClaimInv
<1> SUFFICES ASSUME Init PROVE ClaimInv
  OBVIOUS
<1> USE DEF Init, StoreInit, DrainInit
<1>1. ClockInv /\ ProcInv
  BY EndingRecord DEF ClockInv, ProcInv, Outcomes
<1>2. DrainInv
  BY RestingRecord DEF DrainInv, DrainRec
<1>3. OutboxInv /\ OneLiveClaim
  BY DEF OutboxInv, OneLiveClaim
<1> QED
  BY <1>1, <1>2, <1>3 DEF ClaimInv, ShapeInv

LEMMA StepKeepsClaims == ClaimInv /\ [Next]_vars => ClaimInv'
<1> SUFFICES ASSUME ClaimInv, [Next]_vars PROVE ClaimInv'
  OBVIOUS
<1>1. CASE Tick
  BY <1>1, TickKeepsClaims
<1>2. CASE Next /\ ~Tick
  BY <1>2, StepIsOutboxStep, OutboxStepKeepsClaim DEF ClaimInv, ShapeInv, ClockInv
<1>3. CASE UNCHANGED vars
  BY <1>3 DEF vars, store, ClaimInv, ShapeInv, ClockInv, ProcInv, DrainInv, DrainRec,
              OutboxInv, IsRow, OneLiveClaim, Live
<1> QED
  BY <1>1, <1>2, <1>3

THEOREM ClaimInvariant == Spec => []ClaimInv
BY InitEstablishesClaims, StepKeepsClaims, PTL DEF Spec

\* Nobody but its holder touches a delivery inside its claim (the claim_token
\* guards and cancelUnclaimedDeliveries).
THEOREM AlertingClaimsFence == Spec => ClaimsFence
<1>1. ClaimInv /\ [Next]_vars => [RowsFenced]_vars
  <2> SUFFICES ASSUME ClaimInv, Next PROVE RowsFenced
    OBVIOUS
  <2>1. CASE Tick
    BY <2>1, TickKeepsClaims DEF RowsFenced
  <2>2. CASE ~Tick
    BY <2>2, StepIsOutboxStep, OutboxStepIsFenced DEF ClaimInv
  <2> QED
    BY <2>1, <2>2
<1> QED
  BY <1>1, ClaimInvariant, PTL DEF Spec, ClaimsFence, RowsFenced

-----------------------------------------------------------------------------
(* Part 2: incidents.                                                      *)
(*                                                                         *)
(* What the handler of the latest observation knows at each of its         *)
(* statements: only handlers and resets write the status and the           *)
(* incidents, and a reset ends the handler.                                *)

FailedPhases   == {"window", "recordDown", "readIncident", "reopen"}
HealthyPhases  == {"recordUp", "probe", "settle"}
OutagePhases   == {"forget", "cancelRecovery", "openIncident"}
ClosingPhases  == {"closeOnly", "close"}
RecoveryPhases == {"find", "evidence", "cancelDown", "reread", "checkWindow",
                   "muteRecovery", "resetAlert", "clear"}
FinalPhases    == {"channels", "applyNow", "insert", "done"}

Matches == incident.open = 1 <=> lastStatus = "down"

StatusInv ==
  /\ lastStatus \in {"pending", "up", "down"}
  /\ DOMAIN incident = {"open", "count"} /\ incident.open \in {0, 1}
  /\ DOMAIN proc = ProcFields
  /\ proc.pc \in HandlerPhases \union Outcomes
  /\ proc.pc \in FailedPhases \union HealthyPhases => proc.seen = lastStatus
  /\ proc.pc = "probe" => lastStatus = "up"
  /\ proc.pc = "mark" => lastStatus # "up"
  /\ proc.pc \in OutagePhases => lastStatus = "down"
  /\ proc.pc \in ClosingPhases => lastStatus = "up"
  /\ proc.pc \in RecoveryPhases => lastStatus = "up" /\ incident.open = 0
  /\ proc.pc \in FinalPhases => Matches

LEMMA HandlerKeepsStatus ==
  ASSUME StatusInv, HandlerStep
  PROVE  StatusInv'
<1> USE DEF StatusInv, Matches, FailedPhases, HealthyPhases, OutagePhases, ClosingPhases,
            RecoveryPhases, FinalPhases, HandlerPhases, Outcomes, ProcFields, Goto,
            EndHandler
<1>1. CASE CheckWindow
  BY <1>1, EndingRecord DEF CheckWindow, store
<1>2. CASE RecordFailed
  <2>1. UNCHANGED <<lastStatus, incident>> /\ proc.pc = "recordDown"
    BY <1>2 DEF RecordFailed
  <2>2. CASE EndHandler("tolerated")
    BY <2>1, <2>2, EndingRecord
  <2>3. CASE proc' = [proc EXCEPT !.pc = "readIncident", !.state = alert']
    BY <2>1, <2>3
  <2> QED
    BY <1>2, <2>2, <2>3 DEF RecordFailed
<1>3. CASE ReadIncident
  BY <1>3, EndingRecord DEF ReadIncident, store
<1>4. CASE Reopen
  <2>1. CASE lastStatus = "up" \/ RepairsIncompleteReopen
    <3>1. lastStatus' = "down" /\ Goto("forget") /\ incident' = incident
      BY <1>4, <2>1 DEF Reopen, RepairsIncompleteReopen
    <3> QED
      BY <3>1
  <2>2. CASE ~(lastStatus = "up" \/ RepairsIncompleteReopen)
    <3>1. lastStatus' = lastStatus /\ Goto("mark") /\ incident' = incident
      BY <1>4, <2>2 DEF Reopen
    <3> QED
      BY <2>2, <3>1
  <2> QED
    BY <2>1, <2>2
<1>5. CASE ForgetAlerts
  BY <1>5, EndingRecord DEF ForgetAlerts, store
<1>6. CASE CancelRecovery
  BY <1>6, EndingRecord DEF CancelRecovery, store
<1>7. CASE MarkDown
  BY <1>7, EndingRecord DEF MarkDown, store
<1>8. CASE OpenIncident
  <2>1. /\ lastStatus' = lastStatus /\ lastStatus = "down"
        /\ DOMAIN incident' = {"open", "count"} /\ incident'.open = 1
    BY <1>8 DEF OpenIncident
  <2>2. CASE EndHandler("done")
    BY <2>1, <2>2, EndingRecord
  <2>3. ASSUME NEW key, proc' = [proc EXCEPT !.pc = "channels", !.key = key]
        PROVE  StatusInv'
    BY <2>1, <2>3
  <2>4. \/ EndHandler("done")
        \/ \E key : proc' = [proc EXCEPT !.pc = "channels", !.key = key]
    BY <1>8 DEF OpenIncident
  <2> QED
    BY <2>2, <2>3, <2>4
<1>9. CASE RecordHealthy
  BY <1>9, EndingRecord DEF RecordHealthy, store
<1>10. CASE Probe
  BY <1>10, EndingRecord DEF Probe, store
<1>11. CASE SettlePending
  BY <1>11, EndingRecord DEF SettlePending, store
<1>12. CASE CloseOnly
  BY <1>12, EndingRecord DEF CloseOnly, store
<1>13. CASE FlipUp
  BY <1>13, EndingRecord DEF FlipUp, store
<1>14. CASE CloseIncidents
  BY <1>14, EndingRecord DEF CloseIncidents, store
<1>15. CASE FindLateDown
  BY <1>15, EndingRecord DEF FindLateDown, store
<1>16. CASE RecordEvidence
  <2>1. UNCHANGED <<lastStatus, incident>> /\ proc.pc = "evidence"
    BY <1>16 DEF RecordEvidence
  <2>2. CASE EndHandler("yielded")
    BY <2>1, <2>2, EndingRecord
  <2>3. CASE Goto("cancelDown")
    BY <2>1, <2>3
  <2> QED
    BY <1>16, <2>2, <2>3 DEF RecordEvidence
<1>17. CASE CancelDown
  BY <1>17, EndingRecord DEF CancelDown, store
<1>18. CASE RereadAlert
  BY <1>18, EndingRecord DEF RereadAlert, store
<1>19. CASE CheckWindowUp
  <2>1. UNCHANGED <<lastStatus, incident>> /\ proc.pc = "checkWindow"
    BY <1>19 DEF CheckWindowUp, store
  <2>2. CASE Goto("muteRecovery") \/ Goto("clear")
    BY <2>1, <2>2
  <2>3. ASSUME NEW key, proc' = [proc EXCEPT !.pc = "channels", !.key = key]
        PROVE  StatusInv'
    BY <2>1, <2>3
  <2>4. \/ Goto("muteRecovery") \/ Goto("clear")
        \/ \E key : proc' = [proc EXCEPT !.pc = "channels", !.key = key]
    BY <1>19 DEF CheckWindowUp
  <2> QED
    BY <2>2, <2>3, <2>4
<1>20. CASE MuteRecovery
  BY <1>20, EndingRecord DEF MuteRecovery, store
<1>21. CASE ResetAlert
  BY <1>21, EndingRecord DEF ResetAlert, store
<1>22. CASE ClearSettled
  BY <1>22, EndingRecord DEF ClearSettled, store
<1>23. CASE ReadChannels
  BY <1>23, EndingRecord DEF ReadChannels, store
<1>24. CASE ApplyNow
  BY <1>24, EndingRecord DEF ApplyNow, store
<1>25. CASE Enqueue
  BY <1>25, EndingRecord DEF Enqueue, store
<1> QED
  BY <1>1, <1>2, <1>3, <1>4, <1>5, <1>6, <1>7, <1>8, <1>9, <1>10, <1>11, <1>12, <1>13, <1>14, <1>15, <1>16, <1>17, <1>18, <1>19, <1>20, <1>21, <1>22, <1>23, <1>24, <1>25 DEF HandlerStep

LEMMA ObservationKeepsStatus ==
  ASSUME StatusInv, NewObservation
  PROVE  StatusInv'
<1>1. PICK s \in {"up", "down"} : Observe(s)
  BY DEF NewObservation
<1> DEFINE phase == IF s = "up" THEN "recordUp" ELSE "window"
           first == Ending(phase)
<1>2. DOMAIN first = ProcFields /\ phase \in {"recordUp", "window"}
  BY EndingRecord
<1>3. /\ proc' = [first EXCEPT !.at = now, !.seen = lastStatus]
      /\ UNCHANGED <<lastStatus, incident>>
  BY <1>1 DEF Observe, store
<1>4. first.pc = phase
  BY EndingRecord
<1> HIDE DEF first, phase
<1>5. DOMAIN proc' = ProcFields /\ proc'.pc = phase /\ proc'.seen = lastStatus
  BY <1>2, <1>3, <1>4 DEF ProcFields
<1> QED
  BY <1>2, <1>3, <1>5 DEF StatusInv, Matches, FailedPhases, HealthyPhases, OutagePhases,
     ClosingPhases, RecoveryPhases, FinalPhases, HandlerPhases, Outcomes

\* No drain writes the status or the incidents.
LEMMA DrainLeavesStatus ==
  ASSUME NEW d \in Drainers, DrainOutbox(d) \/ FailDrain(d)
  PROVE  UNCHANGED <<lastStatus, incident, proc>>
<1>1. proc' = proc
  BY DEF DrainOutbox, FailDrain
<1>2. DrainFault(d) => UNCHANGED <<lastStatus, incident>>
  BY DEF DrainFault, ProviderTimesOut, StatementFails, CrashDrain
<1>3. DrainStep(d) => UNCHANGED <<lastStatus, incident>>
  BY DEF DrainStep, store, StartDrain, Claim, NothingToClaim, ReadSubject, Settle,
     NoteApplied, SettleLast, ListChannels, ProviderAccepts, ProviderRejects,
     RecordProgress, ApplySent, Drop, Release, LateDownEvidence, StageRecovery,
     LateRecoveryLookup, StageAlert
<1> QED
  BY <1>1, <1>2, <1>3 DEF DrainOutbox, FailDrain

LEMMA AdminKeepsStatus ==
  ASSUME StatusInv, AdminStep
  PROVE  StatusInv'
<1>1. CASE ResetStats
  <2>1. /\ lastStatus' = "pending" /\ incident' = [incident EXCEPT !.open = 0]
        /\ EndHandler("lost")
    BY <1>1 DEF ResetStats
  <2> QED
    BY <2>1, EndingRecord DEF StatusInv, EndHandler, FailedPhases, HealthyPhases,
       OutagePhases, ClosingPhases, RecoveryPhases, FinalPhases, Outcomes
<1>2. CASE ~ResetStats
  <2>1. UNCHANGED <<lastStatus, incident, proc>>
    BY <1>2 DEF AdminStep, SetWindow, ToggleChannel, RetryDelivery
  <2> QED
    BY <2>1 DEF StatusInv, Matches
<1> QED
  BY <1>1, <1>2

LEMMA InitEstablishesStatus == Init => StatusInv
BY EndingRecord DEF Init, StoreInit, StatusInv, FailedPhases, HealthyPhases,
   OutagePhases, ClosingPhases, RecoveryPhases, FinalPhases, Outcomes

LEMMA StepKeepsStatus == StatusInv /\ [Next]_vars => StatusInv'
<1> SUFFICES ASSUME StatusInv, [Next]_vars PROVE StatusInv'
  OBVIOUS
<1>1. CASE UNCHANGED <<lastStatus, incident, proc>>
  BY <1>1 DEF StatusInv, Matches
<1>2. CASE Tick
  BY <1>1, <1>2 DEF Tick, store
<1>3. CASE NewObservation
  BY <1>3, ObservationKeepsStatus
<1>4. CASE Handle
  BY <1>4, HandlerKeepsStatus DEF Handle
<1>5. ASSUME NEW d \in Drainers, DrainOutbox(d) \/ FailDrain(d) PROVE StatusInv'
  BY <1>1, <1>5, DrainLeavesStatus
<1>6. CASE AdminStep
  BY <1>6, AdminKeepsStatus
<1>7. CASE UNCHANGED vars
  BY <1>1, <1>7 DEF vars, store
<1> QED
  BY <1>2, <1>3, <1>4, <1>5, <1>6, <1>7 DEF Next

\* An incident is open exactly when the monitor is down, whenever the handler of
\* the latest observation has run to its end, whatever was cut short before it
\* (processHealthyObservation and processFailedObservation).
THEOREM AlertingIncidentMatchesStatus == Spec => []IncidentMatchesStatus
<1>1. StatusInv => IncidentMatchesStatus
  BY DEF StatusInv, IncidentMatchesStatus, FinalPhases, Matches
<1> QED
  BY <1>1, InitEstablishesStatus, StepKeepsStatus, PTL DEF Spec

-----------------------------------------------------------------------------
(* Part 3: surge protection.                                               *)
(*                                                                         *)
(* alerts is counted when an alert is recorded that none was before, and   *)
(* whatever forgets the alert forgets the count.                           *)

AlertFields == {"failures", "sentAt", "alerts", "remindedAt", "pausedUntil"}
AlertCount ==
  /\ DOMAIN alert = AlertFields
  /\ alert.alerts \in {0, 1}
  /\ alert.sentAt = 0 => alert.alerts = 0
  /\ SurgeLimit > 1 => alert.pausedUntil = 0
\* What the handler found of a late DOWN row carries that row's clock value.
Evidence ==
  /\ proc.late = NoEvidence \/ proc.late.created \in Stamp
  /\ proc.pc = "evidence" => proc.late # NoEvidence
CountInv == AlertCount /\ Evidence

LEMMA ApplyKeepsCount ==
  ASSUME AlertCount, NEW kind, NEW created \in Stamp, NEW whileUp,
         Apply(kind, created, whileUp)
  PROVE  AlertCount'
<1> USE StoreAssumption DEF AlertCount, AlertFields, Stamp
<1>1. CASE alert' = alert
  BY <1>1
<1>2. CASE alert' = NoAlert
  BY <1>2 DEF NoAlert
<1>3. CASE alert' = [alert EXCEPT !.remindedAt = MaxOf(alert.remindedAt, created)]
  BY <1>3
<1>4. CASE alert.sentAt = 0 /\ alert' = AfterApplying(kind, created)
  <2>1. CASE kind \in {"recovery", "reminder"}
    BY <1>2, <1>3, <1>4, <2>1 DEF AfterApplying
  <2>2. CASE kind \notin {"recovery", "reminder"}
    <3> DEFINE pause == IF SurgeReached(alert.alerts + 1)
                          THEN Later(created + SurgePause) ELSE 0
    <3>1. alert' = [failures |-> alert.failures, sentAt |-> created,
                    alerts |-> alert.alerts + 1, remindedAt |-> created,
                    pausedUntil |-> pause]
      BY <1>4, <2>2 DEF AfterApplying
    <3>2. alert.alerts = 0 /\ (SurgeLimit > 1 => pause = 0)
      BY <1>4 DEF SurgeReached
    <3> HIDE DEF pause
    <3>3. DOMAIN alert' = AlertFields /\ alert'.alerts = alert.alerts + 1
          /\ alert'.sentAt = created /\ alert'.pausedUntil = pause
      BY <3>1
    <3> QED
      BY <3>2, <3>3
  <2> QED
    BY <2>1, <2>2
<1> QED
  BY <1>1, <1>2, <1>3, <1>4 DEF Apply, AfterApplying

LEMMA ResetsKeepCount ==
  ASSUME AlertCount, alert' = NoAlert \/ alert' = Forgotten
                     \/ \E n : alert' = [alert EXCEPT !.failures = n]
  PROVE  AlertCount'
BY DEF AlertCount, AlertFields, NoAlert, Forgotten

\* The handler.
LEMMA LateDownCreated ==
  ASSUME ShapeInv, NEW late \in LateDown
  PROVE  late = NoEvidence \/ late.created \in Stamp
BY DEF ShapeInv, OutboxInv, IsRow, LateDown

LEMMA HandlerKeepsAlertCount ==
  ASSUME ShapeInv, CountInv, HandlerStep
  PROVE  AlertCount'
<1>1. CASE RecordFailed \/ RecordHealthy \/ ForgetAlerts \/ ResetAlert
  BY <1>1, ResetsKeepCount DEF CountInv, RecordFailed, RecordHealthy, ForgetAlerts, ResetAlert
<1>2. CASE ClearSettled
  BY <1>2, ResetsKeepCount DEF CountInv, ClearSettled, AlertCount
<1>3. CASE RecordEvidence
  <2>1. CASE alert' = alert
    BY <2>1 DEF CountInv, AlertCount
  <2>2. CASE Apply("alert", proc.late.created, TRUE)
    BY <1>3, <2>2, ApplyKeepsCount DEF CountInv, Evidence, RecordEvidence
  <2> QED
    BY <1>3, <2>1, <2>2 DEF RecordEvidence
<1>4. CASE ApplyNow
  <2>1. proc.at \in Stamp
    BY <1>4 DEF ApplyNow, ShapeInv, ProcInv, Outcomes
  <2> QED
    BY <1>4, <2>1, ApplyKeepsCount DEF CountInv, ApplyNow
<1>5. CASE ~(RecordFailed \/ RecordHealthy \/ ForgetAlerts \/ ResetAlert \/ ClearSettled
             \/ RecordEvidence \/ ApplyNow)
  <2>1. alert' = alert
    BY <1>5 DEF HandlerStep, CheckWindow, ReadIncident, Reopen, CancelRecovery, MarkDown,
       OpenIncident, Probe, SettlePending, CloseOnly, FlipUp, CloseIncidents, FindLateDown,
       CancelDown, RereadAlert, CheckWindowUp, MuteRecovery, ReadChannels, Enqueue, store
  <2> QED
    BY <2>1 DEF CountInv, AlertCount
<1> QED
  BY <1>1, <1>2, <1>3, <1>4, <1>5

LEMMA HandlerKeepsEvidence ==
  ASSUME ShapeInv, CountInv, HandlerStep
  PROVE  Evidence'
<1> USE DEF CountInv, Evidence, ShapeInv, ProcInv, ProcFields
<1>1. CASE CheckWindow
  BY <1>1, EndingRecord DEF CheckWindow, Goto, EndHandler, Ending
<1>2. CASE RecordFailed
  <2>1. CASE EndHandler("tolerated")
    BY <2>1, EndingRecord DEF EndHandler, Ending
  <2>2. CASE proc' = [proc EXCEPT !.pc = "readIncident", !.state = alert']
    BY <2>2 DEF Goto
  <2> QED
    BY <1>2, <2>1, <2>2 DEF RecordFailed
<1>3. CASE ReadIncident
  BY <1>3, EndingRecord DEF ReadIncident, Goto, EndHandler, Ending
<1>4. CASE Reopen
  BY <1>4, EndingRecord DEF Reopen, Goto, EndHandler, Ending
<1>5. CASE ForgetAlerts
  BY <1>5, EndingRecord DEF ForgetAlerts, Goto, EndHandler, Ending
<1>6. CASE CancelRecovery
  BY <1>6, EndingRecord DEF CancelRecovery, Goto, EndHandler, Ending
<1>7. CASE MarkDown
  BY <1>7, EndingRecord DEF MarkDown, Goto, EndHandler, Ending
<1>8. CASE OpenIncident
  <2>1. CASE EndHandler("done")
    BY <2>1, EndingRecord DEF EndHandler, Ending
  <2>2. ASSUME NEW key, proc' = [proc EXCEPT !.pc = "channels", !.key = key]
        PROVE  Evidence'
    BY <2>2
  <2>3. \/ EndHandler("done")
        \/ \E key : proc' = [proc EXCEPT !.pc = "channels", !.key = key]
    BY <1>8 DEF OpenIncident
  <2> QED
    BY <2>1, <2>2, <2>3
<1>9. CASE RecordHealthy
  BY <1>9, EndingRecord DEF RecordHealthy, Goto, EndHandler, Ending
<1>10. CASE Probe
  BY <1>10, LateDownCreated, EndingRecord DEF Probe, Goto, EndHandler, Ending
<1>11. CASE SettlePending
  BY <1>11, EndingRecord DEF SettlePending, Goto, EndHandler, Ending
<1>12. CASE CloseOnly
  BY <1>12, EndingRecord DEF CloseOnly, Goto, EndHandler, Ending
<1>13. CASE FlipUp
  BY <1>13, EndingRecord DEF FlipUp, Goto, EndHandler, Ending
<1>14. CASE CloseIncidents
  BY <1>14, EndingRecord DEF CloseIncidents, Goto, EndHandler, Ending
<1>15. CASE FindLateDown
  BY <1>15, LateDownCreated, EndingRecord DEF FindLateDown, Goto, EndHandler, Ending
<1>16. CASE RecordEvidence
  <2>1. CASE EndHandler("yielded")
    BY <2>1, EndingRecord DEF EndHandler, Ending
  <2>2. CASE Goto("cancelDown")
    BY <2>2 DEF Goto
  <2> QED
    BY <1>16, <2>1, <2>2 DEF RecordEvidence
<1>17. CASE CancelDown
  BY <1>17, EndingRecord DEF CancelDown, Goto, EndHandler, Ending
<1>18. CASE RereadAlert
  BY <1>18, EndingRecord DEF RereadAlert, Goto, EndHandler, Ending
<1>19. CASE CheckWindowUp
  BY <1>19, EndingRecord DEF CheckWindowUp, Goto, EndHandler, Ending
<1>20. CASE MuteRecovery
  BY <1>20, EndingRecord DEF MuteRecovery, Goto, EndHandler, Ending
<1>21. CASE ResetAlert
  BY <1>21, EndingRecord DEF ResetAlert, Goto, EndHandler, Ending
<1>22. CASE ClearSettled
  BY <1>22, EndingRecord DEF ClearSettled, Goto, EndHandler, Ending
<1>23. CASE ReadChannels
  BY <1>23, EndingRecord DEF ReadChannels, Goto, EndHandler, Ending
<1>24. CASE ApplyNow
  BY <1>24, EndingRecord DEF ApplyNow, Goto, EndHandler, Ending
<1>25. CASE Enqueue
  BY <1>25, EndingRecord DEF Enqueue, Goto, EndHandler, Ending
<1> QED
  BY <1>1, <1>2, <1>3, <1>4, <1>5, <1>6, <1>7, <1>8, <1>9, <1>10, <1>11, <1>12, <1>13, <1>14, <1>15, <1>16, <1>17, <1>18, <1>19, <1>20, <1>21, <1>22, <1>23, <1>24, <1>25 DEF HandlerStep

\* The drains record an alert with the clock value of its row.
LEMMA DrainKeepsCount ==
  ASSUME ShapeInv, CountInv, NEW d \in Drainers, DrainOutbox(d) \/ FailDrain(d)
  PROVE  CountInv'
<1>1. proc' = proc
  BY DEF DrainOutbox, FailDrain
<1>2. CASE Settle(d) \/ SettleLast(d) \/ ApplySent(d) \/ LateDownEvidence(d)
  <2>1. drain[d].row.created \in Stamp
    BY <1>2 DEF Settle, SettleLast, ApplySent, LateDownEvidence, ShapeInv, DrainInv, DrainRec
  <2>2. \E kind, whileUp : Apply(kind, drain[d].row.created, whileUp)
    BY <1>2 DEF Settle, SettleLast, ApplySent, LateDownEvidence
  <2> QED
    BY <1>1, <2>1, <2>2, ApplyKeepsCount DEF CountInv, Evidence
<1>3. CASE ~(Settle(d) \/ SettleLast(d) \/ ApplySent(d) \/ LateDownEvidence(d))
  <2>1. DrainFault(d) => alert' = alert
    BY DEF DrainFault, ProviderTimesOut, StatementFails, CrashDrain
  <2>2. DrainStep(d) => alert' = alert
    BY <1>3 DEF DrainStep, store, StartDrain, Claim, NothingToClaim, ReadSubject,
       NoteApplied, ListChannels, ProviderAccepts, ProviderRejects, RecordProgress, Drop,
       Release, StageRecovery, LateRecoveryLookup, StageAlert
  <2> QED
    BY <1>1, <2>1, <2>2 DEF DrainOutbox, FailDrain, CountInv, AlertCount, Evidence
<1> QED
  BY <1>2, <1>3

LEMMA OtherStepsKeepCount ==
  ASSUME CountInv, NewObservation \/ AdminStep \/ Tick \/ UNCHANGED vars
  PROVE  CountInv'
<1>1. CASE UNCHANGED <<alert, proc>>
  BY <1>1 DEF CountInv, AlertCount, Evidence
<1>2. CASE NewObservation
  <2>1. PICK s \in {"up", "down"} : Observe(s)
    BY <1>2 DEF NewObservation
  <2> DEFINE phase == IF s = "up" THEN "recordUp" ELSE "window"
             first == Ending(phase)
  <2>2. DOMAIN first = ProcFields /\ first.late = NoEvidence /\ first.pc # "evidence"
    BY EndingRecord DEF Ending
  <2>3. proc' = [first EXCEPT !.at = now, !.seen = lastStatus] /\ alert' = alert
    BY <2>1 DEF Observe, store
  <2> HIDE DEF first, phase
  <2> QED
    BY <2>2, <2>3 DEF CountInv, AlertCount, Evidence, ProcFields
<1>3. CASE ResetStats
  <2>1. alert' = NoAlert /\ EndHandler("lost")
    BY <1>3 DEF ResetStats
  <2>2. Evidence'
    BY <2>1, EndingRecord DEF Evidence, EndHandler, Ending
  <2> QED
    BY <2>1, <2>2, ResetsKeepCount DEF CountInv
<1>4. CASE AdminStep /\ ~ResetStats
  BY <1>1, <1>4 DEF AdminStep, SetWindow, ToggleChannel, RetryDelivery
<1>5. CASE Tick \/ UNCHANGED vars
  BY <1>1, <1>5 DEF Tick, vars, store
<1> QED
  BY <1>2, <1>3, <1>4, <1>5

LEMMA StepKeepsCount == ClaimInv /\ CountInv /\ [Next]_vars => CountInv'
BY HandlerKeepsAlertCount, HandlerKeepsEvidence, DrainKeepsCount, OtherStepsKeepCount
   DEF ClaimInv, CountInv, Next, Handle

LEMMA InitEstablishesCount == Init => CountInv
BY EndingRecord DEF Init, StoreInit, CountInv, AlertCount, AlertFields, Evidence, NoAlert,
   Ending

\* The counter that surge protection compares with its limit never passes one,
\* and with a limit of two or more no pause is ever set: the pause after N
\* alerts that the setting promises exists for N = 1 only (applyDeliveryState,
\* alert-manager.ts 916-1019, and the resets 333-339 and 1098-1136).
SurgeCountsOneAlert == alert.alerts <= 1 /\ (SurgeLimit > 1 => alert.pausedUntil = 0)
THEOREM SurgePausesAfterOneAlertOnly == Spec => []SurgeCountsOneAlert
<1>1. CountInv => SurgeCountsOneAlert
  BY DEF CountInv, AlertCount, SurgeCountsOneAlert
<1> QED
  BY <1>1, InitEstablishesCount, StepKeepsCount, ClaimInvariant, PTL DEF Spec

-----------------------------------------------------------------------------
(* Part 4: drains within the time of their claims take turns.              *)

Turn(d) ==
  /\ drain[d].pc # "idle" => now <= drain[d].at + DrainSeconds
  /\ InTime(d) => /\ Holds(d)
                  /\ outbox[drain[d].key].until = Later(drain[d].at + ClaimSeconds)
TurnsInv == now <= MaxTime /\ \A d \in Drainers : Turn(d)

LEMMA WorkIsLive ==
  ASSUME ClaimInv, TurnsInv, NEW d \in Drainers, InTime(d)
  PROVE  drain[d].key \in DOMAIN outbox /\ outbox[drain[d].key].token = d
         /\ Live(drain[d].key)
<1>1. /\ drain[d].key \in DOMAIN outbox /\ outbox[drain[d].key].token = d
      /\ outbox[drain[d].key].until = Later(drain[d].at + ClaimSeconds)
      /\ now < drain[d].at + ClaimSeconds
  BY DEF TurnsInv, Turn, InTime, Holds
<1>2. drain[d].at \in Nat /\ now \in Nat /\ now <= MaxTime
  BY DEF ClaimInv, ShapeInv, ClockInv, DrainInv, DrainRec, TurnsInv
<1>3. Later(drain[d].at + ClaimSeconds) > now
  BY <1>1, <1>2, StoreAssumption, DrainAssumption DEF Later, MinOf
<1> QED
  BY <1>1, <1>3 DEF Live

LEMMA TurnsAreTaken == ClaimInv /\ TurnsInv => OneDrainAtWork
BY WorkIsLive DEF ClaimInv, OneLiveClaim, OneDrainAtWork

\* A drain that does not move keeps its turn: its row is fenced.
LEMMA OthersKeepTheirRow ==
  ASSUME ClaimInv, TurnsInv, OutboxStep, NEW d \in Drainers, InTime(d), drain'[d] = drain[d]
  PROVE  drain[d].key \in DOMAIN outbox' /\ outbox'[drain[d].key] = outbox[drain[d].key]
<1>1. RowsFenced
  BY OutboxStepIsFenced DEF ClaimInv
<1> QED
  BY <1>1, WorkIsLive DEF RowsFenced

LEMMA OthersKeepTheirTurn ==
  ASSUME ClaimInv, TurnsInv, OutboxStep, now' = now,
         NEW d \in Drainers, drain'[d] = drain[d]
  PROVE  Turn(d)'
<1>1. InTime(d) => /\ drain[d].key \in DOMAIN outbox'
                   /\ outbox'[drain[d].key] = outbox[drain[d].key]
  BY OthersKeepTheirRow
<1> QED
  BY <1>1 DEF TurnsInv, Turn, AtWork, InTime, Holds

\* A drain at work keeps its turn when it keeps its clock and, while in time,
\* its row.
RowIsKept(d) ==
  /\ drain[d].key \in DOMAIN outbox'
  /\ outbox'[drain[d].key].token = outbox[drain[d].key].token
  /\ outbox'[drain[d].key].until = outbox[drain[d].key].until
LEMMA TurnIsKept ==
  ASSUME TurnsInv, NEW d \in Drainers, AtWork(d), now' = now,
         drain'[d].key = drain[d].key, drain'[d].at = drain[d].at,
         InTime(d) => RowIsKept(d)
  PROVE  Turn(d)'
BY DEF TurnsInv, Turn, AtWork, InTime, Holds, RowIsKept

LEMMA RestingKeepsTurn ==
  ASSUME ClaimInv, TurnsInv, NEW d \in Drainers, now' = now, NEW left,
         \/ drain'[d] = Resting("idle", 0, 0)
         \/ drain[d].pc # "idle" /\ drain'[d] = Resting("claiming", drain[d].at, left)
         \/ drain'[d] = Resting("claiming", now, left)
  PROVE  Turn(d)'
BY RestingRecord, DrainAssumption
   DEF TurnsInv, Turn, AtWork, InTime, ClaimInv, ShapeInv, ClockInv

\* Its own steps: it keeps its row, its key and its clock, or ends its turn.
SameTurn(d) == drain'[d].key = drain[d].key /\ drain'[d].at = drain[d].at
SameCopy(d) == SameTurn(d) /\ drain'[d].applied = drain[d].applied

LEMMA UpdateKeepsTurn ==
  ASSUME ShapeInv, NEW d \in Drainers
  PROVE  /\ \A pc : DrainTo(d, pc) => SameCopy(d) /\ drain'[d].pc = pc
         /\ \A t : PutBack(d, t) => SameCopy(d) /\ drain'[d].pc = "releasing"
         /\ Defer(d) => SameCopy(d) /\ drain'[d].pc = "releasing"
         /\ \A pc, status, sentAt :
              SetDrain(d, [drain[d] EXCEPT !.pc = pc, !.status = status, !.sentAt = sentAt])
                => SameCopy(d) /\ drain'[d].pc = pc /\ drain'[d].status = status
                   /\ drain'[d].sentAt = sentAt
         /\ \A pc, list, attempts :
              SetDrain(d, [drain[d] EXCEPT !.list = list, !.attempts = attempts, !.pc = pc])
                => SameCopy(d) /\ drain'[d].pc = pc
         /\ \A pc, sent, list :
              SetDrain(d, [drain[d] EXCEPT !.pc = pc, !.sent = sent, !.list = list])
                => SameCopy(d) /\ drain'[d].pc = pc
         /\ \A pc, applied :
              SetDrain(d, [drain[d] EXCEPT !.applied = applied, !.pc = pc])
                => SameTurn(d) /\ drain'[d].applied = applied /\ drain'[d].pc = pc
         /\ \A pc, attempts, retryAt :
              SetDrain(d, [drain[d] EXCEPT !.attempts = attempts, !.retryAt = retryAt, !.pc = pc])
                => SameCopy(d) /\ drain'[d].pc = pc
<1> USE DEF SetDrain, SameTurn, SameCopy, DrainFields
<1>1. DOMAIN drain = Drainers /\ DOMAIN drain[d] = DrainFields
  BY DEF ShapeInv, DrainInv, DrainRec
<1>2. \A pc : DrainTo(d, pc) => SameCopy(d) /\ drain'[d].pc = pc
  BY <1>1 DEF DrainTo
<1>3. \A t : PutBack(d, t) => SameCopy(d) /\ drain'[d].pc = "releasing"
  <2>1. \A retryAt : SetDrain(d, [drain[d] EXCEPT !.pc = "releasing", !.retryAt = retryAt])
          => SameCopy(d) /\ drain'[d].pc = "releasing"
    BY <1>1
  <2> QED
    BY <2>1 DEF PutBack
<1>4. Defer(d) => SameCopy(d) /\ drain'[d].pc = "releasing"
  <2>1. Defer(d) => \E list, attempts, retryAt :
          SetDrain(d, [drain[d] EXCEPT !.pc = "releasing", !.sent = 0, !.list = list,
                                       !.attempts = attempts, !.retryAt = retryAt])
    BY DEF Defer
  <2>2. \A list, attempts, retryAt :
          SetDrain(d, [drain[d] EXCEPT !.pc = "releasing", !.sent = 0, !.list = list,
                                       !.attempts = attempts, !.retryAt = retryAt])
            => SameCopy(d) /\ drain'[d].pc = "releasing"
    BY <1>1
  <2> QED
    BY <2>1, <2>2
<1>5. \A pc, status, sentAt :
        SetDrain(d, [drain[d] EXCEPT !.pc = pc, !.status = status, !.sentAt = sentAt])
          => SameCopy(d) /\ drain'[d].pc = pc /\ drain'[d].status = status
             /\ drain'[d].sentAt = sentAt
  BY <1>1
<1>6. \A pc, list, attempts :
        SetDrain(d, [drain[d] EXCEPT !.list = list, !.attempts = attempts, !.pc = pc])
          => SameCopy(d) /\ drain'[d].pc = pc
  BY <1>1
<1>7. \A pc, sent, list :
        SetDrain(d, [drain[d] EXCEPT !.pc = pc, !.sent = sent, !.list = list])
          => SameCopy(d) /\ drain'[d].pc = pc
  BY <1>1
<1>8. \A pc, applied :
        SetDrain(d, [drain[d] EXCEPT !.applied = applied, !.pc = pc])
                => SameTurn(d) /\ drain'[d].applied = applied /\ drain'[d].pc = pc
  BY <1>1
<1>9. \A pc, attempts, retryAt :
        SetDrain(d, [drain[d] EXCEPT !.attempts = attempts, !.retryAt = retryAt, !.pc = pc])
          => SameCopy(d) /\ drain'[d].pc = pc
  BY <1>1
<1> HIDE DEF SetDrain, SameTurn, SameCopy
<1> QED
  BY <1>2, <1>3, <1>4, <1>5, <1>6, <1>7, <1>8, <1>9

LEMMA QuietStepsKeepTurn ==
  ASSUME ClaimInv, TurnsInv, NEW d \in Drainers,
         \/ \E n \in 1..MaxAttempts : StartDrain(d, n)
         \/ NothingToClaim(d) \/ ReadSubject(d) \/ Settle(d) \/ SettleLast(d)
         \/ ListChannels(d) \/ ProviderAccepts(d) \/ ProviderRejects(d)
         \/ ApplySent(d) \/ LateDownEvidence(d) \/ LateRecoveryLookup(d)
         \/ DrainFault(d)
  PROVE  Turn(d)'
<1> USE DEF AtWork
<1>0. DOMAIN drain = Drainers /\ ShapeInv
  BY DEF ClaimInv, ShapeInv, DrainInv
<1>1. CASE \E n \in 1..MaxAttempts : StartDrain(d, n)
  BY <1>0, <1>1, RestingKeepsTurn DEF StartDrain, SetDrain
<1>2. CASE NothingToClaim(d) \/ CrashDrain(d)
  BY <1>0, <1>2, RestingKeepsTurn DEF NothingToClaim, CrashDrain, SetDrain, store
<1>3. CASE SameTurn(d) /\ AtWork(d) /\ outbox' = outbox /\ now' = now
  <2>1. InTime(d) => RowIsKept(d)
    BY <1>3 DEF TurnsInv, Turn, Holds, RowIsKept
  <2> QED
    BY <1>3, <2>1, TurnIsKept DEF SameTurn
<1>4. CASE ReadSubject(d) \/ Settle(d) \/ SettleLast(d)
  <2>1. CASE ReadSubject(d)
    BY <1>0, <1>3, <2>1, UpdateKeepsTurn DEF SameCopy, ReadSubject, store
  <2>2. CASE Settle(d) \/ SettleLast(d)
    <3>1. /\ AtWork(d) /\ outbox' = outbox /\ now' = now
          /\ \/ \E pc : DrainTo(d, pc)
             \/ PutBack(d, drain[d].at + InitialRetry)
      BY <2>2 DEF Settle, SettleLast, DrainTo
    <3>2. SameTurn(d)
      BY <1>0, <3>1, UpdateKeepsTurn DEF SameCopy
    <3> QED
      BY <1>3, <3>1, <3>2
  <2> QED
    BY <1>4, <2>1, <2>2
<1>5. CASE ListChannels(d) \/ ProviderAccepts(d) \/ ProviderRejects(d)
  <2>1. CASE ListChannels(d)
    <3>1. \E list, attempts, pc :
            SetDrain(d, [drain[d] EXCEPT !.list = list, !.attempts = attempts, !.pc = pc])
      BY <2>1 DEF ListChannels
    <3>2. SameTurn(d)
      BY <1>0, <3>1, UpdateKeepsTurn DEF SameCopy
    <3> QED
      BY <1>3, <2>1, <3>2 DEF ListChannels, store
  <2>2. CASE ProviderAccepts(d)
    <3>1. \E pc, sent, list :
            SetDrain(d, [drain[d] EXCEPT !.pc = pc, !.sent = sent, !.list = list])
      BY <2>2 DEF ProviderAccepts
    <3>2. SameTurn(d)
      BY <1>0, <3>1, UpdateKeepsTurn DEF SameCopy
    <3> QED
      BY <1>3, <2>2, <3>2 DEF ProviderAccepts
  <2>3. CASE ProviderRejects(d)
    BY <1>0, <1>3, <2>3, UpdateKeepsTurn DEF SameCopy, ProviderRejects, store
  <2> QED
    BY <1>5, <2>1, <2>2, <2>3
<1>6. CASE ApplySent(d) \/ LateDownEvidence(d) \/ LateRecoveryLookup(d)
  BY <1>0, <1>3, <1>6, UpdateKeepsTurn DEF SameCopy, ApplySent,
     LateDownEvidence, LateRecoveryLookup, store
<1>7. CASE ProviderTimesOut(d) \/ StatementFails(d)
  BY <1>0, <1>3, <1>7, UpdateKeepsTurn DEF SameCopy, ProviderTimesOut, StatementFails
<1> QED
  BY <1>1, <1>2, <1>4, <1>5, <1>6, <1>7 DEF DrainFault

LEMMA ClaimTakesTurn ==
  ASSUME ClaimInv, TurnsInv, NEW d \in Drainers, NEW k \in DOMAIN outbox, Claim(d, k)
  PROVE  Turn(d)'
<1> DEFINE at == drain[d].at
           claimed == [outbox[k] EXCEPT !.token = d, !.until = Later(at + ClaimSeconds)]
           x == [Resting("reading", at, drain[d].left - 1) EXCEPT
                   !.key = k, !.row = outbox[k], !.applied = outbox[k].applied,
                   !.list = outbox[k].remaining, !.attempts = outbox[k].attempts]
<1>1. /\ now' = now /\ outbox' = [outbox EXCEPT ![k] = claimed] /\ SetDrain(d, x)
      /\ drain[d].pc = "claiming"
  BY DEF Claim
<1>2. claimed.token = d /\ claimed.until = Later(at + ClaimSeconds)
  BY DEF ClaimInv, ShapeInv, OutboxInv, IsRow, RowFields
<1>3. x.key = k /\ x.at = at /\ x.pc = "reading"
  BY RestingRecord DEF DrainFields
<1> HIDE DEF claimed, x
<1>4. drain'[d] = x /\ k \in DOMAIN outbox' /\ outbox'[k] = claimed
  BY <1>1 DEF SetDrain, ClaimInv, ShapeInv, DrainInv
<1> QED
  BY <1>1, <1>2, <1>3, <1>4 DEF TurnsInv, Turn, AtWork, InTime, Holds

LEMMA WritesKeepTurn ==
  ASSUME ClaimInv, TurnsInv, NEW d \in Drainers, NoteApplied(d) \/ RecordProgress(d)
  PROVE  Turn(d)'
<1>1. ShapeInv /\ AtWork(d) /\ now' = now
  BY DEF ClaimInv, AtWork, NoteApplied, RecordProgress
<1>2. SameTurn(d)
  BY <1>1, UpdateKeepsTurn DEF SameCopy, NoteApplied, RecordProgress
<1>3. ASSUME Holds(d)
      PROVE  \E row : /\ outbox' = [outbox EXCEPT ![drain[d].key] = row]
                      /\ row.token = Stored(d).token /\ row.until = Stored(d).until
  <2> DEFINE noted == [Stored(d) EXCEPT !.applied = 1]
             sent  == [Stored(d) EXCEPT !.remaining = drain[d].list, !.attempts = 0,
                         !.delivered = Stored(d).delivered + 1, !.nextAt = drain[d].at]
  <2>1. DOMAIN Stored(d) = RowFields
    BY <1>1, <1>3, StoredRow DEF IsRow
  <2>2. /\ noted.token = Stored(d).token /\ noted.until = Stored(d).until
        /\ sent.token = Stored(d).token /\ sent.until = Stored(d).until
    BY <2>1 DEF RowFields
  <2>3. WriteClaimed(d, noted) \/ WriteClaimed(d, sent)
    BY DEF NoteApplied, RecordProgress
  <2> HIDE DEF noted, sent
  <2> QED
    BY <1>3, <2>2, <2>3 DEF WriteClaimed
<1>4. InTime(d) => Holds(d)
  BY DEF TurnsInv, Turn
<1>5. InTime(d) => RowIsKept(d)
  BY <1>3, <1>4 DEF RowIsKept, Stored, Holds
<1> QED
  BY <1>1, <1>2, <1>5, TurnIsKept DEF SameTurn

LEMMA StagingKeepsTurn ==
  ASSUME ClaimInv, TurnsInv, NEW d \in Drainers, StageRecovery(d) \/ StageAlert(d)
  PROVE  Turn(d)'
<1>1. ShapeInv /\ AtWork(d) /\ now' = now
  BY DEF ClaimInv, AtWork, StageRecovery, StageAlert
<1>2. /\ SameTurn(d)
      /\ outbox' = outbox \/ \E k, row : InsertRow(k, row)
  BY <1>1, UpdateKeepsTurn DEF SameCopy, StageRecovery, StageAlert, Stage
<1>3. InTime(d) => drain[d].key \in DOMAIN outbox
  BY DEF TurnsInv, Turn, Holds
<1>4. InTime(d) => RowIsKept(d)
  BY <1>2, <1>3 DEF InsertRow, RowIsKept
<1> QED
  BY <1>1, <1>2, <1>4, TurnIsKept DEF SameTurn

LEMMA EndKeepsTurn ==
  ASSUME ClaimInv, TurnsInv, NEW d \in Drainers, Drop(d) \/ Release(d)
  PROVE  Turn(d)'
<1>1. DOMAIN drain = Drainers /\ now' = now /\ drain[d].pc # "idle" /\ NextScan(d)
  BY DEF ClaimInv, ShapeInv, DrainInv, Drop, Release
<1> QED
  BY <1>1, RestingKeepsTurn DEF NextScan, SetDrain

LEMMA DrainKeepsItsTurn ==
  ASSUME ClaimInv, TurnsInv, NEW d \in Drainers, DrainOutbox(d) \/ FailDrain(d)
  PROVE  Turn(d)'
BY QuietStepsKeepTurn, ClaimTakesTurn, WritesKeepTurn, StagingKeepsTurn, EndKeepsTurn
   DEF DrainOutbox, FailDrain, DrainStep

\* Which drains a step moves.
LEMMA DrainMovesAlone ==
  ASSUME ShapeInv, NEW d \in Drainers, DrainOutbox(d) \/ FailDrain(d)
  PROVE  \A e \in Drainers \ {d} : drain'[e] = drain[e]
<1>1. \E x : SetDrain(d, x)
  BY DEF DrainOutbox, FailDrain, DrainStep, DrainFault, StartDrain, Claim,
     NothingToClaim, ReadSubject, Settle, NoteApplied, SettleLast, ListChannels,
     ProviderAccepts, ProviderRejects, RecordProgress, ApplySent, Drop, Release,
     LateDownEvidence, StageRecovery, LateRecoveryLookup, StageAlert, ProviderTimesOut,
     StatementFails, CrashDrain, DrainTo, PutBack, NextScan, Defer, Stage
<1> QED
  BY <1>1 DEF SetDrain, ShapeInv, DrainInv

LEMMA OthersStandStill ==
  ASSUME Next, ~\E d \in Drainers : DrainOutbox(d) \/ FailDrain(d)
  PROVE  drain' = drain
BY DEF Next, Tick, NewObservation, Handle, AdminStep, SetWindow, ToggleChannel,
   ResetStats, RetryDelivery, Admin

LEMMA StepKeepsTurns ==
  ASSUME ClaimInv, TurnsInv, [Next]_vars
  PROVE  TurnsInv'
<1>1. CASE Tick
  <2>1. /\ now' = now + 1 /\ now < MaxTime /\ UNCHANGED <<drain, outbox>>
        /\ \A d \in Drainers : drain[d].pc # "idle" => now + 1 <= drain[d].at + DrainSeconds
    BY <1>1 DEF Tick, store, WithinDrains
  <2>2. now \in Nat /\ MaxTime \in Nat
    BY StoreAssumption DEF ClaimInv, ShapeInv, ClockInv
  <2>3. \A d \in Drainers : drain[d].at \in Nat
    BY DEF ClaimInv, ShapeInv, DrainInv, DrainRec
  <2>4. now + 1 <= MaxTime
    BY <2>1, <2>2
  <2>5. ASSUME NEW d \in Drainers PROVE Turn(d)'
    <3>1. drain[d].pc # "idle" => now + 1 <= drain[d].at + DrainSeconds
      BY <2>1
    <3>2. InTime(d)' => InTime(d)
      BY <2>1, <2>2, <2>3, StoreAssumption, DrainAssumption DEF AtWork, InTime
    <3> QED
      BY <2>1, <3>1, <3>2 DEF TurnsInv, Turn, Holds
  <2> QED
    BY <2>1, <2>4, <2>5 DEF TurnsInv
<1>2. CASE Next /\ ~Tick
  <2>1. OutboxStep /\ now' = now
    BY <1>2, StepIsOutboxStep DEF ClaimInv
  <2>2. CASE drain' = drain
    BY <2>1, <2>2, OthersKeepTheirTurn DEF TurnsInv
  <2>3. ASSUME NEW d \in Drainers, DrainOutbox(d) \/ FailDrain(d)
        PROVE  TurnsInv'
    <3>1. \A e \in Drainers \ {d} : drain'[e] = drain[e]
      BY <2>3, DrainMovesAlone DEF ClaimInv
    <3> QED
      BY <2>1, <2>3, <3>1, OthersKeepTheirTurn, DrainKeepsItsTurn DEF TurnsInv
  <2> QED
    BY <1>2, <2>2, <2>3, OthersStandStill
<1>3. CASE UNCHANGED vars
  BY <1>3 DEF vars, store, TurnsInv, Turn, AtWork, InTime, Holds
<1> QED
  BY <1>1, <1>2, <1>3

LEMMA InitEstablishesTurns == Init => TurnsInv
BY RestingRecord, StoreAssumption
   DEF Init, StoreInit, DrainInit, TurnsInv, Turn, AtWork, InTime

\* For any number of drains, whatever their clocks, delays and faults, one claim
\* on a monitor's deliveries lives at a time, and one drain within the time of its
\* claim works: two provider calls overlap only if a drain outlives the 30 s of its
\* claim (claimNextDelivery, alert-manager.ts 840-873).
THEOREM AlertingDeliveriesTakeTurns == Spec => []DeliveriesTakeTurns
<1>1. ClaimInv /\ TurnsInv => DeliveriesTakeTurns
  BY TurnsAreTaken DEF ClaimInv, DeliveriesTakeTurns
<1>2. ClaimInv /\ TurnsInv /\ [Next]_vars => TurnsInv'
  BY StepKeepsTurns
<1> QED
  BY <1>1, <1>2, InitEstablishesTurns, ClaimInvariant, PTL DEF Spec

-----------------------------------------------------------------------------
(* Part 5: a drain records a DOWN that was received before it drops its    *)
(* row.                                                                    *)
(*                                                                         *)
(* A drain decides on what it read of the row, the status and alert_state; *)
(* while its turn lasts nobody changes the row, and nobody but a handler   *)
(* or a reset, each leaving its trace in lapses, clears the alert.         *)

Announces(k) == k.kind \in {"alert", "corrective"}
Clean == "forgotten" \notin lapses

\* A pending monitor has nothing queued: only a reset makes a monitor pending
\* again.
QueueInv ==
  /\ proc.pc \in {"channels", "applyNow", "insert"} => lastStatus # "pending"
  /\ lastStatus = "pending" /\ Clean => DOMAIN outbox = {}

\* What a drain at work knows of the row and of the alert it works on.
Informed(d) ==
  LET k == drain[d].key
  IN /\ drain[d].applied = outbox[k].applied
     /\ drain[d].pc = "reading" =>
          /\ drain[d].row.delivered = outbox[k].delivered
          /\ drain[d].row.applied = outbox[k].applied
     /\ drain[d].pc \in {"lateRecovery", "stageAlert"} => k.kind = "recovery"
     /\ drain[d].pc = "settling" /\ Announces(k) /\ Clean =>
          /\ drain[d].status = "down"
          /\ drain[d].sentAt # 0 => alert.sentAt # 0
     /\ drain[d].pc \in {"noting", "stageRecovery", "dropping"}
          /\ Unrecorded(k) /\ Clean => alert.sentAt # 0
Notice(d) == AtWork(d) => Informed(d)
NoticeInv == QueueInv /\ \A d \in Drainers : Notice(d)

\* The phases of which Informed says nothing but the copy of applied.
Decisive == {"reading", "lateRecovery", "stageAlert", "settling", "noting",
             "stageRecovery", "dropping"}

\* A drain that ends before its claims is in time whenever it works.
PunctualInv == TurnsInv /\ \A d \in Drainers : AtWork(d) => InTime(d)

LEMMA DrainsArePunctual ==
  ASSUME ClaimInv, TurnsInv, DrainSeconds < ClaimSeconds
  PROVE  PunctualInv
<1>1. ASSUME NEW d \in Drainers, AtWork(d) PROVE now < drain[d].at + ClaimSeconds
  <2>1. now <= drain[d].at + DrainSeconds
    BY <1>1 DEF TurnsInv, Turn, AtWork
  <2>2. now \in Nat /\ drain[d].at \in Nat
    BY DEF ClaimInv, ShapeInv, ClockInv, DrainInv, DrainRec
  <2> QED
    BY <2>1, <2>2, StoreAssumption, DrainAssumption
<1> QED
  BY <1>1 DEF PunctualInv, InTime

LEMMA WorkHolds ==
  ASSUME PunctualInv, NEW d \in Drainers, AtWork(d)
  PROVE  Holds(d) /\ drain[d].key \in DOMAIN outbox
BY DEF PunctualInv, TurnsInv, Turn, Holds

-----------------------------------------------------------------------------
\* alert_state is cleared by handlers and resets, and by drains of a recovery.
AlertKept ==
  /\ "forgotten" \in lapses => "forgotten" \in lapses'
  /\ alert.sentAt # 0 /\ "forgotten" \notin lapses' => alert'.sentAt # 0

LEMMA ApplyKeepsAlert ==
  ASSUME NEW kind, kind # "recovery", NEW created \in Stamp, NEW whileUp,
         DOMAIN alert = AlertFields, Apply(kind, created, whileUp)
  PROVE  /\ alert.sentAt # 0 => alert'.sentAt # 0
         /\ kind \in {"alert", "corrective"} /\ Applies(kind, created, whileUp)
              => alert'.sentAt # 0
<1>1. CASE alert' = alert /\ ~Applies(kind, created, whileUp)
  BY <1>1
<1>2. CASE Applies(kind, created, whileUp) /\ alert' = AfterApplying(kind, created)
  <2>1. CASE kind = "reminder"
    <3>1. \E t : alert' = [alert EXCEPT !.remindedAt = t]
      BY <1>2, <2>1 DEF AfterApplying
    <3> QED
      BY <2>1, <3>1 DEF AlertFields
  <2>2. CASE kind # "reminder" /\ alert.sentAt # 0
    BY <1>2, <2>2 DEF AfterApplying
  <2>3. CASE kind # "reminder" /\ alert.sentAt = 0
    <3>1. \E n, pause :
            alert' = [failures |-> alert.failures, sentAt |-> created, alerts |-> n,
                      remindedAt |-> created, pausedUntil |-> pause]
      BY <1>2, <2>3 DEF AfterApplying
    <3> QED
      BY <2>3, <3>1 DEF Stamp
  <2> QED
    BY <2>1, <2>2, <2>3
<1> QED
  BY <1>1, <1>2 DEF Apply

LEMMA HandlerKeepsAlert ==
  ASSUME CountInv, HandlerStep
  PROVE  AlertKept
<1> USE DEF AlertKept
<1>1. CASE RecordFailed \/ RecordHealthy
  <2>1. lapses' = lapses /\ \E n : alert' = [alert EXCEPT !.failures = n]
    BY <1>1 DEF RecordFailed, RecordHealthy
  <2> QED
    BY <2>1 DEF CountInv, AlertCount, AlertFields
<1>2. CASE ForgetAlerts \/ ResetAlert \/ ApplyNow
  BY <1>2 DEF ForgetAlerts, ResetAlert, ApplyNow, ForgetsAlert
<1>3. CASE ClearSettled
  BY <1>3 DEF ClearSettled
<1>4. CASE RecordEvidence
  <2>1. lapses' = lapses
    BY <1>4 DEF RecordEvidence
  <2>2. \/ alert' = alert
        \/ Apply("alert", proc.late.created, TRUE) /\ proc.late.created \in Stamp
    BY <1>4 DEF RecordEvidence, CountInv, Evidence
  <2> QED
    BY <2>1, <2>2, ApplyKeepsAlert DEF CountInv, AlertCount
<1>5. CASE ~(RecordFailed \/ RecordHealthy \/ ForgetAlerts \/ ResetAlert \/ ApplyNow
             \/ ClearSettled \/ RecordEvidence)
  <2>1. alert' = alert /\ lapses' = lapses
    BY <1>5 DEF HandlerStep, CheckWindow, ReadIncident, Reopen, CancelRecovery, MarkDown,
       OpenIncident, Probe, SettlePending, CloseOnly, FlipUp, CloseIncidents, FindLateDown,
       CancelDown, RereadAlert, CheckWindowUp, MuteRecovery, ReadChannels, Enqueue, store
  <2> QED
    BY <2>1
<1> QED
  BY <1>1, <1>2, <1>3, <1>4, <1>5

LEMMA OtherStepsKeepAlert ==
  ASSUME NewObservation \/ AdminStep \/ Tick \/ UNCHANGED vars
  PROVE  AlertKept
<1>1. CASE ResetStats
  BY <1>1 DEF ResetStats, AlertKept
<1>2. CASE ~ResetStats
  <2>1. alert' = alert /\ lapses' = lapses
    BY <1>2 DEF NewObservation, Observe, AdminStep, SetWindow, ToggleChannel, RetryDelivery,
       Tick, vars, store
  <2> QED
    BY <2>1 DEF AlertKept
<1> QED
  BY <1>1, <1>2

-----------------------------------------------------------------------------
\* What is queued, and when.
LEMMA HandlerKeepsQueue ==
  ASSUME StatusInv, QueueInv, HandlerStep
  PROVE  QueueInv'
<1> DEFINE Queueing == {"channels", "applyNow", "insert"}
<1>1. "forgotten" \in lapses => "forgotten" \in lapses'
  BY DEF HandlerStep, CheckWindow, RecordFailed, ReadIncident, Reopen, ForgetAlerts,
     CancelRecovery, MarkDown, OpenIncident, RecordHealthy, Probe, SettlePending, CloseOnly,
     FlipUp, CloseIncidents, FindLateDown, RecordEvidence, CancelDown, RereadAlert,
     CheckWindowUp, MuteRecovery, ResetAlert, ClearSettled, ReadChannels, ApplyNow, Enqueue,
     ForgetsAlert, store
<1>2. lastStatus' = "pending" => lastStatus = "pending"
  BY DEF HandlerStep, CheckWindow, RecordFailed, ReadIncident, Reopen, ForgetAlerts,
     CancelRecovery, MarkDown, OpenIncident, RecordHealthy, Probe, SettlePending, CloseOnly,
     FlipUp, CloseIncidents, FindLateDown, RecordEvidence, CancelDown, RereadAlert,
     CheckWindowUp, MuteRecovery, ResetAlert, ClearSettled, ReadChannels, ApplyNow, Enqueue,
     store
<1>3. Enqueue \/ DOMAIN outbox' \subseteq DOMAIN outbox
  BY DEF HandlerStep, CheckWindow, RecordFailed, ReadIncident, Reopen, ForgetAlerts,
     CancelRecovery, MarkDown, OpenIncident, RecordHealthy, Probe, SettlePending, CloseOnly,
     FlipUp, CloseIncidents, FindLateDown, RecordEvidence, CancelDown, RereadAlert,
     CheckWindowUp, MuteRecovery, ResetAlert, ClearSettled, ReadChannels, ApplyNow, Enqueue,
     CancelUnclaimed, DeleteRows, store
<1>4. lastStatus' = "pending" /\ Clean' => DOMAIN outbox' = {}
  BY <1>1, <1>2, <1>3 DEF QueueInv, Clean, Enqueue
<1>5. proc'.pc \in Queueing => lastStatus' # "pending"
  <2>1. CASE OpenIncident \/ CheckWindowUp
    BY <1>2, <2>1 DEF OpenIncident, CheckWindowUp, StatusInv, OutagePhases, RecoveryPhases
  <2>2. CASE ReadChannels
    BY <1>2, <2>2 DEF ReadChannels, QueueInv
  <2>3. CASE ~(OpenIncident \/ CheckWindowUp \/ ReadChannels)
    <3>1. (\E o \in Outcomes : EndHandler(o)) \/ proc'.pc \notin Queueing
      BY <2>3 DEF HandlerStep, CheckWindow, RecordFailed, ReadIncident, Reopen, ForgetAlerts,
         CancelRecovery, MarkDown, RecordHealthy, Probe, SettlePending, CloseOnly,
         FlipUp, CloseIncidents, FindLateDown, RecordEvidence, CancelDown, RereadAlert,
         MuteRecovery, ResetAlert, ClearSettled, ApplyNow, Enqueue,
         Goto, Outcomes, StatusInv, ProcFields
    <3>2. \A o \in Outcomes : EndHandler(o) => proc'.pc = o
      BY EndingRecord DEF EndHandler
    <3> QED
      BY <3>1, <3>2 DEF Outcomes
  <2> QED
    BY <2>1, <2>2, <2>3
<1> QED
  BY <1>4, <1>5 DEF QueueInv

LEMMA OtherStepsKeepQueue ==
  ASSUME QueueInv, NewObservation \/ AdminStep \/ Tick \/ UNCHANGED vars
  PROVE  QueueInv'
<1> USE DEF QueueInv, Clean
<1>1. CASE NewObservation
  <2>1. PICK s \in {"up", "down"} : Observe(s)
    BY <1>1 DEF NewObservation
  <2> DEFINE phase == IF s = "up" THEN "recordUp" ELSE "window"
             first == Ending(phase)
  <2>2. DOMAIN first = ProcFields /\ first.pc = phase /\ phase \in {"recordUp", "window"}
    BY EndingRecord
  <2>3. proc' = [first EXCEPT !.at = now, !.seen = lastStatus]
        /\ UNCHANGED <<lastStatus, outbox, lapses>>
    BY <2>1 DEF Observe, store
  <2> HIDE DEF first, phase
  <2>4. proc'.pc = phase
    BY <2>2, <2>3 DEF ProcFields
  <2> QED
    BY <2>2, <2>3, <2>4
<1>2. CASE ResetStats
  BY <1>2, EndingRecord DEF ResetStats, EndHandler
<1>3. CASE AdminStep /\ ~ResetStats
  BY <1>3 DEF AdminStep, SetWindow, ToggleChannel, RetryDelivery
<1>4. CASE Tick \/ UNCHANGED vars
  BY <1>4 DEF Tick, vars, store
<1> QED
  BY <1>1, <1>2, <1>3, <1>4

-----------------------------------------------------------------------------
\* The drains.
LEMMA DrainLeavesLapses ==
  ASSUME NEW d \in Drainers, DrainOutbox(d) \/ FailDrain(d)
  PROVE  Clean' <=> Clean
<1>1. \E noted \in {{}, {"answer"}, {"overlooked"}, {"uncounted"}} : lapses' = lapses \union noted
  BY DEF OverlooksAlert, DrainOutbox, FailDrain, DrainStep, DrainFault, StartDrain, Claim,
     NothingToClaim, ReadSubject, Settle, NoteApplied, SettleLast, ListChannels,
     ProviderAccepts, ProviderRejects, RecordProgress, ApplySent, Drop, Release,
     LateDownEvidence, StageRecovery, LateRecoveryLookup, StageAlert, ProviderTimesOut,
     StatementFails, CrashDrain, store
<1> QED
  BY <1>1 DEF Clean

LEMMA DrainKeepsQueue ==
  ASSUME QueueInv, NEW d \in Drainers, DrainOutbox(d) \/ FailDrain(d)
  PROVE  QueueInv'
<1>1. UNCHANGED <<lastStatus, proc>> /\ (Clean' <=> Clean)
  BY DrainLeavesStatus, DrainLeavesLapses
<1>2. CASE StageRecovery(d) \/ StageAlert(d)
  <2>1. outbox' = outbox \/ lastStatus \in {"up", "down"}
    BY <1>2 DEF StageRecovery, StageAlert, Stage
  <2> QED
    BY <1>1, <2>1 DEF QueueInv
<1>3. CASE ~(StageRecovery(d) \/ StageAlert(d))
  <2>1. DrainFault(d) => outbox' = outbox
    BY DEF DrainFault, ProviderTimesOut, StatementFails, CrashDrain
  <2>2. DrainStep(d) => DOMAIN outbox' \subseteq DOMAIN outbox
    BY <1>3 DEF DrainStep, StartDrain, Claim, NothingToClaim, ReadSubject, Settle,
       NoteApplied, SettleLast, ListChannels, ProviderAccepts, ProviderRejects,
       RecordProgress, ApplySent, Drop, Release, LateDownEvidence, LateRecoveryLookup,
       WriteClaimed, DeleteRows, store
  <2> QED
    BY <1>1, <2>1, <2>2 DEF QueueInv, DrainOutbox, FailDrain
<1> QED
  BY <1>2, <1>3

\* A drain that stands still stays informed.
LEMMA OthersKeepNotice ==
  ASSUME ClaimInv, PunctualInv, OutboxStep, AlertKept,
         NEW d \in Drainers, drain'[d] = drain[d], Notice(d)
  PROVE  Notice(d)'
<1> SUFFICES ASSUME AtWork(d) PROVE Informed(d)'
  BY DEF Notice, AtWork
<1>1. /\ drain[d].key \in DOMAIN outbox'
      /\ outbox'[drain[d].key] = outbox[drain[d].key]
  BY OthersKeepTheirRow DEF PunctualInv
<1>2. Informed(d)
  BY DEF Notice
<1> QED
  BY <1>1, <1>2 DEF Informed, AlertKept, Clean, Unrecorded

\* The drain that moves: it rests, or is in a phase that says nothing more ...
LEMMA RestingNotice ==
  ASSUME NEW d \in Drainers, drain'[d].pc \in {"idle", "claiming"}
  PROVE  Notice(d)'
BY DEF Notice, AtWork

LEMMA NeutralNotice ==
  ASSUME NEW d \in Drainers, Notice(d), AtWork(d), SameCopy(d),
         outbox'[drain[d].key].applied = outbox[drain[d].key].applied,
         drain'[d].pc \notin Decisive
  PROVE  Notice(d)'
BY DEF Notice, Informed, SameCopy, SameTurn, Decisive

\* ... or has seen to the alert.
Recorded(d) ==
  Announces(drain[d].key) /\ outbox[drain[d].key].delivered > 0
    /\ outbox[drain[d].key].applied = 0 /\ Clean => alert'.sentAt # 0

LEMMA RecordedNotice ==
  ASSUME NEW d \in Drainers, Notice(d), AtWork(d), SameCopy(d),
         outbox'[drain[d].key].applied = outbox[drain[d].key].applied,
         outbox'[drain[d].key].delivered = outbox[drain[d].key].delivered,
         Clean' => Clean, Recorded(d),
         drain'[d].pc \in {"noting", "stageRecovery", "dropping"}
  PROVE  Notice(d)'
BY DEF Notice, Informed, SameCopy, SameTurn, Recorded, Unrecorded, Announces

LEMMA ClaimNotice ==
  ASSUME ShapeInv, NEW d \in Drainers, NEW k \in DOMAIN outbox, Claim(d, k)
  PROVE  Notice(d)'
<1> DEFINE at == drain[d].at
           claimed == [outbox[k] EXCEPT !.token = d, !.until = Later(at + ClaimSeconds)]
           x == [Resting("reading", at, drain[d].left - 1) EXCEPT
                   !.key = k, !.row = outbox[k], !.applied = outbox[k].applied,
                   !.list = outbox[k].remaining, !.attempts = outbox[k].attempts]
<1>1. outbox' = [outbox EXCEPT ![k] = claimed] /\ SetDrain(d, x)
  BY DEF Claim
<1>2. claimed.delivered = outbox[k].delivered /\ claimed.applied = outbox[k].applied
  BY DEF ShapeInv, OutboxInv, IsRow, RowFields
<1>3. x.key = k /\ x.pc = "reading" /\ x.row = outbox[k] /\ x.applied = outbox[k].applied
  BY RestingRecord DEF DrainFields
<1> HIDE DEF claimed, x
<1>4. drain'[d] = x /\ outbox'[k] = claimed
  BY <1>1 DEF SetDrain, ShapeInv, DrainInv
<1> QED
  BY <1>2, <1>3, <1>4 DEF Notice, Informed

\* What reading the subject settles.
LEMMA ReadNotice ==
  ASSUME ShapeInv, PunctualInv, StatusInv, QueueInv, NEW d \in Drainers, Notice(d),
         ReadSubject(d)
  PROVE  Notice(d)'
<1> DEFINE k == drain[d].key
<1>1. /\ drain[d].pc = "reading" /\ AtWork(d)
      /\ UNCHANGED <<outbox, alert, lapses, lastStatus>>
  BY DEF ReadSubject, AtWork, store
<1>2. /\ drain[d].row.delivered = outbox[k].delivered
      /\ drain[d].row.applied = outbox[k].applied
      /\ k \in DOMAIN outbox
  BY <1>1, WorkHolds DEF Notice, Informed
<1>3. CASE PutBack(d, window.to + 1)
  BY <1>1, <1>3, UpdateKeepsTurn, NeutralNotice DEF Decisive
<1>4. CASE SetDrain(d, [drain[d] EXCEPT !.pc = Route(d), !.status = lastStatus,
                                        !.sentAt = alert.sentAt])
  <2>1. /\ SameCopy(d) /\ drain'[d].pc = Route(d) /\ drain'[d].status = lastStatus
        /\ drain'[d].sentAt = alert.sentAt
    <3>1. \A pc, status, sentAt :
            SetDrain(d, [drain[d] EXCEPT !.pc = pc, !.status = status, !.sentAt = sentAt])
              => /\ SameCopy(d) /\ drain'[d].pc = pc /\ drain'[d].status = status
                 /\ drain'[d].sentAt = sentAt
      BY UpdateKeepsTurn
    <3> QED
      BY <1>4, <3>1
  <2>2. CASE Route(d) \in {"lateRecovery", "settling"}
    <3>1. Route(d) = "lateRecovery" => k.kind = "recovery"
      BY DEF Route, Onwards
    <3>2. Route(d) = "settling" /\ Announces(k) /\ Clean => lastStatus = "down"
      BY <1>2 DEF Route, Onwards, Late, Announces, StatusInv, QueueInv
    <3> QED
      BY <1>1, <2>1, <2>2, <3>1, <3>2 DEF Notice, Informed, SameCopy, SameTurn, Clean
  <2>3. CASE Route(d) = "dropping"
    <3>1. Recorded(d)
      BY <1>1, <1>2, <2>3 DEF Recorded, Route, Onwards, Relevant, Late, Announces,
         StatusInv, QueueInv
    <3> QED
      BY <1>1, <2>1, <2>3, <3>1, RecordedNotice DEF Clean
  <2>4. CASE Route(d) \in {"lateDown", "listing", "settlingLast"}
    BY <1>1, <2>1, <2>4, NeutralNotice DEF Decisive
  <2> QED
    BY <2>2, <2>3, <2>4 DEF Route, Onwards
<1> QED
  BY <1>3, <1>4 DEF ReadSubject

\* Statements that apply the row to alert_state.
LEMMA ApplyingNotice ==
  ASSUME ShapeInv, AlertCount, NEW d \in Drainers, Notice(d), AtWork(d), SameCopy(d),
         outbox' = outbox, Clean' <=> Clean, NEW kind, NEW whileUp,
         Announces(drain[d].key) => kind \in {"alert", "corrective"},
         Apply(kind, drain[d].row.created, whileUp),
         \/ drain'[d].pc \notin Decisive
         \/ /\ Applies(kind, drain[d].row.created, whileUp)
            /\ drain'[d].pc \in {"noting", "stageRecovery", "dropping"}
  PROVE  Notice(d)'
<1>1. CASE drain'[d].pc \notin Decisive
  BY <1>1, NeutralNotice
<1>2. CASE /\ Applies(kind, drain[d].row.created, whileUp)
           /\ drain'[d].pc \in {"noting", "stageRecovery", "dropping"}
  <2>1. drain[d].row.created \in Stamp
    BY DEF ShapeInv, DrainInv, DrainRec, AtWork
  <2>2. Recorded(d)
    BY <1>2, <2>1, ApplyKeepsAlert DEF Recorded, AlertCount
  <2> QED
    BY <1>2, <2>2, RecordedNotice DEF Clean
<1> QED
  BY <1>1, <1>2

LEMMA SettleNotice ==
  ASSUME ShapeInv, AlertCount, NEW d \in Drainers, Notice(d), Settle(d)
  PROVE  Notice(d)'
<1> DEFINE k       == drain[d].key
           success == Applies(k.kind, drain[d].row.created, FALSE)
           next    == Onwards(d, drain[d].status, drain[d].sentAt, 0)
<1>1. /\ drain[d].pc = "settling" /\ AtWork(d) /\ outbox' = outbox /\ (Clean' <=> Clean)
      /\ Apply(k.kind, drain[d].row.created, FALSE)
      /\ DrainTo(d, IF success THEN "noting" ELSE next)
  BY DEF Settle, AtWork, DrainTo, OverlooksAlert, Clean
<1>2. SameCopy(d) /\ drain'[d].pc = IF success THEN "noting" ELSE next
  BY <1>1, UpdateKeepsTurn
<1>3. CASE success
  BY <1>1, <1>2, <1>3, ApplyingNotice DEF Announces
<1>4. CASE ~success /\ next # "dropping"
  BY <1>1, <1>2, <1>4, NeutralNotice DEF Onwards, Decisive
<1>5. CASE ~success /\ next = "dropping"
  <2>1. alert' = alert
    BY <1>1, <1>5 DEF Apply
  <2>2. Announces(k) /\ Clean =>
          drain[d].status = "down" /\ (drain[d].sentAt # 0 => alert.sentAt # 0)
    BY <1>1 DEF Notice, Informed
  <2>3. Recorded(d)
    BY <1>5, <2>1, <2>2 DEF Recorded, Onwards, Relevant, Announces
  <2> QED
    BY <1>1, <1>2, <1>5, <2>3, RecordedNotice DEF Clean
<1> QED
  BY <1>3, <1>4, <1>5

LEMMA NoteAppliedNotice ==
  ASSUME ShapeInv, PunctualInv, NEW d \in Drainers, Notice(d), NoteApplied(d)
  PROVE  Notice(d)'
<1> DEFINE k    == drain[d].key
           next == Onwards(d, drain[d].status, drain[d].sentAt, 1)
           row  == [Stored(d) EXCEPT !.applied = 1]
<1>1. /\ AtWork(d) /\ WriteClaimed(d, row)
      /\ SetDrain(d, [drain[d] EXCEPT !.applied = 1, !.pc = next])
  BY DEF NoteApplied, AtWork
<1>2. Holds(d) /\ k \in DOMAIN outbox
  BY <1>1, WorkHolds
<1>3. row.applied = 1
  BY <1>2, StoredRow DEF IsRow, RowFields
<1>4. next \in {"dropping", "listing"}
  BY DEF Onwards
<1> HIDE DEF row, next
<1>5. outbox'[k] = row
  BY <1>1, <1>2 DEF WriteClaimed
<1>6. SameTurn(d) /\ drain'[d].applied = 1 /\ drain'[d].pc = next
  BY <1>1, UpdateKeepsTurn
<1> QED
  BY <1>3, <1>4, <1>5, <1>6 DEF Notice, Informed, SameTurn, Unrecorded

LEMMA RecordProgressNotice ==
  ASSUME ShapeInv, PunctualInv, NEW d \in Drainers, Notice(d), RecordProgress(d)
  PROVE  Notice(d)'
<1> DEFINE k    == drain[d].key
           next == IF drain[d].list # <<>> THEN "releasing"
                   ELSE IF drain[d].applied = 1 THEN "dropping" ELSE "applying"
           row  == [Stored(d) EXCEPT !.remaining = drain[d].list, !.attempts = 0,
                      !.delivered = Stored(d).delivered + 1, !.nextAt = drain[d].at]
<1>1. /\ AtWork(d) /\ WriteClaimed(d, row)
      /\ SetDrain(d, [drain[d] EXCEPT !.attempts = 0, !.retryAt = drain[d].at, !.pc = next])
  BY DEF RecordProgress, AtWork
<1>2. Holds(d) /\ k \in DOMAIN outbox
  BY <1>1, WorkHolds
<1>3. row.applied = outbox[k].applied
  BY <1>2, StoredRow DEF IsRow, RowFields, Stored
<1>4. next \in {"releasing", "dropping", "applying"} /\ (next = "dropping" => drain[d].applied = 1)
  OBVIOUS
<1> HIDE DEF row, next
<1>5. outbox'[k] = row
  BY <1>1, <1>2 DEF WriteClaimed
<1>6. SameCopy(d) /\ drain'[d].pc = next
  <2>1. \A pc, attempts, retryAt :
          SetDrain(d, [drain[d] EXCEPT !.attempts = attempts, !.retryAt = retryAt, !.pc = pc])
            => SameCopy(d) /\ drain'[d].pc = pc
    BY UpdateKeepsTurn
  <2> QED
    BY <1>1, <2>1
<1>7. drain[d].applied = outbox[k].applied
  BY <1>1 DEF Notice, Informed
<1> QED
  BY <1>3, <1>4, <1>5, <1>6, <1>7 DEF Notice, Informed, SameCopy, SameTurn, Unrecorded

LEMMA AppliedNotice ==
  ASSUME ShapeInv, AlertCount, NEW d \in Drainers, Notice(d),
         SettleLast(d) \/ ApplySent(d) \/ LateDownEvidence(d)
  PROVE  Notice(d)'
<1>1. CASE SettleLast(d)
  <2> DEFINE kind == drain[d].key.kind
             success == Applies(kind, drain[d].row.created, FALSE)
  <2>1. /\ AtWork(d) /\ outbox' = outbox /\ (Clean' <=> Clean)
        /\ Apply(kind, drain[d].row.created, FALSE)
        /\ (success /\ DrainTo(d, "dropping")) \/ PutBack(d, drain[d].at + InitialRetry)
    BY <1>1 DEF SettleLast, AtWork, OverlooksAlert, Clean
  <2>2. SameCopy(d) /\ ((success /\ drain'[d].pc = "dropping") \/ drain'[d].pc = "releasing")
    BY <2>1, UpdateKeepsTurn
  <2> QED
    BY <2>1, <2>2, ApplyingNotice DEF Announces, Decisive
<1>2. CASE ApplySent(d)
  <2> DEFINE kind == drain[d].key.kind
             success == Applies(kind, drain[d].row.created, FALSE)
  <2>1. /\ AtWork(d) /\ outbox' = outbox /\ (Clean' <=> Clean)
        /\ Apply(kind, drain[d].row.created, FALSE)
        /\ (success /\ DrainTo(d, "dropping")) \/ DrainTo(d, "releasing")
    BY <1>2 DEF ApplySent, AtWork, OverlooksAlert, Clean
  <2>2. SameCopy(d) /\ ((success /\ drain'[d].pc = "dropping") \/ drain'[d].pc = "releasing")
    BY <2>1, UpdateKeepsTurn
  <2> QED
    BY <2>1, <2>2, ApplyingNotice DEF Announces, Decisive
<1>3. CASE LateDownEvidence(d)
  <2> DEFINE success == Applies("alert", drain[d].row.created, TRUE)
  <2>1. /\ AtWork(d) /\ outbox' = outbox /\ (Clean' <=> Clean)
        /\ Apply("alert", drain[d].row.created, TRUE)
        /\ (success /\ DrainTo(d, "stageRecovery")) \/ PutBack(d, drain[d].at + 1)
    BY <1>3 DEF LateDownEvidence, AtWork, Clean
  <2>2. SameCopy(d) /\ ((success /\ drain'[d].pc = "stageRecovery") \/ drain'[d].pc = "releasing")
    BY <2>1, UpdateKeepsTurn
  <2> QED
    BY <2>1, <2>2, ApplyingNotice DEF Decisive
<1> QED
  BY <1>1, <1>2, <1>3

LEMMA StageNotice ==
  ASSUME ShapeInv, PunctualInv, NEW d \in Drainers, Notice(d), StageRecovery(d) \/ StageAlert(d)
  PROVE  Notice(d)'
<1> DEFINE k == drain[d].key
<1>1. /\ AtWork(d) /\ alert' = alert /\ (Clean' <=> Clean)
      /\ drain[d].pc \in {"stageRecovery", "stageAlert"}
      /\ \/ (\E key, row : InsertRow(key, row)) /\ DrainTo(d, "dropping")
         \/ outbox' = outbox /\ PutBack(d, drain[d].at + 1)
  BY DEF StageRecovery, StageAlert, Stage, AtWork, Clean
<1>2. k \in DOMAIN outbox
  BY <1>1, WorkHolds
<1>3. outbox'[k] = outbox[k]
  BY <1>1, <1>2 DEF InsertRow
<1>4. SameCopy(d) /\ drain'[d].pc \in {"dropping", "releasing"}
  BY <1>1, UpdateKeepsTurn
<1>5. Recorded(d)
  BY <1>1 DEF Notice, Informed, Recorded, Unrecorded, Announces
<1>6. CASE drain'[d].pc = "dropping"
  BY <1>1, <1>3, <1>4, <1>5, <1>6, RecordedNotice DEF Clean
<1>7. CASE drain'[d].pc = "releasing"
  BY <1>1, <1>3, <1>4, <1>7, NeutralNotice DEF Decisive
<1> QED
  BY <1>4, <1>6, <1>7

LEMMA ListNotice ==
  ASSUME ShapeInv, NEW d \in Drainers, Notice(d), ListChannels(d)
  PROVE  Notice(d)'
<1> DEFINE live     == ActiveAmong(drain[d].row.remaining)
           attempts == IF live = <<>> THEN 0 ELSE drain[d].attempts
           next     == IF live # <<>> THEN "sending"
                       ELSE IF drain[d].applied = 1 THEN "dropping" ELSE "settlingLast"
<1>1. /\ AtWork(d) /\ outbox' = outbox /\ alert' = alert /\ lapses' = lapses
      /\ SetDrain(d, [drain[d] EXCEPT !.list = live, !.attempts = attempts, !.pc = next])
      /\ next \in {"sending", "dropping", "settlingLast"}
      /\ next = "dropping" => drain[d].applied = 1
  BY DEF ListChannels, AtWork, store
<1> HIDE DEF live, attempts, next
<1>2. \A pc, ls, n :
        SetDrain(d, [drain[d] EXCEPT !.list = ls, !.attempts = n, !.pc = pc])
          => SameCopy(d) /\ drain'[d].pc = pc
  BY UpdateKeepsTurn
<1>3. /\ SameCopy(d) /\ drain'[d].pc \in {"sending", "dropping", "settlingLast"}
      /\ drain'[d].pc = "dropping" => drain[d].applied = 1
  BY <1>1, <1>2
<1>4. drain[d].applied = outbox[drain[d].key].applied
  BY <1>1 DEF Notice, Informed
<1> QED
  BY <1>1, <1>3, <1>4, NeutralNotice, RecordedNotice DEF Recorded, Decisive, Clean

LEMMA LookupNotice ==
  ASSUME ShapeInv, NEW d \in Drainers, Notice(d), LateRecoveryLookup(d)
  PROVE  Notice(d)'
<1>1. /\ drain[d].pc = "lateRecovery" /\ AtWork(d) /\ outbox' = outbox
      /\ DrainTo(d, "dropping") \/ DrainTo(d, "stageAlert")
  BY DEF LateRecoveryLookup, AtWork, store
<1>2. SameCopy(d) /\ drain'[d].pc \in {"dropping", "stageAlert"}
  BY <1>1, UpdateKeepsTurn
<1> QED
  BY <1>1, <1>2 DEF Notice, Informed, SameCopy, SameTurn, Announces, Unrecorded

\* A provider call, and every fault, ends where nothing is decided.
LEMMA SendingNotice ==
  ASSUME ShapeInv, NEW d \in Drainers, Notice(d),
         ProviderAccepts(d) \/ ProviderRejects(d) \/ DrainFault(d)
  PROVE  Notice(d)'
<1>1. CASE ProviderAccepts(d)
  <2>1. AtWork(d) /\ outbox' = outbox
        /\ \E sent, list :
             SetDrain(d, [drain[d] EXCEPT !.pc = "recording", !.sent = sent, !.list = list])
    BY <1>1 DEF ProviderAccepts, AtWork
  <2>2. \A pc, sent, list :
          SetDrain(d, [drain[d] EXCEPT !.pc = pc, !.sent = sent, !.list = list])
            => SameCopy(d) /\ drain'[d].pc = pc
    BY UpdateKeepsTurn
  <2>3. SameCopy(d) /\ drain'[d].pc = "recording"
    BY <2>1, <2>2
  <2> QED
    BY <2>1, <2>3, NeutralNotice DEF Decisive
<1>2. CASE ProviderRejects(d) \/ ProviderTimesOut(d) \/ StatementFails(d)
  <2>1. AtWork(d) /\ outbox' = outbox /\ Defer(d)
    BY <1>2 DEF ProviderRejects, ProviderTimesOut, StatementFails, AtWork, store
  <2>2. SameCopy(d) /\ drain'[d].pc = "releasing"
    BY <2>1, UpdateKeepsTurn
  <2> QED
    BY <2>1, <2>2, NeutralNotice DEF Decisive
<1>3. CASE CrashDrain(d)
  <2>1. drain'[d] = Resting("idle", 0, 0)
    BY <1>3 DEF CrashDrain, SetDrain, ShapeInv, DrainInv
  <2> QED
    BY <2>1, RestingRecord, RestingNotice
<1> QED
  BY <1>1, <1>2, <1>3 DEF DrainFault

LEMMA RestNotice ==
  ASSUME ShapeInv, NEW d \in Drainers,
         \/ \E n \in 1..MaxAttempts : StartDrain(d, n)
         \/ NothingToClaim(d) \/ Drop(d) \/ Release(d)
  PROVE  Notice(d)'
<1>1. \E pc \in {"idle", "claiming"} : \E at, left : drain'[d] = Resting(pc, at, left)
  BY DEF StartDrain, NothingToClaim, Drop, Release, NextScan, SetDrain, ShapeInv, DrainInv
<1> QED
  BY <1>1, RestingRecord, RestingNotice

LEMMA DrainKeepsItsNotice ==
  ASSUME ClaimInv, PunctualInv, StatusInv, AlertCount, QueueInv, NEW d \in Drainers, Notice(d),
         DrainOutbox(d) \/ FailDrain(d)
  PROVE  Notice(d)'
<1>1. ShapeInv
  BY DEF ClaimInv
<1>2. DrainStep(d) \/ DrainFault(d)
  BY DEF DrainOutbox, FailDrain
<1> QED
  BY <1>1, <1>2, ClaimNotice, ReadNotice, SettleNotice, NoteAppliedNotice,
     RecordProgressNotice, AppliedNotice, StageNotice, ListNotice, LookupNotice,
     SendingNotice, RestNotice DEF DrainStep

\* While one drain is at work, a drain that is not leaves alert_state alone.
LEMMA RestingKeepsAlert ==
  ASSUME NEW d \in Drainers, DrainOutbox(d) \/ FailDrain(d), ~AtWork(d)
  PROVE  AlertKept
<1>1. alert' = alert
  BY DEF AtWork, DrainOutbox, FailDrain, DrainStep, DrainFault, StartDrain, Claim,
     NothingToClaim, ReadSubject, Settle, NoteApplied, SettleLast, ListChannels,
     ProviderAccepts, ProviderRejects, RecordProgress, ApplySent, Drop, Release,
     LateDownEvidence, StageRecovery, LateRecoveryLookup, StageAlert, ProviderTimesOut,
     StatementFails, CrashDrain, store
<1>2. Clean' <=> Clean
  BY DrainLeavesLapses
<1> QED
  BY <1>1, <1>2 DEF AlertKept, Clean

LEMMA DrainKeepsNotices ==
  ASSUME ClaimInv, PunctualInv, StatusInv, AlertCount,
         NoticeInv, NEW d \in Drainers, DrainOutbox(d) \/ FailDrain(d), OutboxStep,
         \A e \in Drainers \ {d} : drain'[e] = drain[e]
  PROVE  NoticeInv'
<1>1. QueueInv' /\ Notice(d)'
  BY DrainKeepsQueue, DrainKeepsItsNotice DEF NoticeInv
<1>2. ASSUME NEW e \in Drainers \ {d} PROVE Notice(e)'
  <2>1. CASE AtWork(d) /\ AtWork(e)
    BY <2>1, TurnsAreTaken DEF OneDrainAtWork, PunctualInv
  <2>2. CASE ~AtWork(e)
    BY <2>2 DEF Notice, AtWork
  <2>3. CASE ~AtWork(d) /\ AtWork(e)
    <3>1. AlertKept
      BY <2>3, RestingKeepsAlert
    <3> QED
      BY <3>1, OthersKeepNotice DEF NoticeInv
  <2> QED
    BY <2>1, <2>2, <2>3
<1> QED
  BY <1>1, <1>2 DEF NoticeInv

LEMMA StepKeepsNotices ==
  ASSUME ClaimInv, PunctualInv, StatusInv, CountInv, NoticeInv,
         [Next]_vars
  PROVE  NoticeInv'
<1>1. CASE UNCHANGED vars \/ Tick
  <2>1. UNCHANGED <<store, drain>> /\ QueueInv'
    BY <1>1, OtherStepsKeepQueue DEF vars, Tick, NoticeInv
  <2> QED
    BY <2>1 DEF NoticeInv, Notice, Informed, AtWork, Clean, Unrecorded, store
<1>2. CASE Next /\ ~Tick
  <2>1. OutboxStep
    BY <1>2, StepIsOutboxStep DEF ClaimInv
  <2>2. ASSUME drain' = drain, AlertKept, QueueInv' PROVE NoticeInv'
    BY <2>1, <2>2, OthersKeepNotice DEF NoticeInv
  <2>3. CASE Handle
    BY <2>2, <2>3, HandlerKeepsAlert, HandlerKeepsQueue DEF Handle, NoticeInv
  <2>4. CASE NewObservation \/ AdminStep
    <3>1. drain' = drain
      BY <2>4 DEF NewObservation, AdminStep, SetWindow, ToggleChannel, ResetStats,
         RetryDelivery, Admin
    <3> QED
      BY <2>2, <2>4, <3>1, OtherStepsKeepAlert, OtherStepsKeepQueue DEF NoticeInv
  <2>5. ASSUME NEW d \in Drainers, DrainOutbox(d) \/ FailDrain(d) PROVE NoticeInv'
    <3>1. \A e \in Drainers \ {d} : drain'[e] = drain[e]
      BY <2>5, DrainMovesAlone DEF ClaimInv
    <3> QED
      BY <2>1, <2>5, <3>1, DrainKeepsNotices DEF CountInv
  <2> QED
    BY <1>2, <2>3, <2>4, <2>5 DEF Next
<1> QED
  BY <1>1, <1>2

LEMMA InitEstablishesNotices == Init => NoticeInv
BY EndingRecord, RestingRecord DEF Init, StoreInit, DrainInit, NoticeInv, QueueInv, Notice,
   AtWork

\* Only its holder's last step takes a row away while its claim lives.
LEMMA LiveRowIsDropped ==
  ASSUME ClaimInv, Next, NEW k \in DOMAIN outbox, Live(k), k \notin DOMAIN outbox'
  PROVE  \E d \in Drainers : Drop(d) /\ AtWork(d) /\ drain[d].key = k
<1>1. OutboxStep
  <2>1. ~Tick
    BY DEF Tick, store
  <2> QED
    BY <2>1, StepIsOutboxStep DEF ClaimInv
<1>2. CASE ~\E d \in Drainers : DrainOutbox(d) \/ FailDrain(d)
  <2>1. drain' = drain
    BY <1>2, OthersStandStill
  <2>2. RowsFenced
    BY <1>1, OutboxStepIsFenced DEF ClaimInv
  <2> QED
    BY <2>1, <2>2 DEF RowsFenced
<1>3. ASSUME NEW d \in Drainers, DrainOutbox(d) \/ FailDrain(d)
      PROVE  Drop(d) /\ AtWork(d) /\ drain[d].key = k
  <2>1. DrainFault(d) => outbox' = outbox
    BY DEF DrainFault, ProviderTimesOut, StatementFails, CrashDrain
  <2>2. DrainStep(d) /\ ~Drop(d) => DOMAIN outbox \subseteq DOMAIN outbox'
    BY DEF DrainStep, StartDrain, Claim, NothingToClaim, ReadSubject, Settle,
       NoteApplied, SettleLast, ListChannels, ProviderAccepts, ProviderRejects,
       RecordProgress, ApplySent, Release, LateDownEvidence, LateRecoveryLookup,
       StageRecovery, StageAlert, Stage, InsertRow, WriteClaimed, store
  <2>3. Drop(d)
    BY <1>3, <2>1, <2>2 DEF DrainOutbox, FailDrain
  <2> QED
    BY <2>3 DEF Drop, DeleteRows, AtWork
<1> QED
  BY <1>2, <1>3

DroppedIsRecorded ==
  \A k \in DOMAIN outbox :
    Unrecorded(k) /\ Live(k) /\ k \notin DOMAIN outbox' /\ "forgotten" \notin lapses
      => alert'.sentAt # 0

\* A DOWN that somebody received leaves the outbox, while its drain works on it,
\* only once alert_state records an alert: for any number of drains, channels and
\* observations, with crashes and failing statements anywhere
\* (drainNotificationDeliveries, reconcileLateDownDelivery).
THEOREM AlertingDeliveredDownIsRecorded ==
  ASSUME DrainSeconds < ClaimSeconds
  PROVE  Spec => DeliveredDownIsRecorded
<1>1. ClaimInv /\ NoticeInv /\ [Next]_vars => [DroppedIsRecorded]_vars
  <2> SUFFICES ASSUME ClaimInv, NoticeInv, Next,
                      NEW k \in DOMAIN outbox, Unrecorded(k), Live(k), k \notin DOMAIN outbox',
                      "forgotten" \notin lapses
               PROVE  alert'.sentAt # 0
    BY DEF DroppedIsRecorded
  <2>1. PICK d \in Drainers : Drop(d) /\ AtWork(d) /\ drain[d].key = k
    BY LiveRowIsDropped
  <2>2. Informed(d) /\ drain[d].pc = "dropping" /\ alert' = alert
    BY <2>1 DEF NoticeInv, Notice, Drop
  <2> QED
    BY <2>1, <2>2 DEF Informed, Clean
<1>2. ClaimInv /\ TurnsInv /\ [Next]_vars => TurnsInv'
  BY StepKeepsTurns
<1>3. ClaimInv /\ TurnsInv /\ StatusInv /\ CountInv /\ NoticeInv /\ [Next]_vars => NoticeInv'
  BY StepKeepsNotices, DrainsArePunctual
<1> QED
  BY <1>1, <1>2, <1>3, ClaimInvariant, InitEstablishesTurns, InitEstablishesStatus,
     StepKeepsStatus, InitEstablishesCount, StepKeepsCount, InitEstablishesNotices, PTL
     DEF Spec, DeliveredDownIsRecorded, DroppedIsRecorded

-----------------------------------------------------------------------------
(* Part 6: types.                                                          *)

\* A set of positions has elements of every rank up to its size.
LEMMA EveryRankIsTaken ==
  ASSUME NEW N \in Nat, NEW kept \in SUBSET (1..N)
  PROVE  /\ Cardinality(kept) \in Nat
         /\ \A r \in 1..Cardinality(kept) :
              \E i \in kept : Cardinality({j \in kept : j <= i}) = r
<1> DEFINE Upto(m) == {j \in kept : j <= m}
           X == {m \in Nat : \A r \in 1..Cardinality(Upto(m)) :
                               \E i \in kept : Cardinality(Upto(i)) = r}
<1>0. \A j \in kept : j \in Nat /\ j >= 1 /\ j <= N
  OBVIOUS
<1>1. \A m \in Nat : IsFiniteSet(Upto(m)) /\ Cardinality(Upto(m)) \in Nat
  <2>1. IsFiniteSet(1..N)
    BY FS_Interval
  <2> QED
    BY <2>1, FS_Subset, FS_CardinalityType
<1>2. 0 \in X
  <2>0. \A j \in kept : ~(j <= 0)
    BY <1>0
  <2>1. Upto(0) = {}
    BY Zenon, <2>0
  <2> QED
    BY <2>1, FS_EmptySet
<1>3. ASSUME NEW m \in X PROVE m + 1 \in X
  <2>0. \A j \in kept : j <= m + 1 <=> j <= m \/ j = m + 1
    BY <1>0
  <2>1. CASE m + 1 \notin kept
    <3>1. Upto(m + 1) = Upto(m)
      BY <2>0, <2>1
    <3> QED
      BY <3>1
  <2>2. CASE m + 1 \in kept
    <3>1. Upto(m + 1) = Upto(m) \union {m + 1} /\ m + 1 \notin Upto(m)
      <4>1. ~(m + 1 <= m)
        OBVIOUS
      <4> QED
        BY Zenon, <4>1, <2>0, <2>2
    <3>2. Cardinality(Upto(m + 1)) = Cardinality(Upto(m)) + 1
      BY <1>1, <3>1, FS_AddElement
    <3> HIDE DEF Upto
    <3>3. ASSUME NEW r \in 1..Cardinality(Upto(m + 1))
          PROVE  \E i \in kept : Cardinality(Upto(i)) = r
      <4>1. CASE r = Cardinality(Upto(m)) + 1
        BY <2>2, <3>2, <4>1
      <4>2. CASE r # Cardinality(Upto(m)) + 1
        <5>1. r \in 1..Cardinality(Upto(m))
          BY <1>1, <3>2, <4>2
        <5> QED
          BY <5>1
      <4> QED
        BY <4>1, <4>2
    <3> QED
      BY <3>3
  <2> QED
    BY <2>1, <2>2
<1>4. Nat \subseteq X
  <2>1. X \subseteq Nat
    OBVIOUS
  <2> HIDE DEF X
  <2> QED
    BY <1>2, <1>3, <2>1, NumbersInduction
<1>5. Upto(N) = kept
  BY <1>0
<1> QED
  BY <1>1, <1>4, <1>5

\* Channels that drop out leave a sequence of channels.
LEMMA ActiveAmongType ==
  ASSUME NEW s \in Seq(Channels)
  PROVE  ActiveAmong(s) \in Seq(Channels)
<1> DEFINE kept     == {i \in DOMAIN s : s[i] \in active}
           Place(n) == CHOOSE i \in kept : Cardinality({j \in kept : j <= i}) = n
<1>1. kept \in SUBSET (1..Len(s)) /\ Len(s) \in Nat
  OBVIOUS
<1> HIDE DEF kept
<1>2. /\ Cardinality(kept) \in Nat
      /\ \A n \in 1..Cardinality(kept) : Place(n) \in kept
  BY <1>1, EveryRankIsTaken
<1> HIDE DEF Place
<1>3. \A n \in 1..Cardinality(kept) : s[Place(n)] \in Channels
  <2>1. \A i \in 1..Len(s) : s[i] \in Channels
    OBVIOUS
  <2> QED
    BY <1>1, <1>2, <2>1
<1>4. ActiveAmong(s) = [n \in 1..Cardinality(kept) |-> s[Place(n)]]
  BY DEF ActiveAmong, kept, Place
<1> QED
  BY <1>2, <1>3, <1>4

LEMMA LinkedChannelsType == LinkedChannels \in Seq(Channels)
<1>1. [c \in Channels |-> c] \in Seq(Channels)
  BY StoreAssumption DEF Channels
<1> QED
  BY <1>1, ActiveAmongType DEF LinkedChannels

\* A retry delay is a number of seconds: the exponent stays below DelaySteps.
LEMMA RetryDelayType ==
  ASSUME NEW n \in Nat \ {0}
  PROVE  RetryDelay(n) \in Nat
<1> DEFINE k == MinOf(n, DelaySteps) - 1
<1>1. k \in 0..7
  BY DEF MinOf, DelaySteps
<1> HIDE DEF k
<1>2. 2 ^ k \in Nat
  <2>1. 2 ^ 0 \in Nat
    OBVIOUS
  <2>2. 2 ^ 1 \in Nat
    OBVIOUS
  <2>3. 2 ^ 2 \in Nat
    OBVIOUS
  <2>4. 2 ^ 3 \in Nat
    OBVIOUS
  <2>5. 2 ^ 4 \in Nat
    OBVIOUS
  <2>6. 2 ^ 5 \in Nat
    OBVIOUS
  <2>7. 2 ^ 6 \in Nat
    OBVIOUS
  <2>8. 2 ^ 7 \in Nat
    OBVIOUS
  <2>9. k = 0 \/ k = 1 \/ k = 2 \/ k = 3 \/ k = 4 \/ k = 5 \/ k = 6 \/ k = 7
    BY <1>1
  <2> QED
    BY Zenon, <2>1, <2>2, <2>3, <2>4, <2>5, <2>6, <2>7, <2>8, <2>9
<1>3. InitialRetry * 2 ^ k \in Nat
  BY <1>2, StoreAssumption
<1>4. RetryDelay(n) = MinOf(MaxRetry, InitialRetry * 2 ^ k)
  BY DEF RetryDelay, k
<1> QED
  BY <1>3, <1>4, StoreAssumption DEF MinOf

-----------------------------------------------------------------------------
\* A drain that scans may still claim, one that sends has a channel to send to.
DrainOf(x) ==
  /\ x \in Drain
  /\ x.pc = "claiming" => x.left > 0
  /\ x.pc = "sending" => x.list # <<>>
TypeInv == TypeOK /\ \A d \in Drainers : DrainOf(drain[d])

LEMMA LaterType ==
  ASSUME NEW t \in Nat
  PROVE  Later(t) \in Clock
BY StoreAssumption DEF Later, MinOf, Clock

LEMMA NewRowType ==
  ASSUME NEW created \in Times, NEW channels \in Seq(Channels), NEW t \in Clock,
         NEW applied \in {0, 1}
  PROVE  NewRow(created, channels, t, applied) \in Row
<1>1. 0 \in Clock
  BY StoreAssumption DEF Clock
<1> QED
  BY <1>1 DEF NewRow, Row

RowsOf(box) == DOMAIN box \subseteq Key /\ \A k \in DOMAIN box : box[k] \in Row

LEMMA InsertRowType ==
  ASSUME RowsOf(outbox), NEW k \in Key, NEW row \in Row, InsertRow(k, row)
  PROVE  RowsOf(outbox')
BY DEF RowsOf, InsertRow

LEMMA DeleteRowsType ==
  ASSUME RowsOf(outbox), NEW K, DeleteRows(K)
  PROVE  RowsOf(outbox')
BY DEF RowsOf, DeleteRows

LEMMA ReplaceRowType ==
  ASSUME RowsOf(outbox), NEW k \in DOMAIN outbox, NEW row \in Row,
         outbox' = [outbox EXCEPT ![k] = row]
  PROVE  RowsOf(outbox')
BY DEF RowsOf

\* What may be written to alert_state.
LEMMA ApplyType ==
  ASSUME alert \in AlertRow, NEW kind, NEW created \in Times, NEW whileUp,
         Apply(kind, created, whileUp)
  PROVE  alert' \in AlertRow
<1>1. NoAlert \in AlertRow
  BY StoreAssumption DEF NoAlert, AlertRow, Times, Clock
<1>2. MaxOf(alert.remindedAt, created) \in Times
  BY DEF MaxOf, AlertRow
<1>3. [alert EXCEPT !.remindedAt = MaxOf(alert.remindedAt, created)] \in AlertRow
  BY <1>2 DEF AlertRow
<1>4. \A n, t : n \in Nat /\ t \in Clock =>
        [failures |-> alert.failures, sentAt |-> created, alerts |-> n,
         remindedAt |-> created, pausedUntil |-> t] \in AlertRow
  BY DEF AlertRow
<1>5. alert.alerts + 1 \in Nat /\ Later(created + SurgePause) \in Clock /\ 0 \in Clock
  <2>1. created + SurgePause \in Nat
    BY StoreAssumption DEF Times
  <2> QED
    BY <2>1, LaterType, StoreAssumption DEF AlertRow, Clock
<1>6. AfterApplying(kind, created) \in AlertRow
  BY <1>1, <1>3, <1>4, <1>5 DEF AfterApplying
<1> QED
  BY <1>6 DEF Apply

LEMMA ForgottenType ==
  ASSUME alert \in AlertRow
  PROVE  NoAlert \in AlertRow /\ Forgotten \in AlertRow
BY StoreAssumption DEF NoAlert, Forgotten, AlertRow, Times, Clock

LEMMA KeyType ==
  /\ \A kind \in Kinds, of \in Nat : AKey(kind, of) \in Key
  /\ \A s, t \in Nat : ReminderKey(s, t) \in Key
BY DEF AKey, ReminderKey, Key, Kinds

-----------------------------------------------------------------------------
\* The handler.
LEMMA EndingType ==
  ASSUME NEW outcome \in HandlerPhases \union Outcomes
  PROVE  Ending(outcome) \in Handler
<1>1. NoAlert \in AlertRow
  BY StoreAssumption DEF NoAlert, AlertRow, Times, Clock
<1>2. NoEvidence \in [kind: Kinds \union {"none"}, applied: {0, 1}, created: Times, until: Clock]
  BY StoreAssumption DEF NoEvidence, Times, Clock
<1>3. AKey("alert", 0) \in Key /\ 0 \in Times
  BY KeyType, StoreAssumption DEF Kinds, Times
<1>4. <<>> \in Seq(Channels)
  OBVIOUS
<1> QED
  BY <1>1, <1>2, <1>3, <1>4 DEF Ending, Handler

LEMMA GotoType ==
  ASSUME proc \in Handler, NEW pc \in HandlerPhases \union Outcomes, Goto(pc)
  PROVE  proc' \in Handler
BY DEF Goto, Handler

LEMMA EndHandlerType ==
  ASSUME NEW pc \in HandlerPhases \union Outcomes, EndHandler(pc)
  PROVE  proc' \in Handler
BY EndingType DEF EndHandler

LEMMA LateDownType ==
  ASSUME RowsOf(outbox)
  PROVE  LateDown \subseteq [kind: Kinds \union {"none"}, applied: {0, 1},
                             created: Times, until: Clock]
<1>1. NoEvidence \in [kind: Kinds \union {"none"}, applied: {0, 1}, created: Times, until: Clock]
  BY StoreAssumption DEF NoEvidence, Times, Clock
<1>2. ASSUME NEW k \in DOMAIN outbox
      PROVE  [kind |-> k.kind, applied |-> outbox[k].applied, created |-> outbox[k].created,
              until |-> outbox[k].until]
                \in [kind: Kinds \union {"none"}, applied: {0, 1}, created: Times, until: Clock]
  BY DEF RowsOf, Key, Row
<1> QED
  BY <1>1, <1>2 DEF LateDown

LEMMA HandlerTypes ==
  ASSUME TypeOK, HandlerStep
  PROVE  StoreTypeOK' /\ proc' \in Handler
<1>0. /\ proc \in Handler /\ now \in 1..MaxTime /\ lastStatus \in {"pending", "up", "down"}
      /\ alert \in AlertRow /\ incident \in [open: {0, 1}, count: Nat] /\ RowsOf(outbox)
  BY DEF TypeOK, StoreTypeOK, RowsOf
<1>1. ASSUME now' = now, lastStatus' \in {"pending", "up", "down"}, alert' \in AlertRow,
             incident' \in [open: {0, 1}, count: Nat], RowsOf(outbox'), window' = window,
             active' = active, visible' = visible,
             lapses' = lapses \/ lapses' = lapses \union {"forgotten"}
      PROVE  StoreTypeOK'
  BY <1>0, <1>1 DEF TypeOK, StoreTypeOK, RowsOf
<1>2. CASE CheckWindow
  BY <1>0, <1>1, <1>2, GotoType, EndHandlerType DEF CheckWindow, store, HandlerPhases, Outcomes
<1>3. CASE RecordFailed
  <2>1. alert' \in AlertRow
    BY <1>0, <1>3, StoreAssumption DEF RecordFailed, AlertRow, MinOf
  <2>2. proc' \in Handler
    <3>1. [proc EXCEPT !.pc = "readIncident", !.state = alert'] \in Handler
      BY <1>0, <2>1 DEF Handler, HandlerPhases
    <3> QED
      BY <1>3, <3>1, EndHandlerType DEF RecordFailed, Outcomes
  <2> QED
    BY <1>0, <1>1, <1>3, <2>1, <2>2 DEF RecordFailed
<1>4. CASE ReadIncident
  <2>1. [proc EXCEPT !.pc = "reopen", !.hadIncident = incident.open] \in Handler
    BY <1>0 DEF Handler, HandlerPhases
  <2> QED
    BY <1>0, <1>1, <1>4, <2>1 DEF ReadIncident, store
<1>5. CASE Reopen
  BY <1>0, <1>1, <1>5, GotoType DEF Reopen, HandlerPhases
<1>6. CASE ForgetAlerts
  <2>1. [proc EXCEPT !.pc = "cancelRecovery", !.state = Forgotten] \in Handler
    BY <1>0, ForgottenType DEF Handler, HandlerPhases
  <2> QED
    BY <1>0, <1>1, <1>6, <2>1, ForgottenType DEF ForgetAlerts, ForgetsAlert
<1>7. CASE CancelRecovery
  BY <1>0, <1>1, <1>7, GotoType, DeleteRowsType DEF CancelRecovery, CancelUnclaimed, HandlerPhases
<1>8. CASE MarkDown
  BY <1>0, <1>1, <1>8, GotoType DEF MarkDown, HandlerPhases
<1>9. CASE OpenIncident
  <2>1. incident' \in [open: {0, 1}, count: Nat]
    BY <1>0, <1>9 DEF OpenIncident
  <2>2. incident'.count \in Nat /\ proc.state.sentAt \in Nat /\ ReminderDueAt \in Nat
    <3>1. proc.state \in AlertRow
      BY <1>0 DEF Handler
    <3>2. proc.state.sentAt \in Nat /\ proc.state.remindedAt \in Nat
      BY <3>1 DEF AlertRow, Times
    <3>3. LastTold \in Nat
      BY <3>2 DEF LastTold
    <3> QED
      BY <2>1, <3>2, <3>3, StoreAssumption DEF ReminderDueAt
  <2>3. \A k \in Key : [proc EXCEPT !.pc = "channels", !.key = k] \in Handler
    BY <1>0 DEF Handler, HandlerPhases
  <2>4. AKey("alert", incident'.count) \in Key /\ ReminderKey(proc.state.sentAt, ReminderDueAt) \in Key
    BY <2>2, KeyType DEF Kinds
  <2>5. proc' \in Handler
    BY <1>9, <2>3, <2>4, EndHandlerType DEF OpenIncident, Outcomes
  <2> QED
    BY <1>0, <1>1, <1>9, <2>1, <2>5 DEF OpenIncident
<1>10. CASE RecordHealthy
  <2>1. alert' \in AlertRow
    BY <1>0, <1>10, StoreAssumption DEF RecordHealthy, AlertRow
  <2>2. \A pc \in {"flip", "probe", "settle"} :
          [proc EXCEPT !.state = alert', !.pc = pc] \in Handler
    BY <1>0, <2>1 DEF Handler, HandlerPhases
  <2>3. proc' \in Handler
    BY <1>10, <2>2 DEF RecordHealthy
  <2> QED
    BY <1>0, <1>1, <1>10, <2>1, <2>3 DEF RecordHealthy
<1>11. CASE Probe \/ FindLateDown
  <2>1. \A late \in LateDown : \A pc \in {"closeOnly", "flip", "cancelDown", "evidence"} :
          [proc EXCEPT !.late = late, !.pc = pc] \in Handler
    BY <1>0, LateDownType DEF Handler, HandlerPhases
  <2>2. proc' \in Handler
    BY <1>11, <2>1 DEF Probe, FindLateDown
  <2> QED
    BY <1>0, <1>1, <1>11, <2>2 DEF Probe, FindLateDown, store
<1>12. CASE SettlePending \/ FlipUp
  BY <1>0, <1>1, <1>12, GotoType DEF SettlePending, FlipUp, HandlerPhases
<1>13. CASE CloseOnly \/ CloseIncidents
  <2>1. incident' \in [open: {0, 1}, count: Nat]
    BY <1>0, <1>13 DEF CloseOnly, CloseIncidents
  <2>2. proc' \in Handler
    BY <1>0, <1>13, GotoType, EndHandlerType DEF CloseOnly, CloseIncidents, HandlerPhases, Outcomes
  <2> QED
    BY <1>0, <1>1, <1>13, <2>1, <2>2 DEF CloseOnly, CloseIncidents
<1>14. CASE RecordEvidence
  <2>1. proc.late.created \in Times
    BY <1>0 DEF Handler
  <2>2. alert' \in AlertRow
    BY <1>0, <1>14, <2>1, ApplyType DEF RecordEvidence
  <2>3. proc' \in Handler
    BY <1>0, <1>14, GotoType, EndHandlerType DEF RecordEvidence, HandlerPhases, Outcomes
  <2> QED
    BY <1>0, <1>1, <1>14, <2>2, <2>3 DEF RecordEvidence
<1>15. CASE CancelDown \/ MuteRecovery
  BY <1>0, <1>1, <1>15, GotoType, DeleteRowsType
     DEF CancelDown, MuteRecovery, CancelUnclaimed, HandlerPhases
<1>16. CASE RereadAlert
  <2>1. [proc EXCEPT !.pc = "checkWindow", !.state = alert] \in Handler
    BY <1>0 DEF Handler, HandlerPhases
  <2> QED
    BY <1>0, <1>1, <1>16, <2>1 DEF RereadAlert, store
<1>17. CASE CheckWindowUp
  <2>1. AKey("recovery", proc.state.sentAt) \in Key
    BY <1>0, KeyType DEF Handler, AlertRow, Times, Kinds
  <2>2. [proc EXCEPT !.pc = "channels", !.key = AKey("recovery", proc.state.sentAt)] \in Handler
    BY <1>0, <2>1 DEF Handler, HandlerPhases
  <2>3. proc' \in Handler
    BY <1>0, <1>17, <2>2, GotoType DEF CheckWindowUp, HandlerPhases
  <2> QED
    BY <1>0, <1>1, <1>17, <2>3 DEF CheckWindowUp, store
<1>18. CASE ResetAlert
  BY <1>0, <1>1, <1>18, ForgottenType, EndHandlerType DEF ResetAlert, ForgetsAlert, Outcomes
<1>19. CASE ClearSettled
  BY <1>0, <1>1, <1>19, ForgottenType, EndHandlerType DEF ClearSettled, Outcomes
<1>20. CASE ReadChannels
  <2>1. \A pc \in {"applyNow", "insert"} :
          [proc EXCEPT !.fan = LinkedChannels, !.pc = pc] \in Handler
    BY <1>0, LinkedChannelsType DEF Handler, HandlerPhases
  <2>2. proc' \in Handler
    BY <1>20, <2>1 DEF ReadChannels
  <2> QED
    BY <1>0, <1>1, <1>20, <2>2 DEF ReadChannels, store
<1>21. CASE ApplyNow
  <2>1. proc.at \in Times
    BY <1>0 DEF Handler
  <2>2. alert' \in AlertRow
    BY <1>0, <1>21, <2>1, ApplyType DEF ApplyNow
  <2>3. proc' \in Handler
    BY <1>21, EndHandlerType DEF ApplyNow, Outcomes
  <2> QED
    BY <1>0, <1>1, <1>21, <2>2, <2>3 DEF ApplyNow, ForgetsAlert
<1>22. CASE Enqueue
  <2>1. FirstAttempt \in Clock
    <3>1. MaxOf(proc.at, proc.late.until) + 1 \in Nat /\ proc.at \in Clock
      BY <1>0, StoreAssumption DEF Handler, Times, Clock, MaxOf
    <3> QED
      BY <3>1, LaterType DEF FirstAttempt
  <2>2. NewRow(proc.at, proc.fan, FirstAttempt, 0) \in Row /\ proc.key \in Key
    BY <1>0, <2>1, NewRowType DEF Handler
  <2>3. RowsOf(outbox')
    BY <1>0, <1>22, <2>2, InsertRowType DEF Enqueue
  <2>4. proc' \in Handler
    BY <1>22, EndHandlerType DEF Enqueue, Outcomes
  <2> QED
    BY <1>0, <1>1, <1>22, <2>3, <2>4 DEF Enqueue
<1> QED
  BY <1>2, <1>3, <1>4, <1>5, <1>6, <1>7, <1>8, <1>9, <1>10, <1>11, <1>12, <1>13, <1>14,
     <1>15, <1>16, <1>17, <1>18, <1>19, <1>20, <1>21, <1>22 DEF HandlerStep

-----------------------------------------------------------------------------
\* The drains.
LEMMA RestingType ==
  ASSUME NEW pc \in {"idle", "claiming", "reading"}, NEW at \in Times, NEW left \in 0..MaxAttempts,
         pc = "claiming" => left > 0
  PROVE  DrainOf(Resting(pc, at, left))
<1>1. 0 \in Times /\ 0 \in Clock /\ 0 \in 0..NumChannels
  BY StoreAssumption DEF Times, Clock
<1>2. <<>> \in Seq(Channels)
  OBVIOUS
<1>3. NoRow \in Row
  BY <1>1, <1>2, NewRowType DEF NoRow
<1>4. AKey("alert", 0) \in Key
  BY KeyType DEF Kinds
<1> QED
  BY <1>1, <1>2, <1>3, <1>4 DEF Resting, Drain, DrainOf, DrainPhases

DrainsOf == drain \in [Drainers -> Drain] /\ \A d \in Drainers : DrainOf(drain[d])

LEMMA SetDrainType ==
  ASSUME DrainsOf, NEW d \in Drainers, NEW x, DrainOf(x), SetDrain(d, x)
  PROVE  DrainsOf'
BY DEF DrainsOf, DrainOf, SetDrain

LEMMA DrainToType ==
  ASSUME DrainsOf, NEW d \in Drainers, NEW pc \in DrainPhases \ {"claiming", "sending"},
         DrainTo(d, pc)
  PROVE  DrainsOf'
<1>1. DrainOf([drain[d] EXCEPT !.pc = pc])
  BY DEF DrainsOf, DrainOf, Drain
<1> QED
  BY <1>1, SetDrainType DEF DrainTo

LEMMA NextScanType ==
  ASSUME DrainsOf, NEW d \in Drainers, NextScan(d)
  PROVE  DrainsOf'
<1>1. drain[d].at \in Times /\ drain[d].left \in 0..MaxAttempts
  BY DEF DrainsOf, Drain
<1>2. drain[d].left > 0 => DrainOf(Resting("claiming", drain[d].at, drain[d].left))
  BY <1>1, RestingType
<1>3. DrainOf(Resting("idle", 0, 0))
  BY RestingType, StoreAssumption DEF Times, MaxAttempts
<1> QED
  BY <1>2, <1>3, SetDrainType DEF NextScan

LEMMA PutBackType ==
  ASSUME DrainsOf, NEW d \in Drainers, NEW t \in Nat, PutBack(d, t)
  PROVE  DrainsOf'
<1>1. DrainOf([drain[d] EXCEPT !.pc = "releasing", !.retryAt = Later(t)])
  BY LaterType DEF DrainsOf, DrainOf, Drain, DrainPhases
<1> QED
  BY <1>1, SetDrainType DEF PutBack

\* A deferred attempt keeps the channels it began with, at least one.
LEMMA DeferType ==
  ASSUME DrainsOf, NEW d \in Drainers, drain[d].pc = "sending" \/ drain[d].sent # 0, Defer(d)
  PROVE  DrainsOf'
<1> DEFINE live == IF drain[d].pc = "sending" THEN drain[d].list
                   ELSE <<drain[d].sent>> \o drain[d].list
           n    == drain[d].row.attempts + 1
           list == IF Rotates(n, live) THEN Tail(live) \o <<Head(live)>> ELSE live
           tries == IF Rotates(n, live) THEN 0 ELSE MinOf(n, DelaySteps)
<1>0. drain[d] \in Drain /\ drain[d].row \in Row
  BY DEF DrainsOf, Drain
<1>1. live \in Seq(Channels)
  <2>1. drain[d].list \in Seq(Channels)
    BY <1>0 DEF Drain
  <2>2. drain[d].sent # 0 => drain[d].sent \in Channels
    BY <1>0, StoreAssumption DEF Drain, Channels
  <2>3. drain[d].sent # 0 => <<drain[d].sent>> \o drain[d].list \in Seq(Channels)
    BY <2>1, <2>2
  <2> QED
    BY <2>1, <2>3
<1>2. n \in Nat \ {0}
  BY <1>0 DEF Row
<1> HIDE DEF live, n
<1>3. list \in Seq(Channels) /\ tries \in Nat
  <2>1. Len(live) > 1 => live # <<>>
    BY <1>1
  <2>2. live # <<>> => Head(live) \in Channels /\ Tail(live) \in Seq(Channels)
    BY <1>1
  <2>3. live # <<>> => Tail(live) \o <<Head(live)>> \in Seq(Channels)
    BY <2>2
  <2>4. MinOf(n, DelaySteps) \in Nat
    BY <1>2 DEF MinOf, DelaySteps
  <2> QED
    BY <1>1, <2>1, <2>3, <2>4 DEF Rotates
<1>4. Later(drain[d].at + RetryDelay(n)) \in Clock
  <2>1. drain[d].at + RetryDelay(n) \in Nat
    BY <1>0, <1>2, RetryDelayType DEF Drain, Times
  <2> QED
    BY <2>1, LaterType
<1>5. SetDrain(d, [drain[d] EXCEPT !.pc = "releasing", !.sent = 0, !.list = list,
                     !.attempts = tries, !.retryAt = Later(drain[d].at + RetryDelay(n))])
  BY DEF Defer, live, n
<1> HIDE DEF list, tries
<1>6. 0 \in 0..NumChannels /\ "releasing" \in DrainPhases
  BY StoreAssumption DEF DrainPhases
<1>7. \A t \in Clock : [drain[d] EXCEPT !.pc = "releasing", !.sent = 0, !.list = list,
                          !.attempts = tries, !.retryAt = t] \in Drain
  BY <1>0, <1>3, <1>6 DEF Drain
<1>8. \A t : [drain[d] EXCEPT !.pc = "releasing", !.sent = 0, !.list = list,
                !.attempts = tries, !.retryAt = t].pc = "releasing"
  BY <1>0 DEF Drain
<1>9. \A t \in Clock : DrainOf([drain[d] EXCEPT !.pc = "releasing", !.sent = 0, !.list = list,
                                  !.attempts = tries, !.retryAt = t])
  BY <1>7, <1>8 DEF DrainOf
<1> QED
  BY <1>4, <1>5, <1>9, SetDrainType

\* Where a row is routed to.
LEMMA OnwardsPhase ==
  ASSUME NEW d, NEW status, NEW sentAt, NEW applied
  PROVE  Onwards(d, status, sentAt, applied) \in {"dropping", "listing", "settlingLast"}
BY DEF Onwards

LEMMA RoutePhase ==
  ASSUME NEW d
  PROVE  Route(d) \in {"lateRecovery", "lateDown", "settling", "dropping", "listing", "settlingLast"}
BY OnwardsPhase DEF Route

LEMMA WriteClaimedType ==
  ASSUME RowsOf(outbox), NEW d \in Drainers, NEW row, Holds(d) => row \in Row,
         WriteClaimed(d, row)
  PROVE  RowsOf(outbox')
BY ReplaceRowType DEF WriteClaimed, Holds

LEMMA DrainTypes ==
  ASSUME TypeInv, NEW d \in Drainers, DrainStep(d) \/ DrainFault(d)
  PROVE  StoreTypeOK' /\ DrainsOf'
<1> DEFINE x == drain[d]
<1>0. /\ DrainsOf /\ x \in Drain /\ DrainOf(x) /\ now \in Times
      /\ lastStatus \in {"pending", "up", "down"}
      /\ alert \in AlertRow /\ window \in [from: Times, to: Times] /\ RowsOf(outbox)
      /\ visible \in [Channels -> {"none", "down", "up", "relinked"}]
  BY StoreAssumption DEF TypeInv, TypeOK, StoreTypeOK, RowsOf, DrainsOf, Times
<1>1. /\ x.at \in Times /\ x.left \in 0..MaxAttempts /\ x.row \in Row /\ x.key \in Key
      /\ x.list \in Seq(Channels) /\ x.attempts \in Nat /\ x.retryAt \in Clock
      /\ x.row.created \in Times /\ x.row.remaining \in Seq(Channels)
  BY <1>0 DEF Drain, Row
<1>2. ASSUME now' = now, lastStatus' = lastStatus, incident' = incident, window' = window,
             active' = active, alert' \in AlertRow, RowsOf(outbox'),
             visible' \in [Channels -> {"none", "down", "up", "relinked"}],
             lapses' \subseteq lapses \union {"answer", "overlooked", "uncounted"}
      PROVE  StoreTypeOK'
  BY <1>2 DEF TypeInv, TypeOK, StoreTypeOK, RowsOf
<1>3. \A t \in Times, n \in Nat : t + n \in Nat /\ (n = 0 => t \in Clock)
  BY StoreAssumption DEF Times, Clock
<1>4. Holds(d) => Stored(d) \in Row
  BY <1>0 DEF Holds, Stored, RowsOf
<1> HIDE DEF x
<1>5. ASSUME NEW n \in 1..MaxAttempts, StartDrain(d, n) PROVE StoreTypeOK' /\ DrainsOf'
  <2>1. DrainOf(Resting("claiming", now, n))
    BY <1>0, RestingType DEF MaxAttempts
  <2> QED
    BY <1>0, <1>2, <1>5, <2>1, SetDrainType DEF StartDrain, store
<1>6. ASSUME NEW k \in DOMAIN outbox, Claim(d, k) PROVE StoreTypeOK' /\ DrainsOf'
  <2> DEFINE y == Resting("reading", x.at, x.left - 1)
             z == [y EXCEPT !.key = k, !.row = outbox[k], !.applied = outbox[k].applied,
                            !.list = outbox[k].remaining, !.attempts = outbox[k].attempts]
             claimed == [outbox[k] EXCEPT !.token = d, !.until = Later(x.at + ClaimSeconds)]
  <2>1. x.left - 1 \in 0..MaxAttempts
    BY <1>0, <1>1, <1>6 DEF DrainOf, Claim, MaxAttempts, x
  <2>2. y \in Drain /\ y.pc = "reading"
    BY <1>1, <2>1, RestingType DEF DrainOf, Resting
  <2>3. k \in Key /\ outbox[k] \in Row
    BY <1>0 DEF RowsOf
  <2>4. Later(x.at + ClaimSeconds) \in Clock
    BY <1>1, <1>3, LaterType, StoreAssumption
  <2>5. claimed \in Row
    BY <2>3, <2>4 DEF Row
  <2> HIDE DEF claimed
  <2>6. outbox' = [outbox EXCEPT ![k] = claimed]
    BY <1>6 DEF Claim, claimed, x
  <2>7. RowsOf(outbox')
    BY <1>0, <2>5, <2>6, ReplaceRowType
  <2> HIDE DEF y
  <2>8. z \in Drain /\ z.pc = "reading"
    BY <2>2, <2>3 DEF Drain, Row
  <2>9. SetDrain(d, z)
    BY <1>6 DEF Claim, x, y
  <2> HIDE DEF z
  <2>10. DrainsOf'
    BY <1>0, <2>8, <2>9, SetDrainType DEF DrainOf
  <2> QED
    BY <1>0, <1>2, <1>6, <2>7, <2>10 DEF Claim
<1>7. CASE NothingToClaim(d)
  <2>1. DrainOf(Resting("idle", 0, 0))
    BY RestingType, StoreAssumption DEF Times, MaxAttempts
  <2> QED
    BY <1>0, <1>2, <1>7, <2>1, SetDrainType DEF NothingToClaim, store
<1>8. CASE ReadSubject(d)
  <2>1. window.to + 1 \in Nat
    BY <1>0, <1>3
  <2>2. Route(d) \in DrainPhases \ {"claiming", "sending"}
    BY RoutePhase DEF DrainPhases
  <2>3. alert.sentAt \in Times
    BY <1>0 DEF AlertRow
  <2>4. \A pc \in DrainPhases \ {"claiming", "sending"} : \A t \in Times :
          DrainOf([drain[d] EXCEPT !.pc = pc, !.status = lastStatus, !.sentAt = t])
    BY <1>0 DEF DrainOf, Drain, x
  <2>5. DrainsOf'
    BY <1>0, <1>8, <2>1, <2>2, <2>3, <2>4, PutBackType, SetDrainType DEF ReadSubject
  <2> QED
    BY <1>0, <1>2, <1>8, <2>5 DEF ReadSubject, store
<1>9. CASE Settle(d) \/ SettleLast(d) \/ ApplySent(d) \/ LateDownEvidence(d)
  <2>1. alert' \in AlertRow
    BY <1>0, <1>1, <1>9, ApplyType DEF Settle, SettleLast, ApplySent, LateDownEvidence, x
  <2>2. \A s, t, n : Onwards(d, s, t, n) \in DrainPhases \ {"claiming", "sending"}
    BY OnwardsPhase DEF DrainPhases
  <2>3. CASE Settle(d)
    <3>1. \E pc \in DrainPhases \ {"claiming", "sending"} : DrainTo(d, pc)
      BY <2>2, <2>3 DEF Settle, DrainTo, DrainPhases
    <3> QED
      BY <1>0, <1>2, <2>1, <2>3, <3>1, DrainToType DEF Settle, OverlooksAlert
  <2>4. CASE SettleLast(d)
    <3>1. drain[d].at + InitialRetry \in Nat
      BY <1>1, <1>3, StoreAssumption DEF x
    <3>2. DrainsOf'
      BY <1>0, <2>4, <3>1, DrainToType, PutBackType DEF SettleLast, DrainPhases
    <3> QED
      BY <1>0, <1>2, <2>1, <2>4, <3>2 DEF SettleLast, OverlooksAlert
  <2>5. CASE ApplySent(d)
    <3>1. DrainsOf'
      BY <1>0, <2>5, DrainToType DEF ApplySent, DrainPhases
    <3> QED
      BY <1>0, <1>2, <2>1, <2>5, <3>1 DEF ApplySent, OverlooksAlert
  <2>6. CASE LateDownEvidence(d)
    <3>1. drain[d].at + 1 \in Nat
      BY <1>1, <1>3 DEF x
    <3>2. DrainsOf'
      BY <1>0, <2>6, <3>1, DrainToType, PutBackType DEF LateDownEvidence, DrainPhases
    <3> QED
      BY <1>0, <1>2, <2>1, <2>6, <3>2 DEF LateDownEvidence
  <2> QED
    BY <1>9, <2>3, <2>4, <2>5, <2>6
<1>10. CASE NoteApplied(d)
  <2>1. Holds(d) => [Stored(d) EXCEPT !.applied = 1] \in Row
    BY <1>4 DEF Row
  <2>2. RowsOf(outbox')
    BY <1>0, <1>10, <2>1, WriteClaimedType DEF NoteApplied
  <2>3. \A pc \in DrainPhases \ {"claiming", "sending"} :
          DrainOf([drain[d] EXCEPT !.applied = 1, !.pc = pc])
    BY <1>0 DEF DrainOf, Drain, x
  <2>4. \A s, t, n : Onwards(d, s, t, n) \in DrainPhases \ {"claiming", "sending"}
    BY OnwardsPhase DEF DrainPhases
  <2>5. DrainsOf'
    BY <1>0, <1>10, <2>3, <2>4, SetDrainType DEF NoteApplied
  <2> QED
    BY <1>0, <1>2, <1>10, <2>2, <2>5 DEF NoteApplied
<1>11. CASE ListChannels(d)
  <2> DEFINE live  == ActiveAmong(x.row.remaining)
             tries == IF live = <<>> THEN 0 ELSE x.attempts
             place == IF live # <<>> THEN "sending"
                      ELSE IF x.applied = 1 THEN "dropping" ELSE "settlingLast"
  <2>1. live \in Seq(Channels) /\ tries \in Nat
    BY <1>1, ActiveAmongType
  <2>2. place \in DrainPhases \ {"claiming"} /\ (place = "sending" => live # <<>>)
    BY DEF DrainPhases
  <2>3. SetDrain(d, [drain[d] EXCEPT !.list = live, !.attempts = tries, !.pc = place])
    BY <1>11 DEF ListChannels, x
  <2> HIDE DEF live, tries, place
  <2>4. DrainOf([drain[d] EXCEPT !.list = live, !.attempts = tries, !.pc = place])
    BY <1>0, <2>1, <2>2 DEF DrainOf, Drain, x
  <2> QED
    BY <1>0, <1>2, <1>11, <2>3, <2>4, SetDrainType DEF ListChannels, store
<1>12. CASE ProviderAccepts(d)
  <2>1. /\ x.list # <<>> /\ Head(x.list) \in Channels /\ Tail(x.list) \in Seq(Channels)
    BY <1>0, <1>1, <1>12 DEF ProviderAccepts, DrainOf, x
  <2>2. Head(x.list) \in 0..NumChannels
    BY <2>1, StoreAssumption DEF Channels
  <2>3. DrainOf([drain[d] EXCEPT !.pc = "recording", !.sent = Head(x.list),
                                 !.list = Tail(x.list)])
    BY <1>0, <2>1, <2>2 DEF DrainOf, Drain, DrainPhases, x
  <2>4. DrainsOf'
    BY <1>0, <1>12, <2>3, SetDrainType DEF ProviderAccepts, x
  <2>5. visible' \in [Channels -> {"none", "down", "up", "relinked"}]
    BY <1>0, <1>12 DEF ProviderAccepts, Shows
  <2> QED
    BY <1>0, <1>2, <1>12, <2>4, <2>5 DEF ProviderAccepts
<1>13. CASE ProviderRejects(d)
  BY <1>0, <1>2, <1>13, DeferType DEF ProviderRejects, store
<1>14. CASE ProviderTimesOut(d)
  <2>1. visible' \in [Channels -> {"none", "down", "up", "relinked"}]
    BY <1>0, <1>14 DEF ProviderTimesOut, Shows
  <2> QED
    BY <1>0, <1>2, <1>14, <2>1, DeferType DEF ProviderTimesOut
<1>15. CASE RecordProgress(d)
  <2>1. Holds(d) => [Stored(d) EXCEPT !.remaining = x.list, !.attempts = 0,
                       !.delivered = Stored(d).delivered + 1, !.nextAt = x.at] \in Row
    <3>1. x.at \in Clock
      BY <1>1, <1>3
    <3>2. ASSUME NEW row \in Row, NEW n \in Nat
          PROVE  [row EXCEPT !.remaining = x.list, !.attempts = 0, !.delivered = n,
                             !.nextAt = x.at] \in Row
      BY <1>1, <3>1 DEF Row
    <3>3. Holds(d) => Stored(d).delivered + 1 \in Nat
      BY <1>4 DEF Row
    <3> QED
      BY <1>4, <3>2, <3>3
  <2>2. RowsOf(outbox')
    BY <1>0, <1>15, <2>1, WriteClaimedType DEF RecordProgress, x
  <2>3. x.at \in Clock
    BY <1>1, <1>3
  <2>4. \A pc \in DrainPhases \ {"claiming", "sending"} :
          DrainOf([drain[d] EXCEPT !.attempts = 0, !.retryAt = x.at, !.pc = pc])
    BY <1>0, <2>3 DEF DrainOf, Drain, x
  <2>5. DrainsOf'
    BY <1>0, <1>15, <2>4, SetDrainType DEF RecordProgress, DrainPhases, x
  <2> QED
    BY <1>0, <1>2, <1>15, <2>2, <2>5 DEF RecordProgress
<1>16. CASE StatementFails(d)
  BY <1>0, <1>2, <1>16, DeferType DEF StatementFails
<1>17. CASE Drop(d)
  BY <1>0, <1>2, <1>17, NextScanType, DeleteRowsType DEF Drop
<1>18. CASE Release(d)
  <2>1. NoClaim \in Drainers \union {NoClaim} /\ 0 \in Clock
    BY StoreAssumption DEF Clock
  <2>2. Holds(d) => [Stored(d) EXCEPT !.remaining = x.list, !.attempts = x.attempts,
                       !.nextAt = x.retryAt, !.token = NoClaim, !.until = 0] \in Row
    BY <1>1, <1>4, <2>1 DEF Row
  <2>3. RowsOf(outbox')
    BY <1>0, <1>18, <2>2, WriteClaimedType DEF Release, x
  <2> QED
    BY <1>0, <1>2, <1>18, <2>3, NextScanType DEF Release
<1>19. CASE LateRecoveryLookup(d)
  BY <1>0, <1>2, <1>19, DrainToType DEF LateRecoveryLookup, store, DrainPhases
<1>20. ASSUME NEW key \in Key, NEW wanted, NEW applied \in {0, 1}, Stage(d, key, wanted, applied)
       PROVE  RowsOf(outbox') /\ DrainsOf'
  <2>1. NewRow(drain[d].at, LinkedChannels, drain[d].at, applied) \in Row
    BY <1>1, <1>3, LinkedChannelsType, NewRowType DEF x
  <2>2. RowsOf(outbox')
    BY <1>0, <1>20, <2>1, InsertRowType DEF Stage
  <2>3. drain[d].at + 1 \in Nat
    BY <1>1, <1>3 DEF x
  <2>4. DrainsOf'
    BY <1>0, <1>20, <2>3, DrainToType, PutBackType DEF Stage, DrainPhases
  <2> QED
    BY <2>2, <2>4
<1>21. CASE StageRecovery(d)
  <2>1. AKey("recovery", drain[d].row.created) \in Key
    BY <1>1, KeyType DEF Kinds, Times, x
  <2> QED
    BY <1>0, <1>2, <1>20, <1>21, <2>1 DEF StageRecovery
<1>22. CASE StageAlert(d)
  <2>1. AKey("corrective", drain[d].key.of) \in Key
    BY <1>1, KeyType DEF Kinds, Key, x
  <2> QED
    BY <1>0, <1>2, <1>20, <1>22, <2>1 DEF StageAlert
<1>23. CASE CrashDrain(d)
  <2>1. DrainOf(Resting("idle", 0, 0))
    BY RestingType, StoreAssumption DEF Times, MaxAttempts
  <2> QED
    BY <1>0, <1>2, <1>23, <2>1, SetDrainType DEF CrashDrain
<1> QED
  BY <1>5, <1>6, <1>7, <1>8, <1>9, <1>10, <1>11, <1>12, <1>13, <1>14, <1>15, <1>16, <1>17,
     <1>18, <1>19, <1>21, <1>22, <1>23 DEF DrainStep, DrainFault

-----------------------------------------------------------------------------
LEMMA TypesStart == Init => TypeInv
<1> SUFFICES ASSUME Init PROVE TypeInv
  OBVIOUS
<1>1. NoAlert \in AlertRow /\ 1 \in 1..MaxTime /\ 0 \in Times
  BY StoreAssumption DEF NoAlert, AlertRow, Times, Clock
<1>2. StoreTypeOK
  BY <1>1 DEF Init, StoreInit, StoreTypeOK
<1>3. proc \in Handler
  BY EndingType DEF Init, Outcomes
<1>4. DrainOf(Resting("idle", 0, 0))
  BY <1>1, RestingType DEF MaxAttempts
<1>5. DrainsOf
  BY <1>4 DEF Init, DrainInit, DrainsOf, DrainOf
<1>6. used \in [observations: 0..MaxObservations, admin: 0..MaxAdmin, faults: 0..MaxFaults]
  BY AlertingAssumption DEF Init
<1> QED
  BY <1>2, <1>3, <1>5, <1>6 DEF TypeInv, TypeOK, DrainsOf

LEMMA AdminTypes ==
  ASSUME TypeInv, AdminStep
  PROVE  StoreTypeOK' /\ proc' \in Handler
<1>1. /\ now \in 1..MaxTime /\ proc \in Handler /\ alert \in AlertRow
      /\ incident \in [open: {0, 1}, count: Nat] /\ RowsOf(outbox)
      /\ visible \in [Channels -> {"none", "down", "up", "relinked"}]
      /\ window \in [from: Times, to: Times]
  BY DEF TypeInv, TypeOK, StoreTypeOK, RowsOf
<1>2. ASSUME now' = now, lastStatus' \in {lastStatus, "pending"}, alert' \in AlertRow,
             incident' \in [open: {0, 1}, count: Nat], RowsOf(outbox'),
             window' \in [from: Times, to: Times], active' \subseteq Channels,
             visible' \in [Channels -> {"none", "down", "up", "relinked"}],
             lapses' = lapses \/ lapses' = lapses \union {"forgotten"}
      PROVE  StoreTypeOK'
  BY <1>2 DEF TypeInv, TypeOK, StoreTypeOK, RowsOf
<1>3. active \subseteq Channels
  BY DEF TypeInv, TypeOK, StoreTypeOK
<1>4. CASE SetWindow
  <2>1. window' \in [from: Times, to: Times]
    BY <1>1, <1>4, StoreAssumption DEF SetWindow, Times
  <2> QED
    BY <1>1, <1>2, <1>3, <1>4, <2>1 DEF SetWindow, Admin
<1>5. ASSUME NEW c \in Channels, ToggleChannel(c) PROVE StoreTypeOK' /\ proc' \in Handler
  BY <1>1, <1>2, <1>3, <1>5 DEF ToggleChannel, Admin
<1>6. CASE ResetStats
  BY <1>1, <1>2, <1>3, <1>6, ForgottenType, EndHandlerType DEF ResetStats, Admin, Outcomes
<1>7. ASSUME NEW k \in DOMAIN outbox, RetryDelivery(k) PROVE StoreTypeOK' /\ proc' \in Handler
  <2>1. now \in Clock
    BY <1>1, StoreAssumption DEF Clock
  <2>2. [outbox[k] EXCEPT !.nextAt = now] \in Row
    BY <1>1, <2>1 DEF RowsOf, Row
  <2>3. RowsOf(outbox')
    BY <1>1, <1>7, <2>2, ReplaceRowType DEF RetryDelivery
  <2> QED
    BY <1>1, <1>2, <1>3, <1>7, <2>3 DEF RetryDelivery, Admin
<1> QED
  BY <1>4, <1>5, <1>6, <1>7 DEF AdminStep

LEMMA TypesStep == TypeInv /\ [Next]_vars => TypeInv'
<1> SUFFICES ASSUME TypeInv, [Next]_vars PROVE TypeInv'
  OBVIOUS
<1>0. /\ StoreTypeOK /\ proc \in Handler /\ DrainsOf
      /\ used \in [observations: 0..MaxObservations, admin: 0..MaxAdmin, faults: 0..MaxFaults]
  BY DEF TypeInv, TypeOK, DrainsOf
<1>1. ASSUME StoreTypeOK', proc' \in Handler, DrainsOf',
             used' \in [observations: 0..MaxObservations, admin: 0..MaxAdmin, faults: 0..MaxFaults]
      PROVE  TypeInv'
  BY <1>1 DEF TypeInv, TypeOK, DrainsOf
<1>2. drain' = drain => DrainsOf'
  BY <1>0 DEF DrainsOf, DrainOf
<1>3. CASE Tick
  <2>1. now + 1 \in 1..MaxTime
    BY <1>0, <1>3, StoreAssumption DEF Tick, StoreTypeOK
  <2>2. StoreTypeOK'
    BY <1>0, <1>3, <2>1 DEF Tick, StoreTypeOK, store
  <2> QED
    BY <1>0, <1>1, <1>2, <1>3, <2>2 DEF Tick
<1>4. CASE NewObservation
  <2>1. used' \in [observations: 0..MaxObservations, admin: 0..MaxAdmin, faults: 0..MaxFaults]
    BY <1>0, <1>4, AlertingAssumption DEF NewObservation
  <2>2. StoreTypeOK'
    BY <1>0, <1>4 DEF NewObservation, Observe, StoreTypeOK, store
  <2>3. ASSUME NEW s \in {"up", "down"}, Observe(s) PROVE proc' \in Handler
    <3> DEFINE phase == IF s = "up" THEN "recordUp" ELSE "window"
    <3>1. Ending(phase) \in Handler
      BY EndingType DEF HandlerPhases
    <3>2. now \in Times /\ lastStatus \in {"pending", "up", "down"}
      BY <1>0, StoreAssumption DEF StoreTypeOK, Times
    <3>3. proc' = [Ending(phase) EXCEPT !.at = now, !.seen = lastStatus]
      BY <2>3 DEF Observe
    <3> QED
      BY <3>1, <3>2, <3>3 DEF Handler
  <2> QED
    BY <1>0, <1>1, <1>2, <1>4, <2>1, <2>2, <2>3 DEF NewObservation
<1>5. CASE Handle
  <2>1. StoreTypeOK' /\ proc' \in Handler
    BY <1>5, HandlerTypes DEF Handle, TypeInv
  <2> QED
    BY <1>0, <1>1, <1>2, <1>5, <2>1 DEF Handle
<1>6. ASSUME NEW d \in Drainers, DrainOutbox(d) \/ FailDrain(d) PROVE TypeInv'
  <2>1. DrainStep(d) \/ DrainFault(d)
    BY <1>6 DEF DrainOutbox, FailDrain
  <2>2. used' \in [observations: 0..MaxObservations, admin: 0..MaxAdmin, faults: 0..MaxFaults]
    BY <1>0, <1>6, AlertingAssumption DEF DrainOutbox, FailDrain
  <2>3. proc' = proc
    BY <1>6 DEF DrainOutbox, FailDrain
  <2> QED
    BY <1>0, <1>1, <2>1, <2>2, <2>3, DrainTypes
<1>7. CASE AdminStep
  <2>1. used' \in [observations: 0..MaxObservations, admin: 0..MaxAdmin, faults: 0..MaxFaults]
    BY <1>0, <1>7, AlertingAssumption
       DEF AdminStep, SetWindow, ToggleChannel, ResetStats, RetryDelivery, Admin
  <2>2. drain' = drain
    BY <1>7 DEF AdminStep, SetWindow, ToggleChannel, ResetStats, RetryDelivery, Admin
  <2> QED
    BY <1>1, <1>2, <1>7, <2>1, <2>2, AdminTypes
<1>8. CASE UNCHANGED vars
  <2>1. StoreTypeOK'
    BY <1>0, <1>8 DEF vars, store, StoreTypeOK
  <2> QED
    BY <1>0, <1>1, <1>2, <1>8, <2>1 DEF vars
<1> QED
  BY <1>3, <1>4, <1>5, <1>6, <1>7, <1>8 DEF Next

\* Whatever interleaves, every row, drain and handler keeps its type: for one,
\* no drain sends a row none of whose channels is left, and none makes a third
\* provider attempt (alert-manager.ts 554-640).
THEOREM AlertingTypeOK == Spec => []TypeOK
<1>1. TypeInv => TypeOK
  BY DEF TypeInv
<1> QED
  BY <1>1, TypesStart, TypesStep, PTL DEF Spec

-----------------------------------------------------------------------------
(* Part 7: an outage that was shown is remembered.                         *)
(*                                                                         *)
(* Evidence leaves the outbox only with an alert recorded.  A handler that *)
(* cancels DOWN rows has looked for such evidence before, and nobody shows *)
(* an outage between its look and its cancellation, for the monitor is up. *)

Shown == \E c \in active : visible[c] = "down"
Announcing(d) ==
  drain[d].pc \in {"listing", "sending", "recording"} /\ Announces(drain[d].key)
Witnessed ==
  \/ alert.sentAt # 0
  \/ \E k \in DOMAIN outbox : Unrecorded(k)
  \/ \E d \in Drainers : drain[d].pc = "recording" /\ Announces(drain[d].key)

\* Rows that count as applied, and reminders, stand for a recorded alert.
Counted == \A k \in DOMAIN outbox : k.kind \in DownKinds /\ outbox[k].applied = 1
                                      => alert.sentAt # 0
Backed(d) ==
  /\ drain[d].pc = "noting" /\ drain[d].key.kind \in DownKinds => alert.sentAt # 0
  /\ drain[d].pc \in {"listing", "sending", "recording"} /\ drain[d].key.kind = "reminder"
       => alert.sentAt # 0
Spent(d) == drain[d].pc \in {"settling", "noting"} => drain[d].row.remaining = <<>>

\* What a handler that has looked for late DOWN rows may rely on.
Safe == alert.sentAt # 0 \/ (~Shown /\ \A d \in Drainers : ~Announcing(d))
Looking == proc.pc \in {"flip", "close", "evidence"} /\ proc.late # NoEvidence
CancelsSafely ==
  /\ proc.pc = "cancelDown" => Safe
  /\ Looking /\ (proc.late.kind = "reminder" \/ proc.late.applied = 1) => Safe
LookInv ==
  /\ proc.pc = "recordUp" => proc.late = NoEvidence
  /\ Looking => lastStatus = "up"

Remembers == (Shown => Witnessed) /\ Counted /\ (\A d \in Drainers : Backed(d)) /\ CancelsSafely
MemoryInv ==
  LookInv /\ (\A d \in Drainers : Spent(d)) /\ (lapses = {} => Remembers)

LEMMA LapsesGrow == [Next]_vars => lapses \subseteq lapses'
<1> SUFFICES ASSUME [Next]_vars PROVE lapses \subseteq lapses'
  OBVIOUS
<1>1. CASE UNCHANGED vars \/ Tick \/ NewObservation \/ AdminStep
  BY <1>1 DEF vars, store, Tick, NewObservation, Observe, AdminStep, SetWindow, ToggleChannel,
     ResetStats, RetryDelivery
<1>2. CASE Handle
  BY <1>2 DEF Handle, HandlerStep, CheckWindow, RecordFailed, ReadIncident, Reopen, ForgetAlerts,
     CancelRecovery, MarkDown, OpenIncident, RecordHealthy, Probe, SettlePending, CloseOnly,
     FlipUp, CloseIncidents, FindLateDown, RecordEvidence, CancelDown, RereadAlert,
     CheckWindowUp, MuteRecovery, ResetAlert, ClearSettled, ReadChannels, ApplyNow, Enqueue,
     ForgetsAlert, store
<1>3. ASSUME NEW d \in Drainers, DrainOutbox(d) \/ FailDrain(d)
      PROVE  lapses \subseteq lapses'
  BY <1>3 DEF OverlooksAlert, DrainOutbox, FailDrain, DrainStep, DrainFault, StartDrain, Claim,
     NothingToClaim, ReadSubject, Settle, NoteApplied, SettleLast, ListChannels,
     ProviderAccepts, ProviderRejects, RecordProgress, ApplySent, Drop, Release,
     LateDownEvidence, StageRecovery, LateRecoveryLookup, StageAlert, ProviderTimesOut,
     StatementFails, CrashDrain, store
<1> QED
  BY <1>1, <1>2, <1>3 DEF Next

-----------------------------------------------------------------------------
\* The handler: what it finds, and what it leaves of the outbox.
LEMMA HandlerKeepsRows ==
  ASSUME HandlerStep
  PROVE  /\ UNCHANGED <<active, visible>>
         /\ \A k \in DOMAIN outbox : k \in DOMAIN outbox' => outbox'[k] = outbox[k]
         /\ \A k \in DOMAIN outbox : k.kind \in DownKinds /\ ~CancelDown => k \in DOMAIN outbox'
         /\ \A k \in DOMAIN outbox' : k \notin DOMAIN outbox => outbox'[k].applied = 0
<1>1. CASE Enqueue
  <2> DEFINE row == NewRow(proc.at, proc.fan, FirstAttempt, 0)
  <2>1. InsertRow(proc.key, row) /\ UNCHANGED <<active, visible>>
    BY <1>1 DEF Enqueue
  <2>2. row.applied = 0
    BY DEF NewRow
  <2> HIDE DEF row
  <2> QED
    BY <2>1, <2>2 DEF InsertRow
<1>2. CASE CancelDown \/ CancelRecovery \/ MuteRecovery
  BY <1>2 DEF CancelDown, CancelRecovery, MuteRecovery, CancelUnclaimed, DeleteRows, DownKinds
<1>3. CASE ~(Enqueue \/ CancelDown \/ CancelRecovery \/ MuteRecovery)
  <2>1. UNCHANGED <<outbox, active, visible>>
    BY <1>3 DEF HandlerStep, CheckWindow, RecordFailed, ReadIncident, Reopen, ForgetAlerts,
       MarkDown, OpenIncident, RecordHealthy, Probe, SettlePending, CloseOnly,
       FlipUp, CloseIncidents, FindLateDown, RecordEvidence, RereadAlert,
       CheckWindowUp, ResetAlert, ClearSettled, ReadChannels, ApplyNow, store
  <2> QED
    BY <2>1
<1> QED
  BY <1>1, <1>2, <1>3

\* No row found means that nothing tells of an outage but alert_state: a drain
\* that is sending an alert holds its claim.
LEMMA NothingFound ==
  ASSUME ClaimInv, PunctualInv, Shown => Witnessed,
         \A k \in DOMAIN outbox : Announces(k) => ~PotentialDown(k)
  PROVE  Safe
<1>1. \A k \in DOMAIN outbox : ~Unrecorded(k)
  BY DEF Unrecorded, Announces, PotentialDown, DownKinds, Kinds
<1>2. ASSUME NEW d \in Drainers, Announcing(d) PROVE FALSE
  <2>1. InTime(d)
    BY <1>2 DEF PunctualInv, AtWork, Announcing
  <2>2. drain[d].key \in DOMAIN outbox /\ Live(drain[d].key) /\ Announces(drain[d].key)
    BY <1>2, <2>1, WorkIsLive DEF PunctualInv, Announcing
  <2>3. outbox[drain[d].key].until \in Nat /\ proc.at \in Nat /\ now \in Nat /\ proc.at <= now
    BY <2>2 DEF ClaimInv, ShapeInv, ClockInv, ProcInv, OutboxInv, IsRow
  <2> QED
    BY <2>2, <2>3 DEF Live, PotentialDown, Announces, DownKinds, Kinds
<1> QED
  BY <1>1, <1>2 DEF Safe, Witnessed, Announcing

LEMMA FoundIsSafe ==
  ASSUME ClaimInv, PunctualInv, Shown => Witnessed, Counted, NEW late \in LateDown
  PROVE  late = NoEvidence \/ late.kind = "reminder" \/ late.applied = 1 => Safe
<1> DEFINE found == {k \in DOMAIN outbox : PotentialDown(k)}
<1>1. CASE found = {}
  BY <1>1, NothingFound
<1>2. CASE found # {}
  <2>1. PICK k \in found : /\ \A j \in found : Preferred(k, j)
                           /\ late = [kind |-> k.kind, applied |-> outbox[k].applied,
                                      created |-> outbox[k].created, until |-> outbox[k].until]
    BY <1>2 DEF LateDown
  <2>2. late.kind = k.kind /\ late.applied = outbox[k].applied /\ k.kind \in DownKinds
    BY <2>1 DEF PotentialDown
  <2>3. late # NoEvidence
    BY <2>2 DEF NoEvidence, DownKinds, Kinds
  <2>4. CASE late.applied = 1
    BY <2>2, <2>4 DEF Counted, Safe
  <2>5. CASE late.kind = "reminder"
    <3>1. \A j \in found : j.kind = "reminder"
      BY <2>1, <2>2, <2>5 DEF Preferred
    <3> QED
      BY <3>1, NothingFound DEF Announces
  <2> QED
    BY <2>3, <2>4, <2>5
<1> QED
  BY <1>1, <1>2

LEMMA HandlerKeepsSafe ==
  ASSUME CountInv, HandlerStep, drain' = drain, lapses' = {}
  PROVE  Safe => Safe'
<1>1. UNCHANGED <<active, visible>> /\ AlertKept
  BY HandlerKeepsRows, HandlerKeepsAlert
<1> QED
  BY <1>1 DEF Safe, Shown, Announcing, AlertKept

\* The handler looks before it cancels.
LEMMA HandlerLooks ==
  ASSUME StatusInv, CountInv, LookInv, HandlerStep
  PROVE  LookInv'
<1> USE DEF LookInv, Looking
<1>1. proc'.pc = "recordUp" => FALSE
  <2>1. (\E o \in Outcomes : EndHandler(o)) \/ proc'.pc # "recordUp"
    BY DEF HandlerStep, CheckWindow, RecordFailed, ReadIncident, Reopen, ForgetAlerts,
       CancelRecovery, MarkDown, OpenIncident, RecordHealthy, Probe, SettlePending, CloseOnly,
       FlipUp, CloseIncidents, FindLateDown, RecordEvidence, CancelDown, RereadAlert,
       CheckWindowUp, MuteRecovery, ResetAlert, ClearSettled, ReadChannels, ApplyNow, Enqueue,
       Goto, Outcomes, StatusInv, ProcFields
  <2> QED
    BY <2>1, EndingRecord DEF EndHandler, Outcomes
<1>2. CASE FlipUp \/ CloseIncidents
  <2>1. proc'.late = proc.late /\ proc'.pc \in {"close", "find", "evidence"}
    BY <1>2 DEF FlipUp, CloseIncidents, Goto, StatusInv, ProcFields
  <2>2. lastStatus' = "up"
    BY <1>2 DEF FlipUp, CloseIncidents, StatusInv, ClosingPhases
  <2> QED
    BY <1>1, <2>2
<1>3. CASE Probe \/ FindLateDown
  <2>1. lastStatus' = "up"
    BY <1>3 DEF Probe, FindLateDown, StatusInv, RecoveryPhases, store
  <2> QED
    BY <1>1, <2>1
<1>4. CASE RecordHealthy
  <2>1. proc'.late = proc.late
    BY <1>4 DEF RecordHealthy, StatusInv, ProcFields
  <2> QED
    BY <1>1, <1>4, <2>1 DEF RecordHealthy
<1>5. CASE ~(FlipUp \/ CloseIncidents \/ Probe \/ FindLateDown \/ RecordHealthy)
  <2>1. (\E o \in Outcomes : EndHandler(o)) \/ proc'.pc \notin {"flip", "close", "evidence"}
    BY <1>5 DEF HandlerStep, CheckWindow, RecordFailed, ReadIncident, Reopen, ForgetAlerts,
       CancelRecovery, MarkDown, OpenIncident, SettlePending, CloseOnly,
       RecordEvidence, CancelDown, RereadAlert,
       CheckWindowUp, MuteRecovery, ResetAlert, ClearSettled, ReadChannels, ApplyNow, Enqueue,
       Goto, Outcomes, StatusInv, ProcFields
  <2>2. proc'.pc \notin {"flip", "close", "evidence"}
    BY <2>1, EndingRecord DEF EndHandler, Outcomes
  <2> QED
    BY <1>1, <2>2
<1> QED
  BY <1>2, <1>3, <1>4, <1>5

LEMMA HandlerCancelsSafely ==
  ASSUME ClaimInv, PunctualInv, StatusInv, CountInv, TypeInv, LookInv, Remembers,
         HandlerStep, drain' = drain, lapses' = {}
  PROVE  CancelsSafely'
<1> DEFINE Phases == {"flip", "close", "evidence", "cancelDown"}
<1>1. Safe => Safe'
  BY HandlerKeepsSafe
<1>2. CASE FlipUp \/ CloseIncidents
  <2>1. proc'.late = proc.late /\ proc'.pc \in {"close", "find", "evidence"}
        /\ proc.pc \in {"flip", "close"}
    BY <1>2 DEF FlipUp, CloseIncidents, Goto, StatusInv, ProcFields
  <2> QED
    BY <1>1, <2>1 DEF Remembers, CancelsSafely, Looking
<1>3. CASE Probe \/ FindLateDown
  <2>1. PICK late \in LateDown :
          /\ \E pc : proc' = [proc EXCEPT !.late = late, !.pc = pc]
          /\ proc'.pc = "cancelDown" => late = NoEvidence
    BY <1>3 DEF Probe, FindLateDown, StatusInv, ProcFields
  <2>2. proc'.late = late
    BY <2>1 DEF StatusInv, ProcFields
  <2>3. late = NoEvidence \/ late.kind = "reminder" \/ late.applied = 1 => Safe
    BY FoundIsSafe DEF Remembers
  <2> QED
    BY <1>1, <2>1, <2>2, <2>3 DEF CancelsSafely, Looking
<1>4. CASE RecordHealthy
  <2>1. proc'.late = NoEvidence /\ proc'.pc # "cancelDown"
    BY <1>4 DEF RecordHealthy, StatusInv, ProcFields, LookInv
  <2> QED
    BY <2>1 DEF CancelsSafely, Looking
<1>5. CASE RecordEvidence
  <2> DEFINE created == proc.late.created
             needed == proc.late.kind # "reminder" /\ proc.late.applied = 0
  <2>1. proc.late # NoEvidence /\ created \in Stamp /\ DOMAIN alert = AlertFields
    BY <1>5 DEF RecordEvidence, CountInv, Evidence, AlertCount
  <2>2. CASE ~needed
    <3>1. proc.late.applied \in {0, 1}
      BY DEF TypeInv, TypeOK, Handler
    <3>2. proc'.pc = "cancelDown" /\ Safe
      BY <1>5, <2>1, <2>2, <3>1
         DEF RecordEvidence, Goto, StatusInv, ProcFields, Remembers, CancelsSafely, Looking
    <3> QED
      BY <1>1, <3>2 DEF CancelsSafely, Looking
  <2>3. CASE needed /\ Applies("alert", created, TRUE)
    <3>1. alert'.sentAt # 0
      BY <1>5, <2>1, <2>3, ApplyKeepsAlert DEF RecordEvidence
    <3> QED
      BY <3>1 DEF CancelsSafely, Safe
  <2>4. CASE needed /\ ~Applies("alert", created, TRUE)
    <3>1. EndHandler("yielded")
      BY <1>5, <2>4 DEF RecordEvidence
    <3> QED
      BY <3>1, EndingRecord DEF EndHandler, CancelsSafely, Looking
  <2> QED
    BY <2>2, <2>3, <2>4
<1>6. CASE ~(FlipUp \/ CloseIncidents \/ Probe \/ FindLateDown \/ RecordHealthy \/ RecordEvidence)
  <2>1. (\E o \in Outcomes : EndHandler(o)) \/ proc'.pc \notin Phases
    BY <1>6 DEF HandlerStep, CheckWindow, RecordFailed, ReadIncident, Reopen, ForgetAlerts,
       CancelRecovery, MarkDown, OpenIncident, SettlePending, CloseOnly, CancelDown, RereadAlert,
       CheckWindowUp, MuteRecovery, ResetAlert, ClearSettled, ReadChannels, ApplyNow, Enqueue,
       Goto, Outcomes, StatusInv, ProcFields
  <2>2. proc'.pc \notin Phases
    BY <2>1, EndingRecord DEF EndHandler, Outcomes
  <2> QED
    BY <2>2 DEF CancelsSafely, Looking
<1> QED
  BY <1>2, <1>3, <1>4, <1>5, <1>6

LEMMA HandlerRemembers ==
  ASSUME ClaimInv, PunctualInv, StatusInv, CountInv, TypeInv, LookInv, Remembers,
         HandlerStep, drain' = drain, lapses' = {}
  PROVE  Remembers'
<1>1. /\ Shown' = Shown
      /\ alert.sentAt # 0 => alert'.sentAt # 0
  BY HandlerKeepsRows, HandlerKeepsAlert DEF Shown, AlertKept
<1>2. Shown' => Witnessed'
  <2>1. CASE CancelDown
    <3>1. Safe
      BY <2>1 DEF CancelDown, Remembers, CancelsSafely
    <3> QED
      BY <1>1, <3>1 DEF Safe, Witnessed
  <2>2. CASE ~CancelDown
    <3>1. \A k \in DOMAIN outbox : Unrecorded(k) => k \in DOMAIN outbox' /\ outbox'[k] = outbox[k]
      BY <2>2, HandlerKeepsRows DEF Unrecorded, DownKinds, Kinds
    <3> QED
      BY <1>1, <3>1 DEF Remembers, Witnessed, Unrecorded
  <2> QED
    BY <2>1, <2>2
<1>3. Counted'
  BY <1>1, HandlerKeepsRows DEF Remembers, Counted
<1>4. \A d \in Drainers : Backed(d)'
  BY <1>1 DEF Remembers, Backed
<1> QED
  BY <1>2, <1>3, <1>4, HandlerCancelsSafely DEF Remembers

-----------------------------------------------------------------------------
\* New observations, administrators and time.
LEMMA OtherStepsRemember ==
  ASSUME TypeInv, LookInv, NewObservation \/ AdminStep \/ Tick \/ UNCHANGED vars
  PROVE  LookInv' /\ drain' = drain /\ (Remembers /\ lapses' = {} => Remembers')
<1> USE DEF LookInv, Looking
<1>1. CASE NewObservation
  <2>1. PICK s \in {"up", "down"} : Observe(s)
    BY <1>1 DEF NewObservation
  <2> DEFINE phase == IF s = "up" THEN "recordUp" ELSE "window"
             first == Ending(phase)
  <2>2. /\ DOMAIN first = ProcFields /\ first.pc = phase /\ first.late = NoEvidence
        /\ phase \in {"recordUp", "window"}
    BY EndingRecord DEF Ending
  <2>3. /\ proc' = [first EXCEPT !.at = now, !.seen = lastStatus]
        /\ UNCHANGED <<store, drain>>
    BY <1>1, <2>1 DEF Observe, NewObservation
  <2> HIDE DEF first, phase
  <2>4. proc'.pc \in {"recordUp", "window"} /\ proc'.late = NoEvidence
    BY <2>2, <2>3 DEF ProcFields
  <2> QED
    BY <2>3, <2>4 DEF Remembers, Shown, Witnessed, Counted, Backed, CancelsSafely, Unrecorded, store
<1>2. CASE ResetStats
  <2>1. proc'.pc = "lost" /\ drain' = drain /\ lapses' # {}
    BY <1>2, EndingRecord DEF ResetStats, EndHandler, Admin
  <2> QED
    BY <2>1
<1>3. CASE \E c \in Channels : ToggleChannel(c)
  <2>1. PICK c \in Channels : ToggleChannel(c)
    BY <1>3
  <2>2. UNCHANGED <<lastStatus, alert, outbox, drain, proc>>
    BY <2>1 DEF ToggleChannel, Admin
  <2>3. Shown' => Shown
    <3>1. active \subseteq Channels /\ DOMAIN visible = Channels
      BY DEF TypeInv, TypeOK, StoreTypeOK
    <3>2. visible'[c] = "relinked" /\ \A x \in Channels \ {c} : visible'[x] = visible[x]
      BY <2>1, <3>1 DEF ToggleChannel
    <3>3. \A x \in active' : x = c \/ x \in active
      BY <2>1 DEF ToggleChannel
    <3> QED
      BY <3>1, <3>2, <3>3 DEF Shown
  <2>4. Safe => Safe'
    BY <2>2, <2>3 DEF Safe, Announcing
  <2> QED
    BY <2>2, <2>3, <2>4 DEF Remembers, Witnessed, Counted, Backed, CancelsSafely, Unrecorded
<1>4. CASE \E k \in DOMAIN outbox : RetryDelivery(k)
  <2>1. PICK k \in DOMAIN outbox : RetryDelivery(k)
    BY <1>4
  <2> DEFINE row == [outbox[k] EXCEPT !.nextAt = now]
  <2>2. /\ outbox' = [outbox EXCEPT ![k] = row]
        /\ UNCHANGED <<lastStatus, alert, active, visible, drain, proc>>
    BY <2>1 DEF RetryDelivery, Admin
  <2>3. row.delivered = outbox[k].delivered /\ row.applied = outbox[k].applied
    BY DEF TypeInv, TypeOK, StoreTypeOK, Row
  <2> HIDE DEF row
  <2>4. DOMAIN outbox' = DOMAIN outbox
        /\ \A j \in DOMAIN outbox : /\ outbox'[j].delivered = outbox[j].delivered
                                    /\ outbox'[j].applied = outbox[j].applied
    BY <2>2, <2>3
  <2>5. Safe => Safe'
    BY <2>2 DEF Safe, Announcing, Shown
  <2> QED
    BY <2>2, <2>4, <2>5 DEF Remembers, Shown, Witnessed, Counted, Backed, CancelsSafely, Unrecorded
<1>5. CASE SetWindow \/ Tick \/ UNCHANGED vars
  <2>1. UNCHANGED <<lastStatus, alert, outbox, active, visible, drain, proc>>
    BY <1>5 DEF SetWindow, Admin, Tick, vars, store
  <2> QED
    BY <2>1 DEF Remembers, Shown, Witnessed, Counted, Backed, CancelsSafely, Safe, Announcing,
       Unrecorded
<1> QED
  BY <1>1, <1>2, <1>3, <1>4, <1>5 DEF AdminStep

-----------------------------------------------------------------------------
\* A drain.  What its step may do to the alert, the rows and the channels, and
\* what it must know afterwards; the excuses are excluded by lapses' = {}.
AlertStands(d) ==
  alert.sentAt # 0 /\ alert'.sentAt = 0 =>
    /\ ~Shown /\ AtWork(d) /\ drain[d].key.kind = "recovery"
    /\ \A k \in DOMAIN outbox : k.kind \in DownKinds => outbox[k].applied # 1
    /\ UNCHANGED <<outbox, visible>>
    /\ SameTurn(d)
Recalled == alert.sentAt # 0 /\ alert' = alert
RowsStand ==
  /\ \A k \in DOMAIN outbox :
       Unrecorded(k) => (k \in DOMAIN outbox' /\ Unrecorded(k)') \/ Recalled
  /\ \A k \in DOMAIN outbox' :
       k.kind \in DownKinds /\ outbox'[k].applied = 1
         => (k \in DOMAIN outbox /\ outbox[k].applied = 1) \/ Recalled
SendsKnowingly(d) ==
  Shown' => Shown \/ Recalled \/ (drain'[d].pc = "recording" /\ Announcing(d)')
Notes(d) ==
  drain[d].pc = "recording" /\ Announces(drain[d].key)
    => Recalled \/ \E k \in DOMAIN outbox' : Unrecorded(k)'
DrainRecalls(d) ==
  AlertStands(d) /\ RowsStand /\ SendsKnowingly(d) /\ Notes(d) /\ Backed(d)'
    /\ (Announcing(d)' => Announcing(d) \/ lastStatus = "down")

LEMMA RecallingDrainRemembers ==
  ASSUME ClaimInv, PunctualInv, StatusInv, LookInv, Remembers,
         NEW d \in Drainers, DrainRecalls(d), \A e \in Drainers \ {d} : drain'[e] = drain[e],
         UNCHANGED <<lastStatus, proc, active>>
  PROVE  Remembers'
<1>1. ASSUME alert.sentAt # 0, alert'.sentAt = 0, NEW e \in Drainers \ {d} PROVE ~AtWork(e)
  <2>1. AtWork(d)
    BY <1>1 DEF DrainRecalls, AlertStands
  <2>2. OneDrainAtWork
    BY TurnsAreTaken DEF PunctualInv
  <2> QED
    BY <1>1, <2>1, <2>2 DEF OneDrainAtWork, PunctualInv
<1>2. Shown' => Witnessed'
  <2> SUFFICES ASSUME Shown' PROVE Witnessed'
    OBVIOUS
  <2>1. CASE Recalled
    BY <2>1 DEF Recalled, Witnessed
  <2>2. CASE ~Recalled /\ drain'[d].pc = "recording" /\ Announcing(d)'
    BY <2>2 DEF Witnessed, Announcing
  <2>3. CASE ~Recalled /\ Shown
    <3>1. CASE alert.sentAt # 0
      BY <2>3, <3>1 DEF DrainRecalls, AlertStands, Witnessed
    <3>2. ASSUME NEW k \in DOMAIN outbox, Unrecorded(k) PROVE Witnessed'
      BY <2>3, <3>2 DEF DrainRecalls, RowsStand, Witnessed
    <3>3. ASSUME NEW e \in Drainers, drain[e].pc = "recording", Announces(drain[e].key)
          PROVE  Witnessed'
      <4>1. CASE e = d
        BY <2>3, <3>3, <4>1 DEF DrainRecalls, Notes, Witnessed
      <4>2. CASE e # d
        BY <3>3, <4>2 DEF Witnessed
      <4> QED
        BY <4>1, <4>2
    <3> QED
      BY <2>3, <3>1, <3>2, <3>3 DEF Remembers, Witnessed
  <2> QED
    BY <2>1, <2>2, <2>3 DEF DrainRecalls, SendsKnowingly
<1>3. Counted'
  BY DEF DrainRecalls, RowsStand, AlertStands, Remembers, Counted, Recalled
<1>4. ASSUME NEW e \in Drainers PROVE Backed(e)'
  <2>1. CASE e = d
    BY <2>1 DEF DrainRecalls
  <2>2. CASE e # d /\ alert.sentAt # 0 /\ alert'.sentAt = 0
    BY <1>1, <2>2 DEF Backed, AtWork
  <2>3. CASE e # d /\ (alert.sentAt # 0 => alert'.sentAt # 0)
    BY <2>3 DEF Remembers, Backed
  <2> QED
    BY <2>1, <2>2, <2>3
<1>5. lastStatus = "up" /\ Safe => Safe'
  <2> SUFFICES ASSUME lastStatus = "up", Safe, alert'.sentAt = 0 PROVE Safe'
    BY DEF Safe
  <2>1. CASE alert.sentAt # 0
    <3>1. ~Shown' /\ ~Announcing(d)'
      BY <2>1 DEF DrainRecalls, AlertStands, Shown, SameTurn, Announcing, Announces
    <3>2. \A e \in Drainers \ {d} : ~Announcing(e)'
      BY <1>1, <2>1 DEF Announcing, AtWork
    <3> QED
      BY <3>1, <3>2 DEF Safe
  <2>2. CASE alert.sentAt = 0
    <3>1. ~Shown /\ \A e \in Drainers : ~Announcing(e)
      BY <2>2 DEF Safe
    <3>2. \A e \in Drainers : ~Announcing(e)'
      BY <3>1 DEF DrainRecalls, Announcing
    <3>3. ~Shown'
      BY <2>2, <3>1, <3>2 DEF DrainRecalls, SendsKnowingly, Recalled
    <3> QED
      BY <3>2, <3>3 DEF Safe
  <2> QED
    BY <2>1, <2>2
<1>6. CancelsSafely'
  BY <1>5 DEF Remembers, CancelsSafely, Looking, LookInv, StatusInv, RecoveryPhases
<1> QED
  BY <1>2, <1>3, <1>4, <1>6 DEF Remembers

\* Its own steps.
LEMMA DrainKeepsSpent ==
  ASSUME ShapeInv, NEW d \in Drainers, Spent(d), DrainOutbox(d) \/ FailDrain(d)
  PROVE  Spent(d)'
<1> DEFINE Sparing == {"settling", "noting"}
<1>1. DOMAIN drain = Drainers /\ DOMAIN drain[d] = DrainFields
  BY DEF ShapeInv, DrainInv, DrainRec
<1>2. CASE ReadSubject(d)
  <2>1. CASE PutBack(d, window.to + 1)
    BY <2>1, UpdateKeepsTurn DEF Spent
  <2>2. CASE SetDrain(d, [drain[d] EXCEPT !.pc = Route(d), !.status = lastStatus,
                                          !.sentAt = alert.sentAt])
    <3>1. drain'[d].row = drain[d].row /\ drain'[d].pc = Route(d)
      BY <1>1, <2>2 DEF SetDrain, DrainFields
    <3> QED
      BY <3>1 DEF Route, Onwards, Spent
  <2> QED
    BY <1>2, <2>1, <2>2 DEF ReadSubject
<1>3. CASE Settle(d)
  <2>1. \E pc : DrainTo(d, pc)
    BY <1>3 DEF Settle, DrainTo
  <2>2. drain'[d].row = drain[d].row
    BY <1>1, <2>1 DEF DrainTo, SetDrain, DrainFields
  <2> QED
    BY <1>3, <2>2 DEF Settle, Spent
<1>4. CASE NoteApplied(d)
  <2> DEFINE next == Onwards(d, drain[d].status, drain[d].sentAt, 1)
  <2>1. SetDrain(d, [drain[d] EXCEPT !.applied = 1, !.pc = next]) /\ next \notin Sparing
    BY <1>4 DEF NoteApplied, Onwards
  <2> HIDE DEF next
  <2>2. drain'[d].pc = next
    BY <1>1, <2>1 DEF SetDrain, DrainFields
  <2> QED
    BY <2>1, <2>2 DEF Spent
<1>5. CASE ~(ReadSubject(d) \/ Settle(d) \/ NoteApplied(d))
  <2>1. drain'[d].pc \notin Sparing
    <3>1. CASE (\E n \in 1..MaxAttempts : StartDrain(d, n)) \/ NothingToClaim(d) \/ Drop(d)
               \/ Release(d) \/ CrashDrain(d)
      <4>1. \E pc \in {"idle", "claiming"} : \E at, left : drain'[d] = Resting(pc, at, left)
        BY <1>1, <3>1 DEF StartDrain, NothingToClaim, Drop, Release, CrashDrain, NextScan, SetDrain
      <4> QED
        BY <4>1, RestingRecord
    <3>2. ASSUME NEW k \in DOMAIN outbox, Claim(d, k) PROVE drain'[d].pc \notin Sparing
      <4> DEFINE x == [Resting("reading", drain[d].at, drain[d].left - 1) EXCEPT
                         !.key = k, !.row = outbox[k], !.applied = outbox[k].applied,
                         !.list = outbox[k].remaining, !.attempts = outbox[k].attempts]
      <4>1. SetDrain(d, x)
        BY <3>2 DEF Claim
      <4>2. x.pc = "reading"
        BY RestingRecord DEF DrainFields
      <4> HIDE DEF x
      <4> QED
        BY <1>1, <4>1, <4>2 DEF SetDrain
    <3>3. CASE SettleLast(d) \/ ApplySent(d) \/ LateDownEvidence(d) \/ StageRecovery(d)
               \/ StageAlert(d) \/ LateRecoveryLookup(d) \/ ProviderRejects(d)
               \/ ProviderTimesOut(d) \/ StatementFails(d)
      <4>1. \/ \E t : PutBack(d, t)
            \/ \E pc \in DrainPhases \ Sparing : DrainTo(d, pc)
            \/ Defer(d)
        BY <3>3 DEF SettleLast, ApplySent, LateDownEvidence, StageRecovery, StageAlert, Stage,
           LateRecoveryLookup, ProviderRejects, ProviderTimesOut, StatementFails, DrainPhases
      <4> QED
        BY <4>1, UpdateKeepsTurn
    <3>4. CASE ListChannels(d)
      <4>1. \E pc \in DrainPhases \ Sparing : \E list, attempts :
              SetDrain(d, [drain[d] EXCEPT !.list = list, !.attempts = attempts, !.pc = pc])
        BY <3>4 DEF ListChannels, DrainPhases
      <4> QED
        BY <1>1, <4>1 DEF SetDrain, DrainFields
    <3>5. CASE ProviderAccepts(d)
      <4>1. \E sent, list :
              SetDrain(d, [drain[d] EXCEPT !.pc = "recording", !.sent = sent, !.list = list])
        BY <3>5 DEF ProviderAccepts
      <4> QED
        BY <1>1, <4>1 DEF SetDrain, DrainFields
    <3>6. CASE RecordProgress(d)
      <4>1. \E pc \in DrainPhases \ Sparing :
              SetDrain(d, [drain[d] EXCEPT !.attempts = 0, !.retryAt = drain[d].at, !.pc = pc])
        BY <3>6 DEF RecordProgress, DrainPhases
      <4> QED
        BY <1>1, <4>1 DEF SetDrain, DrainFields
    <3> QED
      BY <1>5, <3>1, <3>2, <3>3, <3>4, <3>5, <3>6 DEF DrainOutbox, FailDrain, DrainStep, DrainFault
  <2> QED
    BY <2>1 DEF Spent
<1> QED
  BY <1>2, <1>3, <1>4, <1>5

LEMMA StandingStill ==
  ASSUME NEW d \in Drainers, UNCHANGED <<alert, active>>
  PROVE  /\ AlertStands(d)
         /\ outbox' = outbox => RowsStand
         /\ visible' = visible => SendsKnowingly(d)
BY DEF AlertStands, RowsStand, SendsKnowingly, Unrecorded, Shown

\* A drain that is neither noting nor announcing has nothing to know.
Reserved(d) == drain[d].pc \notin {"noting", "listing", "sending", "recording"}
LEMMA ReservedDrain ==
  ASSUME NEW d \in Drainers, Reserved(d)'
  PROVE  Backed(d)' /\ ~Announcing(d)'
BY DEF Reserved, Backed, Announcing

LEMMA QuietDrainRecalls ==
  ASSUME ShapeInv, PunctualInv, TypeInv, NoticeInv, Remembers, lapses = {}, lapses' = {},
         NEW d \in Drainers,
         \/ \E n \in 1..MaxAttempts : StartDrain(d, n)
         \/ NothingToClaim(d) \/ ReadSubject(d) \/ ListChannels(d) \/ ProviderRejects(d)
         \/ LateRecoveryLookup(d) \/ DrainFault(d)
  PROVE  DrainRecalls(d)
<1>1. ~ProviderTimesOut(d)
  BY DEF ProviderTimesOut
<1>2. UNCHANGED <<alert, outbox, active, visible>>
  BY <1>1 DEF StartDrain, NothingToClaim, ReadSubject, ListChannels, ProviderRejects,
     LateRecoveryLookup, DrainFault, StatementFails, CrashDrain, store
<1>3. drain[d].pc # "recording"
  BY DEF StartDrain, NothingToClaim, ReadSubject, ListChannels, ProviderRejects,
     LateRecoveryLookup, DrainFault, StatementFails, CrashDrain, ProviderTimesOut
<1>4. ASSUME Backed(d)', Announcing(d)' => Announcing(d) \/ lastStatus = "down"
      PROVE  DrainRecalls(d)
  BY <1>2, <1>3, <1>4, StandingStill DEF DrainRecalls, Notes
<1>5. CASE Reserved(d)'
  BY <1>4, <1>5, ReservedDrain
<1>6. CASE ReadSubject(d) /\ ~Reserved(d)'
  <2>1. SetDrain(d, [drain[d] EXCEPT !.pc = Route(d), !.status = lastStatus,
                                     !.sentAt = alert.sentAt])
    BY <1>6, UpdateKeepsTurn DEF ReadSubject, Reserved
  <2>2. SameCopy(d) /\ drain'[d].pc = Route(d)
    BY <2>1, UpdateKeepsTurn
  <2>3. AtWork(d) /\ drain[d].key \in DOMAIN outbox
        /\ drain[d].row.applied = outbox[drain[d].key].applied
    BY <1>6, WorkHolds DEF ReadSubject, AtWork, NoticeInv, Notice, Informed
  <2>4. drain'[d].pc = "listing"
    BY <1>6, <2>2 DEF Reserved, Route, Onwards
  <2>5. Relevant(d, lastStatus, alert.sentAt, drain[d].row.applied)
    BY <2>2, <2>4 DEF Route, Onwards
  <2>6. drain[d].key.kind = "reminder" => alert.sentAt # 0
    BY <2>3, <2>5 DEF Relevant, Remembers, Counted, DownKinds, Kinds
  <2>7. Announces(drain[d].key) => lastStatus = "down"
    BY <2>5 DEF Relevant, Announces
  <2> QED
    BY <1>2, <1>4, <2>2, <2>4, <2>6, <2>7 DEF Backed, Announcing, SameCopy, SameTurn
<1>7. CASE ListChannels(d)
  <2>1. \A pc, list, attempts :
          SetDrain(d, [drain[d] EXCEPT !.list = list, !.attempts = attempts, !.pc = pc])
            => SameCopy(d) /\ drain'[d].pc = pc
    BY UpdateKeepsTurn
  <2>2. \E pc \in {"sending", "dropping", "settlingLast"} : \E list, attempts :
          SetDrain(d, [drain[d] EXCEPT !.list = list, !.attempts = attempts, !.pc = pc])
    BY <1>7 DEF ListChannels
  <2>3. SameCopy(d) /\ drain'[d].pc \in {"sending", "dropping", "settlingLast"}
    BY <2>1, <2>2
  <2>4. Backed(d) /\ drain[d].pc = "listing"
    BY <1>7 DEF Remembers, ListChannels
  <2> QED
    BY <1>2, <1>4, <2>3, <2>4 DEF Backed, Announcing, SameCopy, SameTurn
<1>8. CASE ~(ReadSubject(d) \/ ListChannels(d))
  <2>1. \/ \E pc \in {"idle", "claiming"} : \E at, left : drain'[d] = Resting(pc, at, left)
        \/ DrainTo(d, "dropping") \/ DrainTo(d, "stageAlert") \/ Defer(d)
    BY <1>1, <1>8 DEF StartDrain, NothingToClaim, ProviderRejects,
       LateRecoveryLookup, DrainFault, StatementFails, CrashDrain, SetDrain, ShapeInv, DrainInv
  <2>2. drain'[d].pc \in {"idle", "claiming", "dropping", "stageAlert", "releasing"}
    <3>1. \A pc, at, left : Resting(pc, at, left).pc = pc
      BY RestingRecord
    <3>2. \A pc : DrainTo(d, pc) => drain'[d].pc = pc
      BY UpdateKeepsTurn
    <3>3. Defer(d) => drain'[d].pc = "releasing"
      BY UpdateKeepsTurn
    <3> QED
      BY <2>1, <3>1, <3>2, <3>3
  <2> QED
    BY <1>5, <2>2 DEF Reserved
<1> QED
  BY <1>5, <1>6, <1>7, <1>8

\* The rows a step rewrites keep what is known of them.
LEMMA RewritingRecalls ==
  ASSUME ShapeInv, NEW d \in Drainers, UNCHANGED <<alert, active, visible>>, Reserved(d)',
         drain[d].pc # "recording",
         NEW k \in DOMAIN outbox, NEW row, outbox' = [outbox EXCEPT ![k] = row],
         Unrecorded(k) => (row.delivered > 0 /\ row.applied = 0) \/ alert.sentAt # 0,
         k.kind \in DownKinds /\ row.applied = 1 => outbox[k].applied = 1 \/ alert.sentAt # 0
  PROVE  DrainRecalls(d)
<1>1. DOMAIN outbox' = DOMAIN outbox /\ outbox'[k] = row
      /\ \A j \in DOMAIN outbox \ {k} : outbox'[j] = outbox[j]
  OBVIOUS
<1>2. RowsStand
  BY <1>1 DEF RowsStand, Unrecorded, Recalled
<1> QED
  BY <1>2, StandingStill, ReservedDrain DEF DrainRecalls, Notes

LEMMA ClaimRecalls ==
  ASSUME ShapeInv, NEW d \in Drainers, NEW k \in DOMAIN outbox, Claim(d, k)
  PROVE  DrainRecalls(d)
<1> DEFINE claimed == [outbox[k] EXCEPT !.token = d, !.until = Later(drain[d].at + ClaimSeconds)]
           x == [Resting("reading", drain[d].at, drain[d].left - 1) EXCEPT
                   !.key = k, !.row = outbox[k], !.applied = outbox[k].applied,
                   !.list = outbox[k].remaining, !.attempts = outbox[k].attempts]
<1>1. /\ drain[d].pc = "claiming" /\ outbox' = [outbox EXCEPT ![k] = claimed] /\ SetDrain(d, x)
      /\ UNCHANGED <<alert, active, visible>>
  BY DEF Claim
<1>2. claimed.delivered = outbox[k].delivered /\ claimed.applied = outbox[k].applied
  BY DEF ShapeInv, OutboxInv, IsRow, RowFields
<1>3. x.pc = "reading"
  BY RestingRecord DEF DrainFields
<1> HIDE DEF claimed, x
<1>4. Reserved(d)'
  BY <1>1, <1>3 DEF Reserved, SetDrain, ShapeInv, DrainInv
<1> QED
  BY <1>1, <1>2, <1>4, RewritingRecalls DEF Unrecorded

LEMMA WritingRecalls ==
  ASSUME ShapeInv, PunctualInv, TypeInv, NoticeInv, Remembers, lapses = {},
         NEW d \in Drainers, Spent(d), NoteApplied(d) \/ Release(d) \/ Drop(d)
  PROVE  DrainRecalls(d)
<1> DEFINE k == drain[d].key
<1>1. /\ UNCHANGED <<alert, active, visible>> /\ AtWork(d)
      /\ drain[d].pc \in {"noting", "releasing", "dropping"}
  BY DEF NoteApplied, Release, Drop, AtWork
<1>2. Holds(d) /\ k \in DOMAIN outbox /\ IsRow(Stored(d)) /\ Stored(d) = outbox[k]
  BY <1>1, WorkHolds, StoredRow DEF Stored
<1>3. CASE NoteApplied(d)
  <2> DEFINE next == Onwards(d, drain[d].status, drain[d].sentAt, 1)
             row  == [Stored(d) EXCEPT !.applied = 1]
  <2>1. /\ outbox' = [outbox EXCEPT ![k] = row]
        /\ SetDrain(d, [drain[d] EXCEPT !.applied = 1, !.pc = next])
    BY <1>2, <1>3 DEF NoteApplied, WriteClaimed
  <2>2. next = "dropping"
    BY <1>3 DEF NoteApplied, Spent, Onwards
  <2> HIDE DEF next, row
  <2>3. Reserved(d)'
    BY <2>1, <2>2, UpdateKeepsTurn DEF Reserved
  <2>4. k.kind \in DownKinds => alert.sentAt # 0
    BY <1>3 DEF NoteApplied, Remembers, Backed
  <2> QED
    BY <1>1, <1>2, <2>1, <2>3, <2>4, RewritingRecalls DEF Unrecorded, DownKinds, Kinds
<1>4. CASE Release(d)
  <2> DEFINE row == [Stored(d) EXCEPT !.remaining = drain[d].list, !.attempts = drain[d].attempts,
                       !.nextAt = drain[d].retryAt, !.token = NoClaim, !.until = 0]
  <2>1. outbox' = [outbox EXCEPT ![k] = row] /\ NextScan(d)
    BY <1>2, <1>4 DEF Release, WriteClaimed
  <2>2. row.delivered = outbox[k].delivered /\ row.applied = outbox[k].applied
    BY <1>2 DEF IsRow, RowFields
  <2> HIDE DEF row
  <2>3. Reserved(d)'
    BY <2>1, RestingRecord DEF NextScan, SetDrain, Reserved, ShapeInv, DrainInv
  <2> QED
    BY <1>1, <1>2, <2>1, <2>2, <2>3, RewritingRecalls DEF Unrecorded
<1>5. CASE Drop(d)
  <2>1. DeleteRows({k}) /\ NextScan(d) /\ drain[d].pc = "dropping"
    BY <1>2, <1>5 DEF Drop
  <2>2. Reserved(d)'
    BY <2>1, RestingRecord DEF NextScan, SetDrain, Reserved, ShapeInv, DrainInv
  <2>3. Unrecorded(k) => alert.sentAt # 0
    BY <1>1, <2>1 DEF NoticeInv, Notice, Informed, Clean
  <2>4. RowsStand
    BY <1>1, <2>1, <2>3 DEF DeleteRows, RowsStand, Unrecorded, Recalled
  <2> QED
    BY <1>1, <2>1, <2>2, <2>4, StandingStill, ReservedDrain DEF DrainRecalls, Notes
<1> QED
  BY <1>3, <1>4, <1>5

\* What the provider has accepted is noted before the row is given back.
LEMMA ProgressRecalls ==
  ASSUME ShapeInv, PunctualInv, TypeInv, NoticeInv, Remembers,
         NEW d \in Drainers, RecordProgress(d)
  PROVE  DrainRecalls(d)
<1> DEFINE k    == drain[d].key
           next == IF drain[d].list # <<>> THEN "releasing"
                   ELSE IF drain[d].applied = 1 THEN "dropping" ELSE "applying"
           row  == [Stored(d) EXCEPT !.remaining = drain[d].list, !.attempts = 0,
                      !.delivered = Stored(d).delivered + 1, !.nextAt = drain[d].at]
<1>1. /\ AtWork(d) /\ WriteClaimed(d, row) /\ drain[d].pc = "recording"
      /\ SetDrain(d, [drain[d] EXCEPT !.attempts = 0, !.retryAt = drain[d].at, !.pc = next])
      /\ UNCHANGED <<alert, active, visible>>
  BY DEF RecordProgress, AtWork
<1>2. Holds(d) /\ k \in DOMAIN outbox /\ Stored(d) = outbox[k] /\ outbox[k] \in Row
  BY <1>1, WorkHolds DEF Stored, TypeInv, TypeOK, StoreTypeOK
<1>3. row.applied = outbox[k].applied /\ row.applied \in {0, 1} /\ row.delivered > 0
  BY <1>2 DEF Row
<1>4. next \in {"releasing", "dropping", "applying"}
  OBVIOUS
<1> HIDE DEF row, next
<1>5. outbox' = [outbox EXCEPT ![k] = row]
  BY <1>1, <1>2 DEF WriteClaimed
<1>6. Reserved(d)'
  <2>1. \A pc, attempts, retryAt :
          SetDrain(d, [drain[d] EXCEPT !.attempts = attempts, !.retryAt = retryAt, !.pc = pc])
            => drain'[d].pc = pc
    BY UpdateKeepsTurn
  <2> QED
    BY <1>1, <1>4, <2>1 DEF Reserved
<1>7. outbox'[k] = row /\ DOMAIN outbox' = DOMAIN outbox
      /\ \A j \in DOMAIN outbox \ {k} : outbox'[j] = outbox[j]
  BY <1>2, <1>5
<1>8. RowsStand
  BY <1>3, <1>7 DEF RowsStand, Unrecorded
<1>9. Notes(d)
  <2>1. CASE row.applied = 1
    BY <1>1, <1>2, <1>3, <2>1 DEF Remembers, Counted, Announces, DownKinds, Kinds, Notes, Recalled
  <2>2. CASE row.applied = 0
    BY <1>2, <1>3, <1>7, <2>2 DEF Announces, Unrecorded, Notes
  <2> QED
    BY <1>3, <2>1, <2>2
<1> QED
  BY <1>1, <1>6, <1>8, <1>9, StandingStill, ReservedDrain DEF DrainRecalls

\* A recovery is staged unapplied, a corrective alert only with an alert recorded.
LEMMA StagingRecalls ==
  ASSUME ShapeInv, lapses' = {}, NEW d \in Drainers, StageRecovery(d) \/ StageAlert(d)
  PROVE  DrainRecalls(d)
<1>1. /\ UNCHANGED <<alert, active, visible>>
      /\ drain[d].pc \in {"stageRecovery", "stageAlert"}
      /\ DrainTo(d, "dropping") \/ PutBack(d, drain[d].at + 1)
  BY DEF StageRecovery, StageAlert, Stage
<1>2. Reserved(d)'
  <2>1. drain'[d].pc \in {"dropping", "releasing"}
    BY <1>1, UpdateKeepsTurn
  <2> QED
    BY <2>1 DEF Reserved
<1>3. \A at, channels, next, applied : NewRow(at, channels, next, applied).applied = applied
  BY DEF NewRow
<1>4. \/ outbox' = outbox
      \/ \E key, row : InsertRow(key, row) /\ (row.applied = 1 => alert.sentAt # 0)
  <2>1. CASE StageRecovery(d)
    BY <1>3, <2>1 DEF StageRecovery, Stage
  <2>2. CASE StageAlert(d)
    BY <1>3, <2>2 DEF StageAlert, Stage
  <2> QED
    BY <2>1, <2>2
<1>5. RowsStand
  <2>1. CASE outbox' = outbox
    BY <1>1, <2>1, StandingStill
  <2>2. ASSUME NEW key, NEW row, InsertRow(key, row), row.applied = 1 => alert.sentAt # 0
        PROVE  RowsStand
    BY <1>1, <2>2 DEF InsertRow, RowsStand, Unrecorded, Recalled
  <2> QED
    BY <1>4, <2>1, <2>2
<1> QED
  BY <1>1, <1>2, <1>5, StandingStill, ReservedDrain DEF DrainRecalls, Notes

LEMMA SendingRecalls ==
  ASSUME ShapeInv, TypeInv, Remembers, NEW d \in Drainers, ProviderAccepts(d)
  PROVE  DrainRecalls(d)
<1> DEFINE c    == Head(drain[d].list)
           rest == Tail(drain[d].list)
           k    == drain[d].key
<1>1. /\ drain[d].pc = "sending" /\ visible' = [visible EXCEPT ![c] = Shows(d)]
      /\ UNCHANGED <<alert, outbox, active>>
      /\ SetDrain(d, [drain[d] EXCEPT !.pc = "recording", !.sent = c, !.list = rest])
  BY DEF ProviderAccepts
<1>2. SameCopy(d) /\ drain'[d].pc = "recording"
  BY <1>1, UpdateKeepsTurn
<1>3. k.kind \in Kinds
  BY DEF TypeInv, TypeOK, Drain, Key
<1>4. Backed(d)' /\ (Announcing(d)' => Announcing(d))
  BY <1>1, <1>2 DEF Remembers, Backed, Announcing, SameCopy, SameTurn
<1> HIDE DEF c, rest
<1>5. SendsKnowingly(d)
  <2>1. CASE k.kind = "recovery"
    <3>1. active \subseteq Channels /\ DOMAIN visible = Channels
      BY DEF TypeInv, TypeOK, StoreTypeOK
    <3>2. \A x \in active : visible'[x] = "down" => visible[x] = "down"
      BY <1>1, <2>1, <3>1 DEF Shows
    <3> QED
      BY <1>1, <3>2 DEF SendsKnowingly, Shown
  <2>2. CASE k.kind = "reminder"
    BY <1>1, <2>2 DEF Remembers, Backed, SendsKnowingly, Recalled
  <2>3. CASE Announces(k)
    BY <1>2, <2>3 DEF SendsKnowingly, Announcing, SameCopy, SameTurn
  <2> QED
    BY <1>3, <2>1, <2>2, <2>3 DEF Announces, Kinds
<1> QED
  BY <1>1, <1>4, <1>5, StandingStill DEF DrainRecalls, Notes

\* Only a recovery clears the alert, and then no channel shows it.
LEMMA ApplyingRecalls ==
  ASSUME ShapeInv, AlertCount, Remembers, lapses' = {}, NEW d \in Drainers, Spent(d),
         Settle(d) \/ SettleLast(d) \/ ApplySent(d) \/ LateDownEvidence(d)
  PROVE  DrainRecalls(d)
<1> DEFINE kind == drain[d].key.kind
           created == drain[d].row.created
<1>1. /\ UNCHANGED <<outbox, active, visible>> /\ AtWork(d)
      /\ drain[d].pc \in {"settling", "settlingLast", "applying", "lateDown"}
  BY DEF Settle, SettleLast, ApplySent, LateDownEvidence, AtWork
<1>2. created \in Stamp /\ DOMAIN alert = AlertFields
  BY <1>1 DEF ShapeInv, DrainInv, DrainRec, AtWork, AlertCount
<1>3. SameTurn(d)
  <2>1. (\E pc : DrainTo(d, pc)) \/ \E t : PutBack(d, t)
    BY DEF Settle, SettleLast, ApplySent, LateDownEvidence, DrainTo
  <2> QED
    BY <2>1, UpdateKeepsTurn DEF SameCopy
<1>4. AlertStands(d)
  <2>1. CASE LateDownEvidence(d)
    <3>1. alert.sentAt # 0 => alert'.sentAt # 0
      BY <1>2, <2>1, ApplyKeepsAlert DEF LateDownEvidence
    <3> QED
      BY <3>1 DEF AlertStands
  <2>2. CASE Settle(d) \/ SettleLast(d) \/ ApplySent(d)
    <3>1. Apply(kind, created, FALSE) /\ OverlooksAlert
      BY <2>2 DEF Settle, SettleLast, ApplySent
    <3>2. kind # "recovery" => (alert.sentAt # 0 => alert'.sentAt # 0)
      BY <1>2, <3>1, ApplyKeepsAlert
    <3>3. alert.sentAt # 0 /\ alert'.sentAt = 0 =>
            ~Shown /\ \A k \in DOMAIN outbox : k.kind \in DownKinds => outbox[k].applied # 1
      BY <3>1 DEF OverlooksAlert, Shown
    <3> QED
      BY <1>1, <1>3, <3>2, <3>3 DEF AlertStands
  <2> QED
    BY <2>1, <2>2
<1>5. RowsStand /\ SendsKnowingly(d)
  BY <1>1 DEF RowsStand, SendsKnowingly, Unrecorded, Shown
<1>6. CASE Reserved(d)'
  BY <1>1, <1>4, <1>5, <1>6, ReservedDrain DEF DrainRecalls, Notes
<1>7. CASE ~Reserved(d)'
  <2> DEFINE next == Onwards(d, drain[d].status, drain[d].sentAt, 0)
  <2>1. CASE Settle(d)
    <3>1. next \in {"dropping", "settlingLast"}
      BY <2>1 DEF Settle, Spent, Onwards
    <3> HIDE DEF next
    <3>2. (DrainTo(d, "noting") /\ Applies(kind, created, FALSE)) \/ DrainTo(d, next)
      BY <2>1 DEF Settle, DrainTo, next
    <3>3. drain'[d].pc = "noting" /\ Applies(kind, created, FALSE)
      BY <1>7, <3>1, <3>2, UpdateKeepsTurn DEF Reserved
    <3>4. Apply(kind, created, FALSE)
      BY <2>1 DEF Settle
    <3>5. kind \in DownKinds => alert'.sentAt # 0
      <4>1. CASE kind = "reminder"
        <5>1. alert.sentAt # 0
          BY <3>3, <4>1 DEF Applies
        <5> QED
          BY <1>2, <3>4, <4>1, <5>1, ApplyKeepsAlert
      <4>2. CASE kind \in {"alert", "corrective"}
        BY <1>2, <3>3, <3>4, <4>2, ApplyKeepsAlert
      <4> QED
        BY <4>1, <4>2 DEF DownKinds, Kinds
    <3>6. Backed(d)' /\ ~Announcing(d)'
      BY <1>3, <3>3, <3>5 DEF Backed, Announcing, SameTurn
    <3> QED
      BY <1>1, <1>4, <1>5, <3>6 DEF DrainRecalls, Notes
  <2>2. CASE SettleLast(d) \/ ApplySent(d) \/ LateDownEvidence(d)
    <3>1. \/ \E pc \in {"dropping", "releasing", "stageRecovery"} : DrainTo(d, pc)
          \/ \E t : PutBack(d, t)
      BY <2>2 DEF SettleLast, ApplySent, LateDownEvidence
    <3>2. drain'[d].pc \in {"dropping", "releasing", "stageRecovery"}
      BY <3>1, UpdateKeepsTurn
    <3> QED
      BY <1>7, <3>2 DEF Reserved
  <2> QED
    BY <2>1, <2>2
<1> QED
  BY <1>6, <1>7

LEMMA DrainRemembers ==
  ASSUME ClaimInv, PunctualInv, StatusInv, CountInv, NoticeInv, TypeInv, LookInv, Remembers,
         lapses = {}, lapses' = {}, NEW d \in Drainers, Spent(d),
         DrainOutbox(d) \/ FailDrain(d)
  PROVE  Remembers'
<1>1. ShapeInv /\ AlertCount
  BY DEF ClaimInv, CountInv
<1>2. DrainStep(d) \/ DrainFault(d)
  BY DEF DrainOutbox, FailDrain
<1>3. DrainRecalls(d)
  BY <1>1, <1>2, QuietDrainRecalls, ClaimRecalls, WritingRecalls, ProgressRecalls,
     StagingRecalls, SendingRecalls, ApplyingRecalls DEF DrainStep
<1>4. UNCHANGED <<lastStatus, proc, active>>
  <2>1. active' = active
    BY <1>2 DEF DrainStep, DrainFault, StartDrain, Claim,
       NothingToClaim, ReadSubject, Settle, NoteApplied, SettleLast, ListChannels,
       ProviderAccepts, ProviderRejects, RecordProgress, ApplySent, Drop, Release,
       LateDownEvidence, StageRecovery, LateRecoveryLookup, StageAlert, ProviderTimesOut,
       StatementFails, CrashDrain, store
  <2> QED
    BY <2>1, DrainLeavesStatus
<1> QED
  BY <1>1, <1>3, <1>4, DrainMovesAlone, RecallingDrainRemembers

LEMMA StepRemembers ==
  ASSUME ClaimInv, PunctualInv, StatusInv, CountInv, NoticeInv, TypeInv, MemoryInv, [Next]_vars
  PROVE  MemoryInv'
<1>1. lapses' = {} => lapses = {} /\ Remembers
  BY LapsesGrow DEF MemoryInv
<1>2. LookInv /\ \A d \in Drainers : Spent(d)
  BY DEF MemoryInv
<1>3. CASE NewObservation \/ AdminStep \/ Tick \/ UNCHANGED vars
  BY <1>1, <1>2, <1>3, OtherStepsRemember DEF MemoryInv, Spent
<1>4. CASE Handle
  <2>1. HandlerStep /\ drain' = drain
    BY <1>4 DEF Handle
  <2> QED
    BY <1>1, <1>2, <2>1, HandlerLooks, HandlerRemembers DEF MemoryInv, Spent
<1>5. ASSUME NEW d \in Drainers, DrainOutbox(d) \/ FailDrain(d) PROVE MemoryInv'
  <2>1. ShapeInv /\ \A e \in Drainers \ {d} : drain'[e] = drain[e]
    BY <1>5, DrainMovesAlone DEF ClaimInv
  <2>2. \A e \in Drainers : Spent(e)'
    <3>1. Spent(d)'
      BY <1>2, <1>5, <2>1, DrainKeepsSpent
    <3>2. \A e \in Drainers \ {d} : Spent(e)'
      BY <1>2, <2>1 DEF Spent
    <3> QED
      BY <3>1, <3>2
  <2>3. LookInv'
    BY <1>2, <1>5, DrainLeavesStatus DEF LookInv, Looking
  <2>4. lapses' = {} => Remembers'
    BY <1>1, <1>2, <1>5, DrainRemembers
  <2> QED
    BY <2>2, <2>3, <2>4 DEF MemoryInv
<1> QED
  BY <1>3, <1>4, <1>5 DEF Next

LEMMA InitRemembers == Init => MemoryInv
<1> SUFFICES ASSUME Init PROVE MemoryInv
  OBVIOUS
<1>1. proc.pc = "idle" /\ \A d \in Drainers : drain[d].pc = "idle"
  BY EndingRecord, RestingRecord DEF Init, DrainInit
<1>2. DOMAIN outbox = {} /\ ~Shown
  BY DEF Init, StoreInit, Shown
<1> QED
  BY <1>1, <1>2 DEF MemoryInv, LookInv, Looking, Spent, Remembers, Counted, Backed, CancelsSafely

\* As long as some channel shows an outage, the database can tell that a recovery
\* is owed, whatever interleaves: no handler's cancellation, no settling, no
\* recovery and no failing statement takes the last trace of a DOWN that somebody
\* received (processHealthyObservation, alert-manager.ts 224-262, and
\* drainNotificationDeliveries 575-716), but for the histories lapses lists.
THEOREM AlertingOutageIsRemembered ==
  ASSUME DrainSeconds < ClaimSeconds
  PROVE  Spec => []OutageIsRemembered
<1>1. ClaimInv /\ TurnsInv /\ [Next]_vars => TurnsInv'
  BY StepKeepsTurns
<1>2. ClaimInv /\ TurnsInv /\ StatusInv /\ CountInv /\ NoticeInv /\ [Next]_vars => NoticeInv'
  BY StepKeepsNotices, DrainsArePunctual
<1>3. /\ ClaimInv /\ TurnsInv /\ StatusInv /\ CountInv /\ NoticeInv /\ TypeInv /\ MemoryInv
      /\ [Next]_vars
      => MemoryInv'
  BY StepRemembers, DrainsArePunctual
<1>4. MemoryInv => OutageIsRemembered
  BY DEF MemoryInv, Remembers, Shown, Witnessed, Announces, OutageIsRemembered
<1> QED
  BY <1>1, <1>2, <1>3, <1>4, ClaimInvariant, InitEstablishesTurns, InitEstablishesStatus,
     StepKeepsStatus, InitEstablishesCount, StepKeepsCount, InitEstablishesNotices,
     TypesStart, TypesStep, InitRemembers, PTL DEF Spec

\* So, once nothing is under way and nothing is queued, a monitor that is up with
\* a channel that shows it down has its alert on record, from which the next
\* observation queues the recovery (processHealthyObservation 266-300): the first
\* half of SettledAgreement, with all the excuses of lapses.
RecoveryIsOwed == Settled /\ lapses = {} => RecoveryOwed
THEOREM AlertingRecoveryIsOwed ==
  ASSUME DrainSeconds < ClaimSeconds
  PROVE  Spec => []RecoveryIsOwed
<1>1. OutageIsRemembered => RecoveryIsOwed
  BY DEF OutageIsRemembered, RecoveryIsOwed, RecoveryOwed, Settled, Unrecorded
<1> QED
  BY <1>1, AlertingOutageIsRemembered, PTL
=============================================================================
