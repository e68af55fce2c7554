--------------------------- MODULE DeliveryDrain ---------------------------
(***************************************************************************)
(* drainNotificationDeliveries (services/alert-manager.ts): a drain claims *)
(* an outbox row, decides against the monitor's present state whether the  *)
(* row still matters, and tries one channel of it.  Cron runs and pushes   *)
(* start drains of their own, so several run at once.                      *)
(*                                                                         *)
(* Every statement and provider call is one step.  A drain may stop for    *)
(* ever between any two (a crash, or an error it does not catch); its row  *)
(* then stays claimed.  A claim token is a random value, and two tokens    *)
(* are only compared for equality: a drain is named by its token, and a    *)
(* name may serve again once no row carries it.                            *)
(***************************************************************************)
EXTENDS AlertStore

CONSTANT
  DrainSeconds  \* how long a drain that has not crashed may take

ASSUME DrainAssumption == DrainSeconds \in Nat

VARIABLE drain

\* MAX_PROVIDER_ATTEMPTS_PER_DRAIN, ATTEMPTS_BEFORE_ROTATION, and the number of
\* attempts from which retryDelaySeconds no longer grows.
MaxAttempts == 2
Rotation    == 3
DelaySteps  == 8

DrainPhases ==
  {"idle", "claiming", "reading", "settling", "noting", "settlingLast",
   "listing", "sending", "recording", "applying", "dropping", "releasing",
   "lateDown", "stageRecovery", "lateRecovery", "stageAlert"}

Drain ==
  [pc: DrainPhases, at: Times, left: 0..MaxAttempts,
   key: Key, row: Row,                      \* the row as it was claimed
   status: {"pending", "up", "down"},       \* subject.lastStatus
   sentAt: Times,                           \* subject.alertSentAt
   applied: {0, 1},                         \* stateApplied
   sent: 0..NumChannels,                    \* the channel just tried, 0 for none
   list: Seq(Channels), attempts: Nat,      \* what releasing the row will write
   retryAt: Clock]

NoRow == NewRow(0, <<>>, 0, 0)

Resting(pc, at, left) ==
  [pc |-> pc, at |-> at, left |-> left, key |-> AKey("alert", 0), row |-> NoRow,
   status |-> "pending", sentAt |-> 0, applied |-> 0, sent |-> 0,
   list |-> <<>>, attempts |-> 0, retryAt |-> 0]

DrainInit == drain = [d \in Drainers |-> Resting("idle", 0, 0)]

SetDrain(d, x) == drain' = [drain EXCEPT ![d] = x]
DrainTo(d, pc) == SetDrain(d, [drain[d] EXCEPT !.pc = pc])

\* Mutant: the drain scans on past its two rows.
NextScanForever(d) ==
  SetDrain(d, Resting("claiming", drain[d].at, drain[d].left))

\* The row is finished with: another scan, or the end of the drain.
NextScan(d) ==
  SetDrain(d, IF drain[d].left > 0
                THEN Resting("claiming", drain[d].at, drain[d].left)
                ELSE Resting("idle", 0, 0))

\* Give the row back, unchanged but for the time of the next attempt.
PutBack(d, t) ==
  SetDrain(d, [drain[d] EXCEPT !.pc = "releasing", !.retryAt = Later(t)])

\* Time passes only as far as the drains at work allow.
WithinDrains(t) ==
  \A d \in Drainers : drain[d].pc # "idle" => t <= drain[d].at + DrainSeconds

-----------------------------------------------------------------------------
(* Claims.                                                                 *)

StartDrain(d, n) ==
  /\ drain[d].pc = "idle"
  /\ \A k \in DOMAIN outbox : outbox[k].token # d
  /\ SetDrain(d, Resting("claiming", now, n))
  /\ UNCHANGED <<now, store>>

\* Mutant: the claim forgets the other deliveries of the same monitor.
ClaimableAlone(k, at) == outbox[k].nextAt <= at /\ Unclaimed(k, at)

\* Due, unclaimed, and no other delivery of the monitor is in flight.
Claimable(k, at) ==
  /\ outbox[k].nextAt <= at
  /\ Unclaimed(k, at)
  /\ \A j \in DOMAIN outbox \ {k} : Unclaimed(j, at)

Before(k, j) ==
  \/ outbox[k].nextAt < outbox[j].nextAt
  \/ outbox[k].nextAt = outbox[j].nextAt /\ outbox[k].created < outbox[j].created

Claim(d, k) ==
  LET at      == drain[d].at
      claimed == [outbox[k] EXCEPT !.token = d, !.until = Later(at + ClaimSeconds)]
  IN /\ drain[d].pc = "claiming"
     /\ Claimable(k, at)
     /\ \A j \in DOMAIN outbox : Claimable(j, at) => ~Before(j, k)
     /\ outbox' = [outbox EXCEPT ![k] = claimed]
     /\ SetDrain(d, [Resting("reading", at, drain[d].left - 1) EXCEPT
                       !.key = k, !.row = outbox[k], !.applied = outbox[k].applied,
                       !.list = outbox[k].remaining, !.attempts = outbox[k].attempts])
     /\ UNCHANGED <<now, lastStatus, alert, incident, window, active, visible, lapses>>

NothingToClaim(d) ==
  /\ drain[d].pc = "claiming"
  /\ \A k \in DOMAIN outbox : ~Claimable(k, drain[d].at)
  /\ SetDrain(d, Resting("idle", 0, 0))
  /\ UNCHANGED <<now, store>>

\* Every later write of a drain is keyed by its token.
Holds(d) == drain[d].key \in DOMAIN outbox /\ outbox[drain[d].key].token = d

WriteClaimed(d, row) ==
  outbox' = IF Holds(d) THEN [outbox EXCEPT ![drain[d].key] = row] ELSE outbox

Stored(d) == outbox[drain[d].key]

-----------------------------------------------------------------------------
(* The decision, against the subject read after the claim.                 *)

\* The row tells what is no longer so.
Late(kind, status) ==
  IF kind = "recovery" THEN status = "down" ELSE status = "up"

\* isDeliveryRelevant.
Relevant(d, status, sentAt, applied) ==
  LET kind == drain[d].key.kind
  IN IF kind = "recovery" THEN status = "up" /\ (applied = 1 \/ sentAt # 0)
     ELSE /\ status = "down"
          /\ \/ applied = 1
             \/ kind = "reminder" /\ sentAt # 0
             \/ kind # "reminder" /\ sentAt \in {0, drain[d].row.created}

\* What follows once nothing is left to settle first.
Onwards(d, status, sentAt, applied) ==
  IF ~Relevant(d, status, sentAt, applied) THEN "dropping"
  ELSE IF drain[d].row.remaining # <<>> THEN "listing"
  ELSE IF applied = 1 THEN "dropping" ELSE "settlingLast"

Route(d) ==
  LET kind == drain[d].key.kind
      row  == drain[d].row
  IN IF row.delivered > 0 /\ Late(kind, lastStatus)
       THEN IF kind = "recovery" THEN "lateRecovery" ELSE "lateDown"
     ELSE IF row.delivered > 0 /\ row.remaining = <<>> /\ row.applied = 0
       THEN "settling"
     ELSE Onwards(d, lastStatus, alert.sentAt, row.applied)

\* getDeliverySubject, and the branches that need no further statement.  A
\* DOWN notification waits for the end of a maintenance window.
ReadSubject(d) ==
  /\ drain[d].pc = "reading"
  /\ IF drain[d].key.kind # "recovery" /\ InMaintenance(drain[d].at)
       THEN PutBack(d, window.to + 1)
       ELSE SetDrain(d, [drain[d] EXCEPT !.pc = Route(d), !.status = lastStatus,
                                         !.sentAt = alert.sentAt])
  /\ UNCHANGED <<now, store>>

\* Fully delivered, but alert_state does not say so yet.
Settle(d) ==
  LET row     == drain[d].row
      kind    == drain[d].key.kind
      success == Applies(kind, row.created, FALSE)
  IN /\ drain[d].pc = "settling"
     /\ Apply(kind, row.created, FALSE)
     /\ SetDrain(d, [drain[d] EXCEPT
          !.pc = IF success THEN "noting"
                 ELSE Onwards(d, drain[d].status, drain[d].sentAt, 0)])
     /\ OverlooksAlert
     /\ UNCHANGED <<now, lastStatus, incident, outbox, window, active, visible>>

NoteApplied(d) ==
  /\ drain[d].pc = "noting"
  /\ WriteClaimed(d, [Stored(d) EXCEPT !.applied = 1])
  /\ SetDrain(d, [drain[d] EXCEPT !.applied = 1,
                    !.pc = Onwards(d, drain[d].status, drain[d].sentAt, 1)])
  /\ UNCHANGED <<now, lastStatus, alert, incident, window, active, visible, lapses>>

\* No channel is left to try: the delivery is as complete as it can be.
SettleLast(d) ==
  LET row     == drain[d].row
      kind    == drain[d].key.kind
      success == Applies(kind, row.created, FALSE)
  IN /\ drain[d].pc = "settlingLast"
     /\ Apply(kind, row.created, FALSE)
     /\ IF success THEN DrainTo(d, "dropping")
        ELSE PutBack(d, drain[d].at + InitialRetry)
     /\ OverlooksAlert
     /\ UNCHANGED <<now, lastStatus, incident, outbox, window, active, visible>>

\* Channels deleted or disabled since the row was queued drop out here.
ListChannels(d) ==
  LET live == ActiveAmong(drain[d].row.remaining)
  IN /\ drain[d].pc = "listing"
     /\ SetDrain(d, [drain[d] EXCEPT
          !.list = live,
          !.attempts = IF live = <<>> THEN 0 ELSE drain[d].attempts,
          !.pc = IF live # <<>> THEN "sending"
                 ELSE IF drain[d].applied = 1 THEN "dropping" ELSE "settlingLast"])
     /\ UNCHANGED <<now, store>>

-----------------------------------------------------------------------------
(* One provider attempt.                                                   *)

RetryDelay(n) == MinOf(MaxRetry, InitialRetry * 2 ^ (MinOf(n, DelaySteps) - 1))

\* Three failures in a row move the channel to the back.
Rotates(n, live) == n >= Rotation /\ Len(live) > 1

\* The catch block: keep the channels this attempt began with.
Defer(d) ==
  LET live == IF drain[d].pc = "sending" THEN drain[d].list
              ELSE <<drain[d].sent>> \o drain[d].list
      n    == drain[d].row.attempts + 1
  IN SetDrain(d, [drain[d] EXCEPT
       !.pc = "releasing", !.sent = 0,
       !.list = IF Rotates(n, live) THEN Tail(live) \o <<Head(live)>> ELSE live,
       !.attempts = IF Rotates(n, live) THEN 0 ELSE MinOf(n, DelaySteps),
       !.retryAt = Later(drain[d].at + RetryDelay(n))])

Shows(d) == IF drain[d].key.kind = "recovery" THEN "up" ELSE "down"

ProviderAccepts(d) ==
  LET c == Head(drain[d].list)
  IN /\ drain[d].pc = "sending"
     /\ visible' = [visible EXCEPT ![c] = Shows(d)]
     /\ SetDrain(d, [drain[d] EXCEPT !.pc = "recording", !.sent = c,
                                     !.list = Tail(drain[d].list)])
     /\ UNCHANGED <<now, lastStatus, alert, incident, outbox, window, active, lapses>>

ProviderRejects(d) ==
  /\ drain[d].pc = "sending"
  /\ Defer(d)
  /\ UNCHANGED <<now, store>>

\* The deadline passes, although the provider has accepted or will yet.
ProviderTimesOut(d) ==
  /\ drain[d].pc = "sending"
  /\ visible' = [visible EXCEPT ![Head(drain[d].list)] = Shows(d)]
  /\ lapses' = lapses \union {"answer"}
  /\ Defer(d)
  /\ UNCHANGED <<now, lastStatus, alert, incident, outbox, window, active>>

RecordProgress(d) ==
  /\ drain[d].pc = "recording"
  /\ WriteClaimed(d, [Stored(d) EXCEPT !.remaining = drain[d].list, !.attempts = 0,
                        !.delivered = Stored(d).delivered + 1,
                        !.nextAt = drain[d].at])
  /\ SetDrain(d, [drain[d] EXCEPT
       !.attempts = 0, !.retryAt = drain[d].at,
       !.pc = IF drain[d].list # <<>> THEN "releasing"
              ELSE IF drain[d].applied = 1 THEN "dropping" ELSE "applying"])
  /\ lapses' = IF Holds(d) THEN lapses ELSE lapses \union {"answer"}
  /\ UNCHANGED <<now, lastStatus, alert, incident, window, active, visible>>

ApplySent(d) ==
  LET row  == drain[d].row
      kind == drain[d].key.kind
  IN /\ drain[d].pc = "applying"
     /\ Apply(kind, row.created, FALSE)
     /\ DrainTo(d, IF Applies(kind, row.created, FALSE) THEN "dropping" ELSE "releasing")
     /\ OverlooksAlert
     /\ UNCHANGED <<now, lastStatus, incident, outbox, window, active, visible>>

\* A statement after the send fails inside the try block: the attempt is
\* deferred as if the provider had refused it.
StatementFails(d) ==
  /\ drain[d].sent # 0
  /\ drain[d].pc \in {"recording", "applying", "dropping", "releasing"}
  /\ Defer(d)
  /\ lapses' = IF drain[d].pc = "recording" THEN lapses \union {"answer"} ELSE lapses
  /\ UNCHANGED <<now, lastStatus, alert, incident, outbox, window, active, visible>>

-----------------------------------------------------------------------------
(* The end of a row's turn.                                                *)

Drop(d) ==
  /\ drain[d].pc = "dropping"
  /\ IF Holds(d) THEN DeleteRows({drain[d].key}) ELSE UNCHANGED outbox
  /\ NextScan(d)
  /\ UNCHANGED <<now, lastStatus, alert, incident, window, active, visible, lapses>>

\* Mutant: the claim is given up by any drain, not only by its holder.
ReleaseAny(d) ==
  /\ drain[d].pc = "releasing"
  /\ outbox' = [k \in DOMAIN outbox |->
       IF k = drain[d].key THEN [outbox[k] EXCEPT !.token = NoClaim, !.until = 0]
       ELSE outbox[k]]
  /\ NextScan(d)
  /\ UNCHANGED <<now, lastStatus, alert, incident, window, active, visible, lapses>>

Release(d) ==
  /\ drain[d].pc = "releasing"
  /\ WriteClaimed(d, [Stored(d) EXCEPT
       !.remaining = drain[d].list, !.attempts = drain[d].attempts,
       !.nextAt = drain[d].retryAt, !.token = NoClaim, !.until = 0])
  /\ NextScan(d)
  /\ UNCHANGED <<now, lastStatus, alert, incident, window, active, visible, lapses>>

\* Mutant: a late DOWN row is dropped like any other that no longer matters.
ForgetLateDown(d) ==
  /\ drain[d].pc = "lateDown"
  /\ DrainTo(d, "dropping")
  /\ UNCHANGED <<now, store>>

\* reconcileLateDownDelivery: a DOWN that reached someone while the monitor is
\* up is recorded, and a recovery staged, before its row goes.
LateDownEvidence(d) ==
  /\ drain[d].pc = "lateDown"
  /\ Apply("alert", drain[d].row.created, TRUE)
  /\ IF Applies("alert", drain[d].row.created, TRUE)
       THEN DrainTo(d, "stageRecovery") ELSE PutBack(d, drain[d].at + 1)
  /\ UNCHANGED <<now, lastStatus, incident, outbox, window, active, visible, lapses>>

Stage(d, key, wanted, applied) ==
  IF lastStatus = wanted
    THEN /\ InsertRow(key, NewRow(drain[d].at, LinkedChannels, drain[d].at, applied))
         /\ DrainTo(d, "dropping")
    ELSE /\ PutBack(d, drain[d].at + 1)
         /\ UNCHANGED outbox

StageRecovery(d) ==
  /\ drain[d].pc = "stageRecovery"
  /\ Stage(d, AKey("recovery", drain[d].row.created), "up", 0)
  /\ UNCHANGED <<now, lastStatus, alert, incident, window, active, visible, lapses>>

\* reconcileLateRecoveryDelivery: the mirror image.
UnsentAlert(k) ==
  k.kind \in {"alert", "corrective"} /\ outbox[k].delivered = 0
    /\ outbox[k].remaining # <<>>

LateRecoveryLookup(d) ==
  /\ drain[d].pc = "lateRecovery"
  /\ DrainTo(d, IF \E k \in DOMAIN outbox : UnsentAlert(k)
                  THEN "dropping" ELSE "stageAlert")
  /\ UNCHANGED <<now, store>>

\* History: the row counts as applied although no alert is recorded.
StageAlert(d) ==
  /\ drain[d].pc = "stageAlert"
  /\ Stage(d, AKey("corrective", drain[d].key.of), "down", 1)
  /\ lapses' = IF lastStatus = "down" /\ alert.sentAt = 0
                 THEN lapses \union {"uncounted"} ELSE lapses
  /\ UNCHANGED <<now, lastStatus, alert, incident, window, active, visible>>

\* The drain stops for ever; its claim remains.
CrashDrain(d) ==
  /\ drain[d].pc # "idle"
  /\ SetDrain(d, Resting("idle", 0, 0))
  /\ lapses' = IF drain[d].pc = "recording" THEN lapses \union {"answer"} ELSE lapses
  /\ UNCHANGED <<now, lastStatus, alert, incident, outbox, window, active, visible>>

DrainStep(d) ==
  \/ \E n \in 1..MaxAttempts : StartDrain(d, n)
  \/ \E k \in DOMAIN outbox : Claim(d, k)
  \/ NothingToClaim(d) \/ ReadSubject(d) \/ Settle(d) \/ NoteApplied(d)
  \/ SettleLast(d) \/ ListChannels(d)
  \/ ProviderAccepts(d) \/ ProviderRejects(d) \/ RecordProgress(d) \/ ApplySent(d)
  \/ Drop(d) \/ Release(d)
  \/ LateDownEvidence(d) \/ StageRecovery(d) \/ LateRecoveryLookup(d) \/ StageAlert(d)

\* Steps nobody wishes for.
DrainFault(d) == ProviderTimesOut(d) \/ StatementFails(d) \/ CrashDrain(d)

=============================================================================
