-------------------------- MODULE AlertProcessing --------------------------
(***************************************************************************)
(* processAlert (services/alert-manager.ts): what an accepted observation  *)
(* does to the status, the incidents, alert_state and the outbox.          *)
(*                                                                         *)
(* Every statement is one step.  The next observation, an edit, a reset or *)
(* a crash may end the handler between any two.  Every write it makes is   *)
(* guarded by the observation_revision it started with, and a new          *)
(* observation replaces that token, so a superseded handler changes        *)
(* nothing more: proc is the handler of the latest observation, and        *)
(* superseding or crashing it is replacing proc.                           *)
(***************************************************************************)
EXTENDS AlertStore

VARIABLE proc

HandlerPhases ==
  {"window", "recordDown", "readIncident", "reopen", "forget", "cancelRecovery",
   "mark", "openIncident",
   "recordUp", "probe", "settle", "closeOnly", "flip", "close", "find",
   "evidence", "cancelDown", "reread", "checkWindow", "muteRecovery",
   "resetAlert", "clear",
   "channels", "applyNow", "insert"}
\* How a handler may end; "lost" is every ending that is not its own.
Outcomes == {"idle", "lost", "done", "tolerated", "muted", "yielded"}

NoEvidence == [kind |-> "none", applied |-> 0, created |-> 0, until |-> 0]

Handler ==
  [pc: HandlerPhases \union Outcomes,
   at: Times,                                   \* now
   seen: {"pending", "up", "down"},             \* monitor.lastStatus
   state: AlertRow,                             \* state, recoveryState
   hadIncident: {0, 1},                         \* openIncidentBeforeTransition
   late: [kind: Kinds \union {"none"}, applied: {0, 1},
          created: Times, until: Clock],        \* potentialDownDelivery
   key: Key, fan: Seq(Channels)]                \* the event to enqueue

Ending(outcome) ==
  [pc |-> outcome, at |-> 0, seen |-> "pending", state |-> NoAlert,
   hadIncident |-> 0, late |-> NoEvidence, key |-> AKey("alert", 0), fan |-> <<>>]

EndHandler(outcome) == proc' = Ending(outcome)
Goto(pc) == proc' = [proc EXCEPT !.pc = pc]

\* An observation has been committed; the handler re-reads its monitor.
Observe(status) ==
  /\ proc' = [Ending(IF status = "up" THEN "recordUp" ELSE "window")
                EXCEPT !.at = now, !.seen = lastStatus]
  /\ UNCHANGED <<now, store>>

-----------------------------------------------------------------------------
(* processFailedObservation.                                               *)

CheckWindow ==
  /\ proc.pc = "window"
  /\ IF InMaintenance(proc.at) THEN EndHandler("muted") ELSE Goto("recordDown")
  /\ UNCHANGED <<now, store>>

\* Failures beyond the tolerance all compare alike and are not counted.
RecordFailed ==
  /\ proc.pc = "recordDown"
  /\ alert' = [alert EXCEPT !.failures = MinOf(alert.failures + 1, Tolerance)]
  /\ IF alert'.failures < Tolerance
       THEN EndHandler("tolerated")
       ELSE proc' = [proc EXCEPT !.pc = "readIncident", !.state = alert']
  /\ UNCHANGED <<now, lastStatus, incident, outbox, window, active, visible, lapses>>

ReadIncident ==
  /\ proc.pc = "readIncident"
  /\ proc' = [proc EXCEPT !.pc = "reopen", !.hadIncident = incident.open]
  /\ UNCHANGED <<now, store>>

\* An earlier reopening was cut short after its status flip.
RepairsIncompleteReopen ==
  /\ proc.seen = "down" /\ proc.state.sentAt # 0 /\ proc.hadIncident = 0

Reopen ==
  /\ proc.pc = "reopen"
  /\ lastStatus' = IF lastStatus = "up" THEN "down" ELSE lastStatus
  /\ Goto(IF lastStatus = "up" \/ RepairsIncompleteReopen THEN "forget" ELSE "mark")
  /\ UNCHANGED <<now, alert, incident, outbox, window, active, visible, lapses>>

ForgetAlerts ==
  /\ proc.pc = "forget"
  /\ alert' = Forgotten
  /\ proc' = [proc EXCEPT !.pc = "cancelRecovery", !.state = Forgotten]
  /\ ForgetsAlert
  /\ UNCHANGED <<now, lastStatus, incident, outbox, window, active, visible>>

CancelRecovery ==
  /\ proc.pc = "cancelRecovery"
  /\ CancelUnclaimed({"recovery"}, proc.at)
  /\ Goto("openIncident")
  /\ UNCHANGED <<now, lastStatus, alert, incident, window, active, visible, lapses>>

MarkDown ==
  /\ proc.pc = "mark"
  /\ lastStatus' = IF lastStatus = "pending" THEN "down" ELSE lastStatus
  /\ Goto("openIncident")
  /\ UNCHANGED <<now, alert, incident, outbox, window, active, visible, lapses>>

\* Whether and what to announce, once the incident is open.
Paused == proc.at < proc.state.pausedUntil
LastTold == IF proc.state.remindedAt # 0 THEN proc.state.remindedAt ELSE proc.state.sentAt
ReminderDueAt == LastTold + ReminderInterval
ReminderDue == ReminderInterval > 0 /\ ReminderDueAt <= proc.at

\* ensureOpenIncident, then the decisions that need no further statement.
OpenIncident ==
  /\ proc.pc = "openIncident"
  /\ incident' = IF incident.open = 1 THEN incident
                 ELSE [open |-> 1, count |-> incident.count + 1]
  /\ IF Paused \/ (proc.state.sentAt # 0 /\ ~ReminderDue)
       THEN EndHandler("done")
       ELSE proc' = [proc EXCEPT !.pc = "channels",
              !.key = IF proc.state.sentAt = 0 THEN AKey("alert", incident'.count)
                      ELSE ReminderKey(proc.state.sentAt, ReminderDueAt)]
  /\ UNCHANGED <<now, lastStatus, alert, outbox, window, active, visible, lapses>>

-----------------------------------------------------------------------------
(* processHealthyObservation.                                              *)

RecordHealthy ==
  /\ proc.pc = "recordUp"
  /\ alert' = [alert EXCEPT !.failures = 0]
  /\ proc' = [proc EXCEPT !.state = alert',
       !.pc = IF alert.sentAt # 0 \/ proc.seen = "down" THEN "flip"
              ELSE IF proc.seen = "up" THEN "probe" ELSE "settle"]
  /\ UNCHANGED <<now, lastStatus, incident, outbox, window, active, visible, lapses>>

\* Mutant: only a recorded delivery counts, not a claim that is still live.
RecordedDown(k) == k.kind \in DownKinds /\ outbox[k].delivered > 0

\* getPotentialDownDelivery: delivered to some channel, or inside a claim.
PotentialDown(k) ==
  /\ k.kind \in DownKinds
  /\ outbox[k].delivered > 0 \/ outbox[k].until > proc.at

\* Alerts before reminders, the oldest first.
Preferred(k, j) ==
  \/ k.kind # "reminder" /\ j.kind = "reminder"
  \/ (k.kind = "reminder") = (j.kind = "reminder")
     /\ outbox[k].created <= outbox[j].created

LateDown ==
  LET found == {k \in DOMAIN outbox : PotentialDown(k)}
  IN IF found = {} THEN {NoEvidence}
     ELSE {[kind |-> k.kind, applied |-> outbox[k].applied,
            created |-> outbox[k].created, until |-> outbox[k].until] :
             k \in {m \in found : \A j \in found : Preferred(m, j)}}

Probe ==
  /\ proc.pc = "probe"
  /\ \E late \in LateDown :
       proc' = [proc EXCEPT !.late = late,
                  !.pc = IF late = NoEvidence THEN "closeOnly" ELSE "flip"]
  /\ UNCHANGED <<now, store>>

\* The first healthy check of a new monitor, or after a statistics reset.
SettlePending ==
  /\ proc.pc = "settle"
  /\ lastStatus' = "up"
  /\ Goto("closeOnly")
  /\ UNCHANGED <<now, alert, incident, outbox, window, active, visible, lapses>>

\* Mutant: the hot path returns without repairing an interrupted close.
HotPathReturns ==
  /\ proc.pc = "closeOnly"
  /\ EndHandler("done")
  /\ UNCHANGED <<now, store>>

CloseOnly ==
  /\ proc.pc = "closeOnly"
  /\ incident' = [incident EXCEPT !.open = 0]
  /\ EndHandler("done")
  /\ UNCHANGED <<now, lastStatus, alert, outbox, window, active, visible, lapses>>

FlipUp ==
  /\ proc.pc = "flip"
  /\ lastStatus' = "up"
  /\ Goto("close")
  /\ UNCHANGED <<now, alert, incident, outbox, window, active, visible, lapses>>

CloseIncidents ==
  /\ proc.pc = "close"
  /\ incident' = [incident EXCEPT !.open = 0]
  /\ Goto(IF proc.late = NoEvidence THEN "find" ELSE "evidence")
  /\ UNCHANGED <<now, lastStatus, alert, outbox, window, active, visible, lapses>>

FindLateDown ==
  /\ proc.pc = "find"
  /\ \E late \in LateDown :
       proc' = [proc EXCEPT !.late = late,
                  !.pc = IF late = NoEvidence THEN "cancelDown" ELSE "evidence"]
  /\ UNCHANGED <<now, store>>

\* Mutant: the late row is cancelled without a record of what it has shown.
CancelEvidence ==
  /\ proc.pc = "evidence"
  /\ Goto("cancelDown")
  /\ UNCHANGED <<now, store>>

\* The late row is deleted only after the alert it may have shown is recorded.
RecordEvidence ==
  /\ proc.pc = "evidence"
  /\ LET needed == proc.late.kind # "reminder" /\ proc.late.applied = 0
     IN IF ~needed THEN Goto("cancelDown") /\ UNCHANGED alert
        ELSE /\ Apply("alert", proc.late.created, TRUE)
             /\ IF Applies("alert", proc.late.created, TRUE)
                  THEN Goto("cancelDown") ELSE EndHandler("yielded")
  /\ UNCHANGED <<now, lastStatus, incident, outbox, window, active, visible, lapses>>

CancelDown ==
  /\ proc.pc = "cancelDown"
  /\ CancelUnclaimed(DownKinds, proc.at)
  /\ Goto(IF proc.late = NoEvidence THEN "checkWindow" ELSE "reread")
  /\ UNCHANGED <<now, lastStatus, alert, incident, window, active, visible, lapses>>

RereadAlert ==
  /\ proc.pc = "reread"
  /\ proc' = [proc EXCEPT !.pc = "checkWindow", !.state = alert]
  /\ UNCHANGED <<now, store>>

CheckWindowUp ==
  /\ proc.pc = "checkWindow"
  /\ IF InMaintenance(proc.at) THEN Goto("muteRecovery")
     ELSE IF proc.state.sentAt = 0 THEN Goto("clear")
     ELSE proc' = [proc EXCEPT !.pc = "channels",
                     !.key = AKey("recovery", proc.state.sentAt)]
  /\ UNCHANGED <<now, store>>

MuteRecovery ==
  /\ proc.pc = "muteRecovery"
  /\ CancelUnclaimed({"recovery"}, proc.at)
  /\ Goto("resetAlert")
  /\ UNCHANGED <<now, lastStatus, alert, incident, window, active, visible, lapses>>

ResetAlert ==
  /\ proc.pc = "resetAlert"
  /\ alert' = NoAlert
  /\ ForgetsAlert
  /\ EndHandler("done")
  /\ UNCHANGED <<now, lastStatus, incident, outbox, window, active, visible>>

\* clearSettledAlertState: only while no alert is recorded.
ClearSettled ==
  /\ proc.pc = "clear"
  /\ alert' = IF alert.sentAt = 0 THEN NoAlert ELSE alert
  /\ EndHandler("done")
  /\ UNCHANGED <<now, lastStatus, incident, outbox, window, active, visible, lapses>>

-----------------------------------------------------------------------------
(* enqueueNotification.                                                    *)

ReadChannels ==
  /\ proc.pc = "channels"
  /\ proc' = [proc EXCEPT !.fan = LinkedChannels,
                !.pc = IF LinkedChannels = <<>> THEN "applyNow" ELSE "insert"]
  /\ UNCHANGED <<now, store>>

\* Nobody to tell: the event counts as delivered.
ApplyNow ==
  /\ proc.pc = "applyNow"
  /\ Apply(proc.key.kind, proc.at, FALSE)
  /\ ForgetsAlert
  /\ EndHandler("done")
  /\ UNCHANGED <<now, lastStatus, incident, outbox, window, active, visible>>

\* A recovery waits for the claim of the late DOWN row to expire.
FirstAttempt ==
  IF proc.key.kind = "recovery" /\ proc.late.until # 0
    THEN Later(MaxOf(proc.at, proc.late.until) + 1) ELSE proc.at

Enqueue ==
  /\ proc.pc = "insert"
  /\ InsertRow(proc.key, NewRow(proc.at, proc.fan, FirstAttempt, 0))
  /\ EndHandler("done")
  /\ UNCHANGED <<now, lastStatus, alert, incident, window, active, visible, lapses>>

HandlerStep ==
  \/ CheckWindow \/ RecordFailed \/ ReadIncident \/ Reopen \/ ForgetAlerts
  \/ CancelRecovery \/ MarkDown \/ OpenIncident
  \/ RecordHealthy \/ Probe \/ SettlePending \/ CloseOnly \/ FlipUp
  \/ CloseIncidents \/ FindLateDown \/ RecordEvidence \/ CancelDown
  \/ RereadAlert \/ CheckWindowUp \/ MuteRecovery \/ ResetAlert \/ ClearSettled
  \/ ReadChannels \/ ApplyNow \/ Enqueue

=============================================================================
