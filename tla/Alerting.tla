------------------------------ MODULE Alerting ------------------------------
(***************************************************************************)
(* Alerting of one monitor: the handler of its latest observation          *)
(* (AlertProcessing) and concurrent drains of its outbox (DeliveryDrain)   *)
(* over one database (AlertStore), with the administrative writes that     *)
(* touch the same rows (routes/monitors.ts, routes/operations.ts) and the  *)
(* faults the code must survive.                                           *)
(***************************************************************************)
EXTENDS AlertProcessing, DeliveryDrain

CONSTANTS
  AdminKinds,       \* "window", "channel", "reset", "retry": what may happen
  MaxObservations,  \* bound on accepted observations
  MaxAdmin,         \* bound on administrative writes
  MaxFaults         \* bound on drain faults

ASSUME AlertingAssumption ==
  /\ AdminKinds \subseteq {"window", "channel", "reset", "retry"}
  /\ MaxObservations \in Nat /\ MaxAdmin \in Nat /\ MaxFaults \in Nat

VARIABLE used  \* observations, administrative writes and faults so far

vars == <<now, store, proc, drain, used>>

TypeOK ==
  /\ StoreTypeOK
  /\ proc \in Handler
  /\ drain \in [Drainers -> Drain]
  /\ used \in [observations: 0..MaxObservations, admin: 0..MaxAdmin,
               faults: 0..MaxFaults]

Init ==
  /\ StoreInit
  /\ proc = Ending("idle")
  /\ DrainInit
  /\ used = [observations |-> 0, admin |-> 0, faults |-> 0]

Tick ==
  /\ now < MaxTime
  /\ WithinDrains(now + 1)
  /\ now' = now + 1
  /\ UNCHANGED <<store, proc, drain, used>>

\* An observation commits; the handler before it, if any, can write no more.
NewObservation ==
  /\ used.observations < MaxObservations
  /\ used' = [used EXCEPT !.observations = used.observations + 1]
  /\ \E s \in {"up", "down"} : Observe(s)
  /\ UNCHANGED drain

Handle == HandlerStep /\ UNCHANGED <<drain, used>>

DrainOutbox(d) == DrainStep(d) /\ UNCHANGED <<proc, used>>

FailDrain(d) ==
  /\ used.faults < MaxFaults
  /\ used' = [used EXCEPT !.faults = used.faults + 1]
  /\ DrainFault(d)
  /\ UNCHANGED proc

-----------------------------------------------------------------------------
(* Administrative writes.                                                  *)

Admin(kind) ==
  /\ kind \in AdminKinds
  /\ used.admin < MaxAdmin
  /\ used' = [used EXCEPT !.admin = used.admin + 1]
  /\ UNCHANGED <<now, drain>>

\* POST /:id/maintenance and DELETE /:id/maintenance/:maintenanceId; one
\* window at a time.
SetWindow ==
  /\ Admin("window")
  /\ \/ \E from \in Times \ {0}, to \in (now + 1)..MaxTime :
          from < to /\ window' = [from |-> from, to |-> to]
     \/ window' = [from |-> 0, to |-> 0]
  /\ UNCHANGED <<lastStatus, alert, incident, outbox, active, visible, lapses, proc>>

\* PUT /api/notifications/:id: a channel is enabled or disabled.
ToggleChannel(c) ==
  /\ Admin("channel")
  /\ active' = IF c \in active THEN active \ {c} ELSE active \union {c}
  /\ visible' = [visible EXCEPT ![c] = "relinked"]
  /\ UNCHANGED <<lastStatus, alert, incident, outbox, window, lapses, proc>>

\* POST /:id/reset-stats: one batch.  The outbox is left as it is, and the new
\* observation_revision supersedes the handler.
ResetStats ==
  /\ Admin("reset")
  /\ lastStatus' = "pending"
  /\ alert' = NoAlert
  /\ incident' = [incident EXCEPT !.open = 0]
  /\ EndHandler("lost")
  /\ lapses' = lapses \union {"forgotten"}
  /\ UNCHANGED <<outbox, window, active, visible>>

\* POST /deliveries/:id/retry.
RetryDelivery(k) ==
  /\ Admin("retry")
  /\ Unclaimed(k, now) /\ outbox[k].nextAt > now
  /\ outbox' = [outbox EXCEPT ![k] = [outbox[k] EXCEPT !.nextAt = now]]
  /\ UNCHANGED <<lastStatus, alert, incident, window, active, visible, lapses, proc>>

AdminStep ==
  \/ SetWindow
  \/ \E c \in Channels : ToggleChannel(c)
  \/ ResetStats
  \/ \E k \in DOMAIN outbox : RetryDelivery(k)

Next ==
  \/ Tick
  \/ NewObservation
  \/ Handle
  \/ \E d \in Drainers : DrainOutbox(d) \/ FailDrain(d)
  \/ AdminStep

Spec == Init /\ [][Next]_vars

-----------------------------------------------------------------------------
(* Properties.                                                             *)

Live(k) == outbox[k].until > now

\* Deliveries of one monitor take turns.  At most one is inside a claim at any
\* time, whatever the clocks the claiming drains read, and at most one drain
\* that is within the time of its claim works on one: no two provider calls
\* overlap unless a drain outlives its claim (alert-manager.ts 840-873, and the
\* test "serializes a new alert behind an in-flight recovery").
OneLiveClaim ==
  \A j, k \in DOMAIN outbox : Live(j) /\ Live(k) => j = k
AtWork(d) == drain[d].pc \notin {"idle", "claiming"}
InTime(d) == AtWork(d) /\ now < drain[d].at + ClaimSeconds
OneDrainAtWork ==
  \A d, e \in Drainers : InTime(d) /\ InTime(e) => d = e
DeliveriesTakeTurns == OneLiveClaim /\ OneDrainAtWork

\* While a claim lives, only its holder changes or removes the row: neither
\* the observation handler's cancellations, nor another drain, nor a manual
\* retry (alert-manager.ts 1180-1261, operations.ts 106-114).
ClaimsFence ==
  [][\A k \in DOMAIN outbox :
       Live(k) /\ ~(k \in DOMAIN outbox' /\ outbox'[k] = outbox[k])
         => drain'[outbox[k].token] # drain[outbox[k].token]]_vars

\* An alert that somebody received, and that alert_state does not count yet, is
\* not dropped by its drain before alert_state records one: "a crash can never
\* erase the only proof that a DOWN notification was sent" (alert-manager.ts
\* 226-227, 640-647 and 688-694).  Excused is an alert cleared before its recovery
\* was received.
Unrecorded(k) ==
  /\ k.kind \in {"alert", "corrective"}
  /\ outbox[k].delivered > 0 /\ outbox[k].applied = 0
DeliveredDownIsRecorded ==
  [][\A k \in DOMAIN outbox :
       Unrecorded(k) /\ Live(k) /\ k \notin DOMAIN outbox' /\ "forgotten" \notin lapses
         => alert'.sentAt # 0]_vars

\* The same of the whole program, handlers and their cancellations included: as
\* long as a channel shows an outage, the database can tell that a recovery is
\* owed, by a recorded alert or by a row that was received and not counted yet, but
\* for the moment in which the answer of the provider is being recorded
\* (alert-manager.ts 224-262).  lapses lists the excuses.
OutageIsRemembered ==
  lapses = {} /\ (\E c \in active : visible[c] = "down")
    => \/ alert.sentAt # 0
       \/ \E k \in DOMAIN outbox : Unrecorded(k)
       \/ \E d \in Drainers :
            drain[d].pc = "recording" /\ drain[d].key.kind \in {"alert", "corrective"}

\* Whatever handlers were cut short before it, one that runs to its end leaves
\* an open incident exactly when the monitor is down (alert-manager.ts 211-214
\* and 331-333).
IncidentMatchesStatus ==
  proc.pc = "done" => (incident.open = 1 <=> lastStatus = "down")

\* When the latest observation is handled and nothing is queued, the channels
\* show what the monitor says, or alert_state still owes them the notification
\* that the next observation will queue: an alert recorded while up, none
\* recorded while down (alert-manager.ts 765-770: "the last externally visible
\* notification aligned with current monitor truth").  Excused are a provider's
\* answer that was never recorded and, for the first half, an alert cleared
\* before its recovery was received.
Settled ==
  /\ proc.pc = "done" /\ DOMAIN outbox = {}
  /\ \A d \in Drainers : drain[d].pc = "idle"
RecoveryOwed ==
  \A c \in active : lastStatus = "up" /\ visible[c] = "down" => alert.sentAt # 0
AlertOwed ==
  \A c \in active :
    lastStatus = "down" /\ visible[c] \in {"none", "up"} => alert.sentAt = 0
SettledAgreement ==
  Settled /\ "answer" \notin lapses
    => AlertOwed /\ ("forgotten" \notin lapses => RecoveryOwed)

\* The first half without its excuse, which neither the comment nor
\* docs/ARCHITECTURE.md 88 makes ("its notification remains retryable").  It does not
\* hold: an outage that begins while the recovery of the one before it is
\* queued forgets the alert that outage's channels were shown.
EveryRecoveryIsOwed == Settled /\ "answer" \notin lapses => RecoveryOwed

\* The second half over more than one reopening: "A missing incident repairs a
\* crash after an earlier status flip but before this reset"
\* (alert-manager.ts 319-320).  It does not hold: when the close of the incident
\* before was itself cut short, the incident is not missing, the new outage is
\* taken for the one whose recovery has just been sent, and nobody is told.
OutageIsAnnounced == Settled /\ lapses = {} => AlertOwed

\* A channel that shows the monitor up, with every provider answer recorded, is
\* not sent a recovery again: "Delivery is deduplicated" (docs/FEATURES.md
\* 106).  It does not hold: a drain may stage, send and settle the recovery of
\* a late DOWN row between a healthy handler's finding that row and recording
\* its alert, which then stands for a second recovery (alert-manager.ts 228-243
\* and 695-763).
RecoverySentOnce ==
  [][\A d \in Drainers :
       /\ drain[d].pc = "sending" /\ drain'[d].pc = "recording"
       /\ drain[d].key.kind = "recovery" /\ lapses = {}
       => visible[Head(drain[d].list)] # "up"]_vars

=============================================================================
