----------------------------- MODULE AlertStore -----------------------------
(***************************************************************************)
(* The rows of one monitor that its alerting works on, and the SQL         *)
(* statements of services/alert-manager.ts as operators: alert_state, the  *)
(* incidents, maintenance_windows, the notification channels and the       *)
(* outbox notification_deliveries.  AlertProcessing and DeliveryDrain are  *)
(* the two programs that run these statements.                             *)
(*                                                                         *)
(* The clock ends at MaxTime; a time after it is stored as MaxTime + 1,    *)
(* which no step can tell from any other such time.  Payloads, locales and *)
(* error texts are left out.                                               *)
(***************************************************************************)
EXTENDS Integers, Sequences, FiniteSets

CONSTANTS
  NumChannels,       \* channels linked to the monitor, in the order of their ids
  Drainers,          \* claim tokens: concurrent drains of the outbox
  NoClaim,           \* claim_token NULL
  Tolerance,         \* toleranceFailures or toleranceMissed
  SurgeLimit,        \* surgeProtectionLimit, 0 for NULL
  SurgePause,        \* 3600
  ReminderInterval,  \* reminderIntervalHours in seconds, 0 for NULL
  ClaimSeconds,      \* DELIVERY_CLAIM_SECONDS
  InitialRetry,      \* INITIAL_RETRY_SECONDS
  MaxRetry,          \* MAX_RETRY_SECONDS
  MaxTime            \* bound on the clock

ASSUME StoreAssumption ==
  /\ NumChannels \in Nat
  /\ NoClaim \notin Drainers
  /\ Tolerance \in Nat \ {0}
  /\ SurgeLimit \in Nat /\ SurgePause \in Nat /\ ReminderInterval \in Nat
  /\ ClaimSeconds \in Nat \ {0}
  /\ InitialRetry \in Nat /\ MaxRetry \in Nat
  /\ MaxTime \in Nat \ {0}

VARIABLES
  now,         \* wall clock, from 1; 0 stands for NULL
  lastStatus,  \* monitors.last_status
  alert,       \* the alert_state row
  incident,    \* incidents: whether one is open, and how many were ever opened
  outbox,      \* notification_deliveries, by deduplication key
  window,      \* the maintenance window, closed when empty
  active,      \* linked channels that are active
  visible,     \* what each channel's provider accepted last
  lapses       \* history: what the other rows can no longer tell (an answer
               \* of a provider that was lost, an alert that was forgotten or
               \* overlooked, a row counted without one)

store == <<lastStatus, alert, incident, outbox, window, active, visible, lapses>>

Channels == 1..NumChannels
Times    == 0..MaxTime
Clock    == 0..(MaxTime + 1)

MinOf(a, b) == IF a <= b THEN a ELSE b
MaxOf(a, b) == IF a >= b THEN a ELSE b
Later(t)    == MinOf(t, MaxTime + 1)

AlertRow ==
  [failures: 0..Tolerance, sentAt: Times, alerts: Nat,
   remindedAt: Times, pausedUntil: Clock]

NoAlert == [failures |-> 0, sentAt |-> 0, alerts |-> 0,
            remindedAt |-> 0, pausedUntil |-> 0]

(* dedupe_key.  of is the incident of an alert, alert_sent_at (for a late  *)
(* DOWN: created_at) of a recovery or reminder, and the recovery a         *)
(* corrective alert answers (two recoveries of one alert are not told      *)
(* apart); due is set for reminders only.                                  *)
Kinds     == {"alert", "corrective", "reminder", "recovery"}
DownKinds == Kinds \ {"recovery"}
Key       == [kind: Kinds, of: Nat, due: Nat]
AKey(kind, of)    == [kind |-> kind, of |-> of, due |-> 0]
ReminderKey(s, t) == [kind |-> "reminder", of |-> s, due |-> t]

Row ==
  [created: Times, remaining: Seq(Channels), attempts: Nat, delivered: Nat,
   applied: {0, 1}, nextAt: Clock, token: Drainers \union {NoClaim},
   until: Clock]

StoreTypeOK ==
  /\ now \in 1..MaxTime
  /\ lastStatus \in {"pending", "up", "down"}
  /\ alert \in AlertRow
  /\ incident \in [open: {0, 1}, count: Nat]
  /\ DOMAIN outbox \subseteq Key
  /\ \A k \in DOMAIN outbox : outbox[k] \in Row
  /\ window \in [from: Times, to: Times]
  /\ active \subseteq Channels
  /\ visible \in [Channels -> {"none", "down", "up", "relinked"}]
  /\ lapses \subseteq {"answer", "forgotten", "overlooked", "uncounted"}

StoreInit ==
  /\ now = 1
  /\ lastStatus = "pending"
  /\ alert = NoAlert
  /\ incident = [open |-> 0, count |-> 0]
  /\ outbox = [k \in {} |-> 0]
  /\ window = [from |-> 0, to |-> 0]
  /\ active = Channels
  /\ visible = [c \in Channels |-> "none"]
  /\ lapses = {}

-----------------------------------------------------------------------------
(* notification_deliveries.                                                *)

NewRow(created, channels, nextAt, applied) ==
  [created |-> created, remaining |-> channels, attempts |-> 0, delivered |-> 0,
   applied |-> applied, nextAt |-> nextAt, token |-> NoClaim, until |-> 0]

\* INSERT ... ON CONFLICT(dedupe_key): an existing row stays as it is.
InsertRow(k, row) ==
  outbox' = [x \in DOMAIN outbox \union {k} |->
               IF x \in DOMAIN outbox THEN outbox[x] ELSE row]

DeleteRows(K) == outbox' = [x \in DOMAIN outbox \ K |-> outbox[x]]

\* claim_until IS NULL OR claim_until <= at.
Unclaimed(k, at) == outbox[k].until <= at

\* cancelUnclaimedDeliveries.
CancelUnclaimed(kinds, at) ==
  DeleteRows({k \in DOMAIN outbox : k.kind \in kinds /\ Unclaimed(k, at)})

\* The channels that are active, in the order they had; the linked ones are in
\* the order of their ids.
ActiveAmong(channels) ==
  LET kept     == {i \in DOMAIN channels : channels[i] \in active}
      Place(n) == CHOOSE i \in kept : Cardinality({j \in kept : j <= i}) = n
  IN  [n \in 1..Cardinality(kept) |-> channels[Place(n)]]
LinkedChannels == ActiveAmong([c \in Channels |-> c])

-----------------------------------------------------------------------------
(* alert_state: applyDeliveryState and the resets.                         *)

\* Its WHERE clause.  whileUp is allowAlertWhileUp.
Applies(kind, created, whileUp) ==
  \/ /\ kind \in {"alert", "corrective"}
     /\ whileUp \/ lastStatus = "down"
     /\ alert.sentAt \in {0, created}
  \/ kind = "reminder" /\ lastStatus = "down" /\ alert.sentAt # 0
  \/ kind = "recovery" /\ lastStatus = "up"

SurgeReached(alerts) == SurgeLimit > 0 /\ alerts >= SurgeLimit

\* Its SET clause.
AfterApplying(kind, created) ==
  IF kind = "recovery" THEN NoAlert
  ELSE IF kind = "reminder"
    THEN [alert EXCEPT !.remindedAt = MaxOf(alert.remindedAt, created)]
  ELSE IF alert.sentAt # 0 THEN alert
  ELSE [failures    |-> alert.failures,
        sentAt      |-> created,
        alerts      |-> alert.alerts + 1,
        remindedAt  |-> created,
        pausedUntil |-> IF SurgeReached(alert.alerts + 1)
                          THEN Later(created + SurgePause) ELSE 0]

Apply(kind, created, whileUp) ==
  alert' = IF Applies(kind, created, whileUp)
             THEN AfterApplying(kind, created) ELSE alert

\* An outage that has just begun knows nothing of the alerts before it.
Forgotten == [NoAlert EXCEPT !.failures = alert.failures]

\* History: an alert whose recovery nobody has received yet is cleared.
ForgetsAlert ==
  lapses' = IF alert.sentAt # 0 /\ alert'.sentAt = 0
              THEN lapses \union {"forgotten"} ELSE lapses

\* History: a recovery clears an alert that a channel still shows, or that a
\* queued row still counts on.
OverlooksAlert ==
  lapses' = IF /\ alert.sentAt # 0 /\ alert'.sentAt = 0
               /\ \/ \E c \in active : visible[c] = "down"
                  \/ \E k \in DOMAIN outbox : k.kind \in DownKinds /\ outbox[k].applied = 1
              THEN lapses \union {"overlooked"} ELSE lapses

-----------------------------------------------------------------------------
InMaintenance(at) == window.from <= at /\ at <= window.to

=============================================================================
