------------------------------- MODULE Polling -------------------------------
(***************************************************************************)
(* How an open page of the administration keeps its data fresh             *)
(* (frontend: the dashboard, a monitor's page and the infrastructure page, *)
(* which share this code): a timer per kind of data that is set again      *)
(* after every load, a flag against overlapping loads, nothing while the   *)
(* tab is hidden, no timer after the page is left.                         *)
(*                                                                         *)
(* The flag belongs to one visit of the page and to its loads.  Two calls  *)
(* escape it: the loads of a page that was left, which are not aborted and *)
(* on the dashboard fill the store every visit shows; and the monitor      *)
(* page's toggle, whose answer is put in the place of what loadCurrent     *)
(* loads.                                                                  *)
(*                                                                         *)
(* A snapshot is the version of the data the server read for it.  Answers  *)
(* may take as long as they like, within the request's timeout, and arrive *)
(* in any order.                                                           *)
(***************************************************************************)
EXTENDS Integers, FiniteSets

CONSTANTS
  Pollers,      \* loadCurrent and loadAnalytics
  Current,      \* the first of them
  MaxVisits,    \* bound on the times the page is opened
  MaxLate,      \* bound on the calls of visits before that still run then
  MaxSnapshots, \* bound on the versions of the server's data
  MaxMishaps    \* bound on calls that fail or time out, and on clicks

ASSUME PollingAssumption ==
  /\ Current \in Pollers
  /\ MaxVisits \in Nat \ {0} /\ MaxSnapshots \in Nat \ {0}
  /\ MaxLate \in Nat /\ MaxMishaps \in Nat

Visits == 1..MaxVisits

VARIABLES
  kind,    \* the page: "dashboard" or "monitor"
  tab,     \* "visible", "hidden", or "left" once the page is destroyed
  visit,   \* the visits so far, the last one the present one
  page,    \* of each visit: the flags, the timers and what onMount waits for
  calls,   \* the API calls in flight
  newest,  \* version of the server's data
  shown,   \* version each poller's data have on the screen
  mishaps  \* failures and clicks so far

pollVars == <<kind, tab, visit, page, calls, newest, shown, mishaps>>

Pages == [inFlight: SUBSET Pollers,  \* currentInFlight and analyticsInFlight
          timers: SUBSET Pollers,    \* currentTicker and analyticsTicker
          mounting: SUBSET Pollers]  \* loads onMount waits for

Calls == [poller: Pollers, visit: Visits, pc: {"sent", "answered", "failed"},
          got: 0..MaxSnapshots,
          after: {"nothing", "schedule", "mount", "toggle"},
          raced: {0, 1}]  \* history: a rival was in flight at the same time

PollTypeOK ==
  /\ kind \in {"dashboard", "monitor"}
  /\ tab \in {"visible", "hidden", "left"}
  /\ visit \in Visits /\ page \in [Visits -> Pages] /\ calls \subseteq Calls
  /\ newest \in 0..MaxSnapshots /\ shown \in [Pollers -> 0..MaxSnapshots]
  /\ mishaps \in 0..MaxMishaps

\* The dashboard's summaries are in a store, the rest in variables of the page.
Stored(p) == kind = "dashboard" /\ p = Current

\* Two calls for the same place that the flag does not keep apart.
Rival(c, d) ==
  /\ c.poller = d.poller
  /\ IF c.visit = d.visit THEN "toggle" \in {c.after, d.after} ELSE Stored(c.poller)

NewCall(p, v, after) ==
  [poller |-> p, visit |-> v, pc |-> "sent", got |-> 0, after |-> after, raced |-> 0]

Marked(c, others) ==
  [c EXCEPT !.raced = IF \E d \in others : Rival(c, d) THEN 1 ELSE @]

\* The calls N are sent beside those in flight.
Sent(N) == {Marked(c, N) : c \in calls} \union {Marked(n, calls) : n \in N}

\* Mutant: a load starts whatever is in flight.
MayLoadAnyway(v, p) == tab # "hidden"

\* The first line of a load.
MayLoad(v, p) == p \notin page[v].inFlight /\ tab # "hidden"

\* The loads of the pollers P begin, as far as they may, on visit v.
Load(v, P, after) ==
  LET L == {p \in P : MayLoad(v, p)}
  IN  /\ calls' = Sent({NewCall(p, v, after) : p \in L})
      /\ page' = [page EXCEPT ![v].inFlight = @ \union L]

Destroyed(v) == v < visit \/ tab = "left"

\* Mutant: a load that ends after the page was left arms the timer.
ScheduledAlways(v, P) == page[v].timers \union P

\* scheduleCurrent and scheduleAnalytics.
Scheduled(v, P) == IF Destroyed(v) THEN page[v].timers \ P ELSE page[v].timers \union P

-----------------------------------------------------------------------------

\* onMount begins both loads and waits for them before it schedules; in a tab
\* that is hidden it loads nothing and arms the timers at once.
Mounted(t) ==
  IF t = "hidden" THEN [inFlight |-> {}, timers |-> Pollers, mounting |-> {}]
  ELSE [inFlight |-> Pollers, timers |-> {}, mounting |-> Pollers]

MountCalls(v, t) == {NewCall(p, v, "mount") : p \in Mounted(t).mounting}

Unopened == [inFlight |-> {}, timers |-> {}, mounting |-> {}]

PollInit ==
  /\ kind \in {"dashboard", "monitor"}
  /\ tab \in {"visible", "hidden"}
  /\ visit = 1
  /\ page = [v \in Visits |-> IF v = 1 THEN Mounted(tab) ELSE Unopened]
  /\ calls = MountCalls(1, tab)
  /\ newest = 1
  /\ shown = [p \in Pollers |-> 0]
  /\ mishaps = 0

\* The timer fires: load, then schedule again; at once when nothing is loaded.
TimerFires(p) ==
  /\ p \in page[visit].timers
  /\ IF MayLoad(visit, p)
       THEN /\ calls' = Sent({NewCall(p, visit, "schedule")})
            /\ page' = [page EXCEPT ![visit].inFlight = @ \union {p},
                                    ![visit].timers = @ \ {p}]
       ELSE /\ page' = [page EXCEPT ![visit].timers = Scheduled(visit, {p})]
            /\ UNCHANGED calls
  /\ UNCHANGED <<kind, tab, visit, newest, shown, mishaps>>

\* handleVisibility: load both and start both timers anew.
BecomeVisible ==
  /\ tab = "hidden"
  /\ tab' = "visible"
  /\ LET L == Pollers \ page[visit].inFlight
     IN  /\ calls' = Sent({NewCall(p, visit, "nothing") : p \in L})
         /\ page' = [page EXCEPT ![visit].inFlight = Pollers,
                                 ![visit].timers = Scheduled(visit, Pollers)]
  /\ UNCHANGED <<kind, visit, newest, shown, mishaps>>

BecomeHidden ==
  /\ tab = "visible"
  /\ tab' = "hidden"
  /\ UNCHANGED <<kind, visit, page, calls, newest, shown, mishaps>>

\* runChecks, resetStats or a Refresh button: loads that schedule nothing.
\* The first two wait for the server before, and the page may have been left.
Click(v) ==
  /\ v <= visit
  /\ mishaps < MaxMishaps
  /\ mishaps' = mishaps + 1
  /\ Load(v, Pollers, "nothing")
  /\ UNCHANGED <<kind, tab, visit, newest, shown>>

\* toggleActive: a write, not a load, so the flag is neither read nor set.
Toggle ==
  /\ kind = "monitor" /\ tab = "visible"
  /\ mishaps < MaxMishaps
  /\ mishaps' = mishaps + 1
  /\ calls' = Sent({NewCall(Current, visit, "toggle")})
  /\ UNCHANGED <<kind, tab, visit, page, newest, shown>>

\* onDestroy; the calls in flight are not aborted.
Leave ==
  /\ tab # "left"
  /\ tab' = "left"
  /\ page' = [page EXCEPT ![visit].timers = {}]
  /\ UNCHANGED <<kind, visit, calls, newest, shown, mishaps>>

\* The dashboard is opened again, by a click: its variables are new, the store
\* is as it was.  (Visits of the other pages share nothing.)  A bound: of the
\* calls still running there are few, and none that shows nowhere any more.
Reopen ==
  /\ kind = "dashboard" /\ tab = "left" /\ visit < MaxVisits
  /\ Cardinality(calls) <= MaxLate /\ \A c \in calls : Stored(c.poller)
  /\ tab' = "visible"
  /\ visit' = visit + 1
  /\ page' = [page EXCEPT ![visit'] = Mounted(tab')]
  /\ calls' = Sent(MountCalls(visit', tab'))
  /\ shown' = [p \in Pollers |-> IF Stored(p) THEN shown[p] ELSE 0]
  /\ UNCHANGED <<kind, newest, mishaps>>

\* The server reads for a load, and writes for a toggle before it reads.
ServerAnswers(c) ==
  /\ c.pc = "sent"
  /\ c.after = "toggle" => newest < MaxSnapshots
  /\ newest' = IF c.after = "toggle" THEN newest + 1 ELSE newest
  /\ calls' = (calls \ {c}) \union {[c EXCEPT !.pc = "answered", !.got = newest']}
  /\ UNCHANGED <<kind, tab, visit, page, shown, mishaps>>

\* An error status, a lost connection, or AbortSignal.timeout.
CallFails(c) ==
  /\ c.pc \in {"sent", "answered"}
  /\ mishaps < MaxMishaps
  /\ mishaps' = mishaps + 1
  /\ calls' = (calls \ {c}) \union {[c EXCEPT !.pc = "failed", !.got = 0]}
  /\ UNCHANGED <<kind, tab, visit, page, newest, shown>>

\* Mutant: a load that fails ends before it schedules.
FollowUpOfSuccess(c) ==
  IF c.pc = "answered" /\ c.after = "schedule" THEN {c.poller} ELSE {}

\* What follows the end of a load: its timer, or both once onMount has waited.
FollowUp(c) ==
  CASE c.after = "schedule" -> {c.poller}
    [] c.after = "mount" /\ page[c.visit].mounting \subseteq {c.poller} -> Pollers
    [] OTHER -> {}

\* An answer is assigned; a variable of a page that was left shows nowhere.
Shows(c) == c.pc = "answered" /\ (c.visit = visit \/ Stored(c.poller))

\* The answer or the error reaches the page; a load's finally clears its flag.
Arrive(c) ==
  /\ c.pc \in {"answered", "failed"}
  /\ shown' = IF Shows(c) THEN [shown EXCEPT ![c.poller] = c.got] ELSE shown
  /\ page' = IF c.after = "toggle" THEN page
             ELSE [page EXCEPT ![c.visit] =
                    [inFlight |-> @.inFlight \ {c.poller},
                     timers |-> Scheduled(c.visit, FollowUp(c)),
                     mounting |-> IF c.after = "mount" THEN @.mounting \ {c.poller}
                                  ELSE @.mounting]]
  /\ calls' = calls \ {c}
  /\ UNCHANGED <<kind, tab, visit, newest, mishaps>>

DataChanges ==
  /\ newest < MaxSnapshots
  /\ newest' = newest + 1
  /\ UNCHANGED <<kind, tab, visit, page, calls, shown, mishaps>>

PollNext ==
  \/ BecomeVisible \/ BecomeHidden \/ Toggle \/ Leave \/ Reopen \/ DataChanges
  \/ \E v \in Visits : Click(v)
  \/ \E p \in Pollers : TimerFires(p)
  \/ \E c \in calls : ServerAnswers(c) \/ CallFails(c) \/ Arrive(c)

\* Timers fire; the server answers or the request's timeout ends the wait; the
\* browser runs its callbacks.
PollFairness ==
  /\ \A p \in Pollers : WF_pollVars(TimerFires(p))
  /\ \A p \in Pollers :
       WF_pollVars(\E c \in calls : c.poller = p /\ (ServerAnswers(c) \/ Arrive(c)))

PollSpec == PollInit /\ [][PollNext]_pollVars /\ PollFairness

-----------------------------------------------------------------------------
(* Properties.                                                             *)

\* What is shown goes back to an older snapshot only where two calls that the
\* flag does not keep apart were in flight at once: a load and a toggle, two
\* toggles, or loads of a page that was left and of the one opened after it.
\* Loads of one visit never overtake each other, whichever timer, click or
\* return to the tab began them ((app)/+page.svelte 57-97, monitors/[id]
\* 101-142 and 212-222).
GoesBackOnlyInRaces ==
  [][\A p \in Pollers : shown'[p] < shown[p] =>
       visit' # visit \/ \E c \in calls \ calls' : c.poller = p /\ c.raced = 1]_pollVars

\* A page that was left never polls again: no load that ends later, and no
\* mount that was still waiting, arms a timer ((app)/+page.svelte 103-117 and
\* 147-159).
NoTimerAfterLeaving == \A v \in Visits : Destroyed(v) => page[v].timers = {}

\* A page that stays open and visible comes to show every change of the
\* server's data and stays with it: what a race put back is loaded again, and
\* neither a failure, nor a load skipped because another was in flight, nor
\* hiding and showing the tab ends the chain of timers
\* ((app)/+page.svelte 57-126).
ChangesAreShown ==
  \A n \in 1..MaxSnapshots :
    <>[](tab = "visible") /\ <>(newest >= n) => <>[](\A p \in Pollers : shown[p] >= n)

=============================================================================
