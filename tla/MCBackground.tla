----------------------------- MODULE MCBackground -----------------------------
(***************************************************************************)
(* What runs by itself, for TLC: the lease of the scheduler, the admission *)
(* of checks and a batch of them, the legacy catch-up; deployment and the  *)
(* start of a node; the timers of an open page.  These parts share no      *)
(* variable, so a behaviour moves one of them; the others are at rest.     *)
(***************************************************************************)
EXTENDS SchedulerLease, CheckAdmission, Checker, LegacyHistory, Deployment,
        NodeSchema, Polling, TLC

VARIABLE part  \* the part that moves

Parts == {"lease", "admission", "checks", "history", "deployment", "node", "page"}

backgroundVars == <<vars, admissionVars, checkVars, legacyVars, deployVars,
                    nodeVars, pollVars, part>>

\* A part at rest: what must happen has happened, and nothing its fairness
\* speaks of is enabled (but the sweeps of the history, which go on for ever).
HistoryAtRest ==
  /\ clock = Horizon /\ oldWorker = "gone" /\ log = [l \in Logs |-> "legacy"]
  /\ counted = [l \in Logs |-> 1] /\ cuts = MaxCuts /\ tardy = {}
  /\ settings = [done |-> 1, cursor |-> NumLogs, nextAt |-> Horizon, retainAt |-> Horizon]
  /\ sweep = [r \in Sweepers |-> Local("idle", 0, 0, {})]

NodeAtRest ==
  /\ file = [tables |-> Tables, triggers |-> 1, columns |-> Columns, index |-> 1,
             oneOpen |-> 1, openIncidents |-> 0, cursor |-> "set",
             rawLogs |-> 0, marked |-> 1]
  /\ boot = "serving" /\ column = NumColumns /\ crashes = 0

PageAtRest ==
  /\ kind = "monitor" /\ tab = "left" /\ visit = MaxVisits /\ newest = 1
  /\ page = [v \in Visits |-> Unopened] /\ calls = {}
  /\ shown = [p \in Pollers |-> 1] /\ mishaps = MaxMishaps

BackgroundInit ==
  /\ part \in Parts
  /\ Init
  /\ IF part = "page" THEN PollInit ELSE PageAtRest
  /\ IF part = "node" THEN NodeInit ELSE NodeAtRest
  /\ IF part = "history" THEN LegacyInit ELSE HistoryAtRest
  /\ DeployInit /\ (part = "deployment" \/ ledger = NoLedger)
  /\ AdmissionInit
  /\ part = "admission" \/ \A m \in MonitorNos : interval[m] = CHOOSE i \in Intervals : TRUE
  /\ IF part = "checks" THEN CheckInit
     ELSE CheckInit /\ \A k \in Checks : asked[k] = CHOOSE m \in Monitor : TRUE

BackgroundNext ==
  /\ UNCHANGED part
  /\ \/ part = "lease" /\ Next
       /\ UNCHANGED <<admissionVars, checkVars, legacyVars, deployVars, nodeVars, pollVars>>
     \/ part = "admission" /\ AdmissionNext
       /\ UNCHANGED <<vars, checkVars, legacyVars, deployVars, nodeVars, pollVars>>
     \/ part = "checks" /\ CheckNext
       /\ UNCHANGED <<vars, admissionVars, legacyVars, deployVars, nodeVars, pollVars>>
     \/ part = "history" /\ LegacyNext
       /\ UNCHANGED <<vars, admissionVars, checkVars, deployVars, nodeVars, pollVars>>
     \/ part = "deployment" /\ DeployNext
       /\ UNCHANGED <<vars, admissionVars, checkVars, legacyVars, nodeVars, pollVars>>
     \/ part = "node" /\ NodeNext
       /\ UNCHANGED <<vars, admissionVars, checkVars, legacyVars, deployVars, pollVars>>
     \/ part = "page" /\ PollNext
       /\ UNCHANGED <<vars, admissionVars, checkVars, legacyVars, deployVars, nodeVars>>

\* LegacyFairness, where the history moves.
HistoryFairness ==
  /\ \A r \in Sweepers : WF_legacyVars(part = "history" /\ SweepStep(r))
  /\ WF_legacyVars(part = "history" /\ ClockTick)

BackgroundSpec ==
  /\ BackgroundInit
  /\ [][BackgroundNext]_backgroundVars
  /\ HistoryFairness /\ NodeFairness /\ PollFairness

\* Every part keeps its types: no count leaves its range, no schema holds a
\* column it could not reach (migrate.ts 387-438, cron.ts 19-42).
BackgroundTypeOK ==
  TypeOK /\ AdmissionTypeOK /\ CheckTypeOK /\ LegacyTypeOK /\ DeployTypeOK
    /\ NodeTypeOK /\ PollTypeOK
=============================================================================
