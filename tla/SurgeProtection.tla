--------------------------- MODULE SurgeProtection ---------------------------
(***************************************************************************)
(* Surge protection, seen from the channels: which outages of the monitor  *)
(* were announced to somebody.  told only watches Alerting; the limit and  *)
(* the pause are in AfterApplying (AlertStore) and Paused                  *)
(* (AlertProcessing).                                                      *)
(***************************************************************************)
EXTENDS Alerting

VARIABLE told  \* alerts a provider has accepted, by deduplication key

Accepted ==
  {drain[d].key : d \in {e \in Drainers :
     drain[e].pc = "sending" /\ drain'[e].pc = "recording"
       /\ drain[e].key.kind = "alert"}}

SurgeInit == Init /\ told = {}
SurgeNext == Next /\ told' = told \union Accepted
SurgeSpec == SurgeInit /\ [][SurgeNext]_<<vars, told>>

\* docs/API.md 218 says of surgeProtectionLimit: "Max alerts before pausing for
\* 1 hour".  With SurgePause past the bound on the clock, a monitor may then
\* announce at most SurgeLimit outages.  It announces every one: each recovery
\* and each new outage clears consecutive_alerts and the pause
\* (alert-manager.ts 333-344, 998-1007 and 1098-1116).
SurgeLimitsAlerts == SurgeLimit > 0 => Cardinality(told) <= SurgeLimit

=============================================================================
