------------------------------ MODULE MCRequests ------------------------------
(***************************************************************************)
(* What people ask of the API, for TLC: the dashboard's analytics (with    *)
(* the cron runs that write what they read), a public status page,         *)
(* sessions, the configuration and incident reports.  These parts share no *)
(* variable, so a behaviour moves one of them, while the others stay as    *)
(* they were at first.                                                     *)
(***************************************************************************)
EXTENDS AnalyticsReader, PublicPage, Sessions, Configuration, IncidentReports

VARIABLE part  \* the part that moves

Parts == {"analytics", "page", "sessions", "configuration", "reports"}

requestVars == <<readVars, publicVars, sessionVars, confVars, incidentVars, part>>

RequestInit ==
  /\ part \in Parts
  /\ ReadInit
  /\ PublicInit /\ (part # "page" => password = 0)
  /\ SessionInit
  /\ ConfInit /\ (part # "configuration" => used = {} /\ backup = {})
  /\ IncidentInit /\ (part # "reports" => service = {})

RequestNext ==
  /\ UNCHANGED part
  /\ \/ part = "analytics" /\ ReadNext /\ UNCHANGED <<publicVars, sessionVars, confVars, incidentVars>>
     \/ part = "page" /\ PublicNext /\ UNCHANGED <<readVars, sessionVars, confVars, incidentVars>>
     \/ part = "sessions" /\ SessionNext /\ UNCHANGED <<readVars, publicVars, confVars, incidentVars>>
     \/ part = "configuration" /\ ConfNext /\ UNCHANGED <<readVars, publicVars, sessionVars, incidentVars>>
     \/ part = "reports" /\ IncidentNext /\ UNCHANGED <<readVars, publicVars, sessionVars, confVars>>

RequestSpec == RequestInit /\ [][RequestNext]_requestVars

\* Every part keeps its types; those of the configuration also bound what a
\* request may store, the windows of a monitor among it (monitors.ts 562-569).
RequestTypeOK ==
  TypeOK /\ PublicTypeOK /\ SessionTypeOK /\ ConfTypeOK /\ IncidentTypeOK

\* A file written by hand or by another instance: a monitor without its target,
\* a channel without what its kind needs, and more windows than the limit.
ForeignFiles ==
  {[monitor |-> [m \in MonitorIds |-> [type |-> "http", target |-> 0]],
    channel |-> [c \in ChannelIds |-> [kind |-> "slack", secret |-> "none"]],
    page |-> [p \in PageIds |-> NoRow],
    bound |-> MonitorIds \X ChannelIds, shown |-> {},
    windows |-> [m \in MonitorIds |-> WindowLimit + 1],
    retention |-> "default"]}

RequestSymmetry ==
  Permutations(Visitors) \union Permutations(CronRuns) \union Permutations(Admins)
=============================================================================
