--------------------------- MODULE IncidentReports ---------------------------
(***************************************************************************)
(* Incident reports and the monitors they are linked to                    *)
(* (routes/incidentReports.ts), with the triggers that keep the number of  *)
(* links of every monitor for the public feed (db/migrate.ts).             *)
(*                                                                         *)
(* Requests interleave statement by statement and may be cut short.  A     *)
(* report keeps its status, its visibility and whether the two timestamps  *)
(* that go with them are set; its detected events are linked like its      *)
(* monitors, in the same batches, and need no variable of their own.       *)
(***************************************************************************)
EXTENDS Integers, FiniteSets

CONSTANTS
  Writers,      \* administrators' requests in flight, each used again
  Reports,      \* ids of reports
  Services,     \* monitors a report can be linked to
  NoReport,     \* of an id not given out yet
  Erased,       \* of the id of a deleted report
  MaxRequests   \* bound on requests

ASSUME IncidentAssumption ==
  MaxRequests \in Nat /\ IsFiniteSet(Reports) /\ IsFiniteSet(Services)

VARIABLES
  report,    \* incident_reports
  linked,    \* incident_monitors
  feed,      \* incident_feed_monitor_counts: link_count, 0 for no row
  service,   \* the monitors that exist
  writing,   \* the local state of each request
  requests   \* requests so far

incidentVars == <<report, linked, feed, service, writing, requests>>

Statuses     == {"investigating", "resolved"}
Visibilities == {"draft", "published"}
ReportRows   == [status: Statuses, resolvedAt: {"null", "set"},
                 visibility: Visibilities, publishedAt: {"null", "set"}]

NotWriting == [pc |-> "idle", id |-> NoReport, row |-> NoReport, status |-> "same", to |-> {}]

IncidentTypeOK ==
  /\ report \in [Reports -> ReportRows \union {NoReport, Erased}]
  /\ linked \subseteq Reports \X Services
  /\ feed \in [Services -> Nat]
  /\ service \subseteq Services
  /\ \A w \in Writers : writing[w].pc \in {"idle", "editing", "linking", "updating", "settling"}
  /\ requests \in 0..MaxRequests

IncidentInit ==
  /\ report = [r \in Reports |-> NoReport]
  /\ linked = {}
  /\ feed = [s \in Services |-> 0]
  /\ service \in SUBSET Services
  /\ writing = [w \in Writers |-> NotWriting]
  /\ requests = 0

Existing == {r \in Reports : report[r] \notin {NoReport, Erased}}
LinksOf(r) == {l \in linked : l[1] = r}
LinksTo(s) == {l \in linked : l[2] = s}

Receive ==
  /\ requests < MaxRequests
  /\ requests' = requests + 1

Return(w) == writing' = [writing EXCEPT ![w] = NotWriting]

-----------------------------------------------------------------------------
(* The triggers, row by row.                                               *)

\* Mutant: the trigger does not run for the deletes of an edit or a cascade.
NeverDecrement(count, n) == count

\* trg_incident_feed_count_delete after n rows: MAX(0, link_count - 1) each.
Decrement(count, n) == IF count > n THEN count - n ELSE 0

\* incident_monitors without `gone`, then with `new` (rows that are there
\* already conflict and fire nothing); the counters follow.
Relink(gone, new) ==
  LET kept  == linked \ gone
      added == new \ kept
      Of(L, s) == Cardinality({l \in L : l[2] = s})
  IN  /\ linked' = kept \union new
      /\ feed' = [s \in Services |->
           Decrement(feed[s], Of(gone \intersect linked, s)) + Of(added, s)]

-----------------------------------------------------------------------------
(* The handlers.                                                           *)

Stamp(is) == IF is THEN "set" ELSE "null"

\* POST /incidents is one batch.
CreateReport(w) ==
  /\ writing[w].pc = "idle"
  /\ Receive
  /\ \E r \in Reports, status \in Statuses, visibility \in Visibilities,
        to \in SUBSET service :
       /\ report[r] = NoReport
       /\ report' = [report EXCEPT ![r] =
            [status |-> status, resolvedAt |-> Stamp(status = "resolved"),
             visibility |-> visibility, publishedAt |-> Stamp(visibility = "published")]]
       /\ Relink({}, {r} \X to)
  /\ UNCHANGED <<service, writing>>

\* PUT /incidents/:id reads the row and merges what the body leaves out; `to`
\* holds the new set of monitors, if there is one, ...
ReadReport(w) ==
  /\ writing[w].pc = "idle"
  /\ Receive
  /\ \E r \in Existing, status \in Statuses \union {"same"},
        visibility \in Visibilities \union {"same"}, to \in {{}} \union {{S} : S \in SUBSET Services} :
       LET old == report[r]
           next == IF status = "same" THEN old.status ELSE status
       IN  writing' = [writing EXCEPT ![w] =
             [pc |-> "editing", id |-> r, status |-> next, to |-> to,
              row |-> [status |-> next, resolvedAt |-> Stamp(next = "resolved"),
                       visibility |-> IF visibility = "same" THEN old.visibility ELSE visibility,
                       publishedAt |-> IF visibility = "same" THEN old.publishedAt
                                       ELSE Stamp(visibility = "published")]]]
  /\ UNCHANGED <<report, linked, feed, service>>

\* Mutant: the update leaves the visibility to the database.
MergedOverStored(w) ==
  [writing[w].row EXCEPT !.visibility = report[writing[w].id].visibility]

\* The columns the UPDATE sets: all of them.
MergedRow(w) == writing[w].row

\* ... writes it back, ...
EditReport(w) ==
  /\ writing[w].pc = "editing"
  /\ report' = IF writing[w].id \in Existing
                 THEN [report EXCEPT ![writing[w].id] = MergedRow(w)] ELSE report
  /\ writing' = [writing EXCEPT ![w].pc = "linking"]
  /\ UNCHANGED <<linked, feed, service, requests>>

\* ... and replaces the links in one batch, which a missing row undoes.
ReplaceLinks(w) ==
  /\ writing[w].pc = "linking"
  /\ LET r   == writing[w].id
         new == {r} \X UNION writing[w].to
     IN  IF writing[w].to # {} /\ new \subseteq Existing \X service
           THEN Relink(LinksOf(r), new)
           ELSE UNCHANGED <<linked, feed>>
  /\ Return(w)
  /\ UNCHANGED <<report, service, requests>>

\* POST /incidents/:id/updates: the report must exist, ...
FindReport(w) ==
  /\ writing[w].pc = "idle"
  /\ Receive
  /\ \E r \in Existing, status \in Statuses :
       writing' = [writing EXCEPT ![w] =
         [NotWriting EXCEPT !.pc = "updating", !.id = r, !.status = status]]
  /\ UNCHANGED <<report, linked, feed, service>>

\* ... the update refers to it, ...
InsertUpdate(w) ==
  /\ writing[w].pc = "updating"
  /\ IF writing[w].id \in Existing
       THEN writing' = [writing EXCEPT ![w].pc = "settling"]
       ELSE Return(w)
  /\ UNCHANGED <<report, linked, feed, service, requests>>

\* ... and its status becomes the report's.
SettleReport(w) ==
  /\ writing[w].pc = "settling"
  /\ LET r == writing[w].id
     IN  report' = IF r \in Existing
           THEN [report EXCEPT ![r].status = writing[w].status,
                               ![r].resolvedAt = Stamp(writing[w].status = "resolved")]
           ELSE report
  /\ Return(w)
  /\ UNCHANGED <<linked, feed, service, requests>>

\* DELETE /incidents/:id and its cascade.
DeleteReport(w) ==
  /\ writing[w].pc = "idle"
  /\ Receive
  /\ \E r \in Existing :
       /\ report' = [report EXCEPT ![r] = Erased]
       /\ Relink(LinksOf(r), {})
  /\ UNCHANGED <<service, writing>>

\* The invocation is cut off between two statements.
Cut(w) ==
  /\ writing[w].pc # "idle"
  /\ Return(w)
  /\ UNCHANGED <<report, linked, feed, service, requests>>

\* A monitor is deleted, with its links and its counter; a restore brings
\* it back.
DropService(s) ==
  /\ s \in service
  /\ service' = service \ {s}
  /\ linked' = linked \ LinksTo(s)
  /\ feed' = [feed EXCEPT ![s] = 0]
  /\ UNCHANGED <<report, writing, requests>>

AddService(s) ==
  /\ s \notin service
  /\ service' = service \union {s}
  /\ UNCHANGED <<report, linked, feed, writing, requests>>

Answered(w) ==
  \/ CreateReport(w) \/ ReadReport(w) \/ EditReport(w) \/ ReplaceLinks(w)
  \/ FindReport(w) \/ InsertUpdate(w) \/ SettleReport(w) \/ DeleteReport(w) \/ Cut(w)

IncidentNext ==
  \/ \E w \in Writers : Answered(w)
  \/ \E s \in Services : DropService(s) \/ AddService(s)

IncidentSpec == IncidentInit /\ [][IncidentNext]_incidentVars

-----------------------------------------------------------------------------
(* Properties.                                                             *)

\* The counter of a monitor, from which the public page decides whether it may
\* read the feed and how many rows to reserve, is the number of its links
\* through every edit, cascade and interleaving (migrate.ts 337-355).
FeedCountsExact == \A s \in Services : feed[s] = Cardinality(LinksTo(s))

\* A report has a resolution time exactly when it is resolved, and a
\* publication time exactly when it is published, although edits write back
\* rows they read before another edit or update (incidentReports.ts 228-243
\* and 300-301).
ReportConsistent ==
  \A r \in Existing :
    /\ report[r].status = "resolved" <=> report[r].resolvedAt = "set"
    /\ report[r].visibility = "published" <=> report[r].publishedAt = "set"

=============================================================================
