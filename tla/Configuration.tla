---------------------------- MODULE Configuration ----------------------------
(***************************************************************************)
(* The configuration an administrator edits over the API: monitors,        *)
(* notification channels, status pages, settings, maintenance windows, and *)
(* the backup of all of them (routes/monitors.ts, notifications.ts,        *)
(* statusPages.ts, settings.ts, backup.ts,                                 *)
(* services/destructive-write-budget.ts).                                  *)
(*                                                                         *)
(* Requests of several browser tabs interleave: every statement or batch   *)
(* is one atomic step, and an invocation may be cut short between two.     *)
(* The foreign keys and their cascades are the schema's.  Of the many      *)
(* columns a row keeps what the code tells apart; the columns without      *)
(* consequences are left out.                                              *)
(***************************************************************************)
EXTENDS Integers, FiniteSets, FiniteSetsExt, TLC

CONSTANTS
  Admins,       \* administrators' requests in flight, each used again
  MonitorIds, ChannelIds, PageIds,
  NoRow,        \* of an id that is in no table
  WriteLimit,   \* MAX_SAFE_DESTRUCTIVE_D1_WRITES
  WindowLimit,  \* upcoming maintenance windows of one monitor, 100
  Uploads,      \* backup files this configuration did not export
  Filled,       \* tables of history that are written, of HistoryTables
  Batches,      \* rows that are written at a time between two requests
  MaxHistory,   \* bound on the rows of history of a monitor
  MaxOrders     \* bound on requests

ASSUME ConfigurationAssumption ==
  /\ WriteLimit \in Nat /\ WindowLimit \in Nat /\ MaxHistory \in Nat /\ MaxOrders \in Nat
  /\ Batches \subseteq Nat

\* Ids are random UUIDs: one of a monitor is none of a channel or a page, nor
\* the name of what has no id.
ASSUME IdsAssumption ==
  /\ IsFiniteSet(MonitorIds) /\ IsFiniteSet(ChannelIds) /\ IsFiniteSet(PageIds)
  /\ MonitorIds \intersect
       (ChannelIds \union PageIds \union {"settings", "export", "deletion", NoRow}) = {}
  /\ NoRow \notin {"open", "locked"}
  /\ \A type \in {"http", "agent"}, target \in {0, 1} : NoRow # [type |-> type, target |-> target]
  /\ \A kind \in {"slack", "discord"}, secret \in {"none", "sealed"} :
       NoRow # [kind |-> kind, secret |-> secret]

VARIABLES
  tables,   \* the configuration
  history,  \* rows of each monitor in the tables that checks and pushes fill
  used,     \* ids that were ever given out
  order,    \* the local state of each request
  orders,   \* requests so far
  backup,   \* the file downloaded last, if any
  shaken,   \* history: monitors on which two requests met, or one was cut
  imported, \* history: whether an uploaded file was ever accepted
  grown     \* history: what a destruction writes that its estimate left out

confVars == <<tables, history, used, order, orders, backup, shaken, imported, grown>>

\* "agent" stands for the two types that push, "http" for those that need a target.
MonitorRows == [type: {"http", "agent"}, target: {0, 1}]
\* "slack" stands for the kinds validateNotificationConfig looks at.
ChannelRows == [kind: {"slack", "discord"}, secret: {"none", "sealed"}]

\* What a backup file holds, and what it does not.
Files == [monitor: [MonitorIds -> MonitorRows \union {NoRow}],
          channel: [ChannelIds -> ChannelRows \union {NoRow}],
          page: [PageIds -> {"open", "locked", NoRow}],
          bound: SUBSET (MonitorIds \X ChannelIds),  \* monitor_notifications
          shown: SUBSET (PageIds \X MonitorIds),     \* status_page_monitors
          windows: [MonitorIds -> Nat],              \* that have not ended
          retention: {"default", "custom"}]

Present(row) == {x \in DOMAIN row : row[x] # NoRow}

ASSUME UploadsAssumption == Uploads \subseteq Files

\* The references of a file or of the tables lead somewhere.
Consistent(file) ==
  /\ file.bound \subseteq Present(file.monitor) \X Present(file.channel)
  /\ file.shown \subseteq Present(file.page) \X Present(file.monitor)
  /\ \A m \in MonitorIds : file.windows[m] > 0 => file.monitor[m] # NoRow

Places == {"idle", "insertAlert", "insertToken", "bind", "editMonitor",
           "editToken", "editBindings", "deleting", "editChannel", "applying",
           "editPage", "editLinks", "addWindows", "exporting", "restoring"}

NoOrder == [pc |-> "idle", id |-> NoRow, row |-> NoRow, wish |-> NoRow, stale |-> 0]

PushTypes == {"agent"}

\* validateMonitor and validateNotificationConfig.
ValidMonitor(row) == row.type = "http" => row.target = 1
ValidChannel(row) == row.kind = "slack" => row.secret # "none"

\* Nothing yet, or a row for every id, each referred to by the others.
FirstFile(type) ==
  [monitor |-> [m \in MonitorIds |-> IF type = NoRow THEN NoRow ELSE [type |-> type, target |-> 1]],
   channel |-> [c \in ChannelIds |-> IF type = NoRow THEN NoRow
                                      ELSE [kind |-> "slack", secret |-> "sealed"]],
   page |-> [p \in PageIds |-> IF type = NoRow THEN NoRow ELSE "locked"],
   bound |-> IF type = NoRow THEN {} ELSE MonitorIds \X ChannelIds,
   shown |-> IF type = NoRow THEN {} ELSE PageIds \X MonitorIds,
   windows |-> [m \in MonitorIds |-> 0],
   retention |-> "default"]

\* The tables of a monitor that its deletion cascades to and that checks,
\* pushes, drains and incident reports fill.
HistoryTables == {"status_logs", "monitor_daily_rollups", "incidents",
                  "incident_report_events", "notification_deliveries",
                  "incident_monitors", "agent_metric_samples"}

ASSUME FilledAssumption == Filled \subseteq HistoryTables

NoHistory == [table \in HistoryTables |-> 0]

\* No request is in flight; the backup is perhaps one of this configuration.
ConfInit ==
  /\ \E type \in {NoRow, "http", "agent"} :
       LET file == FirstFile(type)
           ids  == Present(file.monitor)
       IN  /\ tables = [file |-> file, alert |-> ids,
                        token |-> IF type \in PushTypes THEN ids ELSE {}]
           /\ used = ids \union Present(file.channel) \union Present(file.page)
  /\ history = [m \in MonitorIds |-> NoHistory]
  /\ order = [q \in Admins |-> NoOrder]
  /\ orders = 0
  /\ backup \in {{}, {tables.file}}
  /\ shaken = {} /\ imported = FALSE
  /\ grown = [q \in Admins |-> 0]

-----------------------------------------------------------------------------
(* Requests.                                                               *)

Monitors   == Present(tables.file.monitor)
Channels   == Present(tables.file.channel)
ShownPages == Present(tables.file.page)

At(q, place) == order[q].pc = place
InFlightOn(id) == \E q \in Admins : ~At(q, "idle") /\ order[q].id \in {id, NoRow}

\* A request on `id` (on everything: NoRow) starts.
Ask(id) ==
  /\ orders < MaxOrders
  /\ orders' = orders + 1
  /\ shaken' = shaken \union {m \in MonitorIds : id \in {m, NoRow} /\ InFlightOn(m)}

Start(q, place, id, row, wish) ==
  order' = [order EXCEPT ![q] =
    [NoOrder EXCEPT !.pc = place, !.id = id, !.row = row, !.wish = wish]]

Reply(q) == order' = [order EXCEPT ![q] = NoOrder]
Then(q, place) == order' = [order EXCEPT ![q].pc = place]

\* The rest of a request does not happen.
Abandon(q) ==
  /\ Reply(q)
  /\ shaken' = shaken \union ({order[q].id} \intersect MonitorIds)

Write(table, value) == tables' = [tables EXCEPT !.file[table] = value]
WriteRow(table, id, row) == tables' = [tables EXCEPT !.file[table][id] = row]

\* D1 carries a statement out when the rows it refers to exist, else it throws
\* and the handler ends.
Attempt(q, allowed, place) ==
  IF allowed THEN Then(q, place) /\ UNCHANGED shaken
             ELSE Abandon(q) /\ UNCHANGED tables

CutOff(q) ==
  /\ order[q].pc # "idle"
  /\ Abandon(q)
  /\ UNCHANGED <<tables, history, used, orders, backup, imported>>

-----------------------------------------------------------------------------
(* Monitors.                                                               *)

\* POST /monitors: four statements.
CreateMonitor(q) ==
  /\ At(q, "idle")
  /\ \E m \in MonitorIds \ used, row \in MonitorRows, chosen \in SUBSET ChannelIds :
       /\ ValidMonitor(row)
       /\ Ask(m)
       /\ WriteRow("monitor", m, row)
       /\ used' = used \union {m}
       /\ Start(q, "insertAlert", m, row, chosen)
  /\ UNCHANGED <<history, backup, imported>>

InsertAlert(q) ==
  /\ At(q, "insertAlert")
  /\ LET m == order[q].id
         allowed == m \in Monitors \ tables.alert
     IN  /\ Attempt(q, allowed, IF order[q].row.type \in PushTypes
                                  THEN "insertToken" ELSE "bind")
         /\ allowed => tables' = [tables EXCEPT !.alert = @ \union {m}]
  /\ UNCHANGED <<history, used, orders, backup, imported>>

InsertToken(q) ==
  /\ At(q, "insertToken")
  /\ LET m == order[q].id
         allowed == m \in Monitors \ tables.token
     IN  /\ Attempt(q, allowed, "bind")
         /\ allowed => tables' = [tables EXCEPT !.token = @ \union {m}]
  /\ UNCHANGED <<history, used, orders, backup, imported>>

BindChannels(q) ==
  /\ At(q, "bind")
  /\ LET links == {order[q].id} \X order[q].wish
         allowed == links \subseteq Monitors \X Channels
     IN  IF allowed
           THEN /\ Write("bound", tables.file.bound \union links)
                /\ Reply(q) /\ UNCHANGED shaken
           ELSE Abandon(q) /\ UNCHANGED tables
  /\ UNCHANGED <<history, used, orders, backup, imported>>

\* What an edit makes of the row it has read.
Merged(row, wish) ==
  [type |-> wish.type, target |-> IF wish.target = 1 THEN 1 ELSE row.target]

\* PUT /monitors/:id: read and validate, ...
ReadMonitor(q) ==
  /\ At(q, "idle")
  /\ \E m \in Monitors, type \in {"http", "agent"}, target \in {0, 1},
        chosen \in SUBSET ChannelIds, rebind \in {0, 1} :
       LET row  == tables.file.monitor[m]
           wish == [type |-> type, target |-> target, chosen |-> chosen, rebind |-> rebind]
       IN  /\ rebind = 0 => chosen = {}
           /\ ValidMonitor(Merged(row, wish))
           /\ Ask(m)
           /\ Start(q, "editMonitor", m, row, wish)
  /\ UNCHANGED <<tables, history, used, backup, imported>>

\* ... write every column, ...
EditMonitor(q) ==
  /\ At(q, "editMonitor")
  /\ IF order[q].id \in Monitors
       THEN WriteRow("monitor", order[q].id, Merged(order[q].row, order[q].wish))
       ELSE UNCHANGED tables
  /\ Then(q, "editToken")
  /\ UNCHANGED <<history, used, orders, backup, shaken, imported>>

\* Mutant: asked after the update, of the row it has written.
HadTokenAfterwards(q) == tables.file.monitor[order[q].id].type \in PushTypes

\* hadHeartbeatToken: by the type the handler read.
HadToken(q) == order[q].row.type \in PushTypes

\* ... give or take the token, ...
EditToken(q) ==
  /\ At(q, "editToken")
  /\ LET m == order[q].id
         needs == order[q].wish.type \in PushTypes
     IN  IF needs /\ ~HadToken(q)
           THEN /\ Attempt(q, m \in Monitors, "editBindings")
                /\ m \in Monitors => tables' = [tables EXCEPT !.token = @ \union {m}]
           ELSE /\ Then(q, "editBindings")
                /\ tables' = IF ~needs /\ HadToken(q)
                               THEN [tables EXCEPT !.token = @ \ {m}] ELSE tables
                /\ UNCHANGED shaken
  /\ UNCHANGED <<history, used, orders, backup, imported>>

\* ... and replace the bindings in one batch.
EditBindings(q) ==
  /\ At(q, "editBindings")
  /\ LET m == order[q].id
         links == {m} \X order[q].wish.chosen
         allowed == links \subseteq Monitors \X Channels
     IN  IF allowed
           THEN /\ IF order[q].wish.rebind = 1
                     THEN Write("bound", {b \in tables.file.bound : b[1] # m} \union links)
                     ELSE UNCHANGED tables
                /\ Reply(q) /\ UNCHANGED shaken
           ELSE Abandon(q) /\ UNCHANGED tables
  /\ UNCHANGED <<history, used, orders, backup, imported>>

-----------------------------------------------------------------------------
(* Deletion, counted before it is done.                                    *)

\* What D1 writes to insert or to delete one row: the row, its primary key and
\* its other indexes.  A link of an incident report also moves the counter of
\* its monitor, by the triggers.
Writes ==
  [monitors |-> 7, alert_state |-> 2, heartbeat_tokens |-> 3,
   monitor_notifications |-> 2, status_page_monitors |-> 2, maintenance_windows |-> 3,
   notification_channels |-> 2, status_pages |-> 3, settings |-> 2,
   status_logs |-> 4, monitor_daily_rollups |-> 3, incidents |-> 4,
   incident_report_events |-> 3, notification_deliveries |-> 5,
   incident_monitors |-> 6, agent_metric_samples |-> 2]

\* Mutant: the outbox is left out.
WeightWithoutOutbox ==
  [Writes EXCEPT !.notification_deliveries = 0, !.agent_metric_samples = 0]

\* What estimateDestructiveD1Writes charges for it.  countDestructiveRows does
\* not count the metric samples.
Weight ==
  [monitors |-> 7, alert_state |-> 2, heartbeat_tokens |-> 2,
   monitor_notifications |-> 2, status_page_monitors |-> 2, maintenance_windows |-> 3,
   notification_channels |-> 2, status_pages |-> 3, settings |-> 2,
   status_logs |-> 4, monitor_daily_rollups |-> 3, incidents |-> 4,
   incident_report_events |-> 3, notification_deliveries |-> 5,
   incident_monitors |-> 5, agent_metric_samples |-> 0]

Windows(file, S) == MapThenSumSet(LAMBDA m : file.windows[m], S)
Recorded(table, S) == MapThenSumSet(LAMBDA m : history[m][table], S)

\* The rows of the monitors S and those their deletion cascades to, at a price
\* for each.
Deletion(price, S) ==
    price.monitors * Cardinality(Monitors \intersect S)
  + price.alert_state * Cardinality(tables.alert \intersect S)
  + price.heartbeat_tokens * Cardinality(tables.token \intersect S)
  + price.monitor_notifications * Cardinality({b \in tables.file.bound : b[1] \in S})
  + price.status_page_monitors * Cardinality({s \in tables.file.shown : s[2] \in S})
  + price.maintenance_windows * Windows(tables.file, S)
  + price.status_logs * Recorded("status_logs", S)
  + price.monitor_daily_rollups * Recorded("monitor_daily_rollups", S)
  + price.incidents * Recorded("incidents", S)
  + price.incident_report_events * Recorded("incident_report_events", S)
  + price.notification_deliveries * Recorded("notification_deliveries", S)
  + price.incident_monitors * Recorded("incident_monitors", S)
  + price.agent_metric_samples * Recorded("agent_metric_samples", S)

Pushed(file) == {m \in Present(file.monitor) : file.monitor[m].type \in PushTypes}

\* The rows that a file is inserted as.
Insertion(price, file) ==
    price.settings
  + (price.monitors + price.alert_state) * Cardinality(Present(file.monitor))
  + price.heartbeat_tokens * Cardinality(Pushed(file))
  + price.notification_channels * Cardinality(Present(file.channel))
  + price.monitor_notifications * Cardinality(file.bound)
  + price.status_pages * Cardinality(Present(file.page))
  + price.status_page_monitors * Cardinality(file.shown)
  + price.maintenance_windows * Windows(file, MonitorIds)

\* A restore deletes all there is and inserts the file.
Replacement(price, file) ==
    Deletion(price, MonitorIds)
  + price.notification_channels * Cardinality(Channels)
  + price.status_pages * Cardinality(ShownPages)
  + price.settings
  + Insertion(price, file)

\* DELETE /monitors/:id, and PATCH /monitors/bulk for several.
CountForDelete(q) ==
  /\ At(q, "idle")
  /\ \E S \in SUBSET Monitors \ {{}} :
       /\ Deletion(Weight, S) <= WriteLimit
       /\ Ask("deletion")
       /\ Start(q, "deleting", "deletion", S, NoRow)
  /\ UNCHANGED <<tables, history, used, backup, imported>>

\* DELETE FROM monitors with its cascades.
Without(S) ==
  [file |-> [tables.file EXCEPT
     !.monitor = [m \in MonitorIds |-> IF m \in S THEN NoRow ELSE tables.file.monitor[m]],
     !.windows = [m \in MonitorIds |-> IF m \in S THEN 0 ELSE tables.file.windows[m]],
     !.bound = {b \in tables.file.bound : b[1] \notin S},
     !.shown = {s \in tables.file.shown : s[2] \notin S}],
   alert |-> tables.alert \ S,
   token |-> tables.token \ S]

DeleteMonitors(q) ==
  /\ At(q, "deleting")
  /\ tables' = Without(order[q].row)
  /\ history' = [m \in MonitorIds |-> IF m \in order[q].row THEN NoHistory ELSE history[m]]
  /\ Reply(q)
  /\ UNCHANGED <<used, orders, backup, shaken, imported>>

\* Checks, pushes, drains and incident reports write meanwhile.
Observe ==
  \E m \in Monitors, table \in Filled, n \in Batches :
    /\ table = "agent_metric_samples" => tables.file.monitor[m].type = "agent"
    /\ MapThenSumSet(LAMBDA t : history[m][t], HistoryTables) + n <= MaxHistory
    /\ history' = [history EXCEPT ![m][table] = @ + n]
    /\ UNCHANGED <<tables, used, order, orders, backup, shaken, imported>>

-----------------------------------------------------------------------------
(* Channels.                                                               *)

CreateChannel(q) ==
  /\ At(q, "idle")
  /\ \E c \in ChannelIds \ used, row \in ChannelRows :
       /\ ValidChannel(row)
       /\ Ask(c)
       /\ WriteRow("channel", c, row)
       /\ used' = used \union {c}
  /\ UNCHANGED <<history, order, backup, imported>>

\* The browser never sees a secret: a blank one keeps what is saved, unless
\* the kind changes, which needs a configuration of its own.
MergedChannel(row, wish) ==
  [kind |-> wish.kind,
   secret |-> IF wish.config = "secret" THEN "sealed"
              ELSE IF wish.kind = row.kind THEN row.secret ELSE "none"]

ReadChannel(q) ==
  /\ At(q, "idle")
  /\ \E c \in Channels, kind \in {"slack", "discord"}, config \in {"absent", "blank", "secret"} :
       LET row  == tables.file.channel[c]
           wish == [kind |-> kind, config |-> config]
       IN  /\ kind # row.kind => config # "absent"
           /\ ValidChannel(MergedChannel(row, wish))
           /\ Ask(c)
           /\ Start(q, "editChannel", c, row, wish)
  /\ UNCHANGED <<tables, history, used, backup, imported>>

EditChannel(q) ==
  /\ At(q, "editChannel")
  /\ IF order[q].id \in Channels
       THEN WriteRow("channel", order[q].id, MergedChannel(order[q].row, order[q].wish))
       ELSE UNCHANGED tables
  /\ Reply(q)
  /\ UNCHANGED <<history, used, orders, backup, shaken, imported>>

DeleteChannel(q) ==
  /\ At(q, "idle")
  /\ \E c \in Channels :
       /\ Ask(c)
       /\ tables' = [tables EXCEPT !.file.channel[c] = NoRow,
                                   !.file.bound = {b \in @ : b[2] # c}]
  /\ UNCHANGED <<history, used, order, backup, imported>>

\* POST /notifications/:id/apply-all-monitors.
FindChannel(q) ==
  /\ At(q, "idle")
  /\ \E c \in Channels : Ask(c) /\ Start(q, "applying", c, NoRow, NoRow)
  /\ UNCHANGED <<tables, history, used, backup, imported>>

ApplyToAll(q) ==
  /\ At(q, "applying")
  /\ IF order[q].id \in Channels
       THEN /\ Write("bound", tables.file.bound \union (Monitors \X {order[q].id}))
            /\ Reply(q) /\ UNCHANGED shaken
       ELSE IF Monitors = {} THEN Reply(q) /\ UNCHANGED <<tables, shaken>>
       ELSE Abandon(q) /\ UNCHANGED tables
  /\ UNCHANGED <<history, used, orders, backup, imported>>

-----------------------------------------------------------------------------
(* Status pages, settings and maintenance windows.                         *)

\* A write of a page outdates what requests have read of it.
Outdate(p) ==
  [q \in Admins |-> IF order[q].pc = "editPage" /\ order[q].id = p
                      THEN [order[q] EXCEPT !.stale = 1] ELSE order[q]]

\* POST /status-pages is one batch.
CreatePage(q) ==
  /\ At(q, "idle")
  /\ \E p \in PageIds \ used, access \in {"open", "locked"}, chosen \in SUBSET Monitors :
       /\ Ask(p)
       /\ tables' = [tables EXCEPT !.file.page[p] = access,
                                   !.file.shown = @ \union ({p} \X chosen)]
       /\ used' = used \union {p}
  /\ UNCHANGED <<history, order, backup, imported>>

\* A password is kept ("same"), removed with "", or set.
ReadPage(q) ==
  /\ At(q, "idle")
  /\ \E p \in ShownPages, access \in {"same", "open", "locked"},
        chosen \in SUBSET MonitorIds, relink \in {0, 1} :
       /\ relink = 0 => chosen = {}
       /\ Ask(p)
       /\ Start(q, "editPage", p, tables.file.page[p],
                [access |-> access, chosen |-> chosen, relink |-> relink])
  /\ UNCHANGED <<tables, history, used, backup, imported>>

\* Mutant: a password that is not in the body is taken for removed.
AccessFromBody(row, wish) == IF wish.access = "locked" THEN "locked" ELSE "open"

MergedAccess(row, wish) == IF wish.access = "same" THEN row ELSE wish.access

EditPage(q) ==
  /\ At(q, "editPage")
  /\ LET p == order[q].id
     IN  /\ IF p \in ShownPages
              THEN WriteRow("page", p, MergedAccess(order[q].row, order[q].wish))
              ELSE UNCHANGED tables
         /\ order' = [Outdate(p) EXCEPT ![q] = [order[q] EXCEPT !.pc = "editLinks"]]
  /\ UNCHANGED <<history, used, orders, backup, shaken, imported>>

EditLinks(q) ==
  /\ At(q, "editLinks")
  /\ LET p == order[q].id
         links == {p} \X order[q].wish.chosen
         allowed == links \subseteq ShownPages \X Monitors
     IN  IF allowed
           THEN /\ IF order[q].wish.relink = 1
                     THEN Write("shown", {s \in tables.file.shown : s[1] # p} \union links)
                     ELSE UNCHANGED tables
                /\ Reply(q) /\ UNCHANGED shaken
           ELSE Abandon(q) /\ UNCHANGED tables
  /\ UNCHANGED <<history, used, orders, backup, imported>>

DeletePage(q) ==
  /\ At(q, "idle")
  /\ \E p \in ShownPages :
       /\ Ask(p)
       /\ tables' = [tables EXCEPT !.file.page[p] = NoRow,
                                   !.file.shown = {s \in @ : s[1] # p}]
       /\ order' = Outdate(p)
  /\ UNCHANGED <<history, used, backup, imported>>

\* PUT /settings is one upsert.
PutSettings(q) ==
  /\ At(q, "idle")
  /\ Ask("settings")
  /\ Write("retention", "custom")
  /\ UNCHANGED <<history, used, order, backup, imported>>

\* POST /monitors/:id/maintenance looks the monitor up, then inserts.
FindMonitorForWindows(q) ==
  /\ At(q, "idle")
  /\ \E m \in Monitors, n \in 1..WindowLimit :
       Ask(m) /\ Start(q, "addWindows", m, NoRow, n)
  /\ UNCHANGED <<tables, history, used, backup, imported>>

\* Mutant: the limit is compared with the occurrences alone.
FewOccurrences(m, n) == n <= WindowLimit

\* The WHERE clause of the INSERT ... SELECT.
RoomForWindows(m, n) == tables.file.windows[m] + n <= WindowLimit

AddWindows(q) ==
  /\ At(q, "addWindows")
  /\ LET m == order[q].id
     IN  IF ~RoomForWindows(m, order[q].wish)
           THEN Reply(q) /\ UNCHANGED <<tables, shaken>>
         ELSE IF m \in Monitors
           THEN /\ WriteRow("windows", m, tables.file.windows[m] + order[q].wish)
                /\ Reply(q) /\ UNCHANGED shaken
         ELSE Abandon(q) /\ UNCHANGED tables
  /\ UNCHANGED <<history, used, orders, backup, imported>>

\* A window ends, or is deleted.
WindowEnds ==
  \E m \in Monitors :
    /\ tables.file.windows[m] > 0
    /\ WriteRow("windows", m, tables.file.windows[m] - 1)
    /\ UNCHANGED <<history, used, order, orders, backup, shaken, imported>>

-----------------------------------------------------------------------------
(* Backup and restore.                                                     *)

\* The order in which GET /backup issues its seven queries, and in which the
\* database, which runs one statement at a time, answers them.
Queries == <<"retention", "monitor", "channel", "page", "bound", "shown", "windows">>

BeginExport(q) ==
  /\ At(q, "idle")
  /\ Ask("export")
  /\ Start(q, "exporting", "export", << >>, NoRow)
  /\ UNCHANGED <<tables, history, used, backup, imported>>

ReadTable(q) ==
  /\ At(q, "exporting")
  /\ DOMAIN order[q].row # DOMAIN tables.file
  /\ LET table == Queries[Cardinality(DOMAIN order[q].row) + 1]
     IN  order' = [order EXCEPT ![q].row =
           [t \in DOMAIN @ \union {table} |-> IF t = table THEN tables.file[t] ELSE @[t]]]
  /\ UNCHANGED <<tables, history, used, orders, backup, shaken, imported>>

\* Bindings and shown monitors are written into the rows they belong to.
Download(q) ==
  /\ At(q, "exporting")
  /\ DOMAIN order[q].row = DOMAIN tables.file
  /\ LET read == order[q].row
     IN  backup' = {[read EXCEPT
           !.bound = {b \in @ : b[1] \in Present(read.monitor)},
           !.shown = {s \in @ : s[1] \in Present(read.page)}]}
  /\ Reply(q)
  /\ UNCHANGED <<tables, history, used, orders, shaken, imported>>

\* POST /backup/restore, of the downloaded file or of any other: look whether its
\* references lead somewhere, count what the batch will write.  A file may also
\* be refused for its size or for a value of the wrong type; nothing asks
\* whether a monitor has its target, a channel what its kind needs, or how many
\* windows a monitor has.
CountForRestore(q) ==
  /\ At(q, "idle")
  /\ \E file \in backup \union Uploads :
       /\ Consistent(file)
       /\ Replacement(Weight, file) <= WriteLimit
       /\ Ask(NoRow)
       /\ Start(q, "restoring", NoRow, file, NoRow)
       /\ used' = used \union Present(file.monitor) \union Present(file.channel)
                       \union Present(file.page)
       /\ imported' = (imported \/ file \notin backup)
  /\ UNCHANGED <<tables, history, backup>>

\* One batch.  Windows may have ended since the file was written.
Restore(q) ==
  /\ At(q, "restoring")
  /\ LET file == order[q].row
     IN  /\ \E ended \in [MonitorIds -> 0..Windows(file, MonitorIds)] :
              /\ \A m \in MonitorIds : ended[m] <= file.windows[m]
              /\ tables' =
                   [file |-> [file EXCEPT !.windows =
                                [m \in MonitorIds |-> file.windows[m] - ended[m]]],
                    alert |-> Present(file.monitor),
                    token |-> Pushed(file)]
         /\ history' = [m \in MonitorIds |-> NoHistory]
         /\ order' = [r \in Admins |->
              IF r = q THEN NoOrder ELSE [order[r] EXCEPT !.stale = 1]]
  /\ UNCHANGED <<used, orders, backup, shaken, imported>>

-----------------------------------------------------------------------------

Handle(q) ==
  \/ CreateMonitor(q) \/ InsertAlert(q) \/ InsertToken(q) \/ BindChannels(q)
  \/ ReadMonitor(q) \/ EditMonitor(q) \/ EditToken(q) \/ EditBindings(q)
  \/ CountForDelete(q) \/ DeleteMonitors(q)
  \/ CreateChannel(q) \/ ReadChannel(q) \/ EditChannel(q) \/ DeleteChannel(q)
  \/ FindChannel(q) \/ ApplyToAll(q)
  \/ CreatePage(q) \/ ReadPage(q) \/ EditPage(q) \/ EditLinks(q) \/ DeletePage(q)
  \/ PutSettings(q) \/ FindMonitorForWindows(q) \/ AddWindows(q)
  \/ BeginExport(q) \/ ReadTable(q) \/ Download(q)
  \/ CountForRestore(q) \/ Restore(q) \/ CutOff(q)

Destructions == {"deleting", "restoring"}

\* What the destruction a request has counted would write at this moment, ...
Destroys(q) == IF At(q, "deleting") THEN Deletion(Writes, order[q].row)
                                    ELSE Replacement(Writes, order[q].row)

\* ... and what of it the estimate charges too little for: metric samples, and
\* one write of each token and of each link of an incident report.
Missed(q) ==
  LET S == IF At(q, "deleting") THEN order[q].row ELSE MonitorIds
  IN  2 * Recorded("agent_metric_samples", S) + Recorded("incident_monitors", S)
        + Cardinality(tables.token \intersect S)
        + (IF At(q, "deleting") THEN 0 ELSE Cardinality(Pushed(order[q].row)))

Rise(before, after) == IF after > before THEN after - before ELSE 0

\* History: a destruction writes what its estimate missed, and what is added
\* after it was counted.
Watch ==
  grown' = [q \in Admins |->
    IF order'[q].pc \notin Destructions THEN 0
    ELSE IF order[q].pc \in Destructions
           THEN grown[q] + Rise(Destroys(q), Destroys(q)')
           ELSE Missed(q)']

ConfNext == ((\E q \in Admins : Handle(q)) \/ Observe \/ WindowEnds) /\ Watch

ConfSpec == ConfInit /\ [][ConfNext]_confVars

-----------------------------------------------------------------------------
(* Properties.                                                             *)

\* Also, however edits, deletions and restores interleave, and as long as no
\* uploaded file was restored: the stored rows are ones their validation
\* accepts, and no monitor has more upcoming maintenance windows than the limit
\* (monitors.ts 54-118 and 562-567, notifications.ts 191-222).
ConfTypeOK ==
  /\ tables.file \in Files
  /\ imported \/ /\ \A m \in Monitors : ValidMonitor(tables.file.monitor[m])
                                        /\ tables.file.windows[m] <= WindowLimit
                 /\ \A c \in Channels : ValidChannel(tables.file.channel[c])
  /\ tables.alert \subseteq MonitorIds /\ tables.token \subseteq MonitorIds
  /\ history \in [MonitorIds -> [HistoryTables -> Nat]]
  /\ used \subseteq MonitorIds \union ChannelIds \union PageIds
  /\ \A q \in Admins : order[q].pc \in Places
  /\ orders \in 0..MaxOrders
  /\ imported \in BOOLEAN /\ grown \in [Admins -> Nat]

\* A monitor that is pushed to has its token, which is the only way in, unless
\* requests on it met or one was cut off between its statements: the handlers
\* decide by the type they read whether there is one (monitors.ts 286-293,
\* 385-393, backup.ts 264-267).
PushTokenPresent ==
  \A m \in Monitors \ (tables.token \union shaken) :
    tables.file.monitor[m].type \in PushTypes => InFlightOn(m)

\* A protected status page becomes public on request only: an edit that leaves
\* the password out keeps it, unless it had read the page before another write
\* of it (statusPages.ts 147-164).
ProtectionKept ==
  [][\A p \in PageIds :
       tables.file.page[p] = "locked" /\ tables'.file.page[p] = "open" =>
         \E q \in Admins :
           \/ At(q, "restoring")
           \/ /\ At(q, "editPage") /\ order[q].id = p
              /\ order[q].wish.access = "open" \/ order[q].stale = 1]_confVars

\* What a deletion or a restore writes, row by row and index by index, is within
\* the write limit but for two things: what was added after it was counted, and
\* what the estimate is known to miss, the metric samples and one write of each
\* token and of each link of an incident report
\* (destructive-write-budget.ts 46-91 and 164-182, migrate.ts 26-330).
DestructionWithinLimit ==
  [][\A q \in Admins :
       order[q].pc \in Destructions /\ tables' # tables /\ order'[q].pc = "idle" =>
         Destroys(q) <= WriteLimit + grown[q]]_confVars

OneEach == [table \in DOMAIN Writes |-> 1]

\* The estimate covers what a deletion cascades to: a deletion just counted
\* removes no more rows than the write limit, even at one write each
\* (docs/ARCHITECTURE.md 164).  It does not: nobody counts the metric samples.
CascadesAreCounted ==
  [][\A q \in Admins :
       order'[q].pc = "deleting" /\ order[q].pc = "idle" =>
         Deletion(OneEach, order'[q].row) <= WriteLimit]_confVars

=============================================================================
