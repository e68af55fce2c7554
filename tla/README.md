# Pingflare, specified in TLA+

Pingflare is an uptime monitor that runs on one Cloudflare Worker with one D1
(SQLite) database.  Every minute a cron run selects the monitors that are due,
checks their targets, writes the results, updates incidents and sends
notifications; heartbeat and agent requests push results of their own at any
time.  No process outlives a request: whatever must be remembered, including
who is working on what, is a row of the database, and every SQL statement (or
`db.batch`) is atomic while nothing between two statements is.  That is where
the hard behaviours come from, and what these modules model.

Paths below are those of the repository root; line numbers refer to the
commit the modules were written against.  `AM` is
`src/services/alert-manager.ts`, `CS` is `src/services/check-storage.ts`.

## 1. The system

| Component | State it keeps | Operations | What makes it correct |
|---|---|---|---|
| **Scheduler lease** (`src/cron.ts` 67-99) | one row of `scheduler_leases`: holder, `lease_until`, outcome of the last run | acquire, renew before each batch and before persistence, release in `finally` | terms do not overlap; a run that was displaced is fenced off; a dead run delays the schedule by one term at most |
| **Cron run** (`src/cron.ts` 340-667) | none of its own | select due monitors within a query budget, prefetch, check in batches, persist, process alerts, redo what failed, drain, clean up | overlapping and stale runs change nothing they should not; the query limit holds; no due monitor starves |
| **Checkers** (`src/services/checker.ts`) | one controller and one timer per check | HTTP, DNS, ping; digest retry; bounded bodies | a check ends by its deadline, a batch inside the lease |
| **Check persistence** (`CS`) | `monitors` (observation revision, cursors, counters of the current day), `monitor_daily_rollups`, ping cursor of `heartbeat_tokens` | one batch guarded by a compare-and-swap; retry of an inbound push | every accepted check counted once, on its own day; no false miss; no push lost to one cron run |
| **Inbound pushes** (`src/routes/heartbeat.ts`, `agent.ts`) | ping cursor, last metrics | authenticate, load, evaluate, persist with one retry, alert, drain | a newer payload is never replaced by an older one |
| **Alert processing** (`AM` 72-480, 1047-1178) | `alert_state`, `incidents`, `monitors.last_status` | processAlert for failed and healthy observations | incidents follow the status however often a handler is cut short; every alert, reminder and recovery that is owed is queued |
| **Notification outbox** (`AM` 482-1045, 1180-1290) | `notification_deliveries` | claim, decide relevance, fan out, retry, rotate, reconcile late deliveries; manual retry | one delivery in flight per monitor; a claim fences its row; channels end up showing the truth |
| **Configuration** (`src/routes/monitors.ts`, `notifications.ts`, `statusPages.ts`, `settings.ts`) | monitors, tokens, links, channels, pages, settings, maintenance windows | create, edit, pause, resume, link, delete, reset statistics | a monitor that is pushed to has its token; a protected page is not opened by accident; what a deletion destroys was counted |
| **Backup and restore** (`backup.ts`) | none | export, import as one validated batch | what an import writes was counted; it leaves only rows whose references lead somewhere |
| **Analytics read path** (`history-rollups.ts`, `response-cache.ts`) | cache entries keyed by revision | add the current day to the archived ones | a day is counted once; a key never serves changed history |
| **Public pages and budgets** (`publicStatus.ts`, `d1-budget.ts`, `local-rate-limiter.ts`, `destructive-write-budget.ts`) | rows reserved today, counters in memory, access tokens | admit, authorize, reserve, read | the day's budget holds; a page is served to who has shown its password |
| **Sessions** (`admin-session.ts`, `auth.ts`) | `revoked_sessions` | login, refresh, logout, verify | a session that was logged out stays out |
| **Incident reports** (`incidentReports.ts`) | reports, updates, links, feed counters | create, edit, post an update, delete | timestamps go with the status; counters are exact |
| **Legacy catch-up and retention** (`cron.ts` 101-338) | progress markers in `settings`, old logs | move old status logs into rollups, delete expired ones | each old row counted once; the catch-up ends |
| **Schema and deployment** (`db/migrate.ts`, `server.ts`, `scripts/reconcile-legacy-migration.mjs`) | the schema and its ledger | build or complete the schema at start; reconcile a ledger, apply migrations | a server that listens has its schema; the ledger claims nothing that is missing |
| **Frontend polling** (`(app)/+page.svelte` and its like) | timers, in-flight flags, what is shown | load, schedule, hide, show, leave | no load of a visit overtakes another; no change stays unseen; nothing polls after leaving |
| Providers, infrastructure parsing, agent installer, telemetry, forms, charts, routing | none shared | input/output, parsing, generated text | - |

### How they interact

* A cron run and a push both end in `persistCheckObservations`; only the
  compare-and-swap on `observation_revision`, the check cursor and the ping
  cursor decides which of two snapshots commits.  The lease orders cron runs
  among themselves, but a run that stalls past its lease may still commit, so
  nothing else relies on it.
* A committed observation carries its new revision into `processAlert`; every
  write of the handler is guarded by that revision, so the next commit, an
  edit or a reset supersedes the handler between any two of its statements.
* Handlers write rows of the outbox; drains, started by cron runs and by
  pushes, claim them.  A drain knows the monitor only as it was when the drain
  read it, and a provider call may take seconds.
* The administrator writes the same rows from requests of his own.

* Everything else is read through the same rows by requests of visitors and
  administrators; their own state (budgets, sessions, reports, configuration) is not
  touched by the pipeline above, which is why those modules stand alone.

### What is hard

* *Interleaving.*  Handlers, drains, pushes, cron runs, administrative and
  public requests meet between any two statements.
* *Crashes.*  A request may end between any two statements: a Worker is
  stopped, D1 answers with an error, the time limit is reached.  A node may die at
  any statement of its schema, a deployment between any two commands.
* *Late answers.*  A provider may accept a message after the monitor's status
  has changed, after the claim has expired, or after the drain gave up on it; a
  page may have been left, or reloaded, when an answer arrives.
* *Retries and partial failure.*  A delivery to several channels fails half
  way, alert handling fails after the observation is durable, a handler of the API
  stops between a row and its token.
* *Clocks.*  A clock value is read before the statement that uses it, and the
  UTC day changes in between.
* *Limits.*  Queries per invocation, rows per day, writes per request are hard
  limits that concurrent requests estimate and reserve in separate steps.

`PROJECT.json` lists these hazards one by one, each at the line where it bites
and with the properties that watch it.

## 2. The modules

| Module | Models | Uses |
|---|---|---|
| `SchedulerLease` | the lease row and any number of `runCron` invocations | - |
| `UptimeLedger` | *abstract:* the statistics as a ledger of checks per day | - |
| `Observations` | check persistence of one monitor, the cron runs and pushes that feed it, edits, pauses and resets | instances `UptimeLedger` |
| `AnalyticsReader` | *composition:* readers of the daily analytics over the writers of `Observations` | `Observations` |
| `AlertStore` | the rows alerting works on, and its SQL statements as operators | - |
| `AlertProcessing` | `processAlert`, statement by statement | `AlertStore` |
| `DeliveryDrain` | `drainNotificationDeliveries`, statement by statement, with its faults | `AlertStore` |
| `Alerting` | *composition:* one handler, any number of drains, administrative writes | `AlertProcessing`, `DeliveryDrain` |
| `SurgeProtection` | a history variable over `Alerting` | `Alerting` |
| `CheckAdmission` | which due monitors an invocation checks, what it charges for them, and the D1 queries it sends | - |
| `Checker` | a batch of checks against deadline and lease | - |
| `LegacyHistory` | catch-up and retention by overlapping runs beside an old Worker | - |
| `Deployment` | reconciliation and migrations by concurrent deployments | - |
| `NodeSchema` | `ensureSchema` of a node that keeps dying | - |
| `Polling` | the timers and loads of a page that is opened, left and opened again | - |
| `PublicPage` | a protected page, its visitors, its read budget | - |
| `Sessions` | tokens, revocations, purges | - |
| `Configuration` | the administrative handlers, backup and restore, and what a destruction writes | - |
| `IncidentReports` | reports, updates, links, triggers | - |
| `MC...` | compositions and symmetry sets for the runs | the modules they name |
| `...Proofs` | theorems, by area of the system, see section 4 | the modules of the area, `FiniteSums` |
| `FiniteSums` | lemmas on sums over finite sets | `FiniteSetTheorems`, `TLAPS` |

One monitor is modelled in `Observations` and in `Alerting`: no statement of
either component reads or writes rows of two monitors, except that a drain
picks the next due row over all monitors (its order among monitors is left
out).  Time is a bounded integer counted in the smallest unit that matters.

`MCBackground` and `MCRequests` put parts that share no variable side by side: a
variable `part`, chosen once, says which of them moves, and the others stay at
rest.  A behaviour of such a composite is a behaviour of one part, so every
property it checks is checked exactly as it would be in a run of its own.

### Scheduler lease

`Start` reads the clock, `Acquire`/`Skip` is `acquireSchedulerLease`,
`BeginRenewal`/`Renew`/`LoseLease` is `renewSchedulerLease` (clock first, statement
later), `Persist` the commit of the observations (no clause of which mentions
the lease), `Release` is `releaseSchedulerLease` in the `finally` block.  `Throw` is any exception, and a run
that simply never moves again is a crash.  A manual run of `POST /api/cron/run`
is another element of `Runs`.

### Observations

`mon` is the monitor's row, `rollup` its archived days, `lastPingAt` the cursor
of its token.  A request keeps what it has read (`req[q].rev`, `.cursor`,
`.ping`) and `Commit` is the batch of `persistCheckObservations`: archive the
ended day, update the row, move the ping cursor, all under `CasHolds`.
`RereadMonitor` and `RereadToken` are the two halves of the `Promise.all` of
`persistInboundObservationWithRetry`, in either order.  `RescheduleFailedAlert`
is `rescheduleFailedAlertObservations`.
`CronCheck` is the check of a push monitor against its token in the two push runs, and of
a target in the analytics part of `requests`.
`EditRead`/`EditWrite` are the read and the write of `PUT /api/monitors/:id`.
`UptimeLedger` says what all this is for: every request is entered at most
once, on the day of its own timestamp, in the order of the timestamps, and the
only other thing that can happen is a reset.  `ImplementsLedger` maps the
ledger to the sum of the two tables.  Response-time sums, messages, SSL state,
diagnostics and metric samples are written by the same batch and left out.

### Alerting

`alert` is the `alert_state` row (failures saturate at the tolerance, beyond
which the code does not distinguish them), `incident` the incidents, `outbox`
the delivery rows by deduplication key.  `proc` is the handler of the *latest*
observation: an older one matches no row with its guarded writes any more, so
`NewObservation` may replace it at any point, which is both being superseded
and being cut short.  A drain keeps the row it claimed and the subject it read
(`drain[d].row`, `.status`, `.sentAt`); each of its statements and the provider
call is a step.  `ProviderAccepts`, `ProviderRejects` and `ProviderTimesOut`
are the provider; a timeout is a refusal to the code, although the message may
have arrived.  `StatementFails` is an exception of a statement inside the
`try` block that begins with the send, `CrashDrain` the end of a request.

`visible` (what each channel was last told) and `lapses` are history
variables: no action reads them.  `lapses` holds `"answer"` when a provider's
answer never reached the database (a crash or a timeout in between, where
at-least-once delivery is all one can have), `"forgotten"` when an alert
was cleared before its recovery had been received, `"overlooked"` when a recovery
clears an alert that a channel still shows or a queued row still counts on, and
`"uncounted"` when a corrective row is staged as applied while no alert is recorded
(the two histories at the end of section 6).  The properties that hold
are stated up to these lapses; the ones that the documentation promises
without the excuse are violated, see section 6.

Abstracted: message texts, locales, payloads, error strings; the thirteen
providers (one nondeterministic answer); maintenance windows, of which one at
a time exists; the recovery of one alert keeps its key, two recoveries of one
alert differ in the code by the second they were queued in.

### The rest of a cron run

`CheckAdmission` keeps two accounts of an invocation.  `used` is the code's: what the
catch-up reports, a renewal per batch, and for each check what
`estimatedObservationQueries` makes of its prefetched rows (`EstimatedQueries`).
`sent` is the statements themselves, counted along the longest way an observation can
take through the batch of `persistCheckObservations` and through `processAlert`
(`HealthyQueries` for AM 193-296, `FailedQueries` for 298-426, `Enqueued` for 428-480),
and through the drain that gets the rest (`RowQueries`).  The property compares the second
account with the limit, so an estimate below what a path sends shows.
`AdmitBatch` is one turn of the loop of `cron.ts` 485-604, `Fits` its condition.
Monitors also wait for what their own check cannot help: an invocation that throws
(`FailCron`), one that a live lease turns away (`TurnAway`), and an observation that is
refused because an edit has changed the row and made it due at once (`edited` in
`FinishCron`); `setbacks` counts them.
A monitor's due time is kept relative to the present minute, which makes the
state finite without a clock.  `Checker` is what a batch awaits: `wait[k]` is
the promise a check is at, `Headers`, `DigestAnswer`, `Chunk`, `BodyEnds` and `ConnectionFails` are the network's,
and the timer fires as the event loop would run it.  `LegacyHistory` has one
action per statement or batch of `catchUpLegacyStatusLogs` and of retention; a run
keeps the ids it selected and may be cut short before it uses them.
`counted` says how often each row was added to a rollup, and `tardy` which rows
were written after the catch-up had been declared done.

### Schema and deployment

`NodeSchema` is `ensureSchema` with one action per statement (`AddColumn` for each of
`alterStatements`, which fails where the column exists already).  A table is the set of
the columns that `alterStatements` names.  `Declared` are those that a CREATE TABLE names
too: `scheduler_leases` gets its two newest columns from the ALTERs only (`migrate.ts`
129-134, 388-389), also in a new file.  Since the newest columns stand first in the list,
an earlier version may have left any subset of them, in whatever tables it knew, and every
such file is an initial state (`LeftByEarlierVersion`).
It assumes that a file is not handed back to an older version after an upgrade.
`Deployment` abstracts the objects a migration creates to one group (absent,
partly there, complete), takes each `wrangler d1 execute` as one step, and lets several
deployments and the repairs of a version 1.6 Worker run at once.  It counts the rows of
each kind that the later migrations touch.  `Estimated` is what the script charges for
them, from its list of pending index builds and drops
(`reconcile-legacy-migration.mjs` 326-457); `WritesOf` is what the statements of
`drizzle/0006`, `0007` and `0010` write, row by row and index by index.
`disturbed` marks deployments during which somebody else wrote the schema.

### Pages and requests

`Polling` is shared by the pages that poll: `TimerFires`, `BecomeVisible`,
`Click`, `Leave` and `Reopen` are what the browser does, `ServerAnswers`, `CallFails` and
`Arrive` an API call.  Each visit of a page has flags and timers of its own.  Two calls
escape them.  The loads of a page that was left are not aborted, and on the dashboard they
fill the store that the next visit shows (`Stored`; `(app)/+page.svelte` 65).  And
`Toggle`, on a monitor's page, puts its answer where a load that is already in flight puts
an older one (`monitors/[id]/+page.svelte` 212-222).  `raced` is history: it marks calls
that were in flight beside such a rival.  `PublicPage` follows a visitor's request from the browser
through limiter, page lookup, authorization and reservations; `req.day` is the
clock reading that the next reservation binds.  A browser has one request at a
time.  `spent`, `setBack` and `proved` are history.  `Sessions` verifies a token
in the two steps of the code, signature and expiry first, the table later.
`AnalyticsReader` adds the three reads of `history-rollups.ts` and the cache
to `Observations`; a cache lookup may always miss, and concurrent computations
are not shared, which is the case with the most interleavings.

`Configuration` keeps of each row what the code tells apart (a monitor's type,
a page's protection, which ids a link names) and has one action per statement of
each handler; `order[q]` is a request's local state, with what it read before.
A deletion names a set of monitors (`DELETE /monitors/:id` and the bulk PATCH are the
same two steps).  A restore takes a file this configuration exported or any other
(`Uploads`), of which it asks only that the references lead somewhere: an uploaded file may
bring a monitor without a target or more windows than the limit, and `imported`
records that one was accepted.
`Weight` is what `destructive-write-budget.ts` charges for a row of each table, `Writes`
what D1 writes for it by the indexes and triggers of `migrate.ts`; `Missed` names
the difference, and `grown` adds what was written after a request had counted.
`shaken` marks monitors on which requests met or one was cut short.
The seven queries of an export are answered in the order they are sent.
`IncidentReports` models the two triggers row by row, since a replacement of
links fires them for each.

## 3. The runs

| Run | Instance | Distinct states | What it shows |
|---|---|---|---|
| `observations_heartbeat` | 2 cron runs, 1 ping, 1 administrative write, 2 days of 2 units | 650 000 | `NoFalseMiss`, `PushSurvivesOneCron`, `OnlyChecksPostpone`, the ledger |
| `observations_agent` | 2 agent pushes, 1 cron run, 2 days | 35 000 | `NewerPayloadKept`, although a retry stamps its check with a later time |
| `alerting_flaps` | 1 channel, 1 drain, 3 observations, 1 fault | 1 260 000 | `IncidentMatchesStatus`, `SettledAgreement`, `OutageIsRemembered` while handlers and drain are cut short anywhere |
| `alerting_claims` | 2 drains that may outlive a claim of 1, 2 observations, a manual retry | 781 000 | `TypeOK`, `DeliveriesTakeTurns`, `ClaimsFence` |
| `alerting_admin` | 2 channels, reminders, surge limit 1, one window, toggle, reset or retry at any point | 1 220 000 | `SettledAgreement` with the administrator at work |
| `background` | the seven parts that run by themselves, one per behaviour (below) | 302 000 | sixteen properties, five of them temporal |
| `requests` | the five parts people ask for, one per behaviour (below) | 1 081 000 | eleven properties |
| `lost_recovery`, `silent_outage`, `repeated_recovery`, `surge_protection`, `destruction_samples` | see section 6 | - | statements of comments and documentation that the code does not keep |

The parts of `background`:

| Part | Instance | Properties |
|---|---|---|
| lease | 2 runs, a lease of 2, clock to 5 | `TermsExclusive`, `DisplacedRunIsFenced` |
| admission | 3 monitors due every other minute, 2 checks per run, the real budget of 50 queries, 1 failed or displaced run or edit | `WithinQueryBudget`, `NoMonitorStarves` |
| checks | one check with a timeout of 0 or beyond the cap, bodies longer than the limit | `EndsByDeadline` |
| history | 2 overlapping runs, 2 old rows, batches of 1, 1 cut or reset | `CountedOnce`, `DoneMeansDone`, `CatchUpCompletes` |
| deployment | 2 deployments, 2 legacy and 3 later migrations, 1 row of any kind, a limit of 3 writes, any state of repair | `RecordedIsPresent`, `UndisturbedDeploySucceeds` |
| node | 3 columns in 2 tables, one of them from its ALTER only, any earlier file, 2 starts that die | `ServesCompleteSchema`, `NodeStarts` |
| page | 2 pollers, 2 visits of the dashboard or one of a monitor's page, 2 versions of the data, 1 failure or click | `GoesBackOnlyInRaces`, `NoTimerAfterLeaving`, `ChangesAreShown` |

The parts of `requests`:

| Part | Instance | Properties |
|---|---|---|
| analytics | 1 reader, 2 cron runs on 3 days, an edit, pause or reset | `CacheNeverStale`, `ReadsExactLedger` |
| page | 2 visitors, 2 requests, 2 passwords, a budget of 10 rows, a midnight | `BudgetKept`, `AccessNeedsPassword` |
| sessions | 2 requests, 2 tokens, 1 row purged per logout, a change of credentials | `LoggedOutStaysOut` |
| configuration | 2 requests on 1 monitor, 1 channel, 1 page, a backup and a foreign file, a limit of 45 writes | `PushTokenPresent`, `ProtectionKept`, `DestructionWithinLimit` |
| reports | 2 requests at a time, 3 in all, on 2 reports and 1 monitor | `FeedCountsExact`, `ReportConsistent` |

`BackgroundTypeOK` and `RequestTypeOK` are the type invariants of all parts.

### Why these bounds

* *Lease.*  A run that is displaced and one that displaces it; the theorems
  cover every number of runs and every length.
* *Admission.*  Three monitors and two checks per run force a choice in every
  minute; the query numbers are those of the code, none is scaled down.  One setback is
  enough to add its minute to the wait, which the theorem counts for any number.
* *Checks.*  Checks of a batch share nothing but the clock, so one shows what all
  do; zero and too large are the ends of the clamp.
* *History.*  Two rows and batches of one make the cursor pass a row before the
  last; a row written late, behind the cursor, is what the rescan is for.
* *Deployment.*  Two legacy migrations leave one partly there and one
  missing; two deployments are what a race needs.  The three later
  ones are those that write rows of an existing database.  One row of each kind in turn
  and a limit that lies among the prices of single rows put every kind on one side of it
  or the other.
* *Node.*  The cursor column lies between two others, so that a start can die on
  either side of it, and dies twice so that one dies on a repaired file.  The first column
  is in a table of its own whose CREATE TABLE leaves it out, as in `scheduler_leases`.
* *Page.*  A second visit and one late call of the first (`MaxLate`) let a page that was
  left write into the store of the next; a toggle, a failure and a click need one
  mishap each.
* *Observations.*  A day of two units and a clock to three put one midnight in
  the middle of the run, so that every request may straddle it.  A ping needs
  two cron runs to show that the second one is what may lose it, and a retry
  delay longer than the interval lets a redo find its own check overtaken.  The forms
  refuse intervals below a minute, but a restore takes whatever number a file has
  (`backup.ts` 223), so such an interval is one the program can have.
* *Analytics.*  Days of one unit and two cron runs archive a day while the next
  is counted, before, between and after the reads of one reader (which begins
  only when there is something to read, `ReadsFrom`).
* *Public page.*  The budget admits one whole page and part of a second, so that
  every reservation is the refused one in some behaviour.
* *Configuration and reports.*  Two requests meet on every row; three requests
  create, edit and delete a report.  Rows of history come eight at a time, so that one
  delivery or sample more or less decides whether a destruction fits into 45 writes; the
  foreign file is one that no handler of this configuration could have produced.
* *Alerting.*  Three observations are the shortest flap (up, down, up) that
  leaves a stale row of each kind behind; the claim of two with drains that
  live for one keeps a claim alive as long as its holder, as the code intends,
  while `alerting_claims` gives drains longer than their claims, which a slow
  provider or a slow database may.  Two channels are what a fan-out needs to
  be left half way.  `MaxTime` reaches past a claim, a retry delay and a
  reminder interval.  `MaxFaults` bounds lost *statements*, provider timeouts
  and crashes of a drain together; supersession of a handler is not bounded by it.
* Failures, attempts and alerts saturate where the code stops distinguishing
  them, so those counters add no bound of their own.

Deadlock is not checked: clocks stop at their bounds and every request ends, so
the instances do stop; nothing in the code waits on anything else, and no action
does.

### Fairness

* `LegacyFairness` (`HistoryFairness` in the composite): weak fairness of every
  sweep's steps and of the clock.  The one-minute trigger starts a run every minute,
  and a run that is not cut short goes on; cuts are bounded, since a run that is cut
  short every minute for ever completes nothing and the code cannot help it.
  It is what `CatchUpCompletes` needs.
* `NodeFairness`: weak fairness of `ensureSchema`, which the process manager starts
  again when it died; starts that die are bounded for the same reason.
* `PollFairness`: weak fairness of the timers, of the server's answer (or the
  request's own timeout, which every call of `api.ts` has) and of the browser's
  callbacks.  The visitor is under no obligation: what a page does not show because
  it is hidden or left is not promised.

No fairness is assumed of the pipeline from observation to notification: a
Worker may be stopped at any point and a provider may refuse for ever, so
everything stated of it is safety, `SettledAgreement` among it, which says what
must be true whenever nothing is left to do.  The drain of `alerting_flaps` ends
within its claims (`WithinDrains` lets the clock pass only so far); the run of
`DeliveriesTakeTurns` and `ClaimsFence` lets drains outlive them.

## 4. What is proved

All theorems hold for every value of the constants that the modules' named
assumptions admit; the bounds on time and counters may be any number.  Each rests
on an inductive invariant that TLC had checked before.  The proofs are kept in
one module per area of the system, and the lemmas on sums over finite sets,
which several of them need, in `FiniteSums`.

| Module | Proves about |
|---|---|
| `FiniteSums` | induction over numbers from `LeastNumber`; the sum an iteration over a finite set computes exists, is bounded, does not depend on the order, can be taken apart at any element, and is compared with another term by term |
| `CronRunProofs` | `SchedulerLease`, `CheckAdmission`, `Checker`, `LegacyHistory` |
| `ObservationsProofs` | `Observations`, `UptimeLedger` |
| `AlertingProofs` | `Alerting`, `SurgeProtection` |
| `BackgroundProofs` | `Deployment`, `NodeSchema`, `Polling`; with `CronRunProofs`, the parts of `MCBackground` together |
| `StatusPageProofs` | `PublicPage`, `IncidentReports` |
| `AdministrationProofs` | `Sessions`, `Configuration` |
| `RequestsProofs` | `AnalyticsReader`, on top of `ObservationsProofs`; with the two before it, the parts of `MCRequests` together |

### The assumptions

An assumption that only gives a constant its type or sign needs no comment.  The
others are these.  `AdmissionAssumption`: the most expensive check fits into the
budget of an otherwise empty invocation, as the 15 queries of the code do into its
50; without it the most overdue monitor could block the queue for ever.  `EstimateAssumption`:
`MaxEstimate` is an upper bound of `estimatedObservationQueries`, whatever the prefetched
rows say.  `DrainAssumption`: the two shares a drain is given cover one and two rows, at six
queries each and one to look.
`CheckerAssumption`: the deadline cap is shorter than what is left of a lease that
has just been renewed.  `NodeAssumption`: every column is one of a table that is created.
`DeploymentAssumption`: the three migrations that write rows come after the legacy ones, in
the order of their names.  `UploadsAssumption`: an uploaded file is of the right shape, its
types checked by `backup.ts` 36-127.
`IdsAssumption`: ids of monitors are finite in number and are ids of nothing else
(they are random UUIDs), and the value for an absent row is no row.

`AlertingDeliveredDownIsRecorded` and what rests on it, `AlertingOutageIsRemembered`
and `AlertingRecoveryIsOwed`, carry a hypothesis of their own, `DrainSeconds <
ClaimSeconds`: a drain that is not cut short ends before the claims it makes.  A claim
lasts 30 seconds from the drain's clock value, and a drain makes at most two
provider attempts of at most 12 seconds each; the database's own time is not
bounded by the code, and without the hypothesis a drain that has outlived its claim
may clear what another has just recorded.

### A cron run

**Lease.**  The inductive invariant `LeaseInv` adds three facts
to the types.  `RowIsHoldersTerm`: the row is the term its holder last wrote.
`StampsArePast`: a run works with a clock reading of the past, although it may
be an old one.  `DisplacedHasExpired`: whoever works without being the
holder has a term that is over.  Exclusivity alone is not inductive: nothing in
it says that the holder's term is the one in the row.  `LeaseTypeOK`,
`LeaseTermsExclusive`, `LeaseFencesDisplacedRuns` and `LeaseBlockedByLiveTermOnly` (which
no run checks any more) follow.

**Admission.**  `AdmissionInv` has a half for each theorem.  `EstimateIsEnough` goes
through the paths: whatever the observation, the statements of its longest way are no
more than what it is charged.  `AdmittingInv`: an invocation that still admits batches has
sent no more than it has charged and the fixed queries that precede its loop, leaves the
drain its share, and affords its first batch; both accounts of a batch are sums
over one set (`FiniteSums`), compared term by term, so that `NextBatch` never lets it past
the budget (`QueriesStayWithinBudget`).  `EarliestFirst` and `Waiting`:
what was checked was due before what was left, and the minutes a monitor has been
due, plus the monitors still ahead of it, are bounded by the number of monitors, the
setbacks, and the invocation that is to come.  A monitor that is checked falls
behind every other one, unless its observation was refused by an edit, which is a setback;
therefore a due monitor is overtaken by each other one once at most
(`MonitorsDoNotStarve`).

**Checks.**  `CheckInv`: a check that still waits for anything has its timer before it
and room for one more chunk.  `CheckStep` sorts the steps of a check into those
that end it and those that let it wait for less; `ChecksEndByDeadline` follows
whatever the other checks of the batch do.

**History.**  `HistoryInv` is the two properties together with the
shape of rows and markers.  That what a run remembers of the rows it selected does
not occur in it is the point: every batch asks again which rows are raw
(`StillRawIsRaw`), and retention deletes only what has been counted.

### Observations and their readers

`TypeOK` is inductive as it stands
(`ObservationsTypeOK`).  On it rests the refinement
`ObservationsImplementLedger`: each commit maps to `Enter` of the ledger on the
day of its timestamp (`CommitAddsOneCheck` and `CommitEnters`, with the case
split of `DayEnded`), a reset maps to `Reset`, and every other step leaves the
sum of the two tables, the set of entered requests and the last timestamp
alone.  `StepWrites` sorts all steps by what they write; with it follow
`HistoryFollowsRevision`, and, from the further invariant that an edit's clock
reading lies in the past (`EditClock`), `ChecksAreNotPostponed`.

The other three theorems need an invariant on what each request has read,
`SnapshotInv`.  `RowIsPast` and `Past`: nothing is of the future, and a payload in
the row moved the ping cursor to its own second at least.  `HonestMiss`: a cron run
about to record a miss has seen a cursor that says so.  `Covered`: the cursor
covers every accepted ping.  `Ordered`: an agent's payload arrived after its request
read the cursor.  `Undisturbed`: what a push has read still holds while nobody else
wrote, one cron commit leaves the ping cursor alone, and what is read after that
commit holds until the next.  `PushesSurviveOneCron` is its last conjunct;
`NoMissIsFalse` meets `HonestMiss` and `Covered` at the cursor that the commit
compares; `NewerPayloadsAreKept` chains payload in the row, cursor, cursor as read,
new payload.

The readers of the analytics rest on `HistoryFollowsRevision`: as long as the
revision a reader saw is the current one, the archive is the one it saw.
`ReadInv` says of each reader that what it holds is true of that revision
(`HoldsTheTruth`) and of each cache entry that it is true of the revision in its key
(`EntryInv`), which is `CacheIsNeverStale`.  `ReportsAreExact` adds that the days asked of
the archive and those asked of the row neither overlap nor leave a gap
(`DaysSplit`), and that the sum of the ledger over them depends on nothing else.  It is a
theorem about reports between whose reads no day was archived: one that spans an
archive may miss the day that moved, and nothing is claimed of it.

### Alerting

*Claims.*  `OneLiveClaim` needs only that no step works
with a clock value of the future and that rows, drains and the handler have
their fields (`ShapeInv`).  `StepIsOutboxStep` shows that every step treats the
outbox in one of six ways (insert unclaimed, cancel unclaimed, claim when
nothing is live, reschedule unclaimed, and rewrite or remove one's own claimed
row while moving on), and `OneLiveClaim` as well as
`AlertingClaimsFence` follow from that classification.  *Incidents.*
`StatusInv` says for each stage of `processAlert` what the status and the incident
are when a handler stands there; a superseded handler is a handler that has
ended, which is why `IncidentMatchesStatus` survives being cut short anywhere.
*Surge.*  `CountInv` says that the counter is zero while no alert is recorded,
which is the only time it is raised, and that the evidence a handler holds of a
late DOWN row carries that row's clock value;
`SurgePausesAfterOneAlertOnly` is the general form of what the
`surge_protection` run exhibits.

*Turns.*  `TurnsInv` ties a drain within the time of its claim to that claim: it still
holds its row, whose claim ends `ClaimSeconds` after the clock value the drain
began with.  So the row's claim is live, and `OneLiveClaim` makes the drain the
only one (`AlertingDeliveriesTakeTurns`, also for drains that may outlive their
claims).  *Received DOWNs.*
`AlertingDeliveredDownIsRecorded` rests on `NoticeInv`, which says what a drain
knows while its turn lasts: its copy of `state_applied` is the row's, what it read
of the row when it claimed it is still so, and once it has settled a delivered
alert, or has found it settled, `alert_state` records one.  Three things make it
inductive.  No other drain moves the row or `alert_state` during the turn, by
the two results before and because drains are in time whenever they work
(`PunctualInv`, the hypothesis); the handlers and resets that clear `alert_state`
(`AlertKept`) leave `"forgotten"` in `lapses` when they do; and a monitor
that is pending has nothing queued unless it was reset (`QueueInv`), which is what
closes the path on which a delivered row would be found irrelevant because
the monitor is neither up nor down.

*Memory.*  `AlertingOutageIsRemembered` says the same of the whole program, handlers
and their cancellations included.  `MemoryInv` strengthens it.  `Witnessed` is the
trace itself: a recorded alert, a received row not yet counted, or a drain that is
recording an answer.  `Counted` and `Backed` make rows that count as applied, and
reminders, stand for a recorded alert, so that settling one loses nothing.
`CancelsSafely` is about the handler that is going to cancel DOWN rows.  When it looked
and found nothing late, or a late row that is counted already, the world was `Safe`:
an alert is recorded, or no channel shows an outage and no drain is about to make one
show it.  For whoever announces holds a live claim, being punctual (the hypothesis,
and *Turns*), and a claimed row is one the look would have found; and nobody starts
announcing before the cancellation, since the monitor is up (`LookInv`) and a drain
that reads `up` sends no DOWN.  When the handler found a late row it records
the alert before it cancels.  An alert is cleared by a handler or a reset, which is
`"forgotten"`, or by a recovery, and that loses nothing but in the case
`"overlooked"` names.  `AlertingRecoveryIsOwed` draws the conclusion for the moments in
which nothing is queued or under way: the half `RecoveryOwed` of `SettledAgreement`, with
all four excuses.

### Schema and polling

**Deployment.**  Two facts about the tables: the recorded migrations are the first
ones without a gap, and the objects of the later migrations, which nobody but
Wrangler creates, are there exactly when they are recorded.  `Seen` says that what a
deployment has seen still holds when it uses it, since objects do not disappear and
the ledger only grows, whoever else deploys.  That is `DeploymentRecordsWhatIsPresent`.
`Undisturbed` is about a deployment during which nobody else wrote the schema or a row.
Nothing it will create exists, so none of its statements fails, and what it has
written, with what its pending migrations have still to write (`StillDue`), is within the limit
(`WithinCount`).  That the script's list of work charges at least what the
files write, whichever of the migrations are recorded and whichever objects are missing,
is `EstimateCovers`: it compares the two prices of every kind of row.  It needs two more facts
about tables: those of version 1.6 appear together (`LegacyTogether`), and there are no
rows without them (`RowsNeedTables`).  `DeploymentSucceedsUndisturbed` follows.

**Node.**  `NodeInv` says of each statement what those before it have
established (`SchemaSoFar`, `ColumnsSoFar`); of a process that is down nothing is
known, so that any crash is harmless.  `IndexHolds` and `MarkHolds` are what the file
itself keeps between two starts.

**Polling.**  `PollInv` says of the calls in flight (`CallsInv`) that no two loads of
one visit are for one poller (`SingleLoads`), since a load's flag is up while it runs
(`Flagged`), and that any two calls for one place on the screen are both marked as
raced (`Apart`).  An answer that was not raced is therefore at least as new as the
screen when it arrives (`UpToDate`), which is all that `PollingGoesBackOnlyInRaces` needs.  What makes it
inductive is `Fresh`: nothing shown is newer than the server's data, from which a call that is
still on its way will read.  `PollingStopsAfterLeaving` is a conjunct of `VisitsInv`: a visit that is over has
no timers, and none that is still to come has anything.

### Status pages and incident reports

`RowIsSpent`: unless the day was set back, the row's counter
is what the requests of its day have spent and later days have spent nothing.
`TokensAreEarned`: a token in a browser lasts no longer than `AccessTtl` from when its
password was shown there.  `PublicBudgetKept` and `PublicAccessNeedsPassword` follow.
`TextInv`: not only the reports but also the rows that
edits read before others wrote are consistent, so whichever is written last is.
`CountInv`: the counters are exact after every trigger and cascade; the lemmas
count links with `FiniteSetTheorems`.

### Administration

**Sessions.**  `SessionInv`: a revocation is dated with its token's own
expiry, so that a purge removes it only when the token has expired by itself.

**Configuration.**  `ConfInv` has a part for every theorem, and one thing in common:
what a request read before others wrote is *sound*, that is, a row its validation
accepts or one that came with an uploaded file (`Remembers`, `Sound`), so that writing it
back later can outdate the tables but never corrupt them (`ConfigurationTypeOK`).
`ExportInv` and `BackupInv` carry this through the backup: an export's tables come from
sound configurations, so a restore of it brings back nothing else.

* *Tokens* (`TokenInv`).  On a monitor that no two requests met on, at most one request is
  in flight, its row is the one that request knows of (`Knows`), and whenever the
  token of a push monitor is missing that request stands before the statement
  that writes it (`Brings`).  The last is what makes it inductive: `PushTokenPresent`
  itself is satisfied by any request in flight, also by one that will not write.
* *Pages* (`PageInv`).  An edit that is not outdated knows the page's access as it is;
  every write of a page outdates the edits that have read it, and a new page has an id
  that no edit can have read, since ids are not used twice.
* *Destruction* (`CountedInv`).  What a destruction would write now is at most the limit
  and what `grown` has recorded for it.  It holds when the request has just counted
  (`StartsWithinLimit`), for the price in `Writes` exceeds the price in `Weight` by no more than
  `Missed`, table by table: `DeletionCharged`, `InsertionCharged`, `ReplacementCharged`.
  And it goes on holding, for `grown` follows every rise (`CountedKeeps`).

A step of one request is split the same way for all of them: what it leaves of the others
(`OthersFollow`), which requests write what (`RequestWrites`), and in which order a handler
moves (`RequestMoves`).  The rest of each proof cites these and looks at the few
actions they leave over.

### The parts side by side

`BackgroundKeepsTypes` and `RequestsKeepTypes` put the invariants of the parts next to
each other (`BackgroundInv`, `EveryPartInv`).  A step of the whole is a step or a stutter of
every part (`EveryPartSteps`, `EveryPartOfRequests`), and a part that rests satisfies its
invariant (`HistoryRests`, `NodeRests`, `PageRests`).  Some types needed more than their
invariants had said.  A catch-up run that applies a batch holds rows to apply,
without which its cursor would be the last of nothing (`LegacyTypeInv`).  A visit of a
status page has found at most `LinkLimit` incidents, and the limiter's counters are
numbers whatever entries a sweep forgets (`LimiterInv`).  And a session's model must
admit the first version of the credentials, which `SessionAssumption` states as
`MaxCredentials \in Nat \ {0}`.

### Only model-checked

* `SettledAgreement`, which no theorem can state: the search for its inductive
  invariant found three histories that break it: `silent_outage` of section 6, with
  six observations, and the two described at the end of that section, with four
  observations and one fault each.  It holds of every behaviour of one drain with up to
  three observations and one fault.  Its half about recoveries is a theorem once those
  two histories are excused as well (`AlertingRecoveryIsOwed`); its half about alerts is
  refuted by `silent_outage` without any of the four excuses.
* `CatchUpCompletes`, `NodeStarts`, `ChangesAreShown`: liveness under fairness is
  out of the provers' reach.

## 5. Properties and the bugs they would catch

Each property of a passing run has a mutant in `PROJECT.json`: a definition
changed the way a bug would change it, after which TLC reports the violation.

| Property | Broken by |
|---|---|
| `TermsExclusive`, `DisplacedRunIsFenced` | a lease renewed or released without looking at its holder |
| `ImplementsLedger` | a new day that starts from yesterday's counters |
| `NoFalseMiss` | a guard on the check cursor without revision and ping cursor |
| `PushSurvivesOneCron` | a retry with the timestamp of the first attempt |
| `NewerPayloadKept` | a retry that does not look at the ping cursor |
| `OnlyChecksPostpone` | a redo that replaces the cursor instead of pulling it forward |
| `CacheNeverStale` | an archive or a reset that keeps the cache key |
| `ReadsExactLedger` | a cache key that names the day only |
| `IncidentMatchesStatus` | a healthy hot path that returns before closing what an earlier handler left |
| `SettledAgreement` | a healthy handler that looks for delivered DOWN rows only and not for claimed ones; a drain that drops a DOWN accepted after the monitor came up |
| `OutageIsRemembered` | a handler that cancels the late DOWN row it has found without recording its alert |
| `DeliveriesTakeTurns`, `ClaimsFence` | a claim that looks at its own row only, a release without the token |
| `WithinQueryBudget`, `NoMonitorStarves` | an estimate that charges only a recovery in full; a selection in order of creation |
| `EndsByDeadline` | a timer that ends the first of two requests only |
| `CountedOnce`, `DoneMeansDone`, `CatchUpCompletes` | a batch that trusts what was selected before; a marker set without looking; a cursor that is never taken back |
| `RecordedIsPresent`, `UndisturbedDeploySucceeds` | a legacy schema recognised by its tables alone; an index that is still to be built and then dropped, taken to be free |
| `ServesCompleteSchema`, `NodeStarts` | a loop over the columns that ends at the first duplicate; an index built on duplicates |
| `GoesBackOnlyInRaces`, `NoTimerAfterLeaving`, `ChangesAreShown` | a load without its flag; a timer armed after leaving; a chain that a failure ends |
| `BudgetKept`, `AccessNeedsPassword` | a budget compared without the request; a token whose signature leaves out the password |
| `LoggedOutStaysOut` | a revocation dated with the time of the logout |
| `PushTokenPresent` | a token looked for after the type has changed |
| `ProtectionKept`, `DestructionWithinLimit` | an edit that takes the protection from the body; an estimate that leaves out the outbox |
| `FeedCountsExact`, `ReportConsistent` | a missing delete trigger; an edit merged over the stored row |

## 6. Where code and documentation disagree

**A recovery that is never sent** (`lost_recovery`, `EveryRecoveryIsOwed`).  An
outage is announced; the monitor comes back and the recovery is queued; before
a drain sends it the monitor fails again.  The new outage clears `alert_sent_at`
(AM 333-339) and cancels the queued recovery (346-352).  If the monitor is up
again before the second alert has been delivered, that alert is cancelled too
and the state cleared.  Incidents are closed, the outbox is empty, and the
channel still shows the first outage.  `docs/ARCHITECTURE.md` 88 says that the
recovery's "notification remains retryable", the comment at AM 765-770 that
the last visible notification is kept aligned with the monitor.

**An outage nobody is told of** (`silent_outage`, `OutageIsAnnounced`), without
any fault, for newer observations cut handlers short.  A healthy handler is
superseded between its status flip and the close of the incident (AM 221-222), the
failed one after it between its flip and the reset of `alert_state` (321-333),
while a drain delivers the recovery of the first outage and retires the
corrective alert, since the monitor was up when it looked.  The next failed
observation finds the monitor down, an alert recorded and an incident open:
`repairsIncompleteReopen` (329-331) looks for a missing incident only, so the
outage passes for the one already announced and the channels go on showing UP
until it ends, or until a reminder if the monitor has any.  The comment at AM
319-320: "A missing incident repairs a crash after an earlier status flip but before
this reset".

**A recovery sent twice** (`repeated_recovery`, `RecoverySentOnce`), without any
fault.  A healthy handler finds a late DOWN row (AM 228).  Before its next
statement a drain records that alert, stages the recovery, sends it and clears
everything.  The handler then records the alert once more, since
`alert_sent_at` is NULL again (233-241), and queues a second recovery.
`docs/FEATURES.md` 106: "Delivery is deduplicated".
A fault breaks the same sentence in another place: a statement that fails after a
send has been recorded (AM 642-656) ends in the `catch` that defers refused
attempts, which writes back the channels the attempt began with (660-675), so that a
channel is told twice.

**Surge protection that does not protect** (`surge_protection`,
`SurgeLimitsAlerts`).  The counter is cleared by every recovery, every settled
healthy check and every new outage, and within an outage only the first alert is
counted; it never passes one.  `docs/API.md` 218 promises "Max alerts before
pausing for 1 hour", the setting's label "pause after N alerts".
`SurgePausesAfterOneAlertOnly` proves it for all configurations.

**A destruction that is not counted** (`destruction_samples`, `CascadesAreCounted`).
`countDestructiveRows` (`destructive-write-budget.ts` 93-162) reads sixteen numbers of
rows, and the metric samples of agents are not among them, although they are deleted with
their monitor (`migrate.ts` 119-127).  An agent that pushes keeps one sample for every
five minutes (CS 60, 282-305) of thirty days (`migrate.ts` 357-369): 8,640 rows, so that
five agents have 43,200.  Deleting them together, or restoring a backup over them, is
estimated at next to nothing and exceeds the envelope at one write for each row.
`docs/ARCHITECTURE.md` 164: "Destructive monitor/reset/restore paths estimate cascaded
table and index writes and reject work above a 40,000-row safety envelope before changing
data"; the comment at `destructive-write-budget.ts` 51-52 says that the weights "deliberately
round upward for partial indexes and cascades so the preflight fails safely".  The run
shows it with two agents, ten samples each and a limit of 22.

Two more histories keep `SettledAgreement` from being a theorem.

A corrective alert is staged with `state_applied` 1 (AM 801-830), as if
`alert_state` still recorded the alert that the recovery answered.  A drain that has
delivered and applied the recovery, which clears `alert_state`, and fails at
the delete (AM 643-647) leaves a row that is reconciled later with nothing recorded:
the corrective alert is sent while the monitor comes up again, counts as applied,
and its channel goes on showing DOWN.  `lapses` calls it `"uncounted"`.  This is why
`DeliveredDownIsRecorded` speaks of rows that are not counted as applied, and the
second reason why `SettledAgreement` is not a theorem.

The third is a recovery that settles an alert it does not answer.  A drain dies after
delivering a recovery and before deleting its row, and the next outage begins while
the claim still lives, so that its handler must spare the row (346-352).  When the monitor
is up again the row is claimed first, found delivered, and settled: applying a
recovery clears whatever alert is recorded (998-1007), that of the second outage here,
and nothing is left to tell the channels that it is over.  It takes a second drain,
four observations and a clock that outlasts the claim.  This is `"overlooked"`.

Seen in the models, without a sentence of the documentation to hold them
against, and so neither properties nor findings: a reminder queued by two failed
observations around a drain is sent twice; an edit of a monitor that read it before a
pause undoes the pause; `loadMetricHistory` of the monitor page has no guard, so
that an older range may be shown after a newer one; the digest retry of an HTTP
check settles the check without its JSON assertion.

## 7. Not modelled

* *Providers* (`src/notifications/`) are thirteen ways to format one request: an
  arbitrary answer or none.
* *Assertions and parsing* of checks: an arbitrary verdict.
* *Infrastructure parsing and thresholds, the agent installer, telemetry, routing,
  forms, charts, feeds as markup* are functions of their arguments, and text.
* *Signatures* are taken to be unforgeable and hashes to be distinct.
* *Starvation in the fan-out* (a channel that always fails is rotated to the back
  after three attempts): the rotation is an action of `DeliveryDrain`, the liveness
  needs more attempts and a longer clock than its runs can afford, and no fairness
  of a provider is given.
* *Latency sums, raw check lists and diagnostics*: data no guard looks at.
* *Lists, reordering, test messages, and the manual run of a check* change nothing the
  modules keep, apart from the order of rows.
* *Admission.*  A monitor that is created or reset is due at second 0 and goes ahead of all
  others once; `NoMonitorStarves` is about a fixed set of monitors.  A D1 statement that
  fails after a send costs the drain a seventh query for that row.
* *Refusals of a restore* for size (512 KB), number of records (5,000) or an empty or
  mistyped value (`backup.ts` 20-21, 36-177): a request that is refused changes nothing, so
  a file is either taken or not, and `Consistent` is only the part of the validation that later
  steps rely on.  Nothing is claimed of which exports are taken back: an export of a large
  configuration, or of a page with an empty name, is refused.
* *Counts of a reset*, and rows of notification tests, which the estimate counts and no
  module keeps.
* *Late loads of other pages than the dashboard* fill variables of a page that is gone.

Some properties state an exception, because the code has it:

* `BudgetKept`: days after a reservation that read its clock before midnight reset the row.
* `ReadsExactLedger`: a reader during whose reads a day was archived.
* `LoggedOutStaysOut`: a request verified in the last second of its token.
* `PushTokenPresent`: a monitor on which requests met or one was cut short.
* `ProtectionKept`: an edit that read the page before another write of it.
* `GoesBackOnlyInRaces`: the two races of `Polling` that no flag prevents.
  `ChangesAreShown` says that the next load repairs them.
* `DestructionWithinLimit`: what is written after the count, and what the count is known
  to miss: the samples of section 6, the third write of a token and the sixth of an
  incident report's link.
* `ConfTypeOK`: the half about valid rows and the limit of windows holds until an uploaded
  file is restored.

## 8. What could come next

1. An abstract specification of what each channel is promised, with `Alerting`
   mapped to it up to the known lapses.
2. Two monitors in one outbox, for the order in which a drain picks rows.
