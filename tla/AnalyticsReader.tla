---------------------------- MODULE AnalyticsReader ----------------------------
(***************************************************************************)
(* Reading what Observations writes: the daily analytics of the dashboard  *)
(* and of status pages (services/history-rollups.ts).  A reader takes the  *)
(* monitors row, then the rollups of completed days from a cache whose key *)
(* names the row's history_revision (services/response-cache.ts) or from   *)
(* the table, then the rollups of yesterday and today, and adds the        *)
(* counters of its row.  Nothing holds these reads together.               *)
(*                                                                         *)
(* Only the key and the value of a cache entry matter here.  An entry may  *)
(* expire, be evicted, or be refused for its size, and another data centre *)
(* has its own, so a lookup may miss whatever was stored.  The 90 days the *)
(* readers look back cover every day of the model.                         *)
(***************************************************************************)
EXTENDS Observations

CONSTANTS Readers,    \* requests for analytics, each used again and again
          WindowDays, \* the number of days asked for
          ReadsFrom   \* bound: the earliest time anybody reads

ASSUME ReaderAssumption == WindowDays \in Nat \ {0} /\ ReadsFrom \in Nat

VARIABLES reader,  \* the local state of each reader
          cache    \* the entries ever stored: [key, rows]

readVars == <<vars, reader, cache>>

Reader ==
  [pc: {"idle", "looking", "storing", "live"},
   today: Days, rev: Nat, statsDay: Days \union {NoDay},
   tally: [Status -> Nat],
   frozen: [Days -> [Status -> Nat]],
   ledger: [Days -> [Status -> Nat]]]  \* history: the truth at the first read

NewReader ==
  [pc |-> "idle", today |-> 0, rev |-> 0, statsDay |-> NoDay,
   tally |-> [s \in Status |-> 0], frozen |-> Blank,
   ledger |-> Blank]

ReadInit ==
  /\ Init
  /\ reader = [v \in Readers |-> NewReader]
  /\ cache = {}

ReadTypeOK ==
  /\ reader \in [Readers -> Reader]
  /\ \A e \in cache : e.key \in Nat \X Days /\ e.rows \in [Days -> [Status -> Nat]]

-----------------------------------------------------------------------------
\* queryRollups: the rows of a set of days.
RollupsOf(D) == [d \in Days |-> IF d \in D THEN rollup[d] ELSE Blank[d]]

\* Completed days are those before yesterday.
FrozenDays(today) == {d \in Days : d < today - DayLength}
LiveDays(today)   == {d \in Days : today - DayLength <= d /\ d <= today}

\* The days of buildMonitorAnalytics: the last WindowDays up to today.
WindowOf(today) == {d \in Days : today - (WindowDays - 1) * DayLength <= d /\ d <= today}

WindowRows(F, today) ==
  [d \in Days |-> IF d \in WindowOf(today) THEN F[d] ELSE Blank[d]]

\* Mutant: the key forgets the revision.
DayKey(v) == <<0, reader[v].today>>

\* historyCacheKey: the revision of the row and the range of days.
HistoryKey(v) == <<reader[v].rev, reader[v].today>>

\* The monitors row of a request, with the day of its clock.
ReadRow(v) ==
  /\ reader[v].pc = "idle"
  /\ now >= ReadsFrom
  /\ reader' = [reader EXCEPT ![v] =
       [NewReader EXCEPT !.today = UtcDay(now), !.rev = mon.historyRevision,
                         !.statsDay = mon.statsDay, !.tally = mon.tally,
                         !.ledger = WindowRows(LedgerValue, UtcDay(now)),
                         !.pc = IF FrozenDays(UtcDay(now)) = {} THEN "live"
                                                               ELSE "looking"]]
  /\ UNCHANGED <<vars, cache>>

\* getOrComputeAggregate asks the cache first.
CacheHit(v) ==
  /\ reader[v].pc = "looking"
  /\ \E e \in cache :
       /\ e.key = HistoryKey(v)
       /\ reader' = [reader EXCEPT ![v].pc = "live", ![v].frozen = e.rows]
  /\ UNCHANGED <<vars, cache>>

\* A miss: the loader queries the table.
QueryFrozen(v) ==
  /\ reader[v].pc = "looking"
  /\ reader' = [reader EXCEPT ![v].pc = "storing",
                              ![v].frozen = RollupsOf(FrozenDays(reader[v].today))]
  /\ UNCHANGED <<vars, cache>>

\* The entry is written some time after the rows were read.
StoreFrozen(v) ==
  /\ reader[v].pc = "storing"
  /\ cache' = cache \union {[key |-> HistoryKey(v), rows |-> reader[v].frozen]}
  /\ reader' = [reader EXCEPT ![v].pc = "live"]
  /\ UNCHANGED vars

\* The last read; the request is answered with Report(v) and forgotten.
QueryLive(v) ==
  /\ reader[v].pc = "live"
  /\ reader' = [reader EXCEPT ![v] = NewReader]
  /\ UNCHANGED <<vars, cache>>

\* Mutant: the counters are added to the day of the request.
CountersToday(v) ==
  [d \in Days |-> IF d = reader[v].today THEN reader[v].tally ELSE Blank[d]]

\* mergeCurrentCounters.
Counters(v) ==
  [d \in Days |-> IF d = reader[v].statsDay /\ d <= reader[v].today
                    THEN reader[v].tally ELSE Blank[d]]

Total(F, D, s) ==
  LET sum[k \in 0..(MaxTime + 1)] ==
        IF k = 0 THEN 0
        ELSE sum[k - 1] + (IF (k - 1) \in D THEN F[k - 1][s] ELSE 0)
  IN  sum[MaxTime + 1]

\* mergeRow for every row, then the sums and the days the request gets.
MergedRows(v) == [d \in Days |-> [s \in Status |->
  reader[v].frozen[d][s] + RollupsOf(LiveDays(reader[v].today))[d][s]
    + Counters(v)[d][s]]]
Report(v) ==
  [count |-> [s \in Status |-> Total(MergedRows(v), WindowOf(reader[v].today), s)],
   daily |-> [d \in WindowOf(reader[v].today) |-> MergedRows(v)[d]]]

ReadStep(v) ==
  ReadRow(v) \/ CacheHit(v) \/ QueryFrozen(v) \/ StoreFrozen(v) \/ QueryLive(v)

ReadNext ==
  \/ Next /\ UNCHANGED <<reader, cache>>
  \/ \E v \in Readers : ReadStep(v)

ReadSpec == ReadInit /\ [][ReadNext]_readVars

-----------------------------------------------------------------------------
(* Properties.                                                             *)

\* A cache entry whose key names the row's present revision holds the rows of
\* the table: a reader that stores late, after a day was archived or the
\* statistics were reset, files what it read under a key nobody asks for again
\* (history-rollups.ts 119-129 and 255-271, response-cache.ts 190-216).
CacheNeverStale ==
  \A e \in cache :
    e.key[1] = mon.historyRevision => e.rows = RollupsOf(FrozenDays(e.key[2]))

\* Unless completed history changed between its first and its last read, a
\* reader reports exactly the checks that had been recorded when it read the
\* monitors row, on their days: the two tables, the cache and the counters
\* neither overlap nor leave a gap (history-rollups.ts 222-328).  When a day
\* was archived in between, its checks may be reported twice.
ReadsExactLedger ==
  [][\A v \in Readers :
       /\ reader[v].pc = "live" /\ reader'[v].pc = "idle"
       /\ reader[v].rev = mon.historyRevision
       => LET Day == WindowOf(reader[v].today)
          IN  /\ Report(v).daily = [d \in Day |-> reader[v].ledger[d]]
              /\ \A s \in Status :
                   Report(v).count[s] = Total(reader[v].ledger, Day, s)]_readVars

=============================================================================
