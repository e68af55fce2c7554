---------------------------- MODULE RequestsProofs ----------------------------
(***************************************************************************)
(* Proofs about what people ask of the API.  Analytics, on top of the      *)
(* proofs about Observations and for every number of readers and writers:  *)
(* what a reader holds is true of the revision it read, so the cache is    *)
(* never stale and a report of unchanged history is exactly the ledger.    *)
(* And the parts of MCRequests keep their types side by side.              *)
(***************************************************************************)
EXTENDS MCRequests, ObservationsProofs, StatusPageProofs, AdministrationProofs

\* The sum over a set of days depends on the rows of those days alone.
LEMMA TotalOfEqualRows ==
  ASSUME NEW F, NEW G, NEW D, NEW s, \A d \in D : F[d] = G[d]
  PROVE  Total(F, D, s) = Total(G, D, s)
  BY Zenon DEF Total

USE ObservationsAssumption, ReaderAssumption

\* The first day, and what a clock shows: days of the model.
LEMMA DaysStart == 0 \in Days /\ \A d \in Days : d \in Nat
<1>1. 0 \in Times /\ UtcDay(0) = 0
  BY DEF Times, UtcDay
<1>2. ASSUME NEW t \in Times PROVE UtcDay(t) \in Nat
  <2>1. t % DayLength \in 0..(DayLength - 1) /\ t % DayLength <= t
    BY SMT DEF Times
  <2> QED
    BY <2>1 DEF UtcDay, Times
<1> QED
  BY <1>1, <1>2 DEF Days

\* The two sets of days a reader asks for neither overlap nor leave a gap.
LEMMA DaysSplit ==
  ASSUME NEW today \in Days, NEW d \in Days, d <= today
  PROVE  d \in FrozenDays(today) <=> d \notin LiveDays(today)
<1>1. d \in Nat /\ today \in Nat /\ DayLength \in Nat
  BY DaysStart
<1> QED
  BY <1>1 DEF FrozenDays, LiveDays

-----------------------------------------------------------------------------
(* The invariant: everything a reader or the cache holds is about one      *)
(* history_revision, and while that is the present one it is the truth.    *)

\* The tables as they were when v read the monitors row, given that no rollup
\* has changed since.
LedgerAsRead(v) ==
  [d \in Days |-> [s \in Status |->
     rollup[d][s] + (IF reader[v].statsDay = d THEN reader[v].tally[s] ELSE 0)]]

HoldsTheTruth(v) ==
  /\ reader[v].ledger = WindowRows(LedgerAsRead(v), reader[v].today)
  /\ reader[v].pc \in {"storing", "live"} =>
       reader[v].frozen = RollupsOf(FrozenDays(reader[v].today))

ReaderInv(v) ==
  reader[v].pc # "idle" =>
    /\ reader[v].rev <= mon.historyRevision
    /\ reader[v].rev = mon.historyRevision => HoldsTheTruth(v)

EntryInv(e) ==
  /\ e.key[1] <= mon.historyRevision
  /\ e.key[1] = mon.historyRevision => e.rows = RollupsOf(FrozenDays(e.key[2]))

ReadInv ==
  /\ TypeOK /\ ReadTypeOK
  /\ \A v \in Readers : ReaderInv(v)
  /\ \A e \in cache : EntryInv(e)

LEMMA ReadStarts == ReadInit => ReadInv
<1> SUFFICES ASSUME ReadInit
             PROVE  ReadInv
  OBVIOUS
<1>1. TypeOK
  BY InitType DEF ReadInit
<1>2. NewReader \in Reader /\ NewReader.pc = "idle"
  BY DaysStart DEF NewReader, Reader, Blank
<1>3. reader \in [Readers -> Reader] /\ \A v \in Readers : reader[v].pc = "idle"
  BY <1>2 DEF ReadInit
<1> QED
  BY <1>1, <1>3 DEF ReadInit, ReadInv, ReadTypeOK, ReaderInv


\* What a step of the writers leaves of a revision: nothing changes under it.
LEMMA WritersAndRevisions ==
  ASSUME TypeOK, [Next]_vars
  PROVE  /\ mon.historyRevision \in Nat /\ mon'.historyRevision \in Nat
         /\ mon'.historyRevision >= mon.historyRevision
         /\ mon'.historyRevision = mon.historyRevision => rollup' = rollup
<1>1. mon.historyRevision \in Nat
  BY DEF TypeOK, MonitorRow
<1>2. ASSUME NEW q \in Requests, NEW t \in Times, NEW s \in Status, Commit(q, t, s)
      PROVE  mon'.historyRevision \in {mon.historyRevision, mon.historyRevision + 1}
  BY <1>2 DEF Commit, UpdateMonitor, HistoryRevisionAfter
<1>3. mon'.historyRevision \in {mon.historyRevision, mon.historyRevision + 1}
  <2>1. CASE RowWrites
    BY <1>2, <2>1 DEF RowWrites, RescheduleFailedAlert, SetActive, EditWrite, ResetStats,
                      TypeOK, MonitorRow
  <2>2. CASE UNCHANGED <<mon, rollup>>
    BY <2>2
  <2> QED
    BY <2>1, <2>2, StepWrites
<1>4. rollup' # rollup => mon'.historyRevision > mon.historyRevision
  BY StepChangesRevision
<1> QED
  BY <1>1, <1>3, <1>4

LEMMA WritersKeepReaders ==
  ASSUME ReadInv, [Next]_vars, UNCHANGED <<reader, cache>>
  PROVE  ReadInv'
<1> DEFINE h == mon.historyRevision
<1>1. TypeOK' /\ ReadTypeOK'
  BY StepType DEF ReadInv, ReadTypeOK
<1>2. /\ h \in Nat /\ h' \in Nat /\ h' >= h
      /\ h' = h => rollup' = rollup
  BY WritersAndRevisions DEF ReadInv
<1> HIDE DEF h
<1>3. ASSUME NEW v \in Readers, reader[v].pc # "idle"
      PROVE  ReaderInv(v)'
  <2>1. /\ reader[v].rev \in Nat /\ reader[v].rev <= h
        /\ reader[v].rev = h => HoldsTheTruth(v)
    BY <1>3 DEF ReadInv, ReadTypeOK, ReaderInv, Reader, h
  <2>2. CASE h' = h
    <3>1. HoldsTheTruth(v)' <=> HoldsTheTruth(v)
      BY <1>2, <2>2 DEF HoldsTheTruth, LedgerAsRead, RollupsOf, WindowRows, WindowOf,
                        FrozenDays
    <3> QED
      BY <1>2, <2>1, <2>2, <3>1 DEF ReaderInv, h
  <2>3. CASE h' # h
    BY <1>2, <2>1, <2>3 DEF ReaderInv, h
  <2> QED
    BY <2>2, <2>3
<1>4. ASSUME NEW e \in cache PROVE EntryInv(e)'
  <2>1. /\ e.key[1] \in Nat /\ e.key[1] <= h
        /\ e.key[1] = h => e.rows = RollupsOf(FrozenDays(e.key[2]))
    BY DEF ReadInv, ReadTypeOK, EntryInv, h
  <2>2. CASE h' = h
    BY <1>2, <2>1, <2>2 DEF EntryInv, RollupsOf, FrozenDays, h
  <2>3. CASE h' # h
    BY <1>2, <2>1, <2>3 DEF EntryInv, h
  <2> QED
    BY <2>2, <2>3
<1>5. ASSUME NEW v \in Readers PROVE ReaderInv(v)'
  BY <1>3, <1>5 DEF ReaderInv
<1> QED
  BY <1>1, <1>4, <1>5 DEF ReadInv

-----------------------------------------------------------------------------
(* The steps of a reader.                                                  *)

LEMMA RollupsOfType ==
  ASSUME TypeOK, NEW D
  PROVE  RollupsOf(D) \in [Days -> [Status -> Nat]]
<1>1. Blank \in [Days -> [Status -> Nat]]
  BY DEF Blank
<1> QED
  BY <1>1 DEF RollupsOf, TypeOK

LEMMA WindowRowsType ==
  ASSUME NEW F \in [Days -> [Status -> Nat]], NEW today
  PROVE  WindowRows(F, today) \in [Days -> [Status -> Nat]]
<1>1. Blank \in [Days -> [Status -> Nat]]
  BY DEF Blank
<1> QED
  BY <1>1 DEF WindowRows

\* A reader changes its own state alone, and what it keeps there stays true.
LEMMA OneReaderMoves ==
  ASSUME ReadInv, UNCHANGED <<vars, cache>>, NEW v \in Readers, NEW x \in Reader,
         reader' = [reader EXCEPT ![v] = x], ReaderInv(v)'
  PROVE  ReadInv'
<1>1. TypeOK'
  BY DEF ReadInv, TypeOK, vars
<1>2. reader' \in [Readers -> Reader]
  BY DEF ReadInv, ReadTypeOK
<1>3. ASSUME NEW w \in Readers, w # v PROVE ReaderInv(w)'
  <2>1. reader'[w] = reader[w]
    BY <1>3 DEF ReadInv, ReadTypeOK
  <2>2. ReaderInv(w)
    BY DEF ReadInv
  <2> QED
    BY <2>1, <2>2 DEF ReaderInv, HoldsTheTruth, LedgerAsRead, RollupsOf, WindowRows,
                      FrozenDays, WindowOf, vars
<1>4. ASSUME NEW e \in cache' PROVE EntryInv(e)'
  BY DEF ReadInv, EntryInv, RollupsOf, FrozenDays, vars
<1> QED
  BY <1>1, <1>2, <1>3, <1>4 DEF ReadInv, ReadTypeOK

LEMMA ReaderOfType ==
  ASSUME ReadInv, NEW v \in Readers
  PROVE  reader[v] \in Reader /\ reader \in [Readers -> Reader] /\ ReaderInv(v)
  BY DEF ReadInv, ReadTypeOK

LEMMA ReadRowKeeps ==
  ASSUME ReadInv, NEW v \in Readers, ReadRow(v)
  PROVE  ReadInv'
<1> DEFINE today == UtcDay(now)
           place == IF FrozenDays(today) = {} THEN "live" ELSE "looking"
           truth == WindowRows(LedgerValue, today)
           x == [NewReader EXCEPT !.today = today, !.rev = mon.historyRevision,
                   !.statsDay = mon.statsDay, !.tally = mon.tally,
                   !.ledger = truth, !.pc = place]
<1>1. reader' = [reader EXCEPT ![v] = x] /\ UNCHANGED <<vars, cache>>
  BY DEF ReadRow
<1>2. today \in Days
  BY ReadType, UtcDayType DEF ReadInv
<1>3. LedgerValue \in [Days -> [Status -> Nat]]
  BY DEF ReadInv, TypeOK, MonitorRow, LedgerValue
<1>4. truth \in [Days -> [Status -> Nat]]
  BY <1>3, WindowRowsType
<1>5. mon \in MonitorRow /\ NewReader \in Reader
  BY DaysStart DEF ReadInv, TypeOK, NewReader, Reader, Blank
<1>6. place \in {"live", "looking"} /\ (place = "live" => FrozenDays(today) = {})
  OBVIOUS
<1> HIDE DEF today, truth, place
<1>7. /\ x.today = today /\ x.rev = mon.historyRevision /\ x.statsDay = mon.statsDay
      /\ x.tally = mon.tally /\ x.ledger = truth /\ x.pc = place /\ x.frozen = Blank
  BY DEF NewReader
<1>8. x \in Reader
  BY <1>2, <1>4, <1>5, <1>6 DEF Reader, MonitorRow
<1> HIDE DEF x
<1>9. reader'[v] = x
  BY <1>1, ReaderOfType
<1>10. LedgerAsRead(v)' = LedgerValue
  BY <1>1, <1>7, <1>9 DEF LedgerAsRead, LedgerValue, vars
<1>11. x.pc = "live" => x.frozen = RollupsOf(FrozenDays(reader[v].today))'
  <2>1. RollupsOf({})' = Blank
    BY DEF RollupsOf, Blank
  <2>2. FrozenDays(reader[v].today)' = FrozenDays(today)
    BY <1>7, <1>9 DEF FrozenDays
  <2> QED
    BY <1>6, <1>7, <2>1, <2>2
<1>12. ReaderInv(v)'
  <2>1. x.ledger = WindowRows(LedgerAsRead(v), reader[v].today)'
    BY <1>7, <1>9, <1>10 DEF truth, WindowRows, WindowOf
  <2>2. x.pc # "storing"
    BY <1>6, <1>7
  <2>3. x.rev <= mon'.historyRevision
    BY <1>1, <1>5, <1>7 DEF vars, MonitorRow
  <2> QED
    BY <1>9, <1>11, <2>1, <2>2, <2>3 DEF ReaderInv, HoldsTheTruth
<1> QED
  BY <1>1, <1>8, <1>12, OneReaderMoves

\* The rows a reader took are those of the table, if nothing was archived since.
LEMMA RowsTaken ==
  ASSUME ReadInv, UNCHANGED <<vars, cache>>, NEW v \in Readers,
         NEW rows \in [Days -> [Status -> Nat]], NEW place \in {"storing", "live"},
         reader[v].pc # "idle",
         reader' = [reader EXCEPT ![v] = [@ EXCEPT !.pc = place, !.frozen = rows]],
         reader[v].rev = mon.historyRevision =>
           rows = RollupsOf(FrozenDays(reader[v].today))
  PROVE  ReadInv'
<1> DEFINE x == [reader[v] EXCEPT !.pc = place, !.frozen = rows]
<1>1. reader[v] \in Reader /\ reader \in [Readers -> Reader] /\ ReaderInv(v)
  BY ReaderOfType
<1>2. x \in Reader
  BY <1>1 DEF Reader
<1>3. /\ x.today = reader[v].today /\ x.rev = reader[v].rev
      /\ x.statsDay = reader[v].statsDay /\ x.tally = reader[v].tally
      /\ x.ledger = reader[v].ledger /\ x.frozen = rows
  BY <1>1 DEF Reader
<1>4. reader' = [reader EXCEPT ![v] = x]
  OBVIOUS
<1> HIDE DEF x
<1>5. reader'[v] = x
  BY <1>1, <1>4
<1>6. ReaderInv(v)'
  BY <1>1, <1>3, <1>5 DEF ReaderInv, HoldsTheTruth, LedgerAsRead, RollupsOf,
                          WindowRows, FrozenDays, WindowOf, vars
<1> QED
  BY <1>2, <1>4, <1>6, OneReaderMoves

LEMMA CacheHitKeeps ==
  ASSUME ReadInv, NEW v \in Readers, CacheHit(v)
  PROVE  ReadInv'
<1>1. PICK e \in cache :
        /\ e.key = HistoryKey(v)
        /\ reader' = [reader EXCEPT ![v].pc = "live", ![v].frozen = e.rows]
  BY DEF CacheHit
<1>2. e.key[1] = reader[v].rev /\ e.key[2] = reader[v].today
  BY <1>1 DEF HistoryKey
<1>3. e.rows \in [Days -> [Status -> Nat]] /\ EntryInv(e)
  BY DEF ReadInv, ReadTypeOK
<1>4. reader' = [reader EXCEPT ![v] = [@ EXCEPT !.pc = "live", !.frozen = e.rows]]
  BY <1>1, ReaderOfType
<1> QED
  BY <1>2, <1>3, <1>4, RowsTaken DEF CacheHit, EntryInv

LEMMA QueryFrozenKeeps ==
  ASSUME ReadInv, NEW v \in Readers, QueryFrozen(v)
  PROVE  ReadInv'
<1> DEFINE rows == RollupsOf(FrozenDays(reader[v].today))
<1>1. rows \in [Days -> [Status -> Nat]]
  BY RollupsOfType DEF ReadInv
<1>2. reader' = [reader EXCEPT ![v] = [@ EXCEPT !.pc = "storing", !.frozen = rows]]
  BY ReaderOfType DEF QueryFrozen
<1>3. reader[v].pc # "idle" /\ UNCHANGED <<vars, cache>>
  BY DEF QueryFrozen
<1> HIDE DEF rows
<1>4. rows = RollupsOf(FrozenDays(reader[v].today))
  BY DEF rows
<1> QED
  BY <1>1, <1>2, <1>3, <1>4, RowsTaken

LEMMA StoreFrozenKeeps ==
  ASSUME ReadInv, NEW v \in Readers, StoreFrozen(v)
  PROVE  ReadInv'
<1> DEFINE entry == [key |-> HistoryKey(v), rows |-> reader[v].frozen]
<1>1. reader[v] \in Reader /\ reader \in [Readers -> Reader] /\ ReaderInv(v)
  BY ReaderOfType
<1>2. /\ reader[v].pc = "storing" /\ UNCHANGED vars
      /\ cache' = cache \union {entry}
      /\ reader' = [reader EXCEPT ![v] = [@ EXCEPT !.pc = "live"]]
  BY <1>1 DEF StoreFrozen
<1>3. /\ entry.key \in Nat \X Days /\ entry.rows \in [Days -> [Status -> Nat]]
      /\ entry.key[1] = reader[v].rev /\ entry.key[2] = reader[v].today
      /\ entry.rows = reader[v].frozen
  BY <1>1 DEF HistoryKey, Reader
<1>4. EntryInv(entry)
  BY <1>1, <1>2, <1>3 DEF ReaderInv, HoldsTheTruth, EntryInv
<1> HIDE DEF entry
<1> DEFINE x == [reader[v] EXCEPT !.pc = "live"]
<1>5. x \in Reader
  BY <1>1 DEF Reader
<1>6. /\ x.pc = "live" /\ x.today = reader[v].today /\ x.rev = reader[v].rev
      /\ x.statsDay = reader[v].statsDay /\ x.tally = reader[v].tally
      /\ x.ledger = reader[v].ledger /\ x.frozen = reader[v].frozen
  BY <1>1 DEF Reader
<1>7. reader' = [reader EXCEPT ![v] = x]
  BY <1>2
<1> HIDE DEF x
<1>8. TypeOK'
  BY <1>2 DEF ReadInv, TypeOK, vars
<1>9. ReadTypeOK'
  BY <1>1, <1>2, <1>3, <1>5, <1>7 DEF ReadInv, ReadTypeOK
<1>10. ASSUME NEW e \in cache' PROVE EntryInv(e)'
  <2>1. EntryInv(e)
    BY <1>2, <1>4 DEF ReadInv
  <2> QED
    BY <1>2, <2>1 DEF EntryInv, RollupsOf, FrozenDays, vars
<1>11. ASSUME NEW w \in Readers PROVE ReaderInv(w)'
  <2>1. ReaderInv(w)
    BY DEF ReadInv
  <2>2. CASE w = v
    <3>1. reader'[v] = x
      BY <1>1, <1>7
    <3> QED
      BY <1>2, <1>6, <2>1, <2>2, <3>1
      DEF ReaderInv, HoldsTheTruth, LedgerAsRead, RollupsOf, WindowRows,
          FrozenDays, WindowOf, vars
  <2>3. CASE w # v
    <3>1. reader'[w] = reader[w]
      BY <1>1, <1>7, <2>3
    <3> QED
      BY <1>2, <2>1, <3>1
      DEF ReaderInv, HoldsTheTruth, LedgerAsRead, RollupsOf, WindowRows,
          FrozenDays, WindowOf, vars
  <2> QED
    BY <2>2, <2>3
<1> QED
  BY <1>8, <1>9, <1>10, <1>11 DEF ReadInv

LEMMA QueryLiveKeeps ==
  ASSUME ReadInv, NEW v \in Readers, QueryLive(v)
  PROVE  ReadInv'
<1>1. NewReader \in Reader /\ NewReader.pc = "idle"
  BY DaysStart DEF NewReader, Reader, Blank
<1>2. reader' = [reader EXCEPT ![v] = NewReader] /\ UNCHANGED <<vars, cache>>
  BY DEF QueryLive
<1>3. reader'[v] = NewReader
  BY <1>2, ReaderOfType
<1>4. ReaderInv(v)'
  BY <1>1, <1>3 DEF ReaderInv
<1> QED
  BY <1>1, <1>2, <1>4, OneReaderMoves

LEMMA ReadersStep == ReadInv /\ [ReadNext]_readVars => ReadInv'
<1> SUFFICES ASSUME ReadInv, [ReadNext]_readVars
             PROVE  ReadInv'
  OBVIOUS
<1>1. CASE (Next /\ UNCHANGED <<reader, cache>>) \/ UNCHANGED readVars
  BY <1>1, WritersKeepReaders DEF readVars
<1>2. ASSUME NEW v \in Readers, ReadStep(v)
      PROVE  ReadInv'
  BY <1>2, ReadRowKeeps, CacheHitKeeps, QueryFrozenKeeps, StoreFrozenKeeps,
     QueryLiveKeeps DEF ReadStep
<1> QED
  BY <1>1, <1>2 DEF ReadNext

LEMMA ReadersInvariant == ReadSpec => []ReadInv
  BY ReadStarts, ReadersStep, PTL DEF ReadSpec

-----------------------------------------------------------------------------
(* What follows from it.                                                   *)

\* Whoever stores late, and whatever was archived or reset meanwhile: an entry
\* under the present revision holds the present rows (history-rollups.ts
\* 119-129 and 255-271).
THEOREM CacheIsNeverStale == ReadSpec => []CacheNeverStale
<1>1. ReadInv => CacheNeverStale
  BY DEF ReadInv, EntryInv, CacheNeverStale
<1> QED
  BY <1>1, ReadersInvariant, PTL

\* Every row of a report is the ledger's row of that day.
LEMMA MergedIsLedger ==
  ASSUME ReadInv, NEW v \in Readers, reader[v].pc = "live",
         reader[v].rev = mon.historyRevision, NEW d \in WindowOf(reader[v].today)
  PROVE  MergedRows(v)[d] = reader[v].ledger[d]
<1> DEFINE r == reader[v]
<1>1. /\ r \in Reader /\ HoldsTheTruth(v) /\ d \in Days /\ d <= r.today
      /\ r.today \in Days /\ rollup \in [Days -> [Status -> Nat]]
  BY ReaderOfType DEF ReaderInv, WindowOf, Reader, ReadInv, TypeOK
<1>2. ASSUME NEW s \in Status
      PROVE  r.frozen[d][s] + RollupsOf(LiveDays(r.today))[d][s] = rollup[d][s]
  <2>1. d \in FrozenDays(r.today) <=> d \notin LiveDays(r.today)
    BY <1>1, DaysSplit
  <2>2. r.frozen = RollupsOf(FrozenDays(r.today))
    BY <1>1 DEF HoldsTheTruth
  <2>3. rollup[d][s] \in Nat /\ Blank[d][s] = 0
    BY <1>1 DEF Blank
  <2>4. /\ RollupsOf(FrozenDays(r.today))[d] =
             (IF d \in FrozenDays(r.today) THEN rollup[d] ELSE Blank[d])
        /\ RollupsOf(LiveDays(r.today))[d] =
             (IF d \in LiveDays(r.today) THEN rollup[d] ELSE Blank[d])
    BY <1>1 DEF RollupsOf
  <2> QED
    BY <2>1, <2>2, <2>3, <2>4
<1>3. ASSUME NEW s \in Status
      PROVE  Counters(v)[d][s] = IF r.statsDay = d THEN r.tally[s] ELSE 0
  <2>1. Blank[d][s] = 0
    BY <1>1 DEF Blank
  <2> QED
    BY <1>1, <2>1 DEF Counters
<1>4. r.ledger[d] = [s \in Status |->
        rollup[d][s] + (IF r.statsDay = d THEN r.tally[s] ELSE 0)]
  <2>1. r.ledger[d] = LedgerAsRead(v)[d]
    BY <1>1 DEF HoldsTheTruth, WindowRows
  <2> QED
    BY <1>1, <2>1 DEF LedgerAsRead
<1>5. MergedRows(v)[d] = [s \in Status |->
        r.frozen[d][s] + RollupsOf(LiveDays(r.today))[d][s] + Counters(v)[d][s]]
  BY <1>1 DEF MergedRows
<1>6. ASSUME NEW s \in Status
      PROVE  r.frozen[d][s] + RollupsOf(LiveDays(r.today))[d][s] + Counters(v)[d][s]
               = rollup[d][s] + (IF r.statsDay = d THEN r.tally[s] ELSE 0)
  BY <1>2, <1>3
<1> QED
  BY <1>4, <1>5, <1>6

LEMMA StepReadsLedger ==
  ASSUME ReadInv, NEW v \in Readers, reader[v].pc = "live",
         reader[v].rev = mon.historyRevision
  PROVE  LET Day == WindowOf(reader[v].today)
         IN  /\ Report(v).daily = [d \in Day |-> reader[v].ledger[d]]
             /\ \A s \in Status :
                  Report(v).count[s] = Total(reader[v].ledger, Day, s)
<1> DEFINE Day == WindowOf(reader[v].today)
<1>1. \A d \in Day : MergedRows(v)[d] = reader[v].ledger[d]
  BY MergedIsLedger
<1>2. Report(v).daily = [d \in Day |-> MergedRows(v)[d]]
  BY DEF Report
<1>3. ASSUME NEW s \in Status
      PROVE  Report(v).count[s] = Total(MergedRows(v), Day, s)
  BY DEF Report
<1>4. ASSUME NEW s \in Status
      PROVE  Total(MergedRows(v), Day, s) = Total(reader[v].ledger, Day, s)
  BY <1>1, TotalOfEqualRows
<1> HIDE DEF Day
<1>5. Report(v).daily = [d \in Day |-> reader[v].ledger[d]]
  BY <1>1, <1>2
<1> QED
  BY <1>3, <1>4, <1>5 DEF Day

\* Unless completed history changed in between, a report is exactly the ledger
\* of the moment the monitors row was read (history-rollups.ts 222-328).
THEOREM ReportsAreExact == ReadSpec => ReadsExactLedger
<1>1. ReadInv /\ [ReadNext]_readVars
        => [\A v \in Readers :
              /\ reader[v].pc = "live" /\ reader'[v].pc = "idle"
              /\ reader[v].rev = mon.historyRevision
              => LET Day == WindowOf(reader[v].today)
                 IN  /\ Report(v).daily = [d \in Day |-> reader[v].ledger[d]]
                     /\ \A s \in Status :
                          Report(v).count[s] = Total(reader[v].ledger, Day, s)]_readVars
  BY StepReadsLedger
<1> QED
  BY <1>1, ReadersInvariant, PTL DEF ReadSpec, ReadsExactLedger

-----------------------------------------------------------------------------
(* The parts side by side.                                                 *)

\* Whatever a step of the whole is, it is a step or a stutter of every part.
LEMMA EveryPartOfRequests ==
  ASSUME [RequestNext]_requestVars
  PROVE  /\ [ReadNext]_readVars /\ [PublicNext]_publicVars /\ [SessionNext]_sessionVars
         /\ [ConfNext]_confVars /\ [IncidentNext]_incidentVars
  BY Zenon DEF RequestNext, requestVars

\* The invariants of the parts.
EveryPartInv ==
  ReadInv /\ PublicInv /\ LimiterInv /\ SessionTypeInv /\ ConfInv /\ ReportsInv

LEMMA RequestStarts == RequestInit => EveryPartInv
  <1> SUFFICES ASSUME RequestInit PROVE EveryPartInv
    OBVIOUS
  <1>1. ReadInit /\ PublicInit /\ SessionInit /\ ConfInit /\ IncidentInit
    BY Zenon DEF RequestInit
  <1> QED
    BY Zenon, <1>1, ReadStarts, InitInv, LimiterStarts, SessionTypesStart, ConfInvInit,
       ReportsStart DEF EveryPartInv

LEMMA RequestStep == EveryPartInv /\ [RequestNext]_requestVars => EveryPartInv'
  <1> SUFFICES ASSUME EveryPartInv, [RequestNext]_requestVars PROVE EveryPartInv'
    OBVIOUS
  <1>1. ReadInv' /\ PublicInv' /\ LimiterInv'
    BY Zenon, EveryPartOfRequests, ReadersStep, StepKeepsInv, LimiterStep DEF EveryPartInv
  <1>2. SessionTypeInv' /\ ConfInv' /\ ReportsInv'
    BY Zenon, EveryPartOfRequests, SessionTypesStep, ConfInvStep, ReportsStep DEF EveryPartInv
  <1> QED BY Zenon, <1>1, <1>2 DEF EveryPartInv

LEMMA RequestTypesFollow == EveryPartInv => RequestTypeOK
  <1> SUFFICES ASSUME EveryPartInv PROVE RequestTypeOK
    OBVIOUS
  <1>1. TypeOK /\ PublicTypeOK /\ SessionTypeOK /\ IncidentTypeOK
    BY Zenon, PublicTypesFollow, IncidentTypesFollow DEF EveryPartInv, ReadInv, SessionTypeInv
  <1>2. ConfTypeOK
    BY Zenon, ConfTypesFollow DEF EveryPartInv
  <1> QED BY Zenon, <1>1, <1>2 DEF RequestTypeOK

\* For any number of readers, visitors, links, credentials, writers and
\* reports, every part keeps its types: an attempt counter is a number, a page
\* shows at most LinkLimit links, what a request stored is a row the schema
\* allows (monitors.ts 562-569, public-status.ts, incidents.ts).
THEOREM RequestsKeepTypes == RequestSpec => []RequestTypeOK
  BY RequestStarts, RequestStep, RequestTypesFollow, PTL DEF RequestSpec

=============================================================================
