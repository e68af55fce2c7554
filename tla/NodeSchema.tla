------------------------------ MODULE NodeSchema ------------------------------
(***************************************************************************)
(* The Node build brings its SQLite file up to date when it starts         *)
(* (db/migrate.ts, called once by server.ts before the server listens):    *)
(* one batch of CREATE IF NOT EXISTS statements, the triggers, the columns *)
(* later versions added one by one, a backfill, a repair and two indexes.  *)
(* The process may die, or a statement fail, anywhere; the next start      *)
(* begins again.  Only this process writes the file, and the versions      *)
(* before it did so earlier.                                               *)
(*                                                                         *)
(* A table is the set of its columns that alterStatements names; columns   *)
(* no later version added are not modelled.                                *)
(***************************************************************************)
EXTENDS Integers

CONSTANTS
  NumColumns,    \* entries of alterStatements
  Tables,        \* the tables they alter
  Declared,      \* the columns that the CREATE TABLEs name as well
  CursorColumn,  \* the place of monitors.next_check_at among them
  MaxCrashes     \* bound on starts that do not get through

Columns == 1..NumColumns

ASSUME NodeAssumption ==
  /\ NumColumns \in Nat /\ CursorColumn \in Columns /\ MaxCrashes \in Nat
  /\ UNION Tables = Columns /\ Declared \subseteq Columns

VARIABLES
  file,    \* the SQLite file
  boot,    \* "down", "serving", or the statement ensureSchema is at
  column,  \* how many alterStatements this start has tried
  crashes  \* starts that died so far

nodeVars == <<file, boot, column, crashes>>

Stages == {"tables", "triggers", "columns", "backfill", "index", "repair",
           "oneOpen", "looking", "marking"}

Files == [tables: SUBSET Tables, triggers: {0, 1}, columns: SUBSET Columns,
          index: {0, 1}, oneOpen: {0, 1},
          openIncidents: 0..2,        \* of one monitor
          cursor: {"unset", "set"},   \* next_check_at of a checked monitor
          rawLogs: {0, 1}, marked: {0, 1}]

NodeTypeOK ==
  /\ file \in Files
  /\ boot \in Stages \union {"down", "serving"}
  /\ column \in 0..NumColumns
  /\ crashes \in 0..MaxCrashes

NewFile == [tables |-> {}, triggers |-> 0, columns |-> {}, index |-> 0, oneOpen |-> 0,
            openIncidents |-> 0, cursor |-> "set", rawLogs |-> 0, marked |-> 0]

\* What some earlier version leaves behind.  alterStatements is not in the
\* order in which versions added the columns (the newest stand first), so any
\* of them may be there; a table younger than that version is missing.
LeftByEarlierVersion(f) ==
  /\ f.columns \subseteq UNION f.tables
  /\ \E monitors \in f.tables : CursorColumn \in monitors
  /\ f.index = 1 \/ f.cursor = "set" => CursorColumn \in f.columns
  /\ f.oneOpen = 1 => f.openIncidents <= 1
  /\ f.marked = 1 => f.rawLogs = 0

NodeInit ==
  /\ file = NewFile \/ (file \in Files /\ LeftByEarlierVersion(file))
  /\ boot = "down" /\ column = 0 /\ crashes = 0

-----------------------------------------------------------------------------
(* ensureSchema, statement by statement.                                   *)

StartNode ==
  /\ boot = "down"
  /\ boot' = "tables"
  /\ column' = 0
  /\ UNCHANGED <<file, crashes>>

\* The columns that come with the tables just created: those their CREATE
\* TABLE names.  scheduler_leases gets its newest columns from the ALTERs only.
ColumnsCreated(created) == Declared \intersect UNION created

\* SCHEMA_SQL is one batch of CREATE ... IF NOT EXISTS.
CreateTables ==
  /\ boot = "tables"
  /\ file' = [file EXCEPT !.tables = Tables,
                          !.columns = @ \union ColumnsCreated(Tables \ file.tables)]
  /\ boot' = "triggers"
  /\ UNCHANGED <<column, crashes>>

CreateTriggers ==
  /\ boot = "triggers"
  /\ file' = [file EXCEPT !.triggers = 1]
  /\ boot' = "columns"
  /\ UNCHANGED <<column, crashes>>

\* Mutant: the loop advances twice.
EverySecondColumn(c) == c + 1

\* Mutant: the first duplicate column ends the loop.
FirstDuplicateEnds(c) == IF c \in file.columns THEN NumColumns ELSE c

\* "duplicate column" is tolerated, and the loop goes on with the next one.
AfterColumn(c) == c

AddColumn ==
  /\ boot = "columns"
  /\ column < NumColumns
  /\ column + 1 \in UNION file.tables
  /\ file' = [file EXCEPT !.columns = @ \union {column + 1}]
  /\ column' = AfterColumn(column + 1)
  /\ UNCHANGED <<boot, crashes>>

ColumnsDone ==
  /\ boot = "columns"
  /\ column = NumColumns
  /\ boot' = "backfill"
  /\ UNCHANGED <<file, column, crashes>>

\* The three statements that need the columns; without its column a statement
\* throws, which is Crash.
BackfillCursor ==
  /\ boot = "backfill"
  /\ CursorColumn \in file.columns
  /\ file' = [file EXCEPT !.cursor = "set"]
  /\ boot' = "index"
  /\ UNCHANGED <<column, crashes>>

CreateCursorIndex ==
  /\ boot = "index"
  /\ CursorColumn \in file.columns
  /\ file' = [file EXCEPT !.index = 1]
  /\ boot' = "repair"
  /\ UNCHANGED <<column, crashes>>

\* Mutant: duplicates are left to the index.
KeepDuplicates == file.openIncidents

\* Of several open incidents of a monitor the oldest stays open.
OpenAfterRepair == IF file.openIncidents > 1 THEN 1 ELSE file.openIncidents

RepairIncidents ==
  /\ boot = "repair"
  /\ file' = [file EXCEPT !.openIncidents = OpenAfterRepair]
  /\ boot' = "oneOpen"
  /\ UNCHANGED <<column, crashes>>

\* A unique index cannot be built over duplicates.
CreateOneOpenIndex ==
  /\ boot = "oneOpen"
  /\ file.openIncidents <= 1
  /\ file' = [file EXCEPT !.oneOpen = 1]
  /\ boot' = "looking"
  /\ UNCHANGED <<column, crashes>>

LookForLegacyLogs ==
  /\ boot = "looking"
  /\ boot' = IF file.rawLogs = 1 THEN "serving" ELSE "marking"
  /\ UNCHANGED <<file, column, crashes>>

MarkCaughtUp ==
  /\ boot = "marking"
  /\ file' = [file EXCEPT !.marked = 1]
  /\ boot' = "serving"
  /\ UNCHANGED <<column, crashes>>

\* A statement throws, main() rejects and the process ends; or it is killed.
Crash ==
  /\ boot # "down"
  /\ crashes < MaxCrashes
  /\ crashes' = crashes + 1
  /\ boot' = "down"
  /\ UNCHANGED <<file, column>>

\* The server at work: an incident is opened where the index allows it.
OpenAnIncident ==
  /\ boot = "serving"
  /\ file.openIncidents < (IF file.oneOpen = 1 THEN 1 ELSE 2)
  /\ file' = [file EXCEPT !.openIncidents = @ + 1]
  /\ UNCHANGED <<boot, column, crashes>>

EnsureSchema ==
  \/ StartNode \/ CreateTables \/ CreateTriggers \/ AddColumn \/ ColumnsDone
  \/ BackfillCursor \/ CreateCursorIndex \/ RepairIncidents
  \/ CreateOneOpenIndex \/ LookForLegacyLogs \/ MarkCaughtUp

NodeNext == EnsureSchema \/ Crash \/ OpenAnIncident

NodeFairness == WF_nodeVars(EnsureSchema)

NodeSpec == NodeInit /\ [][NodeNext]_nodeVars /\ NodeFairness

-----------------------------------------------------------------------------
(* Properties.                                                             *)

\* Whatever starts died before it, a server that listens has every table,
\* trigger, column and index, at most one open incident per monitor, a
\* scheduling cursor, and marks the history caught up only without raw logs
\* (migrate.ts 372-482).
ServesCompleteSchema ==
  boot = "serving" =>
    /\ file.tables = Tables /\ file.triggers = 1 /\ file.columns = Columns
    /\ file.index = 1 /\ file.oneOpen = 1 /\ file.openIncidents <= 1
    /\ file.cursor = "set"
    /\ file.marked = 1 => file.rawLogs = 0

\* No file an earlier version or a dead start left behind keeps the server
\* from starting: every statement can be repeated, and what it needs has been
\* established by the ones before it (migrate.ts 385-471).
NodeStarts == <>(boot = "serving")

=============================================================================
