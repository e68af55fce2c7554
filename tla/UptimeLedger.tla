---------------------------- MODULE UptimeLedger ----------------------------
(***************************************************************************)
(* What a monitor's statistics promise: a ledger of up and down checks per *)
(* UTC day.  Every request to record a check is entered at most once, on   *)
(* the day of its own timestamp; timestamps never run backwards; and the   *)
(* only other thing that can happen to the ledger is a complete reset.     *)
(*                                                                         *)
(* src/src/services/check-storage.ts keeps that ledger in two tables (the  *)
(* current day inside the monitors row, earlier days in                    *)
(* monitor_daily_rollups); Observations shows that it implements this one. *)
(***************************************************************************)
EXTENDS Integers

CONSTANTS
  Requests,   \* requests to record one check
  Days,       \* UTC days
  Times,      \* timestamps, 0 standing for "never"
  DayOf(_)    \* the UTC day of a timestamp

VARIABLES
  ledger,     \* ledger[d][s]: checks of status s on day d
  entered,    \* requests that have been entered
  lastAt      \* timestamp of the last entry, 0 if none since the last reset

Status == {"up", "down"}
Blank  == [d \in Days |-> [s \in Status |-> 0]]

LedgerInit ==
  /\ ledger = Blank
  /\ entered = {}
  /\ lastAt = 0

Enter(q, t, s) ==
  /\ q \notin entered
  /\ lastAt <= t
  /\ ledger' = [ledger EXCEPT ![DayOf(t)][s] = @ + 1]
  /\ entered' = entered \union {q}
  /\ lastAt' = t

Reset ==
  /\ ledger' = Blank
  /\ lastAt' = 0
  /\ UNCHANGED entered

LedgerNext ==
  \/ \E q \in Requests, t \in Times, s \in Status : Enter(q, t, s)
  \/ Reset

LedgerSpec == LedgerInit /\ [][LedgerNext]_<<ledger, entered, lastAt>>

=============================================================================
