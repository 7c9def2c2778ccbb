--------------------------- MODULE StatementQueue ---------------------------
(***************************************************************************)
(* What a buffered store promises as long as no two flushes overlap: the   *)
(* statements become durable one at a time, in the order in which they     *)
(* were issued; a failure repeats the last of them, and a stop loses those *)
(* that were not durable, for good.  Without failures it is the store as   *)
(* PaperTrading uses it.                                                   *)
(***************************************************************************)
EXTENDS Integers, Sequences

CONSTANTS
    Table,  \* the tables, which hold one value each
    Audit   \* the table that is a list of rows

VARIABLES
    log,      \* the statements issued
    reached,  \* how many of them have taken effect or been lost
    lost,     \* how many there were when the process last stopped
    db,       \* the durable value of each table
    audit     \* the durable rows of Audit

vars == <<log, reached, lost, db, audit>>

Init ==
    /\ log = <<>> /\ reached = 0 /\ lost = 0
    /\ db = [t \in Table |-> 0] /\ audit = <<>>

Issue ==
    /\ Len(log') = Len(log) + 1
    /\ log' = Append(log, log'[Len(log')])
    /\ UNCHANGED <<reached, lost, db, audit>>

(* The oldest statement that is still to take effect does.                 *)
Persist ==
    /\ reached < Len(log)
    /\ reached' = reached + 1
    /\ LET s == log[reached']
       IN  \/ s.table = Audit /\ audit' = Append(audit, s.value) /\ UNCHANGED db
           \/ s.table # Audit /\ db' = [db EXCEPT ![s.table] = s.value] /\ UNCHANGED audit
    /\ UNCHANGED <<log, lost>>

(* The process stops.                                                      *)
Lose ==
    /\ reached' = Len(log) /\ lost' = Len(log)
    /\ UNCHANGED <<log, db, audit>>

(* Statements that have taken effect are going to once more.               *)
Repeat ==
    /\ reached' \in lost .. reached
    /\ UNCHANGED <<log, lost, db, audit>>

Orderly == Issue \/ Persist \/ Lose

Next == Orderly \/ Repeat

Spec == Init /\ [][Next]_vars
=============================================================================
