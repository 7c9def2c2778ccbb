----------------------------- MODULE LeaderTerms -----------------------------
(***************************************************************************)
(* What the election of SchedulerLeader promises to those who use it,      *)
(* without files, clocks that were read too early or calls that fail.      *)
(* Leadership is granted in terms, one process to a term, a new one only   *)
(* when the lease on the last is over; a lease may be prolonged by its     *)
(* holder but is never cut short.  A process may believe it leads in a     *)
(* term it was granted long after the term is over, and may give up the    *)
(* belief at any time.                                                     *)
(***************************************************************************)
EXTENDS Integers

CONSTANTS Node, Nobody, Ttl

VARIABLES
    now,       \* the time
    leader,    \* who was granted the present term
    term,      \* the present term, 0 before the first
    until,     \* the end of its lease
    believed   \* pairs of a process and the term it believes it leads in

vars == <<now, leader, term, until, believed>>

Init == now = 0 /\ leader = Nobody /\ term = 0 /\ until = 0 /\ believed = {}

(* The beliefs of all processes but n.                                     *)
Others(n) == {b \in believed : b[1] # n}

Granted(n, newTerm) ==
    /\ leader' = n /\ term' = newTerm
    /\ until' \in until .. now + Ttl
    /\ believed' = Others(n) \cup {<<n, newTerm>>}
    /\ UNCHANGED now

Grant(n) ==
    /\ leader # n
    /\ leader = Nobody \/ until < now
    /\ Granted(n, term + 1)

(* The leader goes on, even when its lease has run out.                    *)
Prolong(n) == leader = n /\ Granted(n, term)

Renounce(n) == believed' = Others(n) /\ UNCHANGED <<now, leader, term, until>>

Tick == now' = now + 1 /\ UNCHANGED <<leader, term, until, believed>>

Next == Tick \/ \E n \in Node : Grant(n) \/ Prolong(n) \/ Renounce(n)

Spec == Init /\ [][Next]_vars
=============================================================================
