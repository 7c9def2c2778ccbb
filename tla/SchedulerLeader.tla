--------------------------- MODULE SchedulerLeader ---------------------------
(***************************************************************************)
(* Leader election of the distributed scheduler coordinator: processes     *)
(* that share a DuckDB file keep one row that names the leader, its term   *)
(* and the end of its lease.                                               *)
(*                                                                         *)
(* elect_leader reads the clock, then runs its statements with the file    *)
(* open, which excludes every other process: time passes and others run    *)
(* between the two.  Nothing calls it on a schedule, so that a leader may  *)
(* be late for any length of time.  A process that comes back has a new    *)
(* identity (a random node_id).                                            *)
(* "Variant" marks a mistaken form of the definition after it.             *)
(***************************************************************************)
EXTENDS Integers

CONSTANTS
    Node,       \* identities of worker processes, dead and future ones included
    Nobody,     \* the leader when there is no row
    Ttl,        \* default_lease_seconds, the duration of leadership
    MaxTime     \* bound: the last instant

ASSUME LeaderAssumption ==
    Nobody \notin Node /\ Ttl \in Nat \ {0} /\ MaxTime \in Nat

VARIABLES
    now,        \* the clock, shared by all processes
    life,       \* "new", "up" or "dead", for each identity
    row,        \* the row of the cluster in leader_election
    isLeader,   \* _is_leader of each process
    term,       \* _current_term of each process
    beat,       \* heartbeat_time of the last LeaderStatus it returned
    electing,   \* the process is in elect_leader ...
    at          \* ... and this is what it read from the clock

vars == <<now, life, row, isLeader, term, beat, electing, at>>

Vacant == [leader |-> Nobody, term |-> 0, expires |-> 0]

Row == {Vacant} \cup [leader : Node, term : Nat \ {0}, expires : Nat]

TypeOK ==
    /\ now \in Nat
    /\ life \in [Node -> {"new", "up", "dead"}]
    /\ row \in Row
    /\ isLeader \in [Node -> BOOLEAN] /\ term \in [Node -> Nat]
    /\ beat \in [Node -> Nat] /\ at \in [Node -> Nat]
    /\ electing \in [Node -> BOOLEAN]
    /\ \A n \in Node : isLeader[n] => term[n] # 0

Init ==
    /\ now = 0
    /\ life = [n \in Node |-> "new"]
    /\ row = Vacant
    /\ isLeader = [n \in Node |-> FALSE] /\ term = [n \in Node |-> 0]
    /\ beat = [n \in Node |-> 0] /\ at = [n \in Node |-> 0]
    /\ electing = [n \in Node |-> FALSE]

BeginElect(n) ==
    /\ life[n] = "up" /\ ~electing[n]
    /\ electing' = [electing EXCEPT ![n] = TRUE]
    /\ at' = [at EXCEPT ![n] = now]
    /\ UNCHANGED <<now, life, row, isLeader, term, beat>>

(* The end of the call.  LeaderStatus carries the time of its beginning.   *)
Return(n) ==
    /\ electing' = [electing EXCEPT ![n] = FALSE]
    /\ at' = [at EXCEPT ![n] = 0]
    /\ beat' = [beat EXCEPT ![n] = at[n]]
    /\ UNCHANGED <<now, life>>

(* The lease is counted from the start of the call, as the heartbeat is.   *)
(* Variant: the time-out is forgotten.                                     *)
ExpiresVariant(n) == at[n]

Expires(n) == at[n] + Ttl

Lead(n, newTerm) ==
    /\ row' = [leader |-> n, term |-> newTerm, expires |-> Expires(n)]
    /\ isLeader' = [isLeader EXCEPT ![n] = TRUE]
    /\ term' = [term EXCEPT ![n] = newTerm]

(* The leader goes on, even when its lease has run out.                    *)
Refresh(n) ==
    /\ electing[n] /\ row.leader = n
    /\ Lead(n, row.term)
    /\ Return(n)

(* The leader has timed out.  Variant: the term is not advanced.           *)
TakeOverVariant(n) ==
    /\ electing[n] /\ row.leader \notin {n, Nobody} /\ row.expires < at[n]
    /\ Lead(n, row.term)
    /\ Return(n)

TakeOver(n) ==
    /\ electing[n] /\ row.leader \notin {n, Nobody} /\ row.expires < at[n]
    /\ Lead(n, row.term + 1)
    /\ Return(n)

(* There is no row yet.  Variant: terms count from 0.                      *)
FirstLeaderVariant(n) ==
    /\ electing[n] /\ row = Vacant
    /\ Lead(n, 0)
    /\ Return(n)

FirstLeader(n) ==
    /\ electing[n] /\ row = Vacant
    /\ Lead(n, 1)
    /\ Return(n)

(* Another process leads.  Variant: the next term is noted, not its.       *)
FollowVariant(n) ==
    /\ electing[n] /\ row.leader \notin {n, Nobody} /\ row.expires >= at[n]
    /\ isLeader' = [isLeader EXCEPT ![n] = FALSE]
    /\ term' = [term EXCEPT ![n] = row.term + 1]
    /\ Return(n)
    /\ UNCHANGED row

Follow(n) ==
    /\ electing[n] /\ row.leader \notin {n, Nobody} /\ row.expires >= at[n]
    /\ isLeader' = [isLeader EXCEPT ![n] = FALSE]
    /\ term' = [term EXCEPT ![n] = row.term]
    /\ Return(n)
    /\ UNCHANGED row

(* An error of the database: another process has the file open, say.       *)
FailElect(n) ==
    /\ electing[n]
    /\ isLeader' = [isLeader EXCEPT ![n] = FALSE]
    /\ Return(n)
    /\ UNCHANGED <<row, term>>

Start(n) ==
    /\ life[n] = "new"
    /\ life' = [life EXCEPT ![n] = "up"]
    /\ UNCHANGED <<now, row, isLeader, term, beat, electing, at>>

(* A process dies anywhere; its row stays.                                 *)
Crash(n) ==
    /\ life[n] = "up"
    /\ life' = [life EXCEPT ![n] = "dead"]
    /\ isLeader' = [isLeader EXCEPT ![n] = FALSE]
    /\ term' = [term EXCEPT ![n] = 0]
    /\ beat' = [beat EXCEPT ![n] = 0]
    /\ at' = [at EXCEPT ![n] = 0]
    /\ electing' = [electing EXCEPT ![n] = FALSE]
    /\ UNCHANGED <<now, row>>

Tick ==
    /\ now < MaxTime
    /\ now' = now + 1
    /\ UNCHANGED <<life, row, isLeader, term, beat, electing, at>>

Elect(n) ==
    BeginElect(n) \/ FirstLeader(n) \/ Refresh(n) \/ TakeOver(n) \/ Follow(n) \/ FailElect(n)

Next == Tick \/ \E n \in Node : Elect(n) \/ Start(n) \/ Crash(n)

Spec == Init /\ [][Next]_vars

-----------------------------------------------------------------------------
(* Two processes never believe they lead in the same term, although a      *)
(* leader that stops calling elect_leader goes on believing it for ever.   *)
LeaderPerTerm ==
    \A m, n \in Node : isLeader[m] /\ isLeader[n] /\ term[m] = term[n] => m = n

(* The heartbeat a process got its leadership with is not older than Ttl.  *)
Alive(n) == isLeader[n] /\ now <= beat[n] + Ttl

(* At most one process leads on a heartbeat younger than the time-out,     *)
(* however late its call reached the database: a leader is not replaced    *)
(* while its last refresh still counts.                                    *)
OneLiveLeader == \A m, n \in Node : Alive(m) /\ Alive(n) => m = n

(* A process that finds itself superseded and later leads again never does *)
(* so in a term it has already seen.                                       *)
FreshTerm ==
    [][\A n \in Node : ~isLeader[n] /\ isLeader'[n] /\ row.leader # n
          => term'[n] > term[n]]_vars

(* The election hands out terms one by one, each when the lease on the one *)
(* before is over, and no lease is ever cut short, however late a call     *)
(* reaches the database with the time it read before.                      *)
Terms == INSTANCE LeaderTerms WITH
    leader <- row.leader, term <- row.term, until <- row.expires,
    believed <- {<<n, term[n]>> : n \in {m \in Node : isLeader[m]}}

ImplementsTerms == Terms!Spec
=============================================================================
