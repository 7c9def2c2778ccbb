--------------------------- MODULE SchedulerLocks ---------------------------
(***************************************************************************)
(* The locks of the distributed scheduler coordinator: processes that      *)
(* share a DuckDB file take the lock of one resource on a lease.  The rows *)
(* of different resources do not touch each other: one stands for all.     *)
(*                                                                         *)
(* A process reads the clock, then runs its statements with the file open, *)
(* which excludes every other process, and only then changes its memory:   *)
(* time passes and other processes run between these three.  A process     *)
(* that comes back has a new identity (a random node_id).                  *)
(* "Variant" marks a mistaken form of the definition after it.             *)
(***************************************************************************)
EXTENDS Integers

CONSTANTS
    Node,       \* identities of worker processes, dead and future ones included
    Nobody,     \* the owner when there is no row
    Ttl,        \* lease durations callers ask for
    MaxTime,    \* bound: the last instant
    MaxToken    \* bound: calls of acquire_lock by one process

ASSUME LockAssumption ==
    /\ Nobody \notin Node
    /\ Ttl \subseteq Nat \ {0} /\ MaxTime \in Nat /\ MaxToken \in Nat

VARIABLES
    now,        \* the clock, shared by all processes
    life,       \* "new", "up" or "dead", for each identity
    row,        \* the row of the resource in distributed_locks
    lease,      \* _held_locks[resource] of each process
    counter,    \* _fencing_counter of each process
    call,       \* the call each process is in
    lost        \* history: those whose lease was renewed without a row

vars == <<now, life, row, lease, counter, call, lost>>

Token == 0 .. MaxToken

Absent == [owner |-> Nobody, token |-> 0, expires |-> 0]
NoLease == [token |-> 0, acquired |-> 0, ttl |-> 0]

Row == {Absent} \cup [owner : Node, token : Token \ {0}, expires : Nat]
Lease == {NoLease} \cup [token : Token \ {0}, acquired : Nat, ttl : Ttl]

(* at is what the call read from the clock before it opened the file.  A   *)
(* renewal goes on to "extend" when its UPDATE matched the row, otherwise  *)
(* to "missed".                                                            *)
Call == [op : {"none", "acquire", "record", "delete", "renew", "extend", "missed"},
         at : Nat, token : Token, ttl : Ttl \cup {0}]

NoCall == [op |-> "none", at |-> 0, token |-> 0, ttl |-> 0]

TypeOK ==
    /\ now \in Nat
    /\ life \in [Node -> {"new", "up", "dead"}]
    /\ row \in Row
    /\ lease \in [Node -> Lease] /\ counter \in [Node -> Token]
    /\ call \in [Node -> Call] /\ lost \subseteq Node

Init ==
    /\ now = 0
    /\ life = [n \in Node |-> "new"]
    /\ row = Absent
    /\ lease = [n \in Node |-> NoLease] /\ counter = [n \in Node |-> 0]
    /\ call = [n \in Node |-> NoCall] /\ lost = {}

Holds(n) == lease[n].token # 0

In(n, op) == life[n] = "up" /\ call[n].op = op

Enter(n, op, ttl, token) ==
    call' = [call EXCEPT ![n] =
        [op |-> op, at |-> now, token |-> token, ttl |-> ttl]]

Return(n) == call' = [call EXCEPT ![n] = NoCall]

(* acquire_lock may write the row when there is none, when the process has *)
(* it already, or when it had run out as the call began.  Variant: or when *)
(* it runs out before the new lease does.                                  *)
FreeVariant(n) == row.owner \in {n, Nobody} \/ row.expires <= call[n].at + call[n].ttl

Free(n) == row.owner \in {n, Nobody} \/ row.expires <= call[n].at

-----------------------------------------------------------------------------
BeginAcquire(n, ttl) ==
    /\ In(n, "none") /\ counter[n] < MaxToken
    /\ counter' = [counter EXCEPT ![n] = @ + 1]
    /\ Enter(n, "acquire", ttl, counter[n] + 1)
    /\ UNCHANGED <<now, life, row, lease, lost>>

AcquireRow(n) ==
    /\ In(n, "acquire") /\ Free(n)
    /\ row' = [owner |-> n, token |-> call[n].token, expires |-> call[n].at + call[n].ttl]
    /\ call' = [call EXCEPT ![n].op = "record"]
    /\ UNCHANGED <<now, life, lease, counter, lost>>

RefuseAcquire(n) ==
    /\ In(n, "acquire") /\ ~Free(n)
    /\ Return(n)
    /\ UNCHANGED <<now, life, row, lease, counter, lost>>

(* Variant: the lease counts from the end of the call.                     *)
RecordLeaseVariant(n) ==
    /\ In(n, "record")
    /\ lease' = [lease EXCEPT ![n] =
           [token |-> call[n].token, acquired |-> now, ttl |-> call[n].ttl]]
    /\ lost' = lost \ {n}
    /\ Return(n)
    /\ UNCHANGED <<now, life, row, counter>>

RecordLease(n) ==
    /\ In(n, "record")
    /\ lease' = [lease EXCEPT ![n] =
           [token |-> call[n].token, acquired |-> call[n].at, ttl |-> call[n].ttl]]
    /\ lost' = lost \ {n}
    /\ Return(n)
    /\ UNCHANGED <<now, life, row, counter>>

(* The lease is forgotten before the row is deleted.                       *)
BeginRelease(n) ==
    /\ In(n, "none")
    /\ lease' = [lease EXCEPT ![n] = NoLease]
    /\ lost' = lost \ {n}
    /\ Enter(n, "delete", 0, 0)
    /\ UNCHANGED <<now, life, row, counter>>

(* Variant: whoever owns the row.                                          *)
DeleteRowVariant(n) ==
    /\ In(n, "delete")
    /\ row' = Absent
    /\ Return(n)
    /\ UNCHANGED <<now, life, lease, counter, lost>>

DeleteRow(n) ==
    /\ In(n, "delete")
    /\ row' = IF row.owner = n THEN Absent ELSE row
    /\ Return(n)
    /\ UNCHANGED <<now, life, lease, counter, lost>>

BeginRenew(n, ttl) ==
    /\ In(n, "none")
    /\ Enter(n, "renew", ttl, 0)
    /\ UNCHANGED <<now, life, row, lease, counter, lost>>

(* The UPDATE may match no row; the call goes on all the same.             *)
RenewRow(n) ==
    /\ In(n, "renew")
    /\ row' = IF row.owner = n THEN [row EXCEPT !.expires = call[n].at + call[n].ttl]
                               ELSE row
    /\ call' = [call EXCEPT ![n].op = IF row.owner = n THEN "extend" ELSE "missed"]
    /\ UNCHANGED <<now, life, lease, counter, lost>>

(* Variant: whether or not there is a lease to extend.                     *)
ExtendLeaseVariant(n) ==
    /\ In(n, "extend") \/ In(n, "missed")
    /\ lease' = [lease EXCEPT ![n].acquired = call[n].at, ![n].ttl = call[n].ttl]
    /\ Return(n)
    /\ UNCHANGED <<now, life, row, counter, lost>>

ExtendLease(n) ==
    /\ In(n, "extend") \/ In(n, "missed")
    /\ IF Holds(n)
       THEN /\ lease' = [lease EXCEPT ![n].acquired = call[n].at, ![n].ttl = call[n].ttl]
            /\ lost' = IF In(n, "missed") THEN lost \cup {n} ELSE lost
       ELSE UNCHANGED <<lease, lost>>
    /\ Return(n)
    /\ UNCHANGED <<now, life, row, counter>>

(* An error of the database: another process has the file open, say.       *)
Fail(n) ==
    /\ life[n] = "up" /\ call[n].op \in {"acquire", "delete", "renew"}
    /\ Return(n)
    /\ UNCHANGED <<now, life, row, lease, counter, lost>>

-----------------------------------------------------------------------------
(* A process starts, under an identity never used before.                  *)
Start(n) ==
    /\ life[n] = "new"
    /\ life' = [life EXCEPT ![n] = "up"]
    /\ UNCHANGED <<now, row, lease, counter, call, lost>>

(* A process dies anywhere in a call; its row stays.                       *)
Crash(n) ==
    /\ life[n] = "up"
    /\ life' = [life EXCEPT ![n] = "dead"]
    /\ lease' = [lease EXCEPT ![n] = NoLease]
    /\ counter' = [counter EXCEPT ![n] = 0]
    /\ lost' = lost \ {n}
    /\ Return(n)
    /\ UNCHANGED <<now, row>>

Tick ==
    /\ now < MaxTime
    /\ now' = now + 1
    /\ UNCHANGED <<life, row, lease, counter, call, lost>>

Step(n) ==
    \/ \E ttl \in Ttl : BeginAcquire(n, ttl) \/ BeginRenew(n, ttl)
    \/ AcquireRow(n) \/ RefuseAcquire(n) \/ RecordLease(n)
    \/ BeginRelease(n) \/ DeleteRow(n)
    \/ RenewRow(n) \/ ExtendLease(n)
    \/ Fail(n) \/ Start(n) \/ Crash(n)

Next == Tick \/ \E n \in Node : Step(n)

Spec == Init /\ [][Next]_vars

-----------------------------------------------------------------------------
(* The lease has not run out: is_expired, but for the last instant.        *)
Counts(n) == Holds(n) /\ now < lease[n].acquired + lease[n].ttl

(* A process that is not in the middle of a call and whose lease has not   *)
(* run out owns the row under the lease's token, so that nobody else can   *)
(* take it: however long its calls were delayed, whoever crashed, and      *)
(* whatever failed.  Two exceptions the code makes: at the very instant    *)
(* the lease runs out both the holder and a newcomer may count it theirs   *)
(* (expires <= now to take, now > expires to give up), and a lease renewed *)
(* after its row had gone, which renew_lease reports as a success.         *)
HolderHasRow ==
    \A n \in Node :
        Counts(n) /\ call[n].op = "none" /\ n \notin lost
        => row.owner = n /\ row.token = lease[n].token

(* The row changes hands only when it has run out or when its owner, who   *)
(* has forgotten the lease by then, deletes it.                            *)
NoTheft ==
    [][row'.owner # row.owner =>
          \/ row.owner = Nobody
          \/ row.expires <= now
          \/ row' = Absent /\ ~Holds(row.owner)]_vars
=============================================================================
