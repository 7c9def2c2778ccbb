------------------------ MODULE SchedulerLocksProofs ------------------------
(***************************************************************************)
(* Proofs about the scheduler's locks, for any set of processes, any lease *)
(* durations and any delay inside a call.                                  *)
(***************************************************************************)
EXTENDS SchedulerLocks, TLAPS

Changing(n) == call[n].op \in {"record", "extend", "missed"}

(* While the row is n's, it is the row its lease (or the call that is      *)
(* about to change the lease) describes.                                   *)
RowDescribed(n) ==
    row.owner = n =>
        /\ call[n].op = "record" =>
               /\ row.token = call[n].token
               /\ row.expires = call[n].at + call[n].ttl
        /\ Holds(n) /\ call[n].op # "record" => row.token = lease[n].token
        /\ call[n].op = "extend" => row.expires = call[n].at + call[n].ttl
        /\ call[n].op # "missed"
        /\ Holds(n) /\ ~Changing(n) =>
               row.expires = lease[n].acquired + lease[n].ttl

(* Nobody takes the row from n before the lease that n holds, or is about  *)
(* to record, has run out.                                                 *)
RowKept(n) ==
    \/ row.owner = n
    \/ /\ ~Changing(n) => ~Counts(n) \/ n \in lost
       /\ call[n].op \in {"record", "extend"} => call[n].at + call[n].ttl <= now

CallOK(n) ==
    /\ call[n].at <= now
    /\ call[n].op \in {"acquire", "record"} => call[n].token \in Token \ {0}
    /\ call[n].op \in {"acquire", "record", "renew", "extend", "missed"} => call[n].ttl \in Ttl
    /\ call[n].op = "delete" => ~Holds(n)

Local(n) == CallOK(n) /\ RowDescribed(n) /\ RowKept(n)

IInv == TypeOK /\ \A n \in Node : Local(n)

(* Tokens and lease durations are numbers.                                 *)
LEMMA Numbers == Token \subseteq Nat /\ Ttl \subseteq Nat /\ 0 \in Nat
<1>1. Ttl \subseteq Nat
  BY LockAssumption
<1>2. MaxToken \in Nat
  BY LockAssumption
<1>. QED  BY <1>1, <1>2 DEF Token

(* The fields of the three records, as the arithmetic below needs them.    *)
LEMMA Fields ==
  ASSUME TypeOK, NEW n \in Node
  PROVE  /\ now \in Nat
         /\ row.owner \in Node \cup {Nobody} /\ row.token \in Nat /\ row.expires \in Nat
         /\ lease[n].token \in Nat
         /\ lease[n].acquired \in Nat /\ lease[n].ttl \in Nat
         /\ call[n].at \in Nat /\ call[n].token \in Nat /\ call[n].ttl \in Nat
<1>1. row \in Row /\ lease[n] \in Lease /\ call[n] \in Call /\ now \in Nat
  BY DEF TypeOK
<1>2. row.owner \in Node \cup {Nobody} /\ row.token \in Nat /\ row.expires \in Nat
  BY <1>1, LockAssumption DEF Row, Absent, Token
<1>3. /\ lease[n].token \in Nat
      /\ lease[n].acquired \in Nat /\ lease[n].ttl \in Nat
  <2>1. CASE lease[n] = NoLease
    BY <2>1 DEF NoLease
  <2>2. CASE lease[n] \in [token : Token \ {0}, acquired : Nat, ttl : Ttl]
    <3>1. lease[n].token \in Token /\ lease[n].acquired \in Nat /\ lease[n].ttl \in Ttl
      BY <2>2
    <3>. QED  BY <3>1, Numbers
  <2>. QED  BY <1>1, <2>1, <2>2 DEF Lease
<1>4. call[n].at \in Nat /\ call[n].token \in Nat /\ call[n].ttl \in Nat
  <2>1. call[n].at \in Nat /\ call[n].token \in Token /\ call[n].ttl \in Ttl \cup {0}
    BY <1>1 DEF Call
  <2>. QED  BY <2>1, Numbers
<1>. QED  BY <1>1, <1>2, <1>3, <1>4

(* At first nobody has a lease and there is no row.                        *)
LEMMA InitIInv == Init => IInv
  BY LockAssumption DEF Init, IInv, TypeOK, Local, CallOK, RowDescribed, RowKept,
     Counts, Holds, Changing, Row, Lease, Call, Token, Absent, NoLease, NoCall

(* A step of process n keeps what the invariant says of another process m, *)
(* if it touches only n's memory and takes no row of m's that still counts.*)
LEMMA OthersKept ==
  ASSUME IInv, NEW n \in Node, NEW m \in Node, m # n,
         now' = now, lease'[m] = lease[m], call'[m] = call[m], (m \in lost' <=> m \in lost),
         \/ row' = row
         \/ row.owner # m /\ row'.owner # m
         \/ row'.owner # m /\ row.expires <= now
  PROVE  Local(m)'
<1>1. TypeOK /\ Local(m)
  BY DEF IInv
<1>2. /\ now \in Nat /\ row.expires \in Nat
      /\ lease[m].acquired \in Nat /\ lease[m].ttl \in Nat
      /\ call[m].at \in Nat /\ call[m].ttl \in Nat
  BY <1>1, Fields
<1>3. CallOK(m)'
  BY <1>1 DEF Local, CallOK, Holds
<1>4. RowDescribed(m)'
  BY <1>1 DEF Local, RowDescribed, Changing, Holds
<1>5. RowKept(m)'
  <2>1. CASE row' = row
    BY <1>1, <2>1 DEF Local, RowKept, Counts, Holds, Changing
  <2>2. CASE row.owner # m /\ row'.owner # m
    BY <1>1, <2>2 DEF Local, RowKept, Counts, Holds, Changing
  <2>3. CASE row.owner = m /\ row'.owner # m /\ row.expires <= now
    BY <1>1, <1>2, <2>3 DEF Local, RowKept, RowDescribed, Counts, Holds, Changing
  <2>. QED  BY <2>1, <2>2, <2>3
<1>. QED  BY <1>3, <1>4, <1>5 DEF Local

(* Every step keeps the invariant: of the process it is of, and of the rest.*)
LEMMA StepIInv == IInv /\ [Next]_vars => IInv'
<1>. SUFFICES ASSUME IInv, [Next]_vars  PROVE IInv'
  OBVIOUS
<1>. USE LockAssumption
<1>0. TypeOK /\ \A n \in Node : Local(n)
  BY DEF IInv
<1>1. CASE Tick
  <2>1. TypeOK'
    BY <1>0, <1>1 DEF Tick, TypeOK
  <2>2. ASSUME NEW n \in Node  PROVE Local(n)'
    <3>1. /\ now \in Nat /\ lease[n].acquired \in Nat /\ lease[n].ttl \in Nat
          /\ call[n].at \in Nat /\ call[n].ttl \in Nat
      BY <1>0, Fields
    <3>. QED
      BY <1>0, <1>1, <3>1 DEF Tick, Local, CallOK, RowDescribed, RowKept, Counts, Holds, Changing
  <2>. QED  BY <2>1, <2>2 DEF IInv
<1>2. ASSUME NEW n \in Node, Step(n)  PROVE IInv'
  <2>. DEFINE Mine == TypeOK' /\ Local(n)'
  <2>0. row \in Row /\ lease[n] \in Lease /\ call[n] \in Call /\ now \in Nat /\ Local(n)
    BY <1>0 DEF TypeOK
  <2>00. /\ row.owner \in Node \cup {Nobody} /\ row.token \in Nat /\ row.expires \in Nat
         /\ lease[n].token \in Nat
         /\ lease[n].acquired \in Nat /\ lease[n].ttl \in Nat
         /\ call[n].at \in Nat /\ call[n].token \in Nat /\ call[n].ttl \in Nat
    BY <1>0, Fields
  <2>1. ASSUME NEW ttl \in Ttl, BeginAcquire(n, ttl)  PROVE IInv'
    <3>1. Mine
      BY <1>0, <2>0, <2>1 DEF BeginAcquire, In, Enter, TypeOK, Local, CallOK, RowDescribed,
         RowKept, Counts, Holds, Changing, Call, Token
    <3>. QED  BY <1>0, <2>1, <3>1, OthersKept DEF BeginAcquire, Enter, TypeOK, IInv
  <2>2. ASSUME NEW ttl \in Ttl, BeginRenew(n, ttl)  PROVE IInv'
    <3>1. Mine
      BY <1>0, <2>0, <2>2 DEF BeginRenew, In, Enter, TypeOK, Local, CallOK, RowDescribed,
         RowKept, Counts, Holds, Changing, Call, Token
    <3>. QED  BY <1>0, <2>2, <3>1, OthersKept DEF BeginRenew, Enter, TypeOK, IInv
  <2>3. CASE AcquireRow(n)
    <3>1. TypeOK'
      BY <1>0, <2>0, <2>3 DEF AcquireRow, In, TypeOK, Local, CallOK, Call, Row
    <3>2. Local(n)'
      BY <1>0, <2>0, <2>3 DEF AcquireRow, In, TypeOK, Local, CallOK, RowDescribed,
         RowKept, Counts, Holds, Changing, Call
    <3>3. ASSUME NEW m \in Node, m # n  PROVE Local(m)'
      <4>1. row'.owner # m /\ (row.owner # m \/ row.expires <= now)
        BY <2>0, <2>3, <3>3 DEF AcquireRow, Free, Local, CallOK, Row, Absent, Call
      <4>. QED  BY <1>0, <2>3, <3>3, <4>1, OthersKept DEF AcquireRow, TypeOK
    <3>. QED  BY <3>1, <3>2, <3>3 DEF IInv
  <2>4. CASE RefuseAcquire(n)
    <3>1. Mine
      BY <1>0, <2>0, <2>4 DEF RefuseAcquire, In, Return, NoCall, TypeOK, Local, CallOK,
         RowDescribed, RowKept, Counts, Holds, Changing, Call, Token
    <3>. QED  BY <1>0, <2>4, <3>1, OthersKept DEF RefuseAcquire, Return, TypeOK, IInv
  <2>5. CASE RecordLease(n)
    <3>1. TypeOK'
      BY <1>0, <2>0, <2>5 DEF RecordLease, In, Return, NoCall, TypeOK, Local, CallOK,
         Call, Lease, Token
    <3>2. /\ lease'[n].token = call[n].token /\ lease'[n].ttl = call[n].ttl
          /\ lease'[n].acquired = call[n].at
          /\ call'[n].op = "none" /\ call'[n].at = 0
          /\ row' = row /\ now' = now
      BY <1>0, <2>5 DEF RecordLease, Return, NoCall, TypeOK
    <3>3. Local(n)'
      BY <2>0, <2>00, <2>5, <3>2 DEF RecordLease, In, Local, CallOK, RowDescribed, RowKept,
         Counts, Holds, Changing
    <3>. QED
      BY <1>0, <2>5, <3>1, <3>3, OthersKept DEF RecordLease, Return, TypeOK, IInv
  <2>6. CASE BeginRelease(n)
    <3>1. Mine
      BY <1>0, <2>0, <2>6 DEF BeginRelease, In, Enter, NoLease, TypeOK, Local, CallOK,
         RowDescribed, RowKept, Counts, Holds, Changing, Call, Token, Lease
    <3>. QED  BY <1>0, <2>6, <3>1, OthersKept DEF BeginRelease, Enter, TypeOK, IInv
  <2>7. CASE DeleteRow(n)
    <3>1. TypeOK'
      BY <1>0, <2>0, <2>7 DEF DeleteRow, Return, NoCall, TypeOK, Call, Row, Token
    <3>2. Local(n)'
      BY <1>0, <2>0, <2>7 DEF DeleteRow, In, Return, NoCall, Absent, TypeOK, Local, CallOK,
         RowDescribed, RowKept, Counts, Holds, Changing, Call
    <3>3. ASSUME NEW m \in Node, m # n  PROVE Local(m)'
      <4>1. CASE row.owner = n
        <5>1. row' = Absent /\ row'.owner = Nobody
          BY <2>7, <4>1 DEF DeleteRow, Absent
        <5>. QED  BY <1>0, <2>7, <3>3, <4>1, <5>1, OthersKept DEF DeleteRow, Return, TypeOK
      <4>2. CASE row.owner # n
        BY <1>0, <2>7, <3>3, <4>2, OthersKept DEF DeleteRow, Return, TypeOK
      <4>. QED  BY <4>1, <4>2
    <3>. QED  BY <3>1, <3>2, <3>3 DEF IInv
  <2>8. CASE RenewRow(n)
    <3>1. TypeOK'
      BY <1>0, <2>0, <2>8 DEF RenewRow, In, TypeOK, Local, CallOK, Call, Row, Absent
    <3>2. Local(n)'
      BY <1>0, <2>0, <2>8 DEF RenewRow, In, TypeOK, Local, CallOK, RowDescribed,
         RowKept, Counts, Holds, Changing, Call, Row, Absent
    <3>3. ASSUME NEW m \in Node, m # n  PROVE Local(m)'
      <4>1. row'.owner = row.owner
        BY <2>0, <2>8 DEF RenewRow, Row, Absent
      <4>2. row' = row \/ row.owner # m
        BY <2>8, <3>3 DEF RenewRow
      <4>. QED  BY <1>0, <2>8, <3>3, <4>1, <4>2, OthersKept DEF RenewRow, TypeOK
    <3>. QED  BY <3>1, <3>2, <3>3 DEF IInv
  <2>9. CASE ExtendLease(n)
    <3>1. TypeOK'
      <4>1. ASSUME Holds(n)  PROVE lease'[n] \in Lease
        <5>1. lease[n] \in [token : Token \ {0}, acquired : Nat, ttl : Ttl]
          BY <2>0, <4>1 DEF Holds, Lease, NoLease
        <5>2. call[n].ttl \in Ttl
          BY <2>0, <2>9 DEF ExtendLease, In, Local, CallOK
        <5>3. lease'[n] = [lease[n] EXCEPT !.acquired = call[n].at, !.ttl = call[n].ttl]
          BY <1>0, <2>9, <4>1 DEF ExtendLease, TypeOK
        <5>. QED  BY <2>00, <5>1, <5>2, <5>3 DEF Lease
      <4>2. lease' \in [Node -> Lease]
        BY <1>0, <2>9, <4>1 DEF ExtendLease, TypeOK
      <4>3. lost' \subseteq Node
        BY <1>0, <2>9 DEF ExtendLease, TypeOK
      <4>4. NoCall \in Call
        BY Numbers DEF NoCall, Call, Token
      <4>. QED
        BY <1>0, <2>9, <4>2, <4>3, <4>4 DEF ExtendLease, Return, TypeOK
    <3>2. Local(n)'
      BY <1>0, <2>0, <2>9 DEF ExtendLease, In, Return, NoCall, TypeOK, Local, CallOK,
         RowDescribed, RowKept, Counts, Holds, Changing, Call, Lease, NoLease
    <3>. QED
      BY <1>0, <2>9, <3>1, <3>2, OthersKept DEF ExtendLease, Return, TypeOK, IInv
  <2>10. CASE Fail(n)
    <3>1. Mine
      BY <1>0, <2>0, <2>10 DEF Fail, Return, NoCall, TypeOK, Local, CallOK,
         RowDescribed, RowKept, Counts, Holds, Changing, Call, Token
    <3>. QED  BY <1>0, <2>10, <3>1, OthersKept DEF Fail, Return, TypeOK, IInv
  <2>11. CASE Start(n)
    <3>1. Mine
      BY <1>0, <2>0, <2>11 DEF Start, TypeOK, Local, CallOK, RowDescribed, RowKept, Counts,
         Holds, Changing
    <3>. QED  BY <1>0, <2>11, <3>1, OthersKept DEF Start, TypeOK, IInv
  <2>12. CASE Crash(n)
    <3>1. Mine
      BY <1>0, <2>0, <2>12 DEF Crash, Return, NoCall, NoLease, TypeOK, Local, CallOK,
         RowDescribed, RowKept, Counts, Holds, Changing, Call, Token, Lease
    <3>. QED  BY <1>0, <2>12, <3>1, OthersKept DEF Crash, Return, TypeOK, IInv
  <2>. QED
    BY <1>2, <2>1, <2>2, <2>3, <2>4, <2>5, <2>6, <2>7, <2>8, <2>9, <2>10, <2>11, <2>12
       DEF Step
<1>3. CASE UNCHANGED vars
  BY <1>0, <1>3 DEF vars, IInv, TypeOK, Local, CallOK, RowDescribed, RowKept, Counts,
     Holds, Changing
<1>. QED
  BY <1>1, <1>2, <1>3 DEF Next

(* The invariant holds in every state of every behaviour.                  *)
LEMMA Invariance == Spec => []IInv
  BY InitIInv, StepIInv, PTL DEF Spec

(* The type invariant of the locks.                                        *)
THEOREM LockTypes == Spec => []TypeOK
  BY Invariance, PTL DEF IInv

(* A lease that counts has its row.                                        *)
THEOREM SafeLocks == Spec => []HolderHasRow
<1>1. IInv => HolderHasRow
  BY DEF IInv, Local, RowDescribed, RowKept, HolderHasRow, Counts, Changing
<1>. QED  BY <1>1, Invariance, PTL

(* Two processes never both hold the lock, but for the last instant of a   *)
(* lease and for leases renewed after the row was lost.                    *)
THEOREM OneHolder ==
  Spec => [](\A m, n \in Node :
               /\ Counts(m) /\ call[m].op = "none" /\ m \notin lost
               /\ Counts(n) /\ call[n].op = "none" /\ n \notin lost
               => m = n)
<1>1. HolderHasRow => \A m, n \in Node :
               /\ Counts(m) /\ call[m].op = "none" /\ m \notin lost
               /\ Counts(n) /\ call[n].op = "none" /\ n \notin lost
               => m = n
  BY DEF HolderHasRow
<1>. QED  BY <1>1, SafeLocks, PTL

(* The row changes hands only as NoTheft says.                             *)
THEOREM SafeRow == Spec => NoTheft
<1>1. ASSUME IInv, [Next]_vars, row'.owner # row.owner
      PROVE  \/ row.owner = Nobody
             \/ row.expires <= now
             \/ row' = Absent /\ ~Holds(row.owner)
  <2>0. \A n \in Node : RenewRow(n) => row'.owner = row.owner
    BY <1>1 DEF IInv, TypeOK, RenewRow, Row, Absent
  <2>1. PICK n \in Node : AcquireRow(n) \/ DeleteRow(n)
    BY <1>1, <2>0 DEF Next, Step, Tick, BeginAcquire, BeginRenew, RefuseAcquire, RecordLease,
       BeginRelease, ExtendLease, Fail, Start, Crash, vars
  <2>2. row \in Row /\ call[n] \in Call /\ now \in Nat /\ Local(n)
    BY <1>1 DEF IInv, TypeOK
  <2>. QED
    BY <1>1, <2>1, <2>2, LockAssumption
       DEF AcquireRow, Free, DeleteRow, In, Local, CallOK, Row, Absent, Call
<1>2. IInv /\ [Next]_vars =>
        [row'.owner # row.owner =>
          \/ row.owner = Nobody
          \/ row.expires <= now
          \/ row' = Absent /\ ~Holds(row.owner)]_vars
  BY <1>1
<1>. QED  BY <1>2, Invariance, PTL DEF Spec, NoTheft
=============================================================================
