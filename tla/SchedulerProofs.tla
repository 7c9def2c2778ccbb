---------------------------- MODULE SchedulerProofs ----------------------------
(***************************************************************************)
(* Proofs about two schedulers: the leader election of the distributed one *)
(* (SchedulerLeader), for any set of processes, any time-out and any delay *)
(* between the clock and the database; and, from "Unified" on, the loops   *)
(* of UnifiedScheduler, for any finite set of jobs and number of retries.  *)
(***************************************************************************)
EXTENDS SchedulerLeader, Sequences, FiniteSetTheorems, WellFoundedInduction, NaturalsInduction, TLAPS

(* A call knows a time that is past; nobody has seen a later term than the *)
(* row's.                                                                  *)
Past == \A n \in Node : at[n] <= now /\ term[n] <= row.term

(* A process that thinks it leads has the row, with the lease its last     *)
(* heartbeat bought, or has been superseded after that lease ran out.      *)
Reign(n) ==
    \/ row.leader = n /\ row.term = term[n] /\ row.expires = beat[n] + Ttl
    \/ row.leader # Nobody /\ term[n] < row.term /\ beat[n] + Ttl < now

IInv == TypeOK /\ Past /\ (\A n \in Node : isLeader[n] => Reign(n)) /\ LeaderPerTerm

(* At first nobody leads and there is no row.                              *)
LEMMA InitIInv == Init => IInv
  BY LeaderAssumption DEF Init, IInv, TypeOK, Past, LeaderPerTerm, Row, Vacant

(* A call that makes n the leader: of the term it has the row of, or of    *)
(* the next one, once the lease is over.                                   *)
LEMMA LeadIInv ==
  ASSUME IInv, NEW n \in Node, NEW t \in Nat \ {0}, Lead(n, t), Return(n),
         t >= row.term,
         \/ row.leader = n /\ t = row.term
         \/ row = Vacant
         \/ row.leader # n /\ t > row.term /\ row.expires < at[n]
  PROVE  IInv'
<1>. USE LeaderAssumption
<1>1. TypeOK'
  BY DEF IInv, TypeOK, Lead, Return, Expires, Row
<1>2. Past'
  BY DEF IInv, TypeOK, Past, Lead, Return, Expires, Row, Vacant
<1>3. ASSUME NEW m \in Node, isLeader'[m]  PROVE Reign(m)'
  <2>1. CASE m = n
    BY <2>1 DEF IInv, TypeOK, Lead, Return, Expires, Reign
  <2>2. CASE m # n
    <3>1. isLeader[m] /\ Reign(m) /\ term'[m] = term[m] /\ beat'[m] = beat[m]
      BY <1>3, <2>2 DEF IInv, TypeOK, Lead, Return
    <3>2. row'.leader = n /\ row'.term = t /\ now' = now
      BY DEF Lead, Return
    <3>3. term[m] < t /\ beat[m] + Ttl < now
      BY <2>2, <3>1 DEF IInv, TypeOK, Past, Reign, Row, Vacant
    <3>. QED  BY <3>1, <3>2, <3>3 DEF Reign
  <2>. QED  BY <2>1, <2>2
<1>4. LeaderPerTerm'
  <2>1. ASSUME NEW m \in Node, isLeader[m], m # n  PROVE term[m] # t
    BY <2>1 DEF IInv, TypeOK, Past, Reign, Row, Vacant
  <2>. QED
    BY <2>1 DEF IInv, TypeOK, LeaderPerTerm, Lead, Return
<1>. QED  BY <1>1, <1>2, <1>3, <1>4 DEF IInv

(* A step that leaves the row alone and makes nobody a leader.             *)
LEMMA QuietIInv ==
  ASSUME IInv, TypeOK', row' = row, now' >= now,
         \A n \in Node : at'[n] <= now' /\ term'[n] <= row'.term,
         \A n \in Node : isLeader'[n] =>
             isLeader[n] /\ term'[n] = term[n] /\ beat'[n] = beat[n]
  PROVE  IInv'
<1>1. Past'
  BY DEF Past
<1>2. ASSUME NEW n \in Node, isLeader'[n]  PROVE Reign(n)'
  BY <1>2, LeaderAssumption DEF IInv, TypeOK, Reign
<1>3. LeaderPerTerm'
  BY DEF IInv, LeaderPerTerm
<1>. QED  BY <1>1, <1>2, <1>3 DEF IInv

(* Every step keeps the invariant.                                         *)
LEMMA StepIInv == IInv /\ [Next]_vars => IInv'
<1>. SUFFICES ASSUME IInv, [Next]_vars  PROVE IInv'
  OBVIOUS
<1>. USE LeaderAssumption
<1>0. TypeOK /\ Past
  BY DEF IInv
<1>1. CASE Tick
  BY <1>0, <1>1, QuietIInv DEF Tick, TypeOK, Past
<1>2. ASSUME NEW n \in Node, Start(n)  PROVE IInv'
  BY <1>0, <1>2, QuietIInv DEF Start, TypeOK, Past
<1>3. ASSUME NEW n \in Node, Crash(n)  PROVE IInv'
  BY <1>0, <1>3, QuietIInv DEF Crash, TypeOK, Past, Row, Vacant
<1>4. ASSUME NEW n \in Node, BeginElect(n)  PROVE IInv'
  BY <1>0, <1>4, QuietIInv DEF BeginElect, TypeOK, Past
<1>5. ASSUME NEW n \in Node, FirstLeader(n)  PROVE IInv'
  BY <1>0, <1>5, LeadIInv DEF FirstLeader, Vacant
<1>6. ASSUME NEW n \in Node, Refresh(n)  PROVE IInv'
  BY <1>0, <1>6, LeadIInv DEF Refresh, TypeOK, Row, Vacant
<1>7. ASSUME NEW n \in Node, TakeOver(n)  PROVE IInv'
  BY <1>0, <1>7, LeadIInv DEF TakeOver, TypeOK, Row, Vacant
<1>8. ASSUME NEW n \in Node, Follow(n)  PROVE IInv'
  <2>1. TypeOK'
    BY <1>0, <1>8 DEF Follow, Return, TypeOK, Row, Vacant
  <2>. QED  BY <1>0, <1>8, <2>1, QuietIInv DEF Follow, Return, TypeOK, Past, Row, Vacant
<1>9. ASSUME NEW n \in Node, FailElect(n)  PROVE IInv'
  BY <1>0, <1>9, QuietIInv DEF FailElect, Return, TypeOK, Past
<1>10. CASE UNCHANGED vars
  BY <1>0, <1>10, QuietIInv DEF vars, TypeOK, Past
<1>. QED
  BY <1>1, <1>2, <1>3, <1>4, <1>5, <1>6, <1>7, <1>8, <1>9, <1>10 DEF Next, Elect

(* The invariant holds in every state of every behaviour.                  *)
LEMMA Invariance == Spec => []IInv
  BY InitIInv, StepIInv, PTL DEF Spec

(* Terms identify leaders, whatever is delayed, fails or crashes.          *)
THEOREM SafeTerms == Spec => []LeaderPerTerm
  BY Invariance, PTL DEF IInv

(* Only one leader can hold a heartbeat younger than the time-out.         *)
THEOREM SafeLeadership == Spec => []OneLiveLeader
<1>1. IInv => OneLiveLeader
  BY LeaderAssumption DEF IInv, TypeOK, OneLiveLeader, Alive, Reign
<1>. QED  BY <1>1, Invariance, PTL

(* The type invariant of leader election.                                  *)
THEOREM LeaderTypes == Spec => []TypeOK
  BY Invariance, PTL DEF IInv

(* Leadership gained from another process is in a term not seen before.    *)
THEOREM SafeFreshTerm == Spec => FreshTerm
<1>1. ASSUME IInv, [Next]_vars, NEW n \in Node, ~isLeader[n], isLeader'[n], row.leader # n
      PROVE  term'[n] > term[n]
  <2>1. TypeOK /\ Past
    BY <1>1 DEF IInv
  <2>2. PICK m \in Node : FirstLeader(m) \/ TakeOver(m)
    BY <1>1, <2>1 DEF Next, Elect, Tick, Start, Crash, BeginElect, Refresh, Follow,
       FailElect, Lead, Return, TypeOK, vars
  <2>3. m = n
    BY <1>1, <2>1, <2>2 DEF FirstLeader, TakeOver, Lead, TypeOK
  <2>. QED
    BY <2>1, <2>2, <2>3, LeaderAssumption
       DEF FirstLeader, TakeOver, Lead, TypeOK, Past, Row, Vacant
<1>2. IInv /\ [Next]_vars =>
        [\A n \in Node : ~isLeader[n] /\ isLeader'[n] /\ row.leader # n
           => term'[n] > term[n]]_vars
  BY <1>1
<1>. QED  BY <1>2, Invariance, PTL DEF Spec, FreshTerm

(* No lease reaches further than one started now; that of a process that   *)
(* is in elect_leader not further than the one it is about to ask for.     *)
Lease ==
    /\ row.expires <= now + Ttl
    /\ \A n \in Node : electing[n] /\ row.leader = n => row.expires <= at[n] + Ttl

(* A new lease starts at a time read in the past, and only its holder asks *)
(* for the next one.                                                       *)
LEMMA LeadLease ==
  ASSUME IInv, Lease, NEW n \in Node, NEW t \in Nat, electing[n], Lead(n, t), Return(n)
  PROVE  Lease'
<1>. USE LeaderAssumption
<1>1. row'.expires = at[n] + Ttl /\ row'.leader = n /\ at[n] \in Nat
  BY DEF Lead, Expires, IInv, TypeOK
<1>2. row'.expires <= now' + Ttl
  BY <1>1 DEF Return, IInv, TypeOK, Past
<1>3. ~electing'[n]
  BY DEF Return, IInv, TypeOK
<1>4. \A m \in Node : electing'[m] /\ row'.leader = m => row'.expires <= at'[m] + Ttl
  BY <1>1, <1>3
<1>. QED  BY <1>2, <1>4 DEF Lease

LEMMA StepLease == IInv /\ Lease /\ [Next]_vars => Lease'
<1>. SUFFICES ASSUME IInv, Lease, [Next]_vars  PROVE Lease'
  OBVIOUS
<1>. USE LeaderAssumption
<1>0. TypeOK /\ Past
  BY DEF IInv
<1>r. row.expires \in Nat /\ row.term \in Nat
  BY <1>0 DEF TypeOK, Row, Vacant
<1>1. CASE Tick
  BY <1>0, <1>r, <1>1 DEF Tick, TypeOK, Lease
<1>2. ASSUME NEW n \in Node, Start(n)  PROVE Lease'
  BY <1>2 DEF Start, Lease
<1>3. ASSUME NEW n \in Node, Crash(n)  PROVE Lease'
  BY <1>0, <1>3 DEF Crash, TypeOK, Lease
<1>4. ASSUME NEW n \in Node, BeginElect(n)  PROVE Lease'
  <2>1. UNCHANGED <<now, row>> /\ at'[n] = now
    BY <1>0, <1>4 DEF BeginElect, TypeOK
  <2>2. \A m \in Node : m # n => electing'[m] = electing[m] /\ at'[m] = at[m]
    BY <1>0, <1>4 DEF BeginElect, TypeOK
  <2>. QED  BY <2>1, <2>2 DEF Lease
<1>5. ASSUME NEW n \in Node, FirstLeader(n)  PROVE Lease'
  BY <1>5, LeadLease DEF FirstLeader
<1>6. ASSUME NEW n \in Node, Refresh(n)  PROVE Lease'
  BY <1>r, <1>6, LeadLease DEF Refresh
<1>7. ASSUME NEW n \in Node, TakeOver(n)  PROVE Lease'
  BY <1>r, <1>7, LeadLease DEF TakeOver
<1>8. ASSUME NEW n \in Node, Follow(n)  PROVE Lease'
  BY <1>0, <1>8 DEF Follow, Return, TypeOK, Lease
<1>9. ASSUME NEW n \in Node, FailElect(n)  PROVE Lease'
  BY <1>0, <1>9 DEF FailElect, Return, TypeOK, Lease
<1>10. CASE UNCHANGED vars
  BY <1>10 DEF vars, Lease
<1>. QED
  BY <1>1, <1>2, <1>3, <1>4, <1>5, <1>6, <1>7, <1>8, <1>9, <1>10 DEF Next, Elect

(* The two invariants together.                                            *)
LEMMA LeaseInvariance == Spec => [](IInv /\ Lease)
<1>1. Init => IInv /\ Lease
  <2>1. Init => Lease
    BY LeaderAssumption DEF Init, Lease, Vacant
  <2>. QED  BY <2>1, InitIInv
<1>2. (IInv /\ Lease) /\ [Next]_vars => (IInv /\ Lease)'
  BY StepIInv, StepLease
<1>. QED  BY <1>1, <1>2, PTL DEF Spec

(* What the mapping makes of _is_leader and _current_term.                 *)
Beliefs == {<<n, term[n]>> : n \in {m \in Node : isLeader[m]}}

(* Becoming the leader replaces what the process believed before ...       *)
LEMMA BeliefGained ==
  ASSUME TypeOK, NEW n \in Node, NEW t \in Nat, Lead(n, t)
  PROVE  Beliefs' = {b \in Beliefs : b[1] # n} \cup {<<n, t>>}
<1>1. \A m \in Node : /\ isLeader'[m] <=> m = n \/ isLeader[m]
                      /\ term'[m] = IF m = n THEN t ELSE term[m]
  BY DEF Lead, TypeOK
<1>2. ASSUME NEW b \in Beliefs'  PROVE b \in {c \in Beliefs : c[1] # n} \cup {<<n, t>>}
  <2>1. PICK m \in Node : isLeader'[m] /\ b = <<m, term'[m]>>
    BY DEF Beliefs
  <2>. QED  BY <1>1, <2>1 DEF Beliefs
<1>3. ASSUME NEW b \in Beliefs, b[1] # n  PROVE b \in Beliefs'
  <2>1. PICK m \in Node : isLeader[m] /\ b = <<m, term[m]>>
    BY DEF Beliefs
  <2>2. isLeader'[m] /\ b = <<m, term'[m]>>
    BY <1>1, <1>3, <2>1
  <2>. QED  BY <2>2 DEF Beliefs
<1>4. <<n, t>> \in Beliefs'
  <2>1. isLeader'[n] /\ <<n, t>> = <<n, term'[n]>>
    BY <1>1
  <2>. QED  BY <2>1 DEF Beliefs
<1>. QED  BY <1>2, <1>3, <1>4

(* ... and giving it up removes it.                                        *)
LEMMA BeliefLost ==
  ASSUME NEW n \in Node,
         \A m \in Node : /\ isLeader'[m] <=> m # n /\ isLeader[m]
                         /\ m # n => term'[m] = term[m]
  PROVE  Beliefs' = {b \in Beliefs : b[1] # n}
<1>1. ASSUME NEW b \in Beliefs'  PROVE b \in Beliefs /\ b[1] # n
  <2>1. PICK m \in Node : isLeader'[m] /\ b = <<m, term'[m]>>
    BY DEF Beliefs
  <2>. QED  BY <2>1 DEF Beliefs
<1>2. ASSUME NEW b \in Beliefs, b[1] # n  PROVE b \in Beliefs'
  <2>1. PICK m \in Node : isLeader[m] /\ b = <<m, term[m]>>
    BY DEF Beliefs
  <2>2. isLeader'[m] /\ b = <<m, term'[m]>>
    BY <1>2, <2>1
  <2>. QED  BY <2>2 DEF Beliefs
<1>. QED  BY <1>1, <1>2

(* A call that makes n the leader grants a term, the row's or the next.    *)
LEMMA LeadGrants ==
  ASSUME IInv, NEW n \in Node, NEW t \in Nat, Lead(n, t), Return(n),
         row.expires <= at[n] + Ttl
  PROVE  Terms!Granted(n, t)
<1>1. Beliefs' = {b \in Beliefs : b[1] # n} \cup {<<n, t>>}
  BY BeliefGained DEF IInv
<1>2. row'.leader = n /\ row'.term = t /\ row'.expires = at[n] + Ttl
  BY DEF Lead, Expires
<1>3. row'.expires \in row.expires .. now + Ttl
  BY <1>2, LeaderAssumption DEF IInv, TypeOK, Past, Row, Vacant
<1>4. UNCHANGED now
  BY DEF Return
<1>. QED  BY <1>1, <1>2, <1>3, <1>4 DEF Terms!Granted, Terms!Others, Beliefs

(* Each step is one of the terms' or leaves them alone.                    *)
LEMMA StepTerms == IInv /\ Lease /\ [Next]_vars => [Terms!Next]_(Terms!vars)
<1>. SUFFICES ASSUME IInv, Lease, [Next]_vars  PROVE [Terms!Next]_(Terms!vars)
  OBVIOUS
<1>. USE LeaderAssumption
<1>0. TypeOK /\ Past /\ row.expires \in Nat /\ row.term \in Nat
  BY DEF IInv, TypeOK, Row, Vacant
<1>1. CASE Tick
  BY <1>1 DEF Tick, Terms!Next, Terms!Tick
<1>2. ASSUME NEW n \in Node, Start(n) \/ BeginElect(n)  PROVE UNCHANGED Terms!vars
  BY <1>2 DEF Start, BeginElect, Terms!vars
<1>3. ASSUME NEW n \in Node, UNCHANGED <<now, row>>,
             isLeader' = [isLeader EXCEPT ![n] = FALSE],
             \A m \in Node : m # n => term'[m] = term[m]
      PROVE  Terms!Renounce(n)
  <2>1. Beliefs' = {b \in Beliefs : b[1] # n}
    BY <1>0, <1>3, BeliefLost DEF TypeOK
  <2>. QED  BY <1>3, <2>1 DEF Terms!Renounce, Terms!Others, Beliefs
<1>4. ASSUME NEW n \in Node, Crash(n) \/ Follow(n) \/ FailElect(n)  PROVE Terms!Renounce(n)
  BY <1>0, <1>3, <1>4 DEF Crash, Follow, FailElect, Return, TypeOK
<1>5. ASSUME NEW n \in Node, FirstLeader(n)  PROVE Terms!Grant(n)
  <2>1. row.leader = Nobody /\ row.leader # n /\ row.term + 1 = 1 /\ row.expires <= at[n] + Ttl
    BY <1>0, <1>5 DEF FirstLeader, Vacant, TypeOK
  <2>2. Terms!Granted(n, 1)
    BY <1>5, <2>1, LeadGrants DEF FirstLeader
  <2>. QED  BY <2>1, <2>2 DEF Terms!Grant, Terms!Granted
<1>6. ASSUME NEW n \in Node, Refresh(n)  PROVE Terms!Prolong(n)
  <2>1. row.leader = n /\ row.expires <= at[n] + Ttl
    BY <1>6 DEF Refresh, Lease
  <2>2. PICK t \in Nat : t = row.term
    BY <1>0
  <2>3. Terms!Granted(n, t)
    BY <1>6, <2>1, <2>2, LeadGrants DEF Refresh
  <2>. QED  BY <2>1, <2>2, <2>3 DEF Terms!Prolong, Terms!Granted
<1>7. ASSUME NEW n \in Node, TakeOver(n)  PROVE Terms!Grant(n)
  <2>1. row.leader # n /\ row.expires < now /\ row.expires <= at[n] + Ttl
    BY <1>0, <1>7 DEF TakeOver, TypeOK, Past
  <2>2. PICK t \in Nat : t = row.term + 1
    BY <1>0
  <2>3. Terms!Granted(n, t)
    BY <1>7, <2>1, <2>2, LeadGrants DEF TakeOver
  <2>. QED  BY <2>1, <2>2, <2>3 DEF Terms!Grant, Terms!Granted
<1>8. CASE UNCHANGED vars
  BY <1>8 DEF vars, Terms!vars
<1>. QED
  BY <1>1, <1>2, <1>4, <1>5, <1>6, <1>7, <1>8 DEF Next, Elect, Terms!Next

(* The election is the abstract one: terms come one by one, each when the  *)
(* lease on the last is over, and a call that reaches the database late    *)
(* with an old clock reading never shortens a lease.                       *)
THEOREM ElectionGrantsTerms == Spec => ImplementsTerms
<1>1. Init => Terms!Init
  <2>1. ASSUME Init  PROVE Beliefs = {}
    BY <2>1 DEF Init, Beliefs
  <2>. QED  BY <2>1 DEF Init, Terms!Init, Vacant, Beliefs
<1>. QED
  BY <1>1, StepTerms, LeaseInvariance, PTL DEF Spec, ImplementsTerms, Terms!Spec

-----------------------------------------------------------------------------
CONSTANTS Job, Trading, Priority, MaxRetries, MaxQueue

VARIABLES running, market, enabled, due, loop, agenda, consumer, queue, run

Unified == INSTANCE UnifiedScheduler

(* What each kind of run is.                                               *)
LEMMA RunKinds ==
  ASSUME Unified!SchedulerAssumption, NEW x \in Unified!Run
  PROVE  /\ x.pc \in {"free", "handler", "backoff"}
         /\ x.pc = "free" <=> x = Unified!Free
         /\ x.pc = "handler" => /\ x.job \in Job /\ x.attempt \in 0 .. MaxRetries
                                /\ x = [pc |-> "handler", job |-> x.job, attempt |-> x.attempt]
         /\ x.pc = "backoff" => /\ x.job \in Job /\ x.attempt \in 0 .. MaxRetries - 1
                                /\ x = [pc |-> "backoff", job |-> x.job, attempt |-> x.attempt]
         /\ Unified!RunLeft(x) \in Nat
  <1>1. CASE x = Unified!Free
    BY <1>1 DEF Unified!Free, Unified!RunLeft
  <1>2. CASE x \in [pc : {"handler"}, job : Job, attempt : 0 .. MaxRetries]
    BY <1>2 DEF Unified!SchedulerAssumption, Unified!Free, Unified!RunLeft
  <1>3. CASE x \in [pc : {"backoff"}, job : Job, attempt : 0 .. MaxRetries - 1]
    BY <1>3 DEF Unified!SchedulerAssumption, Unified!Free, Unified!RunLeft
  <1> QED
    BY <1>1, <1>2, <1>3 DEF Unified!Run

(* A step of a run keeps it a run, and shortens it.                        *)
LEMMA RunMoves ==
  ASSUME Unified!SchedulerAssumption, Unified!TypeOK, NEW r \in Unified!Runner, Unified!Attempt(r)
  PROVE  /\ run' \in [Unified!Runner -> Unified!Run]
         /\ run'[r] # Unified!Free => consumer' = consumer
         /\ \A o \in Unified!Runner \ {r} : run'[o] = run[o]
         /\ consumer' = consumer \/ (r = "trigger" /\ consumer' = "ended")
         /\ run[r] # Unified!Free
         /\ Unified!RunLeft(run'[r]) < Unified!RunLeft(run[r])
  <1>1. run[r] \in Unified!Run /\ run \in [Unified!Runner -> Unified!Run]
    BY DEF Unified!TypeOK
  <1>2. PICK limit \in Nat : limit = MaxRetries
    BY DEF Unified!SchedulerAssumption
  <1>3. PICK x \in Unified!Run : x = run[r]
    BY <1>1
  <1>4. \A y \in Unified!Run : run' = [run EXCEPT ![r] = y] =>
          /\ run' \in [Unified!Runner -> Unified!Run] /\ run'[r] = y
          /\ \A o \in Unified!Runner \ {r} : run'[o] = run[o]
    BY <1>1
  <1>5. Unified!Free \in Unified!Run /\ Unified!RunLeft(Unified!Free) = 0
    BY DEF Unified!Run, Unified!Free, Unified!RunLeft
  <1>6. ASSUME run[r].pc = "handler", Unified!Release(r)
        PROVE  /\ run' \in [Unified!Runner -> Unified!Run]
               /\ run'[r] = Unified!Free
               /\ \A o \in Unified!Runner \ {r} : run'[o] = run[o]
               /\ consumer' = consumer \/ (r = "trigger" /\ consumer' = "ended")
               /\ run[r] # Unified!Free
               /\ Unified!RunLeft(run'[r]) < Unified!RunLeft(run[r])
    <2>1. x.attempt \in 0 .. limit /\ x # Unified!Free
      BY <1>2, <1>3, <1>6, RunKinds DEF Unified!Free
    <2>2. Unified!RunLeft(x) = 2 * (limit - x.attempt) + 1
      BY <1>2, <1>3, <1>6 DEF Unified!RunLeft
    <2>3. run' = [run EXCEPT ![r] = Unified!Free]
      BY <1>6 DEF Unified!Release
    <2>4. consumer' = consumer \/ (r = "trigger" /\ consumer' = "ended")
      BY <1>6 DEF Unified!Release
    <2>5. Unified!RunLeft(Unified!Free) < Unified!RunLeft(x)
      BY <1>2, <1>5, <2>1, <2>2
    <2> QED
      BY <1>3, <1>4, <1>5, <2>1, <2>3, <2>4, <2>5
  <1>7. CASE Unified!Succeed(r)
    BY <1>6, <1>7 DEF Unified!Succeed
  <1>8. CASE Unified!Fail(r) /\ run[r].attempt < MaxRetries
    <2>1. x.pc = "handler" /\ x.job \in Job /\ x.attempt \in 0 .. limit - 1 /\ x # Unified!Free
      BY <1>2, <1>3, <1>8, RunKinds DEF Unified!Fail, Unified!Free
    <2> DEFINE y == [pc |-> "backoff", job |-> x.job, attempt |-> x.attempt]
    <2>2. run' = [run EXCEPT ![r] = y] /\ consumer' = consumer
      <3>1. run' = [run EXCEPT ![r].pc = "backoff"] /\ consumer' = consumer
        BY <1>8 DEF Unified!Fail
      <3>2. [run[r] EXCEPT !.pc = "backoff"] = y
        BY <1>3, <2>1, RunKinds
      <3> QED
        BY <3>1, <3>2
    <2>3. y \in Unified!Run
      BY <1>2, <2>1 DEF Unified!Run
    <2>4. /\ Unified!RunLeft(x) = 2 * (limit - x.attempt) + 1
          /\ Unified!RunLeft(y) = 2 * (limit - x.attempt)
      BY <1>2, <2>1 DEF Unified!RunLeft
    <2>5. Unified!RunLeft(y) < Unified!RunLeft(x)
      BY <1>2, <2>1, <2>4
    <2> HIDE DEF y
    <2> QED
      BY <1>3, <1>4, <2>1, <2>2, <2>3, <2>5
  <1>9. CASE Unified!Fail(r) /\ ~(run[r].attempt < MaxRetries)
    BY <1>6, <1>9 DEF Unified!Fail
  <1>10. CASE Unified!Retry(r)
    <2>1. x.pc = "backoff" /\ x.job \in Job /\ x.attempt \in 0 .. limit - 1 /\ x # Unified!Free
      BY <1>2, <1>3, <1>10, RunKinds DEF Unified!Retry, Unified!Free
    <2> DEFINE y == [pc |-> "handler", job |-> x.job, attempt |-> x.attempt + 1]
    <2>2. run' = [run EXCEPT ![r] = y] /\ consumer' = consumer
      <3>1. run' = [run EXCEPT ![r].pc = "handler", ![r].attempt = @ + 1] /\ consumer' = consumer
        BY <1>10 DEF Unified!Retry
      <3> DEFINE h == [pc |-> "handler", job |-> x.job, attempt |-> x.attempt]
      <3>2. [x EXCEPT !.pc = "handler"] = h
        <4>1. x = [pc |-> "backoff", job |-> x.job, attempt |-> x.attempt]
          BY <2>1, RunKinds
        <4> QED
          BY <4>1
      <3>3. [h EXCEPT !.attempt = h.attempt + 1] = y
        OBVIOUS
      <3>4. run' = [[run EXCEPT ![r] = h] EXCEPT ![r] = y]
        <4> DEFINE between == [run EXCEPT ![r] = [x EXCEPT !.pc = "handler"]]
        <4>1. run' = [between EXCEPT ![r] = [between[r] EXCEPT !.attempt = between[r].attempt + 1]]
          BY <1>3, <3>1
        <4>2. between = [run EXCEPT ![r] = h] /\ between[r] = h
          BY <1>1, <3>2
        <4> HIDE DEF h, y, between
        <4> QED
          BY <3>3, <4>1, <4>2
      <3> QED
        BY <1>1, <3>1, <3>4
    <2>3. y \in Unified!Run
      BY <1>2, <2>1 DEF Unified!Run
    <2>4. /\ Unified!RunLeft(x) = 2 * (limit - x.attempt)
          /\ Unified!RunLeft(y) = 2 * (limit - (x.attempt + 1)) + 1
      BY <1>2, <2>1 DEF Unified!RunLeft
    <2>5. Unified!RunLeft(y) < Unified!RunLeft(x)
      BY <1>2, <2>1, <2>4
    <2> HIDE DEF y
    <2> QED
      BY <1>3, <1>4, <2>1, <2>2, <2>3, <2>5
  <1> QED
    BY <1>7, <1>8, <1>9, <1>10 DEF Unified!Attempt

(* The first attempt of a job.                                             *)
LEMMA Begun ==
  ASSUME Unified!SchedulerAssumption, Unified!TypeOK,
         NEW r \in Unified!Runner, NEW j \in Job, Unified!Begin(r, j)
  PROVE  /\ run' \in [Unified!Runner -> Unified!Run]
         /\ \A o \in Unified!Runner \ {r} : run'[o] = run[o]
         /\ Unified!RunLeft(run'[r]) = 2 * MaxRetries + 1
  <1> DEFINE y == [pc |-> "handler", job |-> j, attempt |-> 0]
  <1>1. y \in Unified!Run
    BY DEF Unified!Run, Unified!SchedulerAssumption
  <1>2. Unified!RunLeft(y) = 2 * MaxRetries + 1
    BY DEF Unified!RunLeft, Unified!SchedulerAssumption
  <1>3. run' = [run EXCEPT ![r] = y] /\ run \in [Unified!Runner -> Unified!Run]
    BY DEF Unified!Begin, Unified!TypeOK
  <1> HIDE DEF y
  <1> QED
    BY <1>1, <1>2, <1>3

(* The oldest trigger, or a new one.                                       *)
LEMMA QueueMoves ==
  ASSUME NEW q \in Seq(Job)
  PROVE  /\ q # <<>> => /\ Head(q) \in Job /\ Tail(q) \in Seq(Job)
                        /\ Len(Tail(q)) = Len(q) - 1 /\ Len(q) \in Nat
         /\ \A j \in Job : Append(q, j) \in Seq(Job) /\ Len(Append(q, j)) = Len(q) + 1
  OBVIOUS

LEMMA UnifiedTypeStep ==
  ASSUME Unified!SchedulerAssumption, Unified!TypeOK, [Unified!Next]_Unified!vars
  PROVE  Unified!TypeOK'
  <1> USE DEF Unified!TypeOK, Unified!settings, Unified!main
  <1>1. "main" \in Unified!Runner /\ "trigger" \in Unified!Runner
    BY DEF Unified!Runner
  <1>2. CASE Unified!Wake
    BY <1>2 DEF Unified!Wake
  <1>3. CASE Unified!EndPass
    BY <1>3 DEF Unified!EndPass
  <1>4. ASSUME NEW j \in Job, Unified!Consider(j) PROVE Unified!TypeOK'
    <2>1. /\ run' \in [Unified!Runner -> Unified!Run]
          /\ run'["trigger"] = run["trigger"]
      <3>1. CASE j \in due
        BY <1>1, <1>4, <3>1, Begun DEF Unified!Consider
      <3>2. CASE j \notin due
        BY <1>4, <3>2 DEF Unified!Consider
      <3> QED
        BY <3>1, <3>2
    <2> QED
      BY <1>4, <2>1 DEF Unified!Consider
  <1>5. CASE Unified!TakeTrigger
    <2>1. PICK q \in Seq(Job) : q = queue
      OBVIOUS
    <2>2. /\ Head(q) \in Job /\ Tail(q) \in Seq(Job)
          /\ Len(Tail(q)) = Len(q) - 1 /\ Len(q) \in Nat
      BY <1>5, <2>1, QueueMoves DEF Unified!TakeTrigger
    <2>3. queue' \in Seq(Job) /\ Len(queue') <= MaxQueue
      BY <1>5, <2>1, <2>2 DEF Unified!TakeTrigger, Unified!SchedulerAssumption
    <2>4. /\ run' \in [Unified!Runner -> Unified!Run]
          /\ run'["main"] = run["main"]
      BY <1>1, <1>5, <2>1, <2>2, Begun DEF Unified!TakeTrigger
    <2> QED
      BY <1>5, <2>3, <2>4 DEF Unified!TakeTrigger
  <1>6. CASE Unified!StopWaiting
    BY <1>6 DEF Unified!StopWaiting
  <1>7. ASSUME NEW r \in Unified!Runner, Unified!Attempt(r) PROVE Unified!TypeOK'
    <2>1. /\ UNCHANGED <<running, market, enabled, due, loop, agenda, queue>>
      BY <1>7 DEF Unified!Attempt, Unified!Succeed, Unified!Fail, Unified!Retry
    <2>2. loop # "pass" => agenda = {} /\ run'["main"] = Unified!Free
      BY <1>1, <1>7, RunMoves
    <2>3. consumer' = "ended" => run'["trigger"] = Unified!Free
      BY <1>1, <1>7, RunMoves
    <2>4. consumer' \in {"waiting", "ended"} /\ run' \in [Unified!Runner -> Unified!Run]
      BY <1>7, RunMoves
    <2> QED
      BY <2>1, <2>2, <2>3, <2>4
  <1>8. ASSUME NEW j \in Job, Unified!TriggerJob(j) PROVE Unified!TypeOK'
    <2>1. PICK q \in Seq(Job) : q = queue
      OBVIOUS
    <2>2. Append(q, j) \in Seq(Job) /\ Len(Append(q, j)) = Len(q) + 1 /\ Len(q) \in Nat
      BY <2>1, QueueMoves
    <2>3. queue' \in Seq(Job) /\ Len(queue') <= MaxQueue
      BY <1>8, <2>1, <2>2 DEF Unified!TriggerJob, Unified!SchedulerAssumption
    <2> QED
      BY <1>8, <2>3 DEF Unified!TriggerJob
  <1>9. ASSUME NEW j \in Job,
               \/ Unified!BecomeDue(j) \/ Unified!LengthenInterval(j)
               \/ \E on \in BOOLEAN : Unified!EnableJob(j, on)
        PROVE  Unified!TypeOK'
    BY <1>9 DEF Unified!BecomeDue, Unified!LengthenInterval, Unified!EnableJob
  <1>10. CASE Unified!MarketChanges \/ Unified!Stop
    BY <1>10 DEF Unified!MarketChanges, Unified!Stop
  <1>11. CASE UNCHANGED Unified!vars
    BY <1>11 DEF Unified!vars
  <1> QED
    BY <1>2, <1>3, <1>4, <1>5, <1>6, <1>7, <1>8, <1>9, <1>10, <1>11
       DEF Unified!Next, Unified!MainLoop, Unified!Consume

(* Both loops, the queue and the runs stay well formed: no job is tried     *)
(* more often than it has retries, and a loop that has ended runs nothing.  *)
THEOREM UnifiedTypes ==
  ASSUME Unified!SchedulerAssumption
  PROVE  Unified!Spec => []Unified!TypeOK
  <1>1. Unified!Init => Unified!TypeOK
    BY DEF Unified!Init, Unified!TypeOK, Unified!Run, Unified!Runner, Unified!SchedulerAssumption
  <1>2. Unified!TypeOK /\ [Unified!Next]_Unified!vars => Unified!TypeOK'
    BY UnifiedTypeStep
  <1> QED
    BY <1>1, <1>2, PTL DEF Unified!Spec

(* What the module calls finite, and a number of elements, is what the     *)
(* library does.                                                           *)
LEMMA SameSets ==
  ASSUME NEW S
  PROVE  /\ Unified!IsFiniteSet(S) <=> IsFiniteSet(S)
         /\ Unified!Cardinality(S) = Cardinality(S)
  BY DEF IsFiniteSet, Unified!IsFiniteSet, Cardinality, Unified!Cardinality

(* Every non-empty set of numbers has a least element.                     *)
LEMMA LeastNumber ==
    ASSUME NEW S \in SUBSET Nat, S # {}
    PROVE  \E n \in S : \A m \in S : n <= m
  <1> DEFINE R == OpToRel(<, Nat)
  <1>1. IsWellFoundedOn(R, Nat)
    BY NatLessThanWellFounded
  <1>2. \A m, n \in Nat : m < n => <<m, n>> \in R
    BY DEF OpToRel
  <1> HIDE DEF R
  <1>3. PICK n \in S : \A m \in S : <<m, n>> \notin R
    BY <1>1, WFMin
  <1>4. ASSUME NEW m \in S PROVE n <= m
    <2>1. m \in Nat /\ n \in Nat /\ ~(m < n)
      BY <1>2, <1>3
    <2> QED
      BY <2>1
  <1> QED
    BY <1>4

(* Priorities are numbers: some job of the agenda has the lowest.          *)
LEMMA OneIsForemost ==
  ASSUME Unified!SchedulerAssumption, Unified!TypeOK, agenda # {}
  PROVE  \E j \in Job : Unified!Foremost(j)
  <1> DEFINE ranks == {Priority[j] : j \in agenda}
  <1>1. /\ agenda \subseteq Job /\ \A j \in agenda : Priority[j] \in Nat
        /\ ranks \subseteq Nat /\ ranks # {}
    BY DEF Unified!SchedulerAssumption, Unified!TypeOK
  <1>2. PICK least \in ranks : \A rank \in ranks : least <= rank
    <2> HIDE DEF ranks
    <2> QED
      BY <1>1, LeastNumber
  <1>3. PICK j \in agenda : Priority[j] = least
    BY <1>2
  <1> QED
    BY <1>1, <1>2, <1>3 DEF Unified!Foremost

LEMMA Product ==
  ASSUME NEW a \in Nat, NEW b \in Nat
  PROVE  /\ a * b \in Nat /\ a * 0 = 0
         /\ b # 0 => a * (b - 1) = a * b - a
  OBVIOUS

(* What is left of a pass is a number, none when it is over.               *)
LEMMA PassTyped ==
  ASSUME Unified!SchedulerAssumption, Unified!TypeOK
  PROVE  /\ IsFiniteSet(agenda) /\ Cardinality(agenda) \in Nat
         /\ Unified!RunLeft(run["main"]) \in Nat
         /\ Unified!PassLeft = (2 * MaxRetries + 2) * Cardinality(agenda)
                               + Unified!RunLeft(run["main"])
         /\ Unified!PassLeft \in Nat
         /\ agenda = {} /\ run["main"] = Unified!Free => Unified!PassLeft = 0
  <1>1. IsFiniteSet(agenda) /\ Cardinality(agenda) \in Nat
    <2>1. IsFiniteSet(Job) /\ agenda \subseteq Job
      BY SameSets DEF Unified!SchedulerAssumption, Unified!TypeOK
    <2> QED
      BY <2>1, FS_Subset, FS_CardinalityType
  <1>2. Unified!RunLeft(run["main"]) \in Nat
    <2>1. run["main"] \in Unified!Run
      BY DEF Unified!TypeOK, Unified!Runner
    <2> QED
      BY <2>1, RunKinds
  <1>3. Unified!PassLeft = (2 * MaxRetries + 2) * Cardinality(agenda)
                           + Unified!RunLeft(run["main"])
    BY SameSets DEF Unified!PassLeft
  <1>4. PICK a \in Nat : a = 2 * MaxRetries + 2
    BY DEF Unified!SchedulerAssumption
  <1>5. PICK n \in Nat : n = Cardinality(agenda)
    BY <1>1
  <1>6. PICK l \in Nat : l = Unified!RunLeft(run["main"])
    BY <1>2
  <1>7. Unified!PassLeft = a * n + l
    BY <1>3, <1>4, <1>5, <1>6
  <1>8. ASSUME agenda = {}, run["main"] = Unified!Free PROVE n = 0 /\ l = 0
    BY <1>5, <1>6, <1>8, FS_EmptySet DEF Unified!RunLeft, Unified!Free
  <1> QED
    BY <1>1, <1>2, <1>3, <1>7, <1>8, Product

(* Only the main loop works on its pass, and each of its steps shortens it.*)
LEMMA PassStep ==
  ASSUME Unified!SchedulerAssumption, Unified!TypeOK, Unified!TypeOK', Unified!Next,
         loop = "pass"
  PROVE  IF loop' = "pass"
         THEN /\ Unified!PassLeft' <= Unified!PassLeft
              /\ Unified!MainLoop \/ Unified!Attempt("main") =>
                    Unified!PassLeft' < Unified!PassLeft
         ELSE Unified!PassLeft = 0
  <1>1. "main" \in Unified!Runner /\ "trigger" \in Unified!Runner
    BY DEF Unified!Runner
  <1>2. PICK a \in Nat : a = 2 * MaxRetries + 2
    BY DEF Unified!SchedulerAssumption
  <1>3. PICK n \in Nat : n = Cardinality(agenda)
    BY PassTyped
  <1>4. PICK l \in Nat : l = Unified!RunLeft(run["main"])
    BY PassTyped
  <1>5. Unified!PassLeft = a * n + l
    BY <1>2, <1>3, <1>4, PassTyped
  <1>6. /\ IsFiniteSet(agenda') /\ Cardinality(agenda)' \in Nat
        /\ Unified!RunLeft(run["main"])' \in Nat
        /\ Unified!PassLeft' = (2 * MaxRetries + 2) * Cardinality(agenda)'
                               + Unified!RunLeft(run["main"])'
    <2>1. IsFiniteSet(agenda') /\ Cardinality(agenda') \in Nat
      <3>1. IsFiniteSet(Job) /\ agenda' \subseteq Job
        BY SameSets DEF Unified!SchedulerAssumption, Unified!TypeOK
      <3> QED
        BY <3>1, FS_Subset, FS_CardinalityType
    <2>2. run'["main"] \in Unified!Run
      BY DEF Unified!TypeOK, Unified!Runner
    <2>3. Unified!RunLeft(run'["main"]) \in Nat
      BY <2>2, RunKinds
    <2>4. Unified!PassLeft' = (2 * MaxRetries + 2) * Unified!Cardinality(agenda')
                              + Unified!RunLeft(run'["main"])
      BY DEF Unified!PassLeft
    <2> QED
      BY <2>1, <2>3, <2>4, SameSets
  <1>7. PICK m \in Nat : m = Cardinality(agenda)'
    BY <1>6
  <1>8. PICK k \in Nat : k = Unified!RunLeft(run["main"])'
    BY <1>6
  <1>9. Unified!PassLeft' = a * m + k
    BY <1>2, <1>6, <1>7, <1>8
  <1>10. CASE Unified!EndPass
    BY <1>10, PassTyped DEF Unified!EndPass
  <1>11. ASSUME NEW j \in Job, Unified!Consider(j)
         PROVE  loop' = "pass" /\ Unified!PassLeft' < Unified!PassLeft
    <2>1. loop' = "pass" /\ agenda' = agenda \ {j} /\ j \in agenda
      BY <1>11 DEF Unified!Consider, Unified!Foremost
    <2>2. m = n - 1 /\ n # 0
      BY <1>3, <1>7, <2>1, PassTyped, FS_RemoveElement, FS_EmptySet
    <2>3. k <= a - 1
      <3>1. CASE j \in due
        BY <1>1, <1>2, <1>8, <1>11, <3>1, Begun DEF Unified!Consider
      <3>2. CASE j \notin due
        <4>1. k = l /\ l = 0
          BY <1>4, <1>8, <1>11, <3>2 DEF Unified!Consider, Unified!RunLeft, Unified!Free
        <4> QED
          BY <1>2, <4>1 DEF Unified!SchedulerAssumption
      <3> QED
        BY <3>1, <3>2
    <2>4. a * m = a * n - a /\ a * n \in Nat
      BY <2>2, Product
    <2> QED
      BY <1>5, <1>9, <2>1, <2>3, <2>4
  <1>12. CASE Unified!Attempt("main")
    <2>1. loop' = loop /\ agenda' = agenda
      BY <1>12 DEF Unified!Attempt, Unified!Succeed, Unified!Fail, Unified!Retry, Unified!main
    <2>2. m = n /\ k < l
      BY <1>1, <1>3, <1>4, <1>7, <1>8, <1>12, <2>1, RunMoves
    <2> QED
      BY <1>5, <1>9, <2>1, <2>2, Product
  <1>13. ASSUME loop' = loop, agenda' = agenda, run'["main"] = run["main"]
         PROVE  loop' = "pass" /\ Unified!PassLeft' <= Unified!PassLeft
    <2>1. m = n /\ k = l
      BY <1>3, <1>4, <1>7, <1>8, <1>13
    <2> QED
      BY <1>5, <1>9, <1>13, <2>1, Product
  <1>14. ASSUME ~ (Unified!MainLoop \/ Unified!Attempt("main"))
         PROVE  loop' = loop /\ agenda' = agenda /\ run'["main"] = run["main"]
    <2> USE DEF Unified!main
    <2>1. CASE Unified!TakeTrigger
      <3>1. Head(queue) \in Job
        BY <2>1, QueueMoves DEF Unified!TakeTrigger, Unified!TypeOK
      <3> QED
        BY <1>1, <2>1, <3>1, Begun DEF Unified!TakeTrigger
    <2>2. CASE Unified!StopWaiting
      BY <2>2 DEF Unified!StopWaiting
    <2>3. CASE Unified!Attempt("trigger")
      BY <1>1, <2>3, RunMoves DEF Unified!Attempt, Unified!Succeed, Unified!Fail, Unified!Retry
    <2>4. ASSUME NEW j \in Job,
                 \/ Unified!TriggerJob(j) \/ Unified!BecomeDue(j) \/ Unified!LengthenInterval(j)
                 \/ \E on \in BOOLEAN : Unified!EnableJob(j, on)
          PROVE  loop' = loop /\ agenda' = agenda /\ run'["main"] = run["main"]
      BY <2>4 DEF Unified!TriggerJob, Unified!BecomeDue, Unified!LengthenInterval, Unified!EnableJob
    <2>5. CASE Unified!MarketChanges \/ Unified!Stop
      BY <2>5 DEF Unified!MarketChanges, Unified!Stop
    <2> QED
      BY <1>14, <2>1, <2>2, <2>3, <2>4, <2>5
         DEF Unified!Next, Unified!Consume, Unified!Runner
  <1>15. ~ Unified!Wake
    BY DEF Unified!Wake
  <1>16. CASE Unified!MainLoop \/ Unified!Attempt("main")
    <2>1. CASE Unified!EndPass
      <3>1. loop' # "pass"
        BY <2>1 DEF Unified!EndPass
      <3> QED
        BY <1>10, <2>1, <3>1
    <2>2. ASSUME ~ Unified!EndPass
          PROVE  loop' = "pass" /\ Unified!PassLeft' < Unified!PassLeft
      <3>1. CASE Unified!Attempt("main")
        <4>1. loop' = "pass"
          BY <3>1 DEF Unified!Attempt, Unified!Succeed, Unified!Fail, Unified!Retry, Unified!main
        <4> QED
          BY <1>12, <3>1, <4>1
      <3> QED
        BY <1>11, <1>15, <1>16, <2>2, <3>1 DEF Unified!MainLoop
    <2>3. Unified!PassLeft' < Unified!PassLeft => Unified!PassLeft' <= Unified!PassLeft
      BY <1>5, <1>9, Product
    <2> QED
      BY <2>1, <2>2, <2>3
  <1> QED
    BY <1>13, <1>14, <1>16

(* A pass of the main loop gets through its jobs in a bounded number of     *)
(* steps of its own, for any jobs, priorities and retries.                  *)
THEOREM PassBounded ==
  ASSUME Unified!SchedulerAssumption
  PROVE  Unified!Spec => Unified!PassShrinks
  <1>1. Unified!TypeOK => Unified!PassLeft \in Nat
    BY PassTyped
  <1>2. Unified!TypeOK =>
          (run["main"] = Unified!Free /\ agenda # {} => \E j \in Job : Unified!Foremost(j))
    BY OneIsForemost
  <1>3. Unified!TypeOK /\ Unified!TypeOK' /\ [Unified!Next]_Unified!vars
        => [loop = "pass" =>
              IF loop' = "pass"
              THEN /\ Unified!PassLeft' <= Unified!PassLeft
                   /\ Unified!MainLoop \/ Unified!Attempt("main") =>
                         Unified!PassLeft' < Unified!PassLeft
              ELSE Unified!PassLeft = 0]_Unified!vars
    BY PassStep
  <1> QED
    BY <1>1, <1>2, <1>3, UnifiedTypes, PTL DEF Unified!Spec, Unified!PassShrinks
=============================================================================
