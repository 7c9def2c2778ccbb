------------------------- MODULE AlphaServiceProofs -------------------------
(***************************************************************************)
(* For any number of requests, keys and retries: keys are exclusive,       *)
(* trials are bounded, a drained service is quiet and an open breaker      *)
(* holds.                                                                  *)
(***************************************************************************)
EXTENDS AlphaService, FiniteSetTheorems, TLAPS

Below(b) == b.state = "CLOSED" => b.failures < FailureThreshold

(* What every step keeps: the counter counts the running requests; the     *)
(* trials taken cover the attempts begun; while the cache was not cleared  *)
(* under running requests, their keys are in flight.                       *)
Types ==
    /\ breaker \in Breaker /\ durable \in Breaker
    /\ Below(breaker) /\ Below(durable)
    /\ elapsed \in BOOLEAN /\ cleared \in BOOLEAN
    /\ task \in [Task -> Request]
    /\ inFlight \subseteq Key /\ processed \subseteq Key
    /\ closing \in {"no", "waiting", "drained", "abandoned"}
    /\ stops \in 0 .. MaxStops

Working == {t \in Task : Running(t)}

Counted ==
    /\ active = Cardinality(Working)
    /\ closing = "drained" => Working = {}

Covered ==
    /\ trialRuns \in Nat
    /\ IF breaker.state = "HALF_OPEN" THEN trialRuns <= breaker.trials ELSE trialRuns = 0

Keyed ==
    cleared \/ \A t \in Task : Running(t) /\ task[t].key # NoKey =>
        /\ task[t].key \in inFlight /\ task[t].key \notin processed
        /\ \A u \in Others(t) : task[u].key # task[t].key

IInv == Types /\ Counted /\ Covered /\ Keyed

-----------------------------------------------------------------------------
(* The operations of the breaker keep its fields in range, and a closed    *)
(* breaker below its threshold.                                            *)
LEMMA Breakers ==
    ASSUME NEW b \in Breaker, Below(b), NEW e \in BOOLEAN
    PROVE  /\ Asked(b, e) \in Breaker /\ Below(Asked(b, e))
           /\ Succeeded(b) \in Breaker /\ Below(Succeeded(b))
           /\ Failed(b) \in Breaker /\ Below(Failed(b))
           /\ Restored(b) \in Breaker /\ Below(Restored(b))
<1> USE BreakerAssumption DEF Breaker, Below, State
<1>0. PICK s \in State, f \in Nat, n \in 0 .. HalfOpenMax :
         b = [state |-> s, failures |-> f, trials |-> n]
  OBVIOUS
<1>1. Asked(b, e) \in Breaker /\ Below(Asked(b, e))
  <2>1. CASE s = "OPEN" /\ e
    <3>1. Asked(b, e) = [b EXCEPT !.state = "HALF_OPEN", !.trials = 1]
      BY <1>0, <2>1, Zenon DEF Asked
    <3>2. 1 \in 0 .. HalfOpenMax
      OBVIOUS
    <3> QED BY <1>0, <3>1, <3>2
  <2>2. CASE s = "HALF_OPEN" /\ n < HalfOpenMax
    BY <1>0, <2>2 DEF Asked
  <2>3. CASE ~(s = "OPEN" /\ e) /\ ~(s = "HALF_OPEN" /\ n < HalfOpenMax)
    BY <1>0, <2>3 DEF Asked
  <2> QED BY <2>1, <2>2, <2>3
<1>2. Succeeded(b) \in Breaker /\ Below(Succeeded(b))
  <2>1. CASE s = "HALF_OPEN"
    BY <1>0, <2>1 DEF Succeeded, NewBreaker
  <2>2. CASE s = "CLOSED" /\ f > 0
    BY <1>0, <2>2 DEF Succeeded
  <2>3. CASE s # "HALF_OPEN" /\ ~(s = "CLOSED" /\ f > 0)
    BY <1>0, <2>3 DEF Succeeded
  <2> QED BY <2>1, <2>2, <2>3
<1>3. Failed(b) \in Breaker /\ Below(Failed(b))
  BY <1>0 DEF Failed
<1>4. Restored(b) \in Breaker /\ Below(Restored(b))
  BY <1>0 DEF Restored
<1> QED BY <1>1, <1>2, <1>3, <1>4

(* A new breaker is closed and below its threshold.                        *)
LEMMA Fresh == NewBreaker \in Breaker /\ Below(NewBreaker)
BY BreakerAssumption DEF NewBreaker, Breaker, Below, State

(* A request is idle or has a place, an attempt and a key.                 *)
LEMMA Requests ==
    /\ Idle \in Request
    /\ \A r \in Request : r # Idle =>
          /\ r = [pc |-> r.pc, attempt |-> r.attempt, key |-> r.key]
          /\ r.pc \in {"process", "backoff"} /\ r.attempt \in 1 .. MaxRetries
          /\ r.pc = "backoff" => r.attempt < MaxRetries
          /\ r.key \in Key \cup {NoKey}
    /\ \A p \in {"process", "backoff"}, a \in 1 .. MaxRetries, k \in Key \cup {NoKey} :
          /\ p = "backoff" => a < MaxRetries
          => /\ [pc |-> p, attempt |-> a, key |-> k] \in Request
             /\ [pc |-> p, attempt |-> a, key |-> k] # Idle
    /\ Idle.pc = "idle"
BY ServiceAssumption DEF Idle, Request

(* The initial state satisfies the invariant.                              *)
LEMMA InitIInv == Init => IInv
<1> SUFFICES ASSUME Init PROVE IInv
  OBVIOUS
<1>1. Types
  <2>1. breaker \in Breaker /\ durable \in Breaker /\ Below(breaker) /\ Below(durable)
    BY Fresh DEF Init
  <2>2. task \in [Task -> Request] /\ stops \in 0 .. MaxStops
    BY Requests, ServiceAssumption DEF Init
  <2> QED BY <2>1, <2>2 DEF Types, Init
<1>2. Working = {} /\ Counted
  BY FS_EmptySet DEF Counted, Working, Running, Init
<1>3. Covered
  BY DEF Covered, NewBreaker, Init
<1>4. Keyed
  BY DEF Keyed, Running, Init
<1> QED BY <1>1, <1>2, <1>3, <1>4 DEF IInv

-----------------------------------------------------------------------------
(* The breaker is given a value in range; the others keep their types.     *)
LEMMA SetTypes ==
    ASSUME Types, NEW b, b \in Breaker, Below(b), NEW n, SetBreaker(b, n)
    PROVE  breaker' \in Breaker /\ Below(breaker')
BY DEF SetBreaker

(* Trials and attempts: asking takes a trial for every attempt it allows.  *)
LEMMA AskCovers ==
    ASSUME Types, Covered, Admits(breaker, elapsed), SetBreaker(Asked(breaker, elapsed), 1)
    PROVE  Covered'
<1> USE BreakerAssumption DEF Types, Breaker, State, Covered, SetBreaker, Admits
<1>1. CASE breaker.state = "OPEN" /\ elapsed
  <2>1. breaker' = [breaker EXCEPT !.state = "HALF_OPEN", !.trials = 1]
    BY <1>1, Zenon DEF Asked
  <2>2. trialRuns' = 1 + 0
    BY <1>1, <2>1, Zenon
  <2> QED BY <2>1, <2>2
<1>2. CASE breaker.state = "HALF_OPEN" /\ breaker.trials < HalfOpenMax
  BY <1>2 DEF Asked
<1>3. CASE breaker.state = "CLOSED"
  BY <1>3 DEF Asked
<1> QED BY <1>1, <1>2, <1>3

(* Asking without beginning an attempt leaves the trials covered.          *)
LEMMA RefuseCovers ==
    ASSUME Types, Covered, SetBreaker(Asked(breaker, elapsed), 0)
    PROVE  Covered'
<1> USE BreakerAssumption DEF Types, Breaker, State, Covered, SetBreaker
<1>1. CASE breaker.state = "OPEN" /\ elapsed
  <2>1. breaker' = [breaker EXCEPT !.state = "HALF_OPEN", !.trials = 1]
    BY <1>1, Zenon DEF Asked
  <2>2. trialRuns' = 0
    BY <1>1, <2>1
  <2> QED BY <2>1, <2>2
<1>2. CASE breaker.state = "HALF_OPEN"
  BY <1>2 DEF Asked
<1>3. CASE breaker.state # "HALF_OPEN" /\ ~(breaker.state = "OPEN" /\ elapsed)
  <2>1. Asked(breaker, elapsed) = breaker
    BY <1>3 DEF Asked
  <2> QED BY <1>3, <2>1
<1> QED BY <1>1, <1>2, <1>3

(* A request that asks twice takes two trials for its one attempt.         *)
LEMMA TwiceCovers ==
    ASSUME Types, Covered, Admits(Asked(breaker, elapsed), elapsed),
           SetBreaker(Asked(Asked(breaker, elapsed), elapsed), 1)
    PROVE  Covered'
<1> DEFINE b == Asked(breaker, elapsed)
<1> USE BreakerAssumption DEF Types, Breaker, State, Covered
<1>1. b \in Breaker /\ Below(b)
  BY Breakers
<1>2. b.state # "OPEN" \/ ~elapsed
  <2>1. CASE breaker.state = "OPEN" /\ elapsed
    BY <2>1, Zenon DEF Asked
  <2>2. CASE ~(breaker.state = "OPEN" /\ elapsed)
    BY <2>2 DEF Asked
  <2> QED BY <2>1, <2>2
<1>3. CASE b.state = "HALF_OPEN"
  <2>1. b.trials < HalfOpenMax
    BY <1>3 DEF Admits
  <2>2. Asked(b, elapsed) = [b EXCEPT !.trials = @ + 1]
    BY <1>3, <2>1 DEF Asked
  <2>3. breaker' = [b EXCEPT !.trials = @ + 1]
    BY <2>2 DEF SetBreaker
  <2>4. trialRuns' = 1 + IF breaker.state = "HALF_OPEN" THEN trialRuns ELSE 0
    BY <1>1, <1>3, <2>2 DEF SetBreaker
  <2>5. breaker.state = "HALF_OPEN" => breaker.trials <= b.trials
    BY DEF Asked
  <2>6. b.trials >= 0
    BY <1>1
  <2> QED BY <1>1, <1>3, <2>3, <2>4, <2>5, <2>6
<1>4. CASE b.state = "CLOSED"
  BY <1>1, <1>4 DEF Asked, SetBreaker
<1>5. b.state \in {"CLOSED", "HALF_OPEN"}
  BY <1>1, <1>2 DEF Admits
<1> QED BY <1>3, <1>4, <1>5

(* A recorded result ends the half-open state.                             *)
LEMMA ResultCovers ==
    ASSUME Types, Covered, NEW b \in {Succeeded(breaker), Failed(breaker), NewBreaker},
           SetBreaker(b, 0)
    PROVE  Covered'
<1>1. b.state # "HALF_OPEN"
  BY DEF Succeeded, Failed, NewBreaker, Types, Breaker, State
<1> QED BY <1>1 DEF SetBreaker, Covered

-----------------------------------------------------------------------------
(* Beginning and ending: the running requests, their number and their keys.*)
LEMMA BeginKeeps ==
    ASSUME Types, Counted, Keyed, NEW t \in Task, NEW k \in Key \cup {NoKey}, Begin(t, k)
    PROVE  /\ task' \in [Task -> Request] /\ inFlight' \subseteq Key
           /\ Counted' /\ Keyed'
<1> DEFINE r == [pc |-> "process", attempt |-> 1, key |-> k]
<1>1. ~Running(t) /\ closing = "no" /\ k \notin inFlight \cup processed
  BY DEF Begin, Acceptable
<1>2. r \in Request /\ r # Idle /\ r.key = k
  BY Requests, ServiceAssumption
<1>3. task' = [task EXCEPT ![t] = r]
  BY DEF Begin
<1>4. task' \in [Task -> Request] /\ inFlight' \subseteq Key
  BY <1>2, <1>3 DEF Types, Begin
<1>5. task'[t] = r /\ \A u \in Task \ {t} : task'[u] = task[u]
  BY <1>3 DEF Types
<1>6. Working' = Working \cup {t} /\ t \notin Working
  BY <1>1, <1>2, <1>5 DEF Working, Running
<1>7. Counted'
  <2>1. IsFiniteSet(Working)
    BY FS_Subset, ServiceAssumption DEF Working
  <2>2. Cardinality(Working \cup {t}) = Cardinality(Working) + 1
    BY <1>6, <2>1, FS_AddElement
  <2> QED BY <1>1, <1>6, <2>2 DEF Counted, Begin
<1>8. Keyed'
  <2>1. SUFFICES ASSUME ~cleared', NEW u \in Task, Running(u)', task'[u].key # NoKey
                 PROVE  /\ task'[u].key \in inFlight' /\ task'[u].key \notin processed'
                        /\ \A v \in Others(u)' : task'[v].key # task'[u].key
    BY DEF Keyed
  <2>2. inFlight' = inFlight \cup ({k} \ {NoKey}) /\ processed' = processed /\ ~cleared
    BY <2>1 DEF Begin
  <2>3. CASE u = t
    BY <1>1, <1>2, <1>5, <2>1, <2>2, <2>3 DEF Keyed, Others, Running
  <2>4. CASE u # t
    BY <1>1, <1>2, <1>5, <2>1, <2>2, <2>4 DEF Keyed, Others, Running
  <2> QED BY <2>3, <2>4
<1> QED BY <1>4, <1>7, <1>8

(* The request that ends frees its own key only.                           *)
LEMMA EndKeeps ==
    ASSUME Types, Counted, Keyed, NEW t \in Task, Running(t), End(t),
           processed' \in {processed, processed \cup ({task[t].key} \ {NoKey})},
           UNCHANGED closing
    PROVE  /\ task' \in [Task -> Request] /\ inFlight' \subseteq Key
           /\ cleared' \in BOOLEAN /\ processed' \subseteq Key
           /\ Counted' /\ Keyed'
<1>1. task' \in [Task -> Request] /\ inFlight' \subseteq Key /\ cleared' \in BOOLEAN
  BY Requests DEF Types, End
<1>2. processed' \subseteq Key
  BY Requests DEF Types, Running
<1>3. task'[t] = Idle /\ \A u \in Task \ {t} : task'[u] = task[u]
  BY DEF Types, End
<1>4. Working' = Working \ {t} /\ t \in Working
  BY <1>3 DEF Working, Running
<1>5. Counted'
  <2>1. IsFiniteSet(Working)
    BY FS_Subset, ServiceAssumption DEF Working
  <2>2. Cardinality(Working \ {t}) = Cardinality(Working) - 1
    BY <1>4, <2>1, FS_RemoveElement
  <2> QED BY <1>4, <2>2 DEF Counted, End
<1>6. Keyed'
  <2>1. SUFFICES ASSUME ~cleared', NEW u \in Task, Running(u)', task'[u].key # NoKey
                 PROVE  /\ task'[u].key \in inFlight' /\ task'[u].key \notin processed'
                        /\ \A v \in Others(u)' : task'[v].key # task'[u].key
    BY DEF Keyed
  <2>2. u # t /\ Running(u) /\ task'[u] = task[u] /\ u \in Others(t) /\ t \in Others(u)
    BY <1>3, <2>1 DEF Running, Others
  <2>3. ~cleared
    BY <2>1, <2>2 DEF End, Types
  <2>4. /\ task[u].key \in inFlight /\ task[u].key \notin processed
        /\ \A v \in Others(u) : task[v].key # task[u].key
    BY <2>1, <2>2, <2>3 DEF Keyed
  <2>5. inFlight' = inFlight \ {task[t].key}
    BY DEF End
  <2>6. \A v \in Others(u)' : v \in Others(u) /\ task'[v] = task[v]
    BY <1>3 DEF Others, Running
  <2> QED BY <2>2, <2>4, <2>5, <2>6
<1> QED BY <1>1, <1>2, <1>5, <1>6

(* A request that goes on keeps its key.                                   *)
LEMMA GoOnKeeps ==
    ASSUME Types, Counted, Keyed, NEW t \in Task, Running(t),
           NEW r \in Request, r # Idle, r.key = task[t].key,
           task' = [task EXCEPT ![t] = r],
           UNCHANGED <<inFlight, processed, active, cleared, closing>>
    PROVE  task' \in [Task -> Request] /\ Counted' /\ Keyed'
<1>1. task' \in [Task -> Request]
  BY DEF Types
<1>2. task'[t] = r /\ \A u \in Task \ {t} : task'[u] = task[u]
  BY DEF Types
<1>3. \A u \in Task : /\ Running(u)' <=> Running(u)
                      /\ task'[u].key = task[u].key
  BY <1>2 DEF Running
<1>4. Working' = Working /\ \A u \in Task : Others(u)' = Others(u)
  BY <1>3 DEF Working, Others
<1>5. Counted'
  BY <1>4 DEF Counted
<1>6. Keyed'
  <2>1. SUFFICES ASSUME ~cleared, NEW u \in Task, Running(u), task[u].key # NoKey
                 PROVE  /\ task[u].key \in inFlight /\ task[u].key \notin processed
                        /\ \A v \in Others(u) : task'[v].key # task[u].key
    BY <1>3, <1>4 DEF Keyed
  <2>2. \A v \in Others(u) : v \in Task
    BY DEF Others
  <2> QED BY <1>3, <2>1, <2>2 DEF Keyed
<1> QED BY <1>1, <1>5, <1>6

-----------------------------------------------------------------------------
(* Every step keeps the invariant.                                         *)
LEMMA StepIInv == IInv /\ [Next]_vars => IInv'
<1> SUFFICES ASSUME IInv, [Next]_vars PROVE IInv'
  OBVIOUS
<1> USE DEF IInv
<1>1. ASSUME NEW t \in Task, NEW k \in Key \cup {NoKey}, Begin(t, k) PROVE IInv'
  <2>1. /\ task' \in [Task -> Request] /\ inFlight' \subseteq Key
        /\ Counted' /\ Keyed'
    BY <1>1, BeginKeeps
  <2>2. SetBreaker(Asked(Asked(breaker, elapsed), elapsed), 1)
    BY <1>1 DEF Begin
  <2>3. breaker' \in Breaker /\ Below(breaker')
    BY <2>2, Breakers, SetTypes DEF Types
  <2>4. Covered'
    BY <1>1, <2>2, TwiceCovers DEF Begin
  <2> QED BY <1>1, <2>1, <2>3, <2>4 DEF Begin, Types, life
<1>2. ASSUME NEW t \in Task, NEW k \in Key \cup {NoKey}, Refuse(t, k) PROVE IInv'
  <2>1. SetBreaker(Asked(breaker, elapsed), 0)
    BY <1>2 DEF Refuse
  <2>2. breaker' \in Breaker /\ Below(breaker')
    BY <2>1, Breakers, SetTypes DEF Types
  <2>3. Covered'
    BY <2>1, RefuseCovers
  <2>4. Counted' /\ Keyed'
    BY <1>2 DEF Refuse, Counted, Keyed, Working, Running, Others
  <2> QED BY <1>2, <2>2, <2>3, <2>4 DEF Refuse, Types, life
<1>3. ASSUME NEW t \in Task, Succeed(t) PROVE IInv'
  <2>1. Running(t)
    BY <1>3, Requests DEF Succeed, Running
  <2>2. /\ task' \in [Task -> Request] /\ inFlight' \subseteq Key
        /\ cleared' \in BOOLEAN /\ processed' \subseteq Key /\ Counted' /\ Keyed'
    BY <1>3, <2>1, EndKeeps DEF Succeed
  <2>3. SetBreaker(Succeeded(breaker), 0)
    BY <1>3 DEF Succeed
  <2>4. breaker' \in Breaker /\ Below(breaker')
    BY <2>3, Breakers, SetTypes DEF Types
  <2>5. Covered'
    BY <2>3, ResultCovers
  <2> QED BY <1>3, <2>2, <2>4, <2>5 DEF Succeed, Types, life
<1>4. ASSUME NEW t \in Task, Fail(t) PROVE IInv'
  <2>1. Running(t) /\ task[t] \in Request
    BY <1>4, Requests DEF Fail, Running, Types
  <2>2. SetBreaker(Failed(breaker), 0)
    BY <1>4 DEF Fail
  <2>3. breaker' \in Breaker /\ Below(breaker')
    BY <2>2, Breakers, SetTypes DEF Types
  <2>4. Covered'
    BY <2>2, ResultCovers
  <2>5. /\ task' \in [Task -> Request] /\ inFlight' \subseteq Key
        /\ cleared' \in BOOLEAN /\ Counted' /\ Keyed'
    <3> DEFINE on == Admits(Failed(breaker), FALSE) /\ task[t].attempt < MaxRetries
    <3>1. CASE ~on
      <4>1. End(t) /\ UNCHANGED <<processed, closing>>
        BY <1>4, <3>1 DEF Fail
      <4> QED BY <2>1, <4>1, EndKeeps DEF Types
    <3>2. CASE on
      <4> DEFINE r == [pc |-> "backoff", attempt |-> task[t].attempt, key |-> task[t].key]
      <4>1. r \in Request /\ r # Idle /\ r.key = task[t].key
        BY <2>1, <3>2, Requests DEF Running
      <4>2. /\ task' = [task EXCEPT ![t].pc = "backoff"]
            /\ UNCHANGED <<inFlight, active, cleared, processed, closing>>
        BY <1>4, <3>2 DEF Fail
      <4>3. task' = [task EXCEPT ![t] = r]
        <5>1. task[t] = [pc |-> task[t].pc, attempt |-> task[t].attempt, key |-> task[t].key]
          BY <2>1, Requests DEF Running
        <5>2. [task[t] EXCEPT !.pc = "backoff"] = r
          BY <5>1
        <5> QED BY <4>2, <5>2, Zenon
      <4> QED BY <2>1, <4>1, <4>2, <4>3, GoOnKeeps DEF Types
    <3> QED BY <3>1, <3>2
  <2> QED BY <1>4, <2>3, <2>4, <2>5 DEF Fail, Types, life
<1>5. ASSUME NEW t \in Task, Resume(t) PROVE IInv'
  <2>1. Running(t) /\ task[t] \in Request
    BY <1>5, Requests DEF Resume, Running, Types
  <2>2. CASE ~Admits(breaker, elapsed)
    <3>1. End(t) /\ UNCHANGED <<breaker, trialRuns, elapsed, processed, closing, life>>
      BY <1>5, <2>2 DEF Resume
    <3> QED BY <2>1, <3>1, EndKeeps DEF Types, life, Covered
  <2>3. CASE Admits(breaker, elapsed)
    <3>1. Retry(t) /\ UNCHANGED <<elapsed, processed, closing, life>>
      BY <1>5, <2>3 DEF Resume
    <3>2. SetBreaker(Asked(breaker, elapsed), 1)
      BY <3>1 DEF Retry
    <3>3. breaker' \in Breaker /\ Below(breaker')
      BY <3>2, Breakers, SetTypes DEF Types
    <3>4. Covered'
      BY <2>3, <3>2, AskCovers
    <3>5. task' \in [Task -> Request] /\ Counted' /\ Keyed'
      <4> DEFINE r == [pc |-> "process", attempt |-> task[t].attempt + 1, key |-> task[t].key]
      <4>1. r \in Request /\ r # Idle /\ r.key = task[t].key
        BY <1>5, <2>1, Requests, ServiceAssumption DEF Running, Resume
      <4>2. task' = [task EXCEPT ![t] = r]
        BY <2>1, <3>1, Requests DEF Retry, Running, Types
      <4> QED BY <2>1, <3>1, <4>1, <4>2, GoOnKeeps DEF Retry
    <3> QED BY <3>1, <3>3, <3>4, <3>5 DEF Retry, Types, life
  <2> QED BY <2>2, <2>3
<1>6. ASSUME NEW t \in Task, Cancel(t) PROVE IInv'
  BY <1>6, EndKeeps DEF Cancel, Types, life, Covered
<1>7. ASSUME NEW k \in Key, Forget(k) PROVE IInv'
  BY <1>7 DEF Forget, Types, Counted, Covered, Keyed, Working, Running, Others, life
<1>8. CASE RecoveryElapses
  BY <1>8 DEF RecoveryElapses, Types, Counted, Covered, Keyed, Working, Running, Others, life
<1>9. CASE ClearIdempotencyCache
  BY <1>9 DEF ClearIdempotencyCache, Types, Counted, Covered, Keyed, Working, Running, life
<1>10. CASE ResetCircuitBreaker
  <2>1. breaker' \in Breaker /\ Below(breaker') /\ Covered'
    BY <1>10, Fresh, SetTypes, ResultCovers DEF ResetCircuitBreaker
  <2> QED BY <1>10, <2>1 DEF ResetCircuitBreaker, Types, Counted, Keyed, Working, Running, Others, life
<1>11. CASE Shutdown
  BY <1>11 DEF Shutdown, Types, Counted, Covered, Keyed, Working, Running, Others, life
<1>12. CASE ShutdownReturns
  <2>1. IsFiniteSet(Working)
    BY FS_Subset, ServiceAssumption DEF Working
  <2>2. active = 0 => Working = {}
    BY <2>1, FS_EmptySet DEF Counted
  <2> QED BY <1>12, <2>2
      DEF ShutdownReturns, Types, Counted, Covered, Keyed, Working, Running, Others, life
<1>13. CASE Flush
  BY <1>13, Breakers DEF Flush, Types, Counted, Covered, Keyed, Working, Running, Others
<1>14. CASE Restart
  <2>1. Working' = {}
    BY <1>14 DEF Restart, Working, Running
  <2>2. Counted'
    BY <1>14, <2>1, FS_EmptySet DEF Restart, Counted
  <2>3. Keyed'
    BY <1>14 DEF Restart, Keyed, Running
  <2>4. Covered'
    BY <1>14 DEF Restart, Covered, Types, Breaker
  <2>5. Types'
    <3>1. elapsed' \in BOOLEAN
      BY <1>14 DEF Restart, Types
    <3>2. task' \in [Task -> Request] /\ stops' \in 0 .. MaxStops
      BY <1>14, Requests, ServiceAssumption DEF Restart, Types
    <3> QED BY <1>14, <3>1, <3>2 DEF Restart, Types
  <2> QED BY <2>2, <2>3, <2>4, <2>5
<1>15. CASE UNCHANGED vars
  BY <1>15 DEF vars, Types, Counted, Covered, Keyed, Working, Running, Others
<1> QED
  BY <1>1, <1>2, <1>3, <1>4, <1>5, <1>6, <1>7, <1>8, <1>9, <1>10, <1>11, <1>12, <1>13,
     <1>14, <1>15 DEF Next, Attempt

(* The invariant holds in every state of every behaviour.                  *)
LEMMA Invariance == Spec => []IInv
<1>1. Init => IInv
  BY InitIInv
<1>2. IInv /\ [Next]_vars => IInv'
  BY StepIInv
<1> QED BY <1>1, <1>2, PTL DEF Spec

-----------------------------------------------------------------------------
(* The fields keep their types, and the counter of active requests is that *)
(* of the requests that run.                                               *)
THEOREM ServiceTypes == Spec => []TypeOK
<1>1. IInv => TypeOK
  <2> SUFFICES ASSUME IInv PROVE TypeOK
    OBVIOUS
  <2>1. Cardinality(Working) \in 0 .. Cardinality(Task)
    BY FS_Subset, FS_CardinalityType, ServiceAssumption DEF Working
  <2> QED BY <2>1 DEF IInv, Types, Counted, Covered, TypeOK, Below
<1> QED BY <1>1, Invariance, PTL

(* No two requests work on one key, or on a processed one, at a time.      *)
THEOREM SafeKeys == Spec => []KeyExclusive
<1>1. IInv => KeyExclusive
  BY DEF IInv, Keyed, KeyExclusive
<1> QED BY <1>1, Invariance, PTL

(* A half-open breaker lets at most half_open_max_calls attempts begin.    *)
THEOREM SafeTrials == Spec => []TrialsBounded
<1>1. IInv => TrialsBounded
  BY BreakerAssumption DEF IInv, Types, Covered, Breaker, TrialsBounded
<1> QED BY <1>1, Invariance, PTL

(* After shutdown has seen no request, none runs.                          *)
THEOREM SafeShutdown == Spec => []DrainedIsQuiet
<1>1. IInv => DrainedIsQuiet
  BY DEF IInv, Counted, Working, DrainedIsQuiet
<1> QED BY <1>1, Invariance, PTL

(* An open breaker is left only after the wait, by a reset or a restart.   *)
THEOREM SafeOpen == Spec => OpenHolds
<1>1. IInv /\ [Next]_vars
        => [breaker.state = "OPEN" /\ breaker'.state # "OPEN"
              => elapsed \/ ResetCircuitBreaker \/ Restart]_vars
  <2> SUFFICES ASSUME IInv, Next, breaker.state = "OPEN", breaker'.state # "OPEN",
                      ~elapsed, ~ResetCircuitBreaker, ~Restart
               PROVE  FALSE
    OBVIOUS
  <2>1. Asked(breaker, elapsed) = breaker /\ Succeeded(breaker) = breaker
    BY DEF Asked, Succeeded
  <2>2. Failed(breaker).state = "OPEN"
    BY DEF Failed
  <2> QED BY <2>1, <2>2
      DEF Next, Attempt, Begin, Refuse, Succeed, Fail, Resume, Retry, Cancel, SetBreaker, Admits,
          RecoveryElapses, Forget, ClearIdempotencyCache, Shutdown, ShutdownReturns, Flush
<1> QED BY <1>1, Invariance, PTL DEF Spec, OpenHolds
=============================================================================
