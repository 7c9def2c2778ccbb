---------------------------- MODULE AlphaService ----------------------------
(***************************************************************************)
(* BaseAlphaService.execute: concurrent requests to one service, with      *)
(* idempotency keys, retries, a circuit breaker whose state survives a     *)
(* restart, cancellation and shutdown.                                     *)
(*                                                                         *)
(* Requests are tasks of one event loop; a step is what a request does     *)
(* between two awaits: it starts its first attempt, an attempt ends, or    *)
(* its back-off is over.  Left out: results, metrics, and the dead letter  *)
(* that every failed request leaves.                                       *)
(* "Variant" marks a mistaken form of the definition after it.             *)
(***************************************************************************)
EXTENDS CircuitBreaker, FiniteSets

CONSTANTS
    Task,           \* the requests there can be at a time
    Key,            \* idempotency keys
    NoKey,          \* the key of a request that has none
    MaxRetries,     \* attempts of one request
    Slow,           \* whether an attempt can outlast the recovery time-out
    Cancellable,    \* whether requests are cancelled
    MaxFailures,    \* bound: failures in one life of the process
    MaxStops        \* bound: restarts

ASSUME ServiceAssumption ==
    /\ NoKey \notin Key /\ IsFiniteSet(Task)
    /\ MaxRetries \in Nat \ {0} /\ Slow \in BOOLEAN /\ Cancellable \in BOOLEAN
    /\ MaxFailures \in Nat /\ MaxStops \in Nat

VARIABLES
    breaker,    \* _circuit_breaker
    elapsed,    \* recovery_timeout_seconds have passed since last_failure_time
    task,       \* where each request is, its key and its attempt
    inFlight,   \* _in_flight_idempotency_keys
    processed,  \* the keys of _processed_idempotency_keys that are not too old
    active,     \* _active_requests
    closing,    \* "no", "waiting" in shutdown, or how shutdown ended
    durable,    \* the breaker as the state store has written it
    stops,      \* restarts so far
    trialRuns,  \* history: attempts begun since the breaker opened half
    cleared     \* history: the cache was cleared under running requests

vars == <<breaker, elapsed, task, inFlight, processed, active, closing, durable,
          stops, trialRuns, cleared>>
life == <<stops, durable>>

Idle == [pc |-> "idle", attempt |-> 0]

Request ==
    {Idle}
        \cup [pc : {"process"}, attempt : 1 .. MaxRetries, key : Key \cup {NoKey}]
        \cup [pc : {"backoff"}, attempt : 1 .. MaxRetries - 1, key : Key \cup {NoKey}]

Running(t) == task[t] # Idle

Others(t) == {u \in Task \ {t} : Running(u)}

TypeOK ==
    /\ breaker \in Breaker /\ durable \in Breaker
    /\ elapsed \in BOOLEAN /\ cleared \in BOOLEAN
    /\ task \in [Task -> Request]
    /\ inFlight \subseteq Key /\ processed \subseteq Key
    /\ active \in 0 .. Cardinality(Task)
    /\ closing \in {"no", "waiting", "drained", "abandoned"}
    /\ stops \in 0 .. MaxStops /\ trialRuns \in Nat
    /\ breaker.state = "CLOSED" => breaker.failures < FailureThreshold

Init ==
    /\ breaker = NewBreaker /\ durable = NewBreaker
    /\ elapsed = TRUE /\ cleared = FALSE
    /\ task = [t \in Task |-> Idle]
    /\ inFlight = {} /\ processed = {} /\ active = 0 /\ closing = "no"
    /\ stops = 0 /\ trialRuns = 0

-----------------------------------------------------------------------------
(* The breaker becomes b and, if asked to, an attempt begins under it.     *)
SetBreaker(b, attempts) ==
    /\ breaker' = b
    /\ trialRuns' = IF b.state # "HALF_OPEN" THEN 0
                    ELSE attempts + IF breaker.state = "HALF_OPEN" THEN trialRuns ELSE 0

(* The finally clause.                                                     *)
End(t) ==
    /\ task' = [task EXCEPT ![t] = Idle]
    /\ inFlight' = inFlight \ {task[t].key}
    /\ active' = active - 1
    /\ cleared' = (cleared /\ Others(t) # {})

(* A request that comes in is refused while the service shuts down and     *)
(* when its key is in flight, and answered from the cache when the key is  *)
(* processed.  Otherwise it asks the breaker, validates its input and asks *)
(* the breaker again.                                                      *)
(* Variants: the keys in flight are not looked at; nor is the shutdown.    *)
AcceptableTwice(t, k) == closing = "no" /\ ~Running(t) /\ k \notin processed

AcceptableAlways(t, k) == ~Running(t) /\ k \notin inFlight \cup processed

Acceptable(t, k) == closing = "no" /\ ~Running(t) /\ k \notin inFlight \cup processed

Begin(t, k) ==
    /\ Acceptable(t, k)
    /\ Admits(breaker, elapsed) /\ Admits(Asked(breaker, elapsed), elapsed)
    /\ SetBreaker(Asked(Asked(breaker, elapsed), elapsed), 1)
    /\ task' = [task EXCEPT ![t] = [pc |-> "process", attempt |-> 1, key |-> k]]
    /\ inFlight' = inFlight \cup ({k} \ {NoKey})
    /\ active' = active + 1
    /\ UNCHANGED <<elapsed, processed, closing, cleared, life>>

(* The second question is answered no, or the input is not valid.  What    *)
(* the first one did to the breaker stays.                                 *)
Refuse(t, k) ==
    /\ Acceptable(t, k)
    /\ Admits(breaker, elapsed)
    /\ SetBreaker(Asked(breaker, elapsed), 0)
    /\ UNCHANGED <<elapsed, task, inFlight, processed, active, closing, cleared, life>>

(* An attempt succeeds.                                                    *)
Succeed(t) ==
    /\ task[t].pc = "process"
    /\ SetBreaker(Succeeded(breaker), 0)
    /\ processed' = processed \cup ({task[t].key} \ {NoKey})
    /\ End(t)
    /\ UNCHANGED <<elapsed, closing, life>>

(* An attempt fails or times out; the wait of the breaker starts again.    *)
(* The breaker is asked whether to go on, after the last attempt too.      *)
Fail(t) ==
    /\ task[t].pc = "process"
    /\ breaker.failures < MaxFailures
    /\ LET b == Failed(breaker)
       IN  /\ SetBreaker(b, 0)
           /\ IF Admits(b, FALSE) /\ task[t].attempt < MaxRetries
              THEN /\ task' = [task EXCEPT ![t].pc = "backoff"]
                   /\ UNCHANGED <<inFlight, active, cleared>>
              ELSE End(t)
    /\ elapsed' = FALSE
    /\ UNCHANGED <<processed, closing, life>>

(* The back-off is over.                                                   *)
Retry(t) ==
    /\ SetBreaker(Asked(breaker, elapsed), 1)
    /\ task' = [task EXCEPT ![t].pc = "process", ![t].attempt = @ + 1]
    /\ UNCHANGED <<inFlight, active, cleared>>

(* Variant: a refused attempt waits for the breaker.                       *)
ResumeVariant(t) ==
    /\ task[t].pc = "backoff" /\ Admits(breaker, elapsed)
    /\ Retry(t)
    /\ UNCHANGED <<elapsed, processed, closing, life>>

Resume(t) ==
    /\ task[t].pc = "backoff"
    /\ IF Admits(breaker, elapsed) THEN Retry(t)
       ELSE End(t) /\ UNCHANGED <<breaker, trialRuns>>
    /\ UNCHANGED <<elapsed, processed, closing, life>>

(* The request is cancelled: nothing is recorded.                          *)
Cancel(t) ==
    /\ Cancellable /\ Running(t)
    /\ End(t)
    /\ UNCHANGED <<breaker, elapsed, processed, closing, trialRuns, life>>

-----------------------------------------------------------------------------
(* The recovery time-out passes.  Unless Slow, every attempt and back-off  *)
(* that began before the last failure has ended by then.                   *)
RecoveryElapses ==
    /\ ~elapsed
    /\ Slow \/ \A t \in Task : ~Running(t)
    /\ elapsed' = TRUE
    /\ UNCHANGED <<breaker, task, inFlight, processed, active, closing, trialRuns,
                   cleared, life>>

(* A key is processed longer ago than idempotency_ttl_seconds.             *)
Forget(k) ==
    /\ k \in processed
    /\ processed' = processed \ {k}
    /\ UNCHANGED <<breaker, elapsed, task, inFlight, active, closing, trialRuns,
                   cleared, life>>

ClearIdempotencyCache ==
    /\ inFlight' = {} /\ processed' = {}
    /\ cleared' = (\E t \in Task : Running(t))
    /\ UNCHANGED <<breaker, elapsed, task, active, closing, trialRuns, life>>

ResetCircuitBreaker ==
    /\ SetBreaker(NewBreaker, 0)
    /\ UNCHANGED <<elapsed, task, inFlight, processed, active, closing, cleared, life>>

Shutdown ==
    /\ closing = "no"
    /\ closing' = "waiting"
    /\ UNCHANGED <<breaker, elapsed, task, inFlight, processed, active, trialRuns,
                   cleared, life>>

(* shutdown returns when no request is left, or after its time-out.        *)
ShutdownReturns ==
    /\ closing = "waiting"
    /\ closing' = IF active = 0 THEN "drained" ELSE "abandoned"
    /\ UNCHANGED <<breaker, elapsed, task, inFlight, processed, active, trialRuns,
                   cleared, life>>

(* The state store writes its buffer.  Every change of state or failures   *)
(* has been put there at once, so that the last one is the breaker's.      *)
Flush ==
    /\ durable' = Restored(breaker)
    /\ UNCHANGED <<breaker, elapsed, task, inFlight, processed, active, closing,
                   trialRuns, cleared, stops>>

(* The process stops, with or without a shutdown, and starts again with    *)
(* what is durable; the failure it remembers may be an older one.          *)
Restart ==
    /\ stops < MaxStops
    /\ stops' = stops + 1
    /\ breaker' = durable
    /\ elapsed' \in {elapsed, TRUE}
    /\ task' = [t \in Task |-> Idle]
    /\ inFlight' = {} /\ processed' = {} /\ active' = 0 /\ closing' = "no"
    /\ trialRuns' = 0 /\ cleared' = FALSE
    /\ UNCHANGED durable

Attempt(t) == Succeed(t) \/ Fail(t)

Next ==
    \/ \E t \in Task, k \in Key \cup {NoKey} : Begin(t, k) \/ Refuse(t, k)
    \/ \E t \in Task : Attempt(t) \/ Resume(t) \/ Cancel(t)
    \/ \E k \in Key : Forget(k)
    \/ RecoveryElapses \/ ClearIdempotencyCache \/ ResetCircuitBreaker
    \/ Shutdown \/ ShutdownReturns \/ Flush \/ Restart

(* An attempt ends, by its time-out if nothing else; a back-off ends; time *)
(* passes.                                                                 *)
Fairness ==
    /\ \A t \in Task : WF_vars(Attempt(t)) /\ WF_vars(Resume(t))
    /\ WF_vars(RecoveryElapses)

Spec == Init /\ [][Next]_vars /\ Fairness

(* Callers that keep calling, with valid input.                            *)
BusySpec == Spec /\ \A t \in Task : WF_vars(\E k \in Key \cup {NoKey} : Begin(t, k))

-----------------------------------------------------------------------------
(* Two requests never work on the same key at a time, and none works on a  *)
(* key that is still remembered as processed, through retries, cancelled   *)
(* and failed requests and keys that expire.  Only clearing the cache      *)
(* under running requests breaks it: the first of them to end frees the    *)
(* key of the next.                                                        *)
KeyExclusive ==
    cleared \/ \A t \in Task : Running(t) /\ task[t].key # NoKey =>
        /\ task[t].key \notin processed
        /\ \A u \in Others(t) : task[u].key # task[t].key

(* No attempt begins under a half-open breaker beyond half_open_max_calls, *)
(* however many retries and new requests meet at the end of the wait.      *)
TrialsBounded == trialRuns <= HalfOpenMax

(* When shutdown reports that no request is left, none is, and none comes. *)
DrainedIsQuiet == closing = "drained" => \A t \in Task : ~Running(t)

(* An open breaker is left only when the recovery time-out has passed      *)
(* since the last failure, late ones included; a late success does not     *)
(* close it.                                                               *)
OpenHolds ==
    [][breaker.state = "OPEN" /\ breaker'.state # "OPEN"
          => elapsed \/ ResetCircuitBreaker \/ Restart]_vars

(* Every request ends: it succeeds, fails for good, is refused or          *)
(* cancelled.                                                              *)
RequestEnds == \A t \in Task : Running(t) ~> ~Running(t)

(* circuit_breaker.py:145-148: after the wait an open breaker admits trial *)
(* calls, and a successful one closes it, unless the service shuts down.   *)
(* execute asks can_execute twice before its first attempt: the first      *)
(* question takes the only trial and the second is refused, so that no     *)
(* call reaches the service again.                                         *)
BreakerRecovers == breaker.state = "OPEN" ~> breaker.state = "CLOSED" \/ closing # "no"
=============================================================================
