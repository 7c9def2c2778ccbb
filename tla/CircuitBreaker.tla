--------------------------- MODULE CircuitBreaker ---------------------------
(***************************************************************************)
(* The operations of a circuit breaker as functions of its state.  That    *)
(* recovery_timeout_seconds have passed since last_failure_time is an      *)
(* argument: a failure starts the wait again, whatever the state.          *)
(* "Variant" marks a mistaken form of the definition after it.             *)
(***************************************************************************)
EXTENDS Integers

CONSTANTS
    FailureThreshold,   \* failures that open a closed breaker
    HalfOpenMax         \* half_open_max_calls

ASSUME BreakerAssumption ==
    FailureThreshold \in Nat \ {0} /\ HalfOpenMax \in Nat \ {0}

State == {"CLOSED", "OPEN", "HALF_OPEN"}

Breaker == [state : State, failures : Nat, trials : 0 .. HalfOpenMax]

NewBreaker == [state |-> "CLOSED", failures |-> 0, trials |-> 0]

(* What can_execute answers ...  Variant: a half-open breaker admits all.  *)
AdmitsVariant(b, elapsed) == b.state = "OPEN" => elapsed

Admits(b, elapsed) ==
    \/ b.state = "CLOSED"
    \/ b.state = "OPEN" /\ elapsed
    \/ b.state = "HALF_OPEN" /\ b.trials < HalfOpenMax

(* ... and what asking does: the first caller after the wait opens the     *)
(* breaker half and takes one of its trials, later ones take the rest.     *)
Asked(b, elapsed) ==
    IF b.state = "OPEN" /\ elapsed
    THEN [b EXCEPT !.state = "HALF_OPEN", !.trials = 1]
    ELSE IF b.state = "HALF_OPEN" /\ b.trials < HalfOpenMax
         THEN [b EXCEPT !.trials = @ + 1]
         ELSE b

(* record_success.  Variant: a success closes the breaker in any state.    *)
SucceededVariant(b) == NewBreaker

Succeeded(b) ==
    IF b.state = "HALF_OPEN" THEN NewBreaker
    ELSE IF b.state = "CLOSED" /\ b.failures > 0
         THEN [b EXCEPT !.failures = @ - 1]
         ELSE b

(* record_failure.  Failures are counted in every state.                   *)
(* Variant: one failure more than the threshold opens the breaker.         *)
FailedVariant(b) ==
    [state |-> IF b.state = "HALF_OPEN" \/ b.failures >= FailureThreshold
               THEN "OPEN" ELSE b.state,
     failures |-> b.failures + 1,
     trials |-> IF b.state = "HALF_OPEN" THEN 0 ELSE b.trials]

Failed(b) ==
    [state |-> IF b.state = "HALF_OPEN" \/ b.failures + 1 >= FailureThreshold
               THEN "OPEN" ELSE b.state,
     failures |-> b.failures + 1,
     trials |-> IF b.state = "HALF_OPEN" THEN 0 ELSE b.trials]

(* restore_state: the trials are not stored.                               *)
Restored(b) == [b EXCEPT !.trials = 0]
=============================================================================
