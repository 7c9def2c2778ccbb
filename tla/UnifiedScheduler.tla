--------------------------- MODULE UnifiedScheduler ---------------------------
(***************************************************************************)
(* UnifiedScheduler from the start of its two loops to their end: the main *)
(* loop runs the jobs that are due, pass after pass, and beside it a       *)
(* consumer runs the jobs triggered by hand, in one event loop.  Each runs *)
(* one job at a time, with retries, time-outs and back-offs.               *)
(*                                                                         *)
(* A pass is the same in every market phase but for the jobs that need     *)
(* trading hours.  What an earlier life of the process has saved decides   *)
(* which jobs are due at the start, and matters no more.  Left out:        *)
(* results, the job history, and changes of priority.                      *)
(* "Variant" marks a mistaken form of the definition after it.             *)
(***************************************************************************)
EXTENDS Integers, Sequences, FiniteSets

CONSTANTS
    Job,        \* the configured jobs that have a handler
    Trading,    \* those with trading_only
    Priority,   \* their priorities: the lowest number first
    MaxRetries, \* retries of a job
    MaxQueue    \* bound: triggers that wait at a time

ASSUME SchedulerAssumption ==
    /\ IsFiniteSet(Job)
    /\ Trading \subseteq Job /\ Priority \in [Job -> Nat]
    /\ MaxRetries \in Nat /\ MaxQueue \in Nat

VARIABLES
    running,    \* _running
    market,     \* should_run_trading_job
    enabled,    \* the jobs with config.enabled
    due,        \* the jobs whose interval has passed since their _last_run
    loop,       \* "asleep", in a "pass" or "ended": the main loop
    agenda,     \* what is left of eligible_jobs in this pass
    consumer,   \* "waiting" or "ended": the trigger consumer
    queue,      \* _trigger_queue
    run         \* the job each of the two runs

vars == <<running, market, enabled, due, loop, agenda, consumer, queue, run>>
settings == <<market, enabled>>
main == <<loop, agenda>>

Runner == {"main", "trigger"}

Free == [pc |-> "free"]

Run == {Free} \cup [pc : {"handler"}, job : Job, attempt : 0 .. MaxRetries]
              \cup [pc : {"backoff"}, job : Job, attempt : 0 .. MaxRetries - 1]

TypeOK ==
    /\ running \in BOOLEAN /\ market \in BOOLEAN
    /\ enabled \subseteq Job /\ due \subseteq Job
    /\ loop \in {"asleep", "pass", "ended"} /\ agenda \subseteq Job
    /\ consumer \in {"waiting", "ended"}
    /\ queue \in Seq(Job) /\ Len(queue) <= MaxQueue
    /\ run \in [Runner -> Run]
    /\ loop # "pass" => agenda = {} /\ run["main"] = Free
    /\ consumer = "ended" => run["trigger"] = Free

Init ==
    /\ running = TRUE /\ market \in BOOLEAN
    /\ enabled = Job /\ due \in SUBSET Job
    /\ loop = "asleep" /\ agenda = {}
    /\ consumer = "waiting" /\ queue = <<>>
    /\ run = [r \in Runner |-> Free]

Begin(r, j) == run' = [run EXCEPT ![r] = [pc |-> "handler", job |-> j, attempt |-> 0]]

-----------------------------------------------------------------------------
(* The sleep between two passes is over.                                   *)
Wake ==
    /\ loop = "asleep"
    /\ IF running
       THEN /\ loop' = "pass"
            /\ agenda' = {j \in enabled : j \in Trading => market}
       ELSE loop' = "ended" /\ UNCHANGED agenda
    /\ UNCHANGED <<running, settings, due, consumer, queue, run>>

(* The next job of the pass.  Its interval is looked at only now; whether  *)
(* it is enabled, and the market open, was looked at when the pass began.  *)
Foremost(j) == j \in agenda /\ \A k \in agenda : Priority[j] <= Priority[k]

Consider(j) ==
    /\ loop = "pass" /\ run["main"] = Free /\ Foremost(j)
    /\ agenda' = agenda \ {j}
    /\ due' = due \ {j}
    /\ IF j \in due THEN Begin("main", j) ELSE UNCHANGED run
    /\ UNCHANGED <<running, settings, loop, consumer, queue>>

EndPass ==
    /\ loop = "pass" /\ run["main"] = Free /\ agenda = {}
    /\ loop' = "asleep"
    /\ UNCHANGED <<running, settings, due, agenda, consumer, queue, run>>

(* The consumer takes the oldest trigger, also one that comes in while it  *)
(* waits although the scheduler has been stopped.  Variant: the newest.    *)
TakeTriggerVariant ==
    /\ consumer = "waiting" /\ run["trigger"] = Free /\ queue # <<>>
    /\ Begin("trigger", queue[Len(queue)])
    /\ queue' = SubSeq(queue, 1, Len(queue) - 1)
    /\ UNCHANGED <<running, settings, due, main, consumer>>

TakeTrigger ==
    /\ consumer = "waiting" /\ run["trigger"] = Free /\ queue # <<>>
    /\ Begin("trigger", Head(queue))
    /\ queue' = Tail(queue)
    /\ UNCHANGED <<running, settings, due, main, consumer>>

(* It waits 5 seconds at most.                                             *)
StopWaiting ==
    /\ consumer = "waiting" /\ run["trigger"] = Free /\ queue = <<>>
    /\ ~running
    /\ consumer' = "ended"
    /\ UNCHANGED <<running, settings, due, main, queue, run>>

-----------------------------------------------------------------------------
(* The end of a job.  The main loop goes on with its pass, whatever became *)
(* of the job; the consumer goes on unless the scheduler has been stopped. *)
(* Variant: the consumer empties its queue first.                          *)
ReleaseVariant(r) ==
    /\ run' = [run EXCEPT ![r] = Free]
    /\ consumer' = IF r = "trigger" /\ ~running /\ queue = <<>> THEN "ended" ELSE consumer

Release(r) ==
    /\ run' = [run EXCEPT ![r] = Free]
    /\ consumer' = IF r = "trigger" /\ ~running THEN "ended" ELSE consumer

Succeed(r) ==
    /\ run[r].pc = "handler"
    /\ Release(r)
    /\ UNCHANGED <<running, settings, due, main, queue>>

(* The handler raises an exception or exceeds timeout_seconds.             *)
(* Variants: one attempt too many; a job that fails ends the pass.         *)
FailVariant(r) ==
    /\ run[r].pc = "handler"
    /\ IF run[r].attempt <= MaxRetries
       THEN run' = [run EXCEPT ![r].pc = "backoff"] /\ UNCHANGED consumer
       ELSE Release(r)
    /\ UNCHANGED <<running, settings, due, main, queue>>

FailAborting(r) ==
    /\ run[r].pc = "handler"
    /\ IF run[r].attempt < MaxRetries
       THEN run' = [run EXCEPT ![r].pc = "backoff"] /\ UNCHANGED <<consumer, agenda>>
       ELSE Release(r) /\ agenda' = IF r = "main" THEN {} ELSE agenda
    /\ UNCHANGED <<running, settings, due, loop, queue>>

Fail(r) ==
    /\ run[r].pc = "handler"
    /\ IF run[r].attempt < MaxRetries
       THEN run' = [run EXCEPT ![r].pc = "backoff"] /\ UNCHANGED consumer
       ELSE Release(r)
    /\ UNCHANGED <<running, settings, due, main, queue>>

Retry(r) ==
    /\ run[r].pc = "backoff"
    /\ run' = [run EXCEPT ![r].pc = "handler", ![r].attempt = @ + 1]
    /\ UNCHANGED <<running, settings, due, main, consumer, queue>>

-----------------------------------------------------------------------------
(* trigger_job asks neither whether the job is enabled nor whether the     *)
(* scheduler still runs.                                                   *)
TriggerJob(j) ==
    /\ Len(queue) < MaxQueue
    /\ queue' = Append(queue, j)
    /\ UNCHANGED <<running, settings, due, main, consumer, run>>

EnableJob(j, on) ==
    /\ enabled' = IF on THEN enabled \cup {j} ELSE enabled \ {j}
    /\ UNCHANGED <<running, market, due, main, consumer, queue, run>>

(* The interval of a job passes, or update_interval makes it shorter ...   *)
BecomeDue(j) ==
    /\ due' = due \cup {j}
    /\ UNCHANGED <<running, settings, main, consumer, queue, run>>

(* ... or longer.                                                          *)
LengthenInterval(j) ==
    /\ due' = due \ {j}
    /\ UNCHANGED <<running, settings, main, consumer, queue, run>>

MarketChanges ==
    /\ market' = ~market
    /\ UNCHANGED <<running, enabled, due, main, consumer, queue, run>>

(* stop, or a signal.                                                      *)
Stop ==
    /\ running /\ running' = FALSE
    /\ UNCHANGED <<settings, due, main, consumer, queue, run>>

MainLoop == Wake \/ EndPass \/ \E j \in Job : Consider(j)

Consume == TakeTrigger \/ StopWaiting

Attempt(r) == Succeed(r) \/ Fail(r) \/ Retry(r)

Next ==
    \/ MainLoop \/ Consume
    \/ \E r \in Runner : Attempt(r)
    \/ \E j \in Job : TriggerJob(j) \/ BecomeDue(j) \/ LengthenInterval(j)
    \/ \E j \in Job, on \in BOOLEAN : EnableJob(j, on)
    \/ MarketChanges \/ Stop

(* The event loop runs both loops; a handler ends, by its time-out if      *)
(* nothing else, and so does a sleep.                                      *)
Spec ==
    /\ Init /\ [][Next]_vars
    /\ WF_vars(MainLoop) /\ WF_vars(Consume)
    /\ \A r \in Runner : WF_vars(Attempt(r))

-----------------------------------------------------------------------------
(* A job that has come due, is enabled and may run now.                    *)
Waits(j) == running /\ j \in due \cap enabled /\ (j \in Trading => market)

(* A job that is due is started in the end, however the jobs before it     *)
(* fail and however often they come due again, unless it is disabled or    *)
(* the market or the scheduler closes first.                               *)
DueServed == \A j \in Job : Waits(j) ~> ~Waits(j)

(* The steps left of a run, at most, and those of the pass of the main     *)
(* loop: a start and all its attempts for each job it has not come to.     *)
RunLeft(x) ==
    CASE x.pc = "free"    -> 0
      [] x.pc = "backoff" -> 2 * (MaxRetries - x.attempt)
      [] x.pc = "handler" -> 2 * (MaxRetries - x.attempt) + 1

PassLeft == (2 * MaxRetries + 2) * Cardinality(agenda) + RunLeft(run["main"])

(* A pass gets through all its jobs, by failures, time-outs and retries     *)
(* too: between two jobs it always finds the next one, each step of the     *)
(* main loop takes off what is left, no trigger, setting or manual run      *)
(* beside it adds to it, and the pass ends only when nothing is left.       *)
PassShrinks ==
    /\ [](PassLeft \in Nat)
    /\ [](run["main"] = Free /\ agenda # {} => \E j \in Job : Foremost(j))
    /\ [][loop = "pass" =>
            IF loop' = "pass"
            THEN /\ PassLeft' <= PassLeft
                 /\ MainLoop \/ Attempt("main") => PassLeft' < PassLeft
            ELSE PassLeft = 0]_vars

Queued(j) == \E i \in 1 .. Len(queue) : queue[i] = j

(* A job that was accepted for immediate execution is executed, whatever   *)
(* else is triggered, and failing or slow jobs in front of it              *)
(* notwithstanding, unless the scheduler stops first.                      *)
TriggerServed ==
    \A j \in Job :
        Queued(j) ~> (run["trigger"] # Free /\ run["trigger"].job = j) \/ consumer = "ended"

(* Once stopped, both loops end, though jobs go on being triggered.        *)
StopEnds == ~running ~> loop = "ended" /\ consumer = "ended"
=============================================================================
