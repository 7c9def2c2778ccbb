----------------------------- MODULE PipelineDag -----------------------------
(***************************************************************************)
(* PipelineDAGExecutor: tasks with dependencies are registered, put into a *)
(* topological order by Kahn's algorithm and executed one after the other. *)
(* Executions follow each other on the same tasks, and more tasks may be   *)
(* registered, or registered again, between two of them.                   *)
(*                                                                         *)
(* execute_with_recovery, which retries, answers whether a stage succeeded *)
(* in the end: here it succeeds or fails.  Left out: results, messages,    *)
(* durations, and the order in which tasks that wait for nothing more are  *)
(* queued.                                                                 *)
(* "Variant" marks a mistaken form of the definition after it.             *)
(***************************************************************************)
EXTENDS Integers, Sequences, FiniteSets

CONSTANTS
    Task,       \* the names tasks can have
    MaxAdds,    \* bound: calls of add_task
    MaxRuns     \* bound: executions

ASSUME DagAssumption == IsFiniteSet(Task) /\ MaxAdds \in Nat /\ MaxRuns \in Nat

VARIABLES
    registered, \* the keys of _tasks
    deps,       \* DAGTask.dependencies
    critical,   \* the tasks with is_critical
    state,      \* DAGTask.state
    pc,         \* "idle", "sorting", "next" task or in a "stage"
    degree,     \* in_degree
    ready,      \* queue
    order,      \* order, then ordered_tasks
    at,         \* the position of the task in ordered_tasks
    failed,     \* failed_tasks
    outcome,    \* of the last execution since a task was registered
    adds,       \* calls of add_task so far
    runs        \* executions so far

vars == <<registered, deps, critical, state, pc, degree, ready, order, at, failed,
          outcome, adds, runs>>
graph == <<registered, deps, critical, adds>>
sorting == <<degree, ready, order>>

TaskState == {"PENDING", "RUNNING", "SUCCESS", "FAILED", "SKIPPED"}

(* The first n tasks of the order.                                         *)
Prefix(n) == {order[i] : i \in 1 .. n}

TypeOK ==
    /\ registered \subseteq Task /\ critical \subseteq registered
    /\ deps \in [Task -> SUBSET Task]
    /\ state \in [Task -> TaskState]
    /\ pc \in {"idle", "sorting", "next", "stage"}
    /\ degree \in [Task -> Nat]
    /\ ready \subseteq registered \ Prefix(Len(order))
    /\ order \in Seq(registered)
    /\ at \in 1 .. Len(order) + 1
    /\ failed \subseteq registered
    /\ outcome \in {"none", "rejected", "success", "failure"}
    /\ adds \in 0 .. MaxAdds /\ runs \in 0 .. MaxRuns

Init ==
    /\ registered = {} /\ critical = {}
    /\ deps = [t \in Task |-> {}]
    /\ state = [t \in Task |-> "PENDING"]
    /\ pc = "idle"
    /\ degree = [t \in Task |-> 0] /\ ready = {} /\ order = <<>>
    /\ at = 1 /\ failed = {}
    /\ outcome = "none" /\ adds = 0 /\ runs = 0

-----------------------------------------------------------------------------
(* A task of that name that is registered already is replaced.             *)
AddTask(t, ds, isCritical) ==
    /\ pc = "idle" /\ adds < MaxAdds
    /\ adds' = adds + 1
    /\ registered' = registered \cup {t}
    /\ deps' = [deps EXCEPT ![t] = ds]
    /\ critical' = IF isCritical THEN critical \cup {t} ELSE critical \ {t}
    /\ state' = [state EXCEPT ![t] = "PENDING"]
    /\ outcome' = "none"
    /\ UNCHANGED <<pc, sorting, at, failed, runs>>

(* The ValueError that execute raises.                                     *)
Reject ==
    /\ pc' = "idle" /\ outcome' = "rejected"
    /\ UNCHANGED <<graph, state, at, failed>>

(* execute begins and _resolve_execution_order sets up its tables.         *)
Undefined == \E t \in registered : ~(deps[t] \subseteq registered)

Execute ==
    /\ pc = "idle" /\ runs < MaxRuns
    /\ runs' = runs + 1
    /\ IF Undefined
       THEN Reject /\ UNCHANGED sorting
       ELSE /\ pc' = "sorting"
            /\ degree' = [t \in Task |-> Cardinality(deps[t])]
            /\ ready' = {t \in registered : deps[t] = {}}
            /\ order' = <<>> /\ at' = 1 /\ failed' = {}
            /\ UNCHANGED <<graph, state, outcome>>

(* One round of the loop: a task of the queue is next in the order, and    *)
(* the tasks that wait for nothing else join the queue.                    *)
(* Variant: the task is not taken off the queue.                           *)
PlaceTwice(t) ==
    /\ pc = "sorting" /\ t \in ready
    /\ order' = Append(order, t)
    /\ degree' = [u \in Task |-> degree[u] - IF t \in deps[u] THEN 1 ELSE 0]
    /\ ready' = ready \cup {u \in Task : t \in deps[u] /\ degree[u] = 1}
    /\ UNCHANGED <<graph, state, pc, at, failed, outcome, runs>>

Place(t) ==
    /\ pc = "sorting" /\ t \in ready
    /\ order' = Append(order, t)
    /\ degree' = [u \in Task |-> degree[u] - IF t \in deps[u] THEN 1 ELSE 0]
    /\ ready' = (ready \ {t}) \cup {u \in Task : t \in deps[u] /\ degree[u] = 1}
    /\ UNCHANGED <<graph, state, pc, at, failed, outcome, runs>>

(* When not every task has been placed, there is a cycle.                  *)
(* Variant: what has been placed is executed.                              *)
EndSortVariant ==
    /\ pc = "sorting" /\ ready = {}
    /\ pc' = "next"
    /\ UNCHANGED <<graph, state, sorting, at, failed, outcome, runs>>

EndSort ==
    /\ pc = "sorting" /\ ready = {}
    /\ IF Len(order) < Cardinality(registered)
       THEN Reject
       ELSE pc' = "next" /\ UNCHANGED <<graph, state, at, failed, outcome>>
    /\ UNCHANGED <<sorting, runs>>

(* The next task is skipped when a task it depends on has failed ...       *)
(* Variant: when all of them have.                                         *)
BlockedVariant(t) == deps[t] # {} /\ deps[t] \subseteq failed

Blocked(t) == deps[t] \cap failed # {}

(* Variant: the loop does not go on to the task after it.                  *)
SkipVariant ==
    /\ pc = "next" /\ at <= Len(order)
    /\ Blocked(order[at])
    /\ state' = [state EXCEPT ![order[at]] = "SKIPPED"]
    /\ UNCHANGED <<graph, pc, sorting, at, failed, outcome, runs>>

Skip ==
    /\ pc = "next" /\ at <= Len(order)
    /\ Blocked(order[at])
    /\ state' = [state EXCEPT ![order[at]] = "SKIPPED"]
    /\ at' = at + 1
    /\ UNCHANGED <<graph, pc, sorting, failed, outcome, runs>>

(* ... and executed otherwise.                                             *)
StartStage ==
    /\ pc = "next" /\ at <= Len(order)
    /\ ~Blocked(order[at])
    /\ state' = [state EXCEPT ![order[at]] = "RUNNING"]
    /\ pc' = "stage"
    /\ UNCHANGED <<graph, sorting, at, failed, outcome, runs>>

StageSucceeds ==
    /\ pc = "stage"
    /\ state' = [state EXCEPT ![order[at]] = "SUCCESS"]
    /\ at' = at + 1
    /\ pc' = "next"
    /\ UNCHANGED <<graph, sorting, failed, outcome, runs>>

(* A critical task that fails ends the execution.  The tasks after it keep *)
(* the state an earlier execution left them.                               *)
(* Variant: the execution goes on.                                         *)
StageFailsVariant ==
    /\ pc = "stage"
    /\ state' = [state EXCEPT ![order[at]] = "FAILED"]
    /\ failed' = failed \cup {order[at]}
    /\ pc' = "next" /\ at' = at + 1
    /\ UNCHANGED <<graph, sorting, outcome, runs>>

StageFails ==
    /\ pc = "stage"
    /\ state' = [state EXCEPT ![order[at]] = "FAILED"]
    /\ failed' = failed \cup {order[at]}
    /\ IF order[at] \in critical
       THEN pc' = "idle" /\ outcome' = "failure" /\ UNCHANGED at
       ELSE pc' = "next" /\ at' = at + 1 /\ UNCHANGED outcome
    /\ UNCHANGED <<graph, sorting, runs>>

Finish ==
    /\ pc = "next" /\ at > Len(order)
    /\ pc' = "idle" /\ outcome' = "success"
    /\ UNCHANGED <<graph, state, sorting, at, failed, runs>>

(* What the executor does by itself, and what it has to wait for: it calls *)
(* the function of a task and goes on when that returns or raises.         *)
Executor == (\E t \in Task : Place(t)) \/ EndSort \/ Skip \/ StartStage \/ Finish

Proceed == Executor \/ StageSucceeds \/ StageFails

Next ==
    \/ \E t \in Task, ds \in SUBSET Task, c \in BOOLEAN : AddTask(t, ds, c)
    \/ Execute
    \/ Proceed

(* The executor goes on.  Nothing limits the time of a task's function (the *)
(* retries do not, sla_seconds is a target): it may never return.          *)
Spec == Init /\ [][Next]_vars /\ WF_vars(Executor)

-----------------------------------------------------------------------------
(* A set of tasks without a cycle: none of its subsets waits for itself.   *)
Acyclic(ts) == \A S \in SUBSET ts : S # {} => \E t \in S : deps[t] \cap S = {}

(* A task is executed at most once in an execution, and only after every   *)
(* task it depends on: each of them has succeeded or been skipped in this  *)
(* execution, and none has failed in it, whatever states earlier           *)
(* executions have left.                                                   *)
DependenciesFirst ==
    pc = "stage" =>
        /\ order[at] \notin Prefix(at - 1)
        /\ \A d \in deps[order[at]] :
              d \in Prefix(at - 1) /\ state[d] \in {"SUCCESS", "SKIPPED"}

(* Kahn's algorithm is right about the graph: what is executed is all that *)
(* is registered, with every dependency defined and without a cycle, and   *)
(* what is refused has an undefined dependency or a cycle.                 *)
RefusedRightly ==
    /\ pc \in {"next", "stage"} =>
          ~Undefined /\ Acyclic(registered) /\ Prefix(Len(order)) = registered
    /\ outcome = "rejected" => Undefined \/ ~Acyclic(registered)

(* Fail-closed: an execution that reports success has taken a decision on  *)
(* every registered task, and no critical one has failed; a task has been  *)
(* skipped only for a task it depends on that failed.  One that reports    *)
(* failure has stopped at the first critical task that failed.             *)
Verdict ==
    pc = "idle" =>
        /\ outcome = "success" => \A t \in registered :
              \/ state[t] = "SUCCESS"
              \/ state[t] = "FAILED" /\ t \notin critical
              \/ state[t] = "SKIPPED" /\ \E d \in deps[t] : state[d] = "FAILED"
        /\ outcome = "failure" =>
              /\ state[order[at]] = "FAILED" /\ order[at] \in critical
              /\ \A t \in Prefix(at - 1) \cap critical : state[t] # "FAILED"

(* Nothing but a function that never returns keeps an execution from its   *)
(* end: no graph, order of the tasks, failure or skipped task does.  (A     *)
(* function that hangs does: no time-out ends it.)                         *)
FunctionsReturn == []<>(pc # "stage")

ExecutionEnds == FunctionsReturn => (pc # "idle" ~> pc = "idle")

(* How many steps an execution still takes at most: a round of the sort    *)
(* for each task not yet placed, then a start and an end of its stage, and *)
(* one step each to end the sort and the execution.                        *)
StepsLeft ==
    IF pc = "sorting" THEN 3 * Cardinality(registered) - Len(order) + 2
    ELSE IF pc = "next" THEN 2 * (Len(order) + 1 - at) + 1
    ELSE IF pc = "stage" THEN 2 * (Len(order) + 1 - at)
    ELSE 0

(* No step of an execution is in vain: it brings the end nearer, whatever  *)
(* the graph is and whatever the tasks do.  (A place in the order is given *)
(* once, no task is run again, a skipped one counts as done.)  That the    *)
(* steps left are never negative bounds them by 3n + 2 for n tasks.        *)
ExecutionShrinks ==
    /\ [](StepsLeft \in 0 .. 3 * Cardinality(registered) + 2)
    /\ [][pc # "idle" => StepsLeft' < StepsLeft]_vars

(* dag_executor.py:86: is_success says whether all critical steps have     *)
(* succeeded.  A critical task that depends on a task that is not critical *)
(* and fails is skipped, and the execution is still a success.             *)
CriticalSucceeded ==
    pc = "idle" /\ outcome = "success" => \A t \in critical : state[t] = "SUCCESS"
=============================================================================
