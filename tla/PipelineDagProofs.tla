-------------------------- MODULE PipelineDagProofs --------------------------
(***************************************************************************)
(* For any finite set of tasks, any graph and any number of executions:    *)
(* Kahn's algorithm is right about the graph, dependencies come first, and *)
(* the verdict of an execution is fail-closed.                             *)
(***************************************************************************)
EXTENDS PipelineDag, FiniteSetTheorems, TLAPS

Placed == Prefix(Len(order))

(* While an execution lasts, every dependency is defined; a task that was  *)
(* never registered has none.                                              *)
Closed ==
    /\ \A t \in Task \ registered : deps[t] = {}
    /\ pc # "idle" => ~Undefined

(* in_degree counts the dependencies that have not been placed, and the    *)
(* queue holds the tasks that have no other.                               *)
Counted ==
    pc = "sorting" =>
        /\ \A u \in Task : degree[u] = Cardinality(deps[u] \ Placed)
        /\ ready = {u \in registered \ Placed : deps[u] \subseteq Placed}

(* Every task in the order comes once and after what it depends on.        *)
Ordered ==
    pc # "idle" =>
        /\ Cardinality(Placed) = Len(order)
        /\ Acyclic(Placed)
        /\ \A i \in 1 .. Len(order) :
              order[i] \notin Prefix(i - 1) /\ deps[order[i]] \subseteq Prefix(i - 1)

(* What is executed is all that is registered ...                          *)
Complete == pc \in {"next", "stage"} => Placed = registered

(* ... and what is refused cannot be put in order.                         *)
Refused == outcome = "rejected" => Undefined \/ ~Acyclic(registered)

(* The sort begins with the first task, and nothing has failed.            *)
Begun == pc = "sorting" => at = 1 /\ failed = {}

(* The decisions on the tasks before the current one are of this execution.*)
Decided ==
    pc \in {"next", "stage"} =>
        /\ failed \subseteq Prefix(at - 1) /\ failed \cap critical = {}
        /\ \A t \in Prefix(at - 1) :
              \/ state[t] = "SUCCESS" /\ t \notin failed
              \/ state[t] = "FAILED" /\ t \in failed
              \/ state[t] = "SKIPPED" /\ t \notin failed /\ deps[t] \cap failed # {}

(* A stage runs only when nothing it depends on has failed.                *)
Staged == pc = "stage" => at <= Len(order) /\ ~Blocked(order[at])

IInv ==
    /\ TypeOK /\ Closed /\ Counted /\ Ordered /\ Complete /\ Refused
    /\ Begun /\ Decided /\ Staged /\ Verdict

-----------------------------------------------------------------------------
(* Placing a task extends the order by it and leaves its prefixes alone.   *)
LEMMA Growing ==
    ASSUME order \in Seq(registered), NEW t \in registered, order' = Append(order, t)
    PROVE  /\ order' \in Seq(registered) /\ Len(order') = Len(order) + 1
           /\ order'[Len(order) + 1] = t
           /\ \A i \in 1 .. Len(order) : order'[i] = order[i]
           /\ \A n \in 0 .. Len(order) : Prefix(n)' = Prefix(n)
           /\ Placed' = Placed \cup {t}
<1>1. /\ order' \in Seq(registered) /\ Len(order') = Len(order) + 1
      /\ order'[Len(order) + 1] = t
      /\ \A i \in 1 .. Len(order) : order'[i] = order[i]
  OBVIOUS
<1>2. Len(order) \in Nat
  OBVIOUS
<1>3. \A n \in 0 .. Len(order) : Prefix(n)' = Prefix(n)
  BY <1>1, <1>2 DEF Prefix
<1>4. Placed' = Placed \cup {t}
  <2>1. Placed' = {order'[i] : i \in 1 .. Len(order) + 1}
    BY <1>1 DEF Placed, Prefix
  <2>2. 1 .. Len(order) + 1 = (1 .. Len(order)) \cup {Len(order) + 1}
    BY <1>2
  <2>3. Placed = {order[i] : i \in 1 .. Len(order)}
    BY DEF Placed, Prefix
  <2> QED BY <1>1, <2>1, <2>2, <2>3
<1> QED BY <1>1, <1>3, <1>4

(* The tasks of the order are registered, and are the prefixes' union.     *)
LEMMA Prefixes ==
    ASSUME order \in Seq(registered)
    PROVE  /\ Placed \subseteq registered
           /\ \A n \in 0 .. Len(order) : Prefix(n) \subseteq Placed
           /\ \A n \in 0 .. Len(order) - 1 : Prefix(n + 1) = Prefix(n) \cup {order[n + 1]}
           /\ Prefix(0) = {}
<1>1. Len(order) \in Nat /\ \A i \in 1 .. Len(order) : order[i] \in registered
  OBVIOUS
<1> QED BY <1>1 DEF Prefix, Placed

(* Init: nothing is registered, nothing placed.                            *)
LEMMA InitIInv == Init => IInv
<1> SUFFICES ASSUME Init PROVE IInv
  OBVIOUS
<1> USE DagAssumption DEF Init
<1>1. order \in Seq(registered) /\ Len(order) = 0
  OBVIOUS
<1>2. Prefix(Len(order)) = {}
  BY <1>1 DEF Prefix
<1>3. TypeOK
  BY <1>1, <1>2 DEF TypeOK, TaskState
<1>4. Closed /\ Counted /\ Ordered /\ Complete /\ Refused /\ Begun
      /\ Decided /\ Staged /\ Verdict
  BY DEF Closed, Counted, Ordered, Complete, Refused, Begun, Decided, Staged, Verdict
<1> QED BY <1>3, <1>4 DEF IInv

(* add_task forgets the verdict on the old graph.                          *)
LEMMA AddTaskKeeps ==
    ASSUME IInv, NEW t \in Task, NEW ds \in SUBSET Task, NEW c \in BOOLEAN,
           AddTask(t, ds, c)
    PROVE  IInv'
<1> USE DEF AddTask, sorting
<1>1. TypeOK'
  <2>1. /\ registered' \subseteq Task /\ registered \subseteq registered'
        /\ critical' \subseteq registered'
    BY DEF IInv, TypeOK
  <2>2. deps' \in [Task -> SUBSET Task] /\ state' \in [Task -> TaskState]
    BY DEF IInv, TypeOK, TaskState
  <2>3. order' \in Seq(registered') /\ ready' \subseteq registered' \ Prefix(Len(order))'
    BY <2>1 DEF IInv, TypeOK, Prefix
  <2>4. adds' \in 0 .. MaxAdds
    BY DagAssumption DEF IInv, TypeOK
  <2> QED BY <2>1, <2>2, <2>3, <2>4 DEF IInv, TypeOK, Prefix
<1>2. Closed'
  BY DEF IInv, Closed, TypeOK
<1>3. Counted' /\ Ordered' /\ Complete' /\ Refused' /\ Begun' /\ Decided' /\ Staged' /\ Verdict'
  BY DEF IInv, Counted, Ordered, Complete, Refused, Begun, Decided, Staged, Verdict
<1> QED BY <1>1, <1>2, <1>3 DEF IInv

(* execute sets up the tables of the sort, or refuses.                     *)
LEMMA ExecuteKeeps ==
    ASSUME IInv, Execute
    PROVE  IInv'
<1> USE DEF Execute, sorting, graph
<1>1. CASE Undefined
  <2>1. /\ pc' = "idle" /\ outcome' = "rejected" /\ runs' = runs + 1 /\ runs < MaxRuns
        /\ UNCHANGED <<registered, deps, critical, adds, state, at, failed,
                       degree, ready, order>>
    BY <1>1 DEF Reject
  <2>2. TypeOK'
    BY <2>1, DagAssumption DEF IInv, TypeOK, Prefix
  <2>3. /\ Closed' /\ Counted' /\ Ordered' /\ Complete' /\ Begun' /\ Decided'
        /\ Staged' /\ Verdict'
    BY <2>1 DEF IInv, Closed, Counted, Ordered, Complete, Begun, Decided, Staged, Verdict
  <2>4. Refused'
    BY <1>1, <2>1 DEF Refused, Undefined
  <2> QED BY <2>2, <2>3, <2>4 DEF IInv
<1>2. CASE ~Undefined
  <2>1. /\ pc' = "sorting" /\ runs' = runs + 1 /\ runs < MaxRuns
        /\ degree' = [t \in Task |-> Cardinality(deps[t])]
        /\ ready' = {t \in registered : deps[t] = {}}
        /\ order' = <<>> /\ at' = 1 /\ failed' = {}
        /\ UNCHANGED <<registered, deps, critical, adds, state, outcome>>
    BY <1>2
  <2>2. /\ Placed' = {} /\ Prefix(Len(order))' = {} /\ Len(order') = 0
        /\ order' \in Seq(registered)
    BY <2>1 DEF Placed, Prefix
  <2>3. \A t \in Task : Cardinality(deps[t]) \in Nat
    BY DagAssumption, FS_Subset, FS_CardinalityType DEF IInv, TypeOK
  <2>4. TypeOK'
    BY <2>1, <2>2, <2>3, DagAssumption DEF IInv, TypeOK
  <2>5. Closed'
    BY <1>2, <2>1 DEF IInv, Closed, Undefined
  <2>6. Counted'
    <3>1. \A u \in Task : degree'[u] = Cardinality(deps[u] \ {})
      BY <2>1
    <3>2. ready' = {u \in registered \ {} : deps[u] \subseteq {}}
      BY <2>1
    <3> QED BY <2>1, <2>2, <3>1, <3>2 DEF Counted
  <2>7. Ordered'
    BY <2>1, <2>2, FS_EmptySet DEF Ordered, Acyclic
  <2>8. Complete' /\ Begun' /\ Decided' /\ Staged' /\ Verdict'
    BY <2>1 DEF Complete, Begun, Decided, Staged, Verdict
  <2>9. Refused'
    BY <2>1 DEF IInv, Refused, Undefined, Acyclic
  <2> QED BY <2>4, <2>5, <2>6, <2>7, <2>8, <2>9 DEF IInv
<1> QED BY <1>1, <1>2

(* Kahn's step.  Placing t takes one dependency from each task that waits  *)
(* for t; one that waits for nothing else joins the queue; t itself waits  *)
(* for nothing that is placed after it, so that no cycle is placed.        *)
LEMMA PlaceKeeps ==
    ASSUME IInv, NEW t \in Task, Place(t)
    PROVE  IInv'
<1> USE DEF Place, graph
<1>1. /\ pc = "sorting" /\ t \in registered /\ t \notin Placed /\ deps[t] \subseteq Placed
      /\ ready = {u \in registered \ Placed : deps[u] \subseteq Placed}
      /\ \A u \in Task : degree[u] = Cardinality(deps[u] \ Placed)
  BY DEF IInv, Counted
<1>2. /\ order \in Seq(registered) /\ Len(order) \in Nat
      /\ Placed \subseteq registered /\ registered \subseteq Task
      /\ \A n \in 0 .. Len(order) : Prefix(n) \subseteq Placed
  BY Prefixes DEF IInv, TypeOK
<1>3. /\ order' \in Seq(registered) /\ Len(order') = Len(order) + 1
      /\ order'[Len(order) + 1] = t
      /\ \A i \in 1 .. Len(order) : order'[i] = order[i]
      /\ \A n \in 0 .. Len(order) : Prefix(n)' = Prefix(n)
      /\ Placed' = Placed \cup {t}
  BY <1>1, <1>2, Growing
<1>4. \A u \in Task :
        /\ IsFiniteSet(deps[u] \ Placed)
        /\ Cardinality(deps[u] \ Placed) \in Nat
        /\ t \in deps[u] =>
              Cardinality(deps[u] \ Placed') = Cardinality(deps[u] \ Placed) - 1
        /\ t \notin deps[u] =>
              Cardinality(deps[u] \ Placed') = Cardinality(deps[u] \ Placed)
        /\ Cardinality(deps[u] \ Placed') \in Nat
        /\ Cardinality(deps[u] \ Placed') = 0 <=> deps[u] \subseteq Placed'
  <2> TAKE u \in Task
  <2>1. deps[u] \subseteq Task
    BY DEF IInv, TypeOK
  <2>2. IsFiniteSet(deps[u] \ Placed)
    BY <2>1, DagAssumption, FS_Subset
  <2>3. deps[u] \ Placed' = (deps[u] \ Placed) \ {t}
    BY <1>3
  <2>4. t \in deps[u] \ Placed <=> t \in deps[u]
    BY <1>1
  <2>5. IsFiniteSet(deps[u] \ Placed')
    BY <2>2, <2>3, FS_RemoveElement
  <2>6. Cardinality(deps[u] \ Placed') = 0 <=> deps[u] \subseteq Placed'
    BY <2>5, FS_EmptySet
  <2>7. Cardinality(deps[u] \ Placed) \in Nat /\ Cardinality(deps[u] \ Placed') \in Nat
    BY <2>2, <2>5, FS_CardinalityType
  <2>8. Cardinality((deps[u] \ Placed) \ {t}) =
          IF t \in deps[u] \ Placed THEN Cardinality(deps[u] \ Placed) - 1
          ELSE Cardinality(deps[u] \ Placed)
    BY <2>2, FS_RemoveElement
  <2>9. /\ t \in deps[u] =>
              Cardinality(deps[u] \ Placed') = Cardinality(deps[u] \ Placed) - 1
        /\ t \notin deps[u] =>
              Cardinality(deps[u] \ Placed') = Cardinality(deps[u] \ Placed)
    BY <2>3, <2>4, <2>8
  <2> QED BY <2>2, <2>6, <2>7, <2>9
<1>5. \A u \in Task : degree'[u] = Cardinality(deps[u] \ Placed') /\ degree'[u] \in Nat
  <2> TAKE u \in Task
  <2>1. degree[u] = Cardinality(deps[u] \ Placed) /\ degree[u] \in Nat
    BY <1>1, <1>4
  <2>2. degree'[u] = degree[u] - IF t \in deps[u] THEN 1 ELSE 0
    OBVIOUS
  <2>3. CASE t \in deps[u]
    <3>1. degree'[u] = degree[u] - 1
      BY <2>2, <2>3
    <3> QED BY <1>4, <2>1, <2>3, <3>1
  <2>4. CASE t \notin deps[u]
    <3>1. degree'[u] = degree[u]
      BY <2>1, <2>2, <2>4
    <3> QED BY <1>4, <2>1, <2>4, <3>1
  <2> QED BY <2>3, <2>4
<1>6. \A u \in registered : t \in deps[u] => u \notin Placed /\ u # t
  <2> SUFFICES ASSUME NEW u \in registered, t \in deps[u], u \in Placed PROVE FALSE
    BY <1>1
  <2>1. PICK i \in 1 .. Len(order) : order[i] = u
    BY DEF Placed, Prefix
  <2>2. deps[u] \subseteq Prefix(i - 1)
    BY <1>1, <2>1 DEF IInv, Ordered
  <2>3. i - 1 \in 0 .. Len(order)
    BY <1>2, <2>1
  <2> QED BY <1>1, <1>2, <2>2, <2>3
<1>7. ready' = {u \in registered \ Placed' : deps[u] \subseteq Placed'}
  <2>1. \A u \in Task \ registered : t \notin deps[u]
    BY DEF IInv, Closed
  <2>2. \A u \in registered : u \in ready' <=> u \notin Placed' /\ deps[u] \subseteq Placed'
    <3> TAKE u \in registered
    <3>1. CASE t \in deps[u]
      <4>1. u \in ready' <=> degree[u] = 1
        BY <1>1, <1>2, <1>6, <3>1
      <4>2. degree[u] = 1 <=> Cardinality(deps[u] \ Placed') = 0
        <5>1. degree[u] = Cardinality(deps[u] \ Placed)
          BY <1>1, <1>2
        <5>2. /\ Cardinality(deps[u] \ Placed') = Cardinality(deps[u] \ Placed) - 1
              /\ Cardinality(deps[u] \ Placed) \in Nat
          BY <1>2, <1>4, <3>1
        <5> QED BY <5>1, <5>2
      <4> QED BY <1>2, <1>3, <1>4, <1>6, <3>1, <4>1, <4>2
    <3>2. CASE t \notin deps[u]
      BY <1>1, <1>3, <3>2
    <3> QED BY <3>1, <3>2
  <2> QED BY <1>1, <1>2, <2>1, <2>2
<1>8. TypeOK'
  <2>1. degree' \in [Task -> Nat]
    BY <1>5
  <2>2. Placed' = Prefix(Len(order))'
    BY DEF Placed
  <2> QED BY <1>2, <1>3, <1>7, <2>1, <2>2 DEF IInv, TypeOK, Placed
<1>9. Closed'
  BY <1>1 DEF IInv, Closed, Undefined
<1>10. Counted'
  BY <1>5, <1>7 DEF Counted
<1>11. Ordered'
  <2>1. Cardinality(Placed') = Len(order')
    <3>1. IsFiniteSet(Placed) /\ Cardinality(Placed) = Len(order)
      BY <1>1, <1>2, DagAssumption, FS_Subset DEF IInv, Ordered
    <3>2. Cardinality(Placed \cup {t}) = Cardinality(Placed) + 1
      BY <1>1, <3>1, FS_AddElement
    <3>3. Placed' = Placed \cup {t} /\ Len(order') = Len(order) + 1
      BY <1>3
    <3> HIDE DEF Place, graph
    <3> QED BY <3>1, <3>2, <3>3
  <2>2. Acyclic(Placed)'
    <3> SUFFICES ASSUME NEW S \in SUBSET Placed', S # {}
                 PROVE  \E u \in S : deps[u] \cap S = {}
      BY DEF Acyclic
    <3>1. CASE S \subseteq {t}
      BY <1>1, <3>1
    <3>2. CASE ~(S \subseteq {t})
      <4>1. PICK u \in S \ {t} : deps[u] \cap (S \ {t}) = {}
        BY <1>1, <1>3, <3>2 DEF IInv, Ordered, Acyclic
      <4>2. t \notin deps[u]
        BY <1>2, <1>3, <1>6
      <4> QED BY <4>1, <4>2
    <3> QED BY <3>1, <3>2
  <2>3. \A i \in 1 .. Len(order') :
          order'[i] \notin Prefix(i - 1)' /\ deps[order'[i]] \subseteq Prefix(i - 1)'
    <3> TAKE i \in 1 .. Len(order')
    <3>1. CASE i \in 1 .. Len(order)
      <4>1. i - 1 \in 0 .. Len(order) /\ Prefix(i - 1)' = Prefix(i - 1)
        BY <1>2, <1>3, <3>1
      <4> QED BY <1>1, <1>3, <3>1, <4>1 DEF IInv, Ordered
    <3>2. CASE i = Len(order) + 1
      <4>1. i - 1 = Len(order) /\ Prefix(Len(order)) = Placed
        BY <1>2, <3>2 DEF Placed
      <4> QED BY <1>1, <1>2, <1>3, <3>2, <4>1
    <3> QED BY <1>2, <1>3, <3>1, <3>2
  <2> QED BY <1>1, <2>1, <2>2, <2>3 DEF Ordered
<1>12. Complete' /\ Begun' /\ Decided' /\ Staged' /\ Verdict'
  BY <1>1 DEF IInv, Complete, Begun, Decided, Staged, Verdict
<1>13. Refused'
  BY DEF IInv, Refused, Undefined, Acyclic
<1> QED BY <1>8, <1>9, <1>10, <1>11, <1>12, <1>13 DEF IInv

(* The queue is empty: all is placed, or what is left waits for itself.    *)
LEMMA EndSortKeeps ==
    ASSUME IInv, EndSort
    PROVE  IInv'
<1> USE DEF EndSort, sorting, graph
<1>1. /\ pc = "sorting" /\ ready = {} /\ UNCHANGED <<registered, deps, critical, adds>>
      /\ UNCHANGED <<state, degree, ready, order, at, failed, runs>>
  BY DEF Reject
<1>2. /\ order \in Seq(registered) /\ Len(order) \in Nat /\ Placed \subseteq registered
      /\ registered \subseteq Task /\ IsFiniteSet(registered)
      /\ Cardinality(Placed) = Len(order)
      /\ \A t \in registered \ Placed : ~(deps[t] \subseteq Placed)
  BY <1>1, Prefixes, DagAssumption, FS_Subset DEF IInv, TypeOK, Counted, Ordered
<1>3. /\ Placed' = Placed
      /\ \A n \in Nat : Prefix(n)' = Prefix(n)
      /\ Prefix(Len(order))' = Prefix(Len(order))
  BY <1>1 DEF Placed, Prefix
<1>4. Closed'
  BY <1>1 DEF IInv, Closed, Undefined
<1>5. Ordered' /\ Counted'
  <2>1. pc' \in {"idle", "next"}
    BY DEF Reject
  <2>2. /\ Acyclic(Placed)' = Acyclic(Placed)
        /\ \A i \in 1 .. Len(order) : Prefix(i - 1)' = Prefix(i - 1)
    BY <1>1, <1>2, <1>3 DEF Acyclic, Prefix
  <2> QED BY <1>1, <1>2, <1>3, <2>1, <2>2 DEF IInv, Ordered, Counted
<1>6. CASE Len(order) < Cardinality(registered)
  <2>1. pc' = "idle" /\ outcome' = "rejected"
    BY <1>6 DEF Reject
  <2>2. TypeOK'
    BY <1>1, <1>3, <2>1 DEF IInv, TypeOK
  <2>3. Refused'
    <3>1. Placed # registered
      BY <1>2, <1>6
    <3>2. \A t \in registered \ Placed : deps[t] \cap (registered \ Placed) # {}
      BY <1>1, <1>2 DEF IInv, Closed, Undefined
    <3>3. ~Acyclic(registered)
      BY <1>2, <3>1, <3>2 DEF Acyclic
    <3> QED BY <1>1, <3>3 DEF Refused, Acyclic
  <2>4. Complete' /\ Begun' /\ Decided' /\ Staged' /\ Verdict'
    BY <2>1 DEF Complete, Begun, Decided, Staged, Verdict
  <2> QED BY <1>4, <1>5, <2>2, <2>3, <2>4 DEF IInv
<1>7. CASE ~(Len(order) < Cardinality(registered))
  <2>1. pc' = "next" /\ outcome' = outcome
    BY <1>7
  <2>2. TypeOK'
    BY <1>1, <1>3, <2>1 DEF IInv, TypeOK
  <2>3. Complete'
    <3>1. /\ Cardinality(Placed) <= Cardinality(registered)
          /\ Cardinality(registered) = Cardinality(Placed) => registered = Placed
          /\ Cardinality(registered) \in Nat
      BY <1>2, FS_Subset, FS_CardinalityType
    <3> QED BY <1>1, <1>2, <1>3, <1>7, <3>1 DEF Complete
  <2>4. Refused' /\ Begun' /\ Staged' /\ Verdict'
    BY <1>1, <2>1 DEF IInv, Refused, Begun, Undefined, Acyclic, Staged, Verdict
  <2>5. at = 1 /\ failed = {}
    BY <1>1 DEF IInv, Begun
  <2>6. Decided'
    <3>1. Prefix(at - 1)' = {}
      BY <1>1, <2>5 DEF Prefix
    <3> QED BY <1>1, <2>5, <3>1 DEF Decided
  <2> QED BY <1>4, <1>5, <2>2, <2>3, <2>4, <2>6 DEF IInv
<1> QED BY <1>6, <1>7

-----------------------------------------------------------------------------
(* Executing tasks leaves the graph and its order alone.                   *)
LEMMA OrderStays ==
    ASSUME IInv, pc \in {"next", "stage"}, pc' \in {"idle", "next", "stage"},
           UNCHANGED graph, UNCHANGED sorting,
           outcome' \in {outcome, "success", "failure"}
    PROVE  /\ Closed' /\ Counted' /\ Ordered' /\ Complete' /\ Refused' /\ Begun'
           /\ Prefix(Len(order))' = Prefix(Len(order))
           /\ order \in Seq(registered) /\ Len(order) \in Nat
           /\ Prefix(Len(order)) = registered /\ at \in 1 .. Len(order) + 1
           /\ \A i \in 1 .. Len(order) :
                 /\ order[i] \in registered /\ order[i] \notin Prefix(i - 1)
                 /\ deps[order[i]] \subseteq Prefix(i - 1)
                 /\ Prefix(i) = Prefix(i - 1) \cup {order[i]}
<1> USE DEF graph, sorting
<1>1. Closed' /\ Counted' /\ Refused' /\ Begun'
  BY DEF IInv, Closed, Counted, Refused, Begun, Undefined, Acyclic
<1>2. /\ Placed' = Placed /\ Acyclic(Placed)' = Acyclic(Placed)
      /\ \A i \in 1 .. Len(order) : Prefix(i - 1)' = Prefix(i - 1)
      /\ Prefix(Len(order))' = Prefix(Len(order))
  BY DEF Placed, Prefix, Acyclic
<1>3. Ordered' /\ Complete'
  BY <1>2 DEF IInv, Ordered, Complete
<1>4. /\ order \in Seq(registered) /\ Len(order) \in Nat
      /\ \A i \in 1 .. Len(order) : order[i] \in registered
  BY DEF IInv, TypeOK
<1>5. Prefix(Len(order)) = registered /\ at \in 1 .. Len(order) + 1
  BY DEF IInv, TypeOK, Complete, Placed
<1>6. \A i \in 1 .. Len(order) : Prefix(i) = Prefix(i - 1) \cup {order[i]}
  BY <1>4 DEF Prefix
<1>7. \A i \in 1 .. Len(order) :
        order[i] \notin Prefix(i - 1) /\ deps[order[i]] \subseteq Prefix(i - 1)
  BY DEF IInv, Ordered
<1> QED BY <1>1, <1>2, <1>3, <1>4, <1>5, <1>6, <1>7

(* A skipped task is not a failed one.                                     *)
LEMMA SkipKeeps ==
    ASSUME IInv, Skip
    PROVE  IInv'
<1> USE DEF Skip
<1> DEFINE t == order[at]
<1>1. /\ pc = "next" /\ pc' = "next" /\ UNCHANGED graph /\ UNCHANGED sorting
      /\ UNCHANGED <<failed, outcome, runs>>
      /\ at <= Len(order) /\ at' = at + 1 /\ deps[t] \cap failed # {}
      /\ state' = [state EXCEPT ![t] = "SKIPPED"]
  BY DEF Blocked
<1>2. /\ Closed' /\ Counted' /\ Ordered' /\ Complete' /\ Refused' /\ Begun'
      /\ Prefix(Len(order))' = Prefix(Len(order))
      /\ at \in 1 .. Len(order) /\ Len(order) \in Nat /\ t \in registered
      /\ t \notin Prefix(at - 1) /\ Prefix(at) = Prefix(at - 1) \cup {t}
  BY <1>1, OrderStays
<1>3. TypeOK'
  <2>1. state' \in [Task -> TaskState]
    BY <1>1 DEF IInv, TypeOK, TaskState
  <2>2. at' \in 1 .. Len(order) + 1
    BY <1>1, <1>2
  <2> QED BY <1>1, <1>2, <2>1, <2>2 DEF IInv, TypeOK, graph, sorting
<1>4. Decided'
  <2>1. Prefix(at - 1)' = Prefix(at - 1) \cup {t}
    <3>1. at' - 1 = at /\ order' = order
      BY <1>1, <1>2 DEF sorting
    <3> QED BY <1>2, <3>1 DEF Prefix
  <2>2. state'[t] = "SKIPPED" /\ \A u \in Prefix(at - 1) : state'[u] = state[u]
    BY <1>1, <1>2 DEF IInv, TypeOK
  <2>3. t \notin failed
    BY <1>1, <1>2 DEF IInv, Decided
  <2> QED BY <1>1, <2>1, <2>2, <2>3 DEF IInv, Decided, graph
<1>5. Staged' /\ Verdict'
  BY <1>1 DEF Staged, Verdict
<1> QED BY <1>2, <1>3, <1>4, <1>5 DEF IInv

(* A task that begins has no failed dependency.                            *)
LEMMA StartStageKeeps ==
    ASSUME IInv, StartStage
    PROVE  IInv'
<1> USE DEF StartStage
<1> DEFINE t == order[at]
<1>1. /\ pc = "next" /\ pc' = "stage" /\ UNCHANGED graph /\ UNCHANGED sorting
      /\ UNCHANGED <<at, failed, outcome, runs>>
      /\ at <= Len(order) /\ ~Blocked(t)
      /\ state' = [state EXCEPT ![t] = "RUNNING"]
  OBVIOUS
<1>2. /\ Closed' /\ Counted' /\ Ordered' /\ Complete' /\ Refused' /\ Begun'
      /\ Prefix(Len(order))' = Prefix(Len(order))
      /\ at \in 1 .. Len(order) /\ Len(order) \in Nat /\ t \in registered
      /\ t \notin Prefix(at - 1)
  BY <1>1, OrderStays
<1>3. TypeOK'
  BY <1>1, <1>2 DEF IInv, TypeOK, TaskState, graph, sorting
<1>4. Decided'
  <2>1. Prefix(at - 1)' = Prefix(at - 1)
    BY <1>1 DEF Prefix, sorting
  <2>2. \A u \in Prefix(at - 1) : state'[u] = state[u]
    BY <1>1, <1>2 DEF IInv, TypeOK
  <2> QED BY <1>1, <2>1, <2>2 DEF IInv, Decided, graph
<1>5. Staged' /\ Verdict'
  BY <1>1, <1>2 DEF Staged, Verdict, Blocked, graph, sorting
<1> QED BY <1>2, <1>3, <1>4, <1>5 DEF IInv

(* A stage ends; unless the task is critical and fails, the next is up.    *)
LEMMA StageKeeps ==
    ASSUME IInv, StageSucceeds \/ StageFails
    PROVE  IInv'
<1> DEFINE t == order[at]
<1>1. /\ pc = "stage" /\ pc' \in {"idle", "next"} /\ UNCHANGED graph /\ UNCHANGED sorting
      /\ outcome' \in {outcome, "failure"}
      /\ UNCHANGED runs /\ at' \in {at, at + 1} /\ at <= Len(order)
      /\ state' \in {[state EXCEPT ![t] = "SUCCESS"], [state EXCEPT ![t] = "FAILED"]}
      /\ failed' \in {failed, failed \cup {t}}
  BY DEF IInv, Staged, StageSucceeds, StageFails
<1>2. /\ Closed' /\ Counted' /\ Ordered' /\ Complete' /\ Refused' /\ Begun'
      /\ Prefix(Len(order))' = Prefix(Len(order))
      /\ at \in 1 .. Len(order) /\ Len(order) \in Nat /\ t \in registered
      /\ t \notin Prefix(at - 1) /\ Prefix(at) = Prefix(at - 1) \cup {t}
  BY <1>1, OrderStays
<1>3. TypeOK'
  BY <1>1, <1>2 DEF IInv, TypeOK, TaskState, graph, sorting
<1>4. \A u \in Prefix(at - 1) : state'[u] = state[u]
  <2> TAKE u \in Prefix(at - 1)
  <2>1. u # t /\ u \in Task
    BY <1>2 DEF IInv, TypeOK, Prefix
  <2>2. CASE state' = [state EXCEPT ![t] = "SUCCESS"]
    BY <2>1, <2>2 DEF IInv, TypeOK
  <2>3. CASE state' = [state EXCEPT ![t] = "FAILED"]
    BY <2>1, <2>3 DEF IInv, TypeOK
  <2> QED BY <1>1, <2>2, <2>3
<1>5. at' = at + 1 => Prefix(at - 1)' = Prefix(at - 1) \cup {t}
  <2>1. order' = order
    BY <1>1 DEF sorting
  <2>2. at' = at + 1 => at' - 1 = at
    BY <1>2
  <2> QED BY <1>2, <2>1, <2>2 DEF Prefix
<1>6. t \notin failed /\ failed \subseteq Prefix(at - 1)
  BY <1>1, <1>2 DEF IInv, Decided
<1>7. Staged'
  BY <1>1 DEF Staged
<1>8. CASE StageSucceeds
  <2>1. pc' = "next" /\ at' = at + 1 /\ failed' = failed /\ state'[t] = "SUCCESS"
    BY <1>2, <1>8 DEF StageSucceeds, IInv, TypeOK
  <2>2. Decided' /\ Verdict'
    BY <1>1, <1>4, <1>5, <1>6, <2>1 DEF IInv, Decided, Verdict, graph
  <2> QED BY <1>2, <1>3, <1>7, <2>2 DEF IInv
<1>9. CASE StageFails /\ t \notin critical
  <2>1. /\ pc' = "next" /\ at' = at + 1 /\ failed' = failed \cup {t}
        /\ state'[t] = "FAILED"
    BY <1>2, <1>9 DEF StageFails, IInv, TypeOK
  <2>2. \A u \in Prefix(at - 1) : u # t
    BY <1>2
  <2>3. Decided' /\ Verdict'
    BY <1>1, <1>4, <1>5, <1>6, <1>9, <2>1, <2>2 DEF IInv, Decided, Verdict, graph
  <2> QED BY <1>2, <1>3, <1>7, <2>3 DEF IInv
<1>10. CASE StageFails /\ t \in critical
  <2>1. pc' = "idle" /\ at' = at /\ outcome' = "failure" /\ state'[t] = "FAILED"
    BY <1>2, <1>10 DEF StageFails, IInv, TypeOK
  <2>2. order' = order /\ critical' = critical /\ Prefix(at - 1)' = Prefix(at - 1)
    BY <1>1, <2>1 DEF graph, sorting, Prefix
  <2>3. \A u \in Prefix(at - 1) \cap critical : state'[u] # "FAILED"
    BY <1>1, <1>4 DEF IInv, Decided
  <2>4. Decided' /\ Verdict'
    BY <1>10, <2>1, <2>2, <2>3 DEF Decided, Verdict
  <2> QED BY <1>2, <1>3, <1>7, <2>4 DEF IInv
<1> QED BY <1>8, <1>9, <1>10

(* Every task is decided when the execution reports success.               *)
LEMMA FinishKeeps ==
    ASSUME IInv, Finish
    PROVE  IInv'
<1> USE DEF Finish
<1>1. /\ pc = "next" /\ pc' = "idle" /\ UNCHANGED graph /\ UNCHANGED sorting
      /\ outcome' = "success" /\ UNCHANGED <<state, at, failed, runs>>
      /\ at > Len(order)
  OBVIOUS
<1>2. /\ Closed' /\ Counted' /\ Ordered' /\ Complete' /\ Refused' /\ Begun'
      /\ Prefix(Len(order))' = Prefix(Len(order)) /\ Len(order) \in Nat
      /\ Prefix(Len(order)) = registered /\ at \in 1 .. Len(order) + 1
  BY <1>1, OrderStays
<1>3. TypeOK'
  BY <1>1, <1>2 DEF IInv, TypeOK, graph, sorting
<1>4. Verdict'
  <2>1. Prefix(at - 1) = registered
    <3>1. at - 1 = Len(order)
      BY <1>1, <1>2
    <3> QED BY <1>2, <3>1
  <2>2. \A u \in failed : state[u] = "FAILED"
    BY <1>1 DEF IInv, Decided
  <2> QED BY <1>1, <2>1, <2>2 DEF IInv, Decided, Verdict, graph
<1>5. Decided' /\ Staged'
  BY <1>1 DEF Decided, Staged
<1> QED BY <1>2, <1>3, <1>4, <1>5 DEF IInv

-----------------------------------------------------------------------------
(* Every step keeps the invariant.                                         *)
LEMMA StepIInv == IInv /\ [Next]_vars => IInv'
<1> SUFFICES ASSUME IInv, [Next]_vars PROVE IInv'
  OBVIOUS
<1>1. ASSUME NEW t \in Task, NEW ds \in SUBSET Task, NEW c \in BOOLEAN, AddTask(t, ds, c)
      PROVE  IInv'
  BY <1>1, AddTaskKeeps
<1>2. CASE Execute
  BY <1>2, ExecuteKeeps
<1>3. CASE Proceed
  <2>1. ASSUME NEW t \in Task, Place(t) PROVE IInv'
    BY <2>1, PlaceKeeps
  <2>2. CASE EndSort
    BY <2>2, EndSortKeeps
  <2>3. CASE Skip
    BY <2>3, SkipKeeps
  <2>4. CASE StartStage
    BY <2>4, StartStageKeeps
  <2>5. CASE StageSucceeds \/ StageFails
    BY <2>5, StageKeeps
  <2>6. CASE Finish
    BY <2>6, FinishKeeps
  <2> QED BY <1>3, <2>1, <2>2, <2>3, <2>4, <2>5, <2>6 DEF Proceed, Executor
<1>4. CASE UNCHANGED vars
  <2>1. UNCHANGED <<registered, deps, critical, state, pc, degree, ready, order, at,
                   failed, outcome, adds, runs>>
    BY <1>4 DEF vars
  <2>2. TypeOK'
    BY <2>1 DEF IInv, TypeOK, Prefix
  <2>3. Placed' = Placed /\ Acyclic(Placed)' = Acyclic(Placed)
        /\ Acyclic(registered)' = Acyclic(registered) /\ Undefined' = Undefined
        /\ \A i \in 1 .. Len(order) : Prefix(i - 1)' = Prefix(i - 1)
    BY <2>1 DEF Placed, Prefix, Acyclic, Undefined
  <2>4. Closed' /\ Counted' /\ Complete' /\ Refused' /\ Begun'
    BY <2>1, <2>3 DEF IInv, Closed, Counted, Complete, Refused, Begun
  <2>5. Ordered'
    BY <2>1, <2>3 DEF IInv, Ordered
  <2>6. Decided' /\ Staged' /\ Verdict'
    BY <2>1 DEF IInv, Decided, Staged, Verdict, Prefix, Blocked
  <2> QED BY <2>2, <2>4, <2>5, <2>6 DEF IInv
<1> QED BY <1>1, <1>2, <1>3, <1>4 DEF Next

(* The invariant holds in every behaviour.                                 *)
LEMMA Invariance == Spec => []IInv
<1>1. Init => IInv
  BY InitIInv
<1>2. IInv /\ [Next]_vars => IInv'
  BY StepIInv
<1> QED BY <1>1, <1>2, PTL DEF Spec

(* Types.                                                                  *)
THEOREM DagTypes == Spec => []TypeOK
<1>1. IInv => TypeOK
  BY DEF IInv
<1> QED BY <1>1, Invariance, PTL

(* A task is executed at most once in an execution, and after what it      *)
(* depends on has succeeded or been skipped in it.                         *)
THEOREM SafeOrder == Spec => []DependenciesFirst
<1>1. IInv => DependenciesFirst
  <2> SUFFICES ASSUME IInv, pc = "stage"
               PROVE  /\ order[at] \notin Prefix(at - 1)
                      /\ \A d \in deps[order[at]] :
                            d \in Prefix(at - 1) /\ state[d] \in {"SUCCESS", "SKIPPED"}
    BY DEF DependenciesFirst
  <2>1. at \in 1 .. Len(order) /\ deps[order[at]] \cap failed = {}
    BY DEF IInv, TypeOK, Staged, Blocked
  <2>2. order[at] \notin Prefix(at - 1) /\ deps[order[at]] \subseteq Prefix(at - 1)
    BY <2>1 DEF IInv, Ordered
  <2> QED BY <2>1, <2>2 DEF IInv, Decided
<1> QED BY <1>1, Invariance, PTL

(* Kahn's algorithm is right about every graph.                            *)
THEOREM SafeRefusals == Spec => []RefusedRightly
<1>1. IInv => RefusedRightly
  <2> SUFFICES ASSUME IInv PROVE RefusedRightly
    OBVIOUS
  <2>1. pc \in {"next", "stage"} =>
          ~Undefined /\ Acyclic(registered) /\ Prefix(Len(order)) = registered
    BY DEF IInv, Closed, Ordered, Complete, Placed
  <2> QED BY <2>1 DEF IInv, Refused, RefusedRightly
<1> QED BY <1>1, Invariance, PTL

(* A verdict is fail-closed.                                               *)
THEOREM SafeVerdict == Spec => []Verdict
<1>1. IInv => Verdict
  BY DEF IInv
<1> QED BY <1>1, Invariance, PTL

(* What the count of the steps left speaks of: there are as many tasks as  *)
(* places, and the current task is one of them.                            *)
LEMMA Sizes ==
    ASSUME IInv
    PROVE  /\ Cardinality(registered) \in Nat /\ Len(order) \in Nat
           /\ at \in 1 .. Len(order) + 1
           /\ pc # "idle" => Len(order) <= Cardinality(registered)
           /\ pc \in {"next", "stage"} => Len(order) = Cardinality(registered)
           /\ pc = "stage" => at <= Len(order)
           /\ pc \in {"idle", "sorting", "next", "stage"}
<1>1. /\ order \in Seq(registered) /\ registered \subseteq Task /\ at \in 1 .. Len(order) + 1
      /\ pc \in {"idle", "sorting", "next", "stage"}
  BY DEF IInv, TypeOK
<1>2. Len(order) \in Nat /\ Placed \subseteq registered /\ IsFiniteSet(registered)
  BY <1>1, Prefixes, DagAssumption, FS_Subset
<1>3. /\ Cardinality(registered) \in Nat
      /\ Cardinality(Placed) <= Cardinality(registered)
  BY <1>2, FS_Subset, FS_CardinalityType
<1>4. pc # "idle" => Cardinality(Placed) = Len(order)
  BY DEF IInv, Ordered
<1>5. pc \in {"next", "stage"} => Placed = registered
  BY DEF IInv, Complete
<1>6. pc = "stage" => at <= Len(order)
  BY DEF IInv, Staged
<1> QED BY <1>1, <1>2, <1>3, <1>4, <1>5, <1>6

(* The steps left are a natural number, at most three for a task and two.  *)
LEMMA StepsLeftBounded ==
    ASSUME IInv
    PROVE  StepsLeft \in 0 .. 3 * Cardinality(registered) + 2
<1>1. PICK n \in Nat, l \in Nat : n = Cardinality(registered) /\ l = Len(order)
  BY Sizes
<1>2. /\ at \in 1 .. l + 1
      /\ pc # "idle" => l <= n
      /\ pc = "stage" => at <= l
  BY <1>1, Sizes
<1>3. StepsLeft = IF pc = "sorting" THEN 3 * n - l + 2
                  ELSE IF pc = "next" THEN 2 * (l + 1 - at) + 1
                  ELSE IF pc = "stage" THEN 2 * (l + 1 - at) ELSE 0
  BY <1>1 DEF StepsLeft
<1>4. StepsLeft \in 0 .. 3 * n + 2
  BY <1>2, <1>3
<1> QED BY <1>1, <1>4

(* Each step of an execution leaves fewer.                                 *)
LEMMA ProceedShrinks ==
    ASSUME IInv, Proceed
    PROVE  StepsLeft' < StepsLeft
<1> USE DEF sorting, graph
<1>1. PICK n \in Nat, l \in Nat : n = Cardinality(registered) /\ l = Len(order)
  BY Sizes
<1>2. /\ at \in 1 .. l + 1
      /\ pc # "idle" => l <= n
      /\ pc \in {"next", "stage"} => l = n
      /\ pc = "stage" => at <= l
  BY <1>1, Sizes
<1>3. StepsLeft = IF pc = "sorting" THEN 3 * n - l + 2
                  ELSE IF pc = "next" THEN 2 * (l + 1 - at) + 1
                  ELSE IF pc = "stage" THEN 2 * (l + 1 - at) ELSE 0
  BY <1>1 DEF StepsLeft
<1>4. ASSUME registered' = registered, order' = order
      PROVE  StepsLeft' = IF pc' = "sorting" THEN 3 * n - l + 2
                          ELSE IF pc' = "next" THEN 2 * (l + 1 - at') + 1
                          ELSE IF pc' = "stage" THEN 2 * (l + 1 - at') ELSE 0
  BY <1>1, <1>4 DEF StepsLeft
<1>5. ASSUME NEW t \in Task, Place(t) PROVE StepsLeft' < StepsLeft
  <2>1. pc = "sorting" /\ pc' = "sorting" /\ order' = Append(order, t) /\ registered' = registered
    BY <1>5 DEF Place
  <2>2. Len(order') = l + 1
    BY <1>1, <2>1 DEF IInv, TypeOK
  <2>3. StepsLeft' = 3 * n - (l + 1) + 2
    BY <1>1, <2>1, <2>2 DEF StepsLeft
  <2> QED BY <1>3, <2>1, <2>3
<1>6. CASE EndSort
  <2>1. /\ pc = "sorting" /\ pc' \in {"idle", "next"}
        /\ UNCHANGED <<registered, order, at>>
    BY <1>6 DEF EndSort, Reject
  <2>2. at = 1
    BY <2>1 DEF IInv, Begun
  <2> QED BY <1>2, <1>3, <1>4, <2>1, <2>2
<1>7. CASE Skip
  <2>1. /\ pc = "next" /\ pc' = "next" /\ at' = at + 1
        /\ UNCHANGED <<registered, order>>
    BY <1>7 DEF Skip
  <2> QED BY <1>2, <1>3, <1>4, <2>1
<1>8. CASE StartStage
  <2>1. /\ pc = "next" /\ pc' = "stage" /\ at' = at
        /\ UNCHANGED <<registered, order>>
    BY <1>8 DEF StartStage
  <2> QED BY <1>2, <1>3, <1>4, <2>1
<1>9. CASE StageSucceeds \/ StageFails
  <2>1. /\ pc = "stage" /\ (pc' = "idle" \/ (pc' = "next" /\ at' = at + 1))
        /\ UNCHANGED <<registered, order>>
    BY <1>9 DEF StageSucceeds, StageFails
  <2> QED BY <1>2, <1>3, <1>4, <2>1
<1>10. CASE Finish
  <2>1. /\ pc = "next" /\ pc' = "idle" /\ UNCHANGED <<registered, order>>
    BY <1>10 DEF Finish
  <2> QED BY <1>2, <1>3, <1>4, <2>1
<1> QED BY <1>5, <1>6, <1>7, <1>8, <1>9, <1>10 DEF Proceed, Executor

(* An execution of n tasks takes at most 3n + 2 steps, and every one it    *)
(* takes is one fewer to go, for any graph and any outcomes: the loops of  *)
(* _resolve_execution_order and execute end.                               *)
THEOREM ExecutionBounded == Spec => ExecutionShrinks
<1>1. IInv => StepsLeft \in 0 .. 3 * Cardinality(registered) + 2
  BY StepsLeftBounded
<1>2. IInv /\ [Next]_vars => [pc # "idle" => StepsLeft' < StepsLeft]_vars
  <2> SUFFICES ASSUME IInv, Next, pc # "idle" PROVE StepsLeft' < StepsLeft
    OBVIOUS
  <2>1. Proceed
    BY DEF Next, AddTask, Execute
  <2> QED BY <2>1, ProceedShrinks
<1> QED BY <1>1, <1>2, Invariance, PTL DEF Spec, ExecutionShrinks
=============================================================================
