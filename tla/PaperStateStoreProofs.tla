------------------------ MODULE PaperStateStoreProofs ------------------------
(***************************************************************************)
(* Proofs about the buffered store: for any buffer size and any number of  *)
(* statements, failing flushes, exits and crashes, what is issued is never *)
(* dropped, is last to write where it was issued last, and audit rows are  *)
(* not repeated without a failure.                                         *)
(***************************************************************************)
EXTENDS PaperStateStore, TLAPS

(* A thread that is not flushing has no batch, and a process that is down  *)
(* has nothing in memory.                                                  *)
Idle ==
    /\ \A th \in Thread : pc[th] # "flushing" => batch[th] = <<>>
    /\ process = "down" =>
           epoch = Len(log) /\ buffer = <<>> /\ \A th \in Thread : pc[th] = "idle"

(* What a thread has gone through of its batch is durable.                 *)
Progress == \A th \in Thread : \A i \in 1 .. pos[th] : batch[th][i] \in executed

(* Without overlapping flushes, the batch of the one flush and the buffer  *)
(* behind it are the last statements of the log, in order.                 *)
Consecutive ==
    ~overlapped =>
        /\ \A i \in DOMAIN buffer : buffer[i] = Len(log) - Len(buffer) + i
        /\ \A th \in Thread : pc[th] = "flushing" =>
               /\ \A o \in Thread : pc[o] = "flushing" => o = th
               /\ \A i \in DOMAIN batch[th] :
                      batch[th][i] = Len(log) - Len(buffer) - Len(batch[th]) + i

LastWrite(n, t) == n \in WritesOf(t) /\ \A m \in WritesOf(t) : m <= n

(* The last write of a table is in it, or is still to be executed.         *)
Applied ==
    ~overlapped =>
        \A t \in Table : \A n \in Issued :
            LastWrite(n, t) /\ n <= Reached => db[t] = log[n].value

(* An audit statement's value is its number.                               *)
Numbered ==
    /\ \A n \in Issued : log[n].table = Audit => log[n].value = n
    /\ \A i \in DOMAIN todo : todo[i].table = Audit =>
           i = 1 /\ Len(todo) = 1 /\ todo[i].value = Len(log) + 1

(* Without failures, each statement is in one place: the buffer, the rest  *)
(* of one batch, or executed; the audit rows are executed statements.      *)
InOnePlace ==
    /\ \A i, j \in DOMAIN buffer : buffer[i] = buffer[j] => i = j
    /\ \A i \in DOMAIN buffer : buffer[i] \notin executed
    /\ \A th \in Thread :
           /\ \A i, j \in DOMAIN batch[th] : batch[th][i] = batch[th][j] => i = j
           /\ \A i \in DOMAIN batch[th] : i > pos[th] => batch[th][i] \notin executed
           /\ \A i \in DOMAIN batch[th], j \in DOMAIN buffer : batch[th][i] # buffer[j]
           /\ \A o \in Thread \ {th} :
                  \A i \in DOMAIN batch[th], j \in DOMAIN batch[o] : batch[th][i] # batch[o][j]
    /\ \A i \in DOMAIN audit : audit[i] \in executed
    /\ \A i, j \in DOMAIN audit : audit[i] = audit[j] => i = j

Once == failures = 0 => InOnePlace

-----------------------------------------------------------------------------
(* A sequence over a set is one over any larger set.                       *)
LEMMA LargerSeq ==
  ASSUME NEW S, NEW T, S \subseteq T, NEW s \in Seq(S)
  PROVE  s \in Seq(T)
<1>1. s \in [1 .. Len(s) -> S] /\ Len(s) \in Nat
  OBVIOUS
<1>2. s \in [1 .. Len(s) -> T]
  BY <1>1
<1>. QED  BY <1>1, <1>2

(* The statements of a call are statements.                                *)
LEMMA CallStatements ==
  ASSUME NEW v \in Nat
  PROVE  /\ SavePortfolio(v) \in Seq(Statement)
         /\ SetConfig(v) \in Seq(Statement)
         /\ AppendAudit(v) \in Seq(Statement)
<1>1. [table |-> "portfolio_state", value |-> v] \in Statement
  BY DEF Statement, Table
<1>2. [table |-> "positions", value |-> 0] \in Statement
  BY DEF Statement, Table
<1>3. [table |-> "positions", value |-> v] \in Statement
  BY DEF Statement, Table
<1>4. [table |-> "config", value |-> v] \in Statement
  BY DEF Statement, Table
<1>5. [table |-> Audit, value |-> v] \in Statement
  BY DEF Statement
<1>. QED  BY <1>1, <1>2, <1>3, <1>4, <1>5 DEF SavePortfolio, SetConfig, AppendAudit

(* The type invariant holds at first.                                      *)
LEMMA InitTypes == Init => TypeOK
<1>. SUFFICES ASSUME Init PROVE TypeOK
  OBVIOUS
<1>1. /\ <<>> \in Seq(Statement) /\ <<>> \in Seq(Issued) /\ <<>> \in Seq(Nat)
      /\ Len(<<>>) = 0
  OBVIOUS
<1>2. log \in Seq(Statement) /\ todo \in Seq(Statement) /\ buffer \in Seq(Issued)
  BY <1>1 DEF Init
<1>3. batch \in [Thread -> Seq(Issued)] /\ pos \in [Thread -> Nat]
  BY <1>1 DEF Init
<1>4. \A th \in Thread : pos[th] <= Len(batch[th])
  BY <1>1 DEF Init
<1>5. pc \in [Thread -> {"idle", "full", "flushing"}] /\ db \in [Table -> Nat]
  BY DEF Init
<1>6. /\ audit \in Seq(Nat) /\ process \in {"up", "exiting", "down"}
      /\ executed \subseteq Issued /\ epoch \in Nat /\ failures \in Nat /\ stops \in Nat
  BY <1>1 DEF Init
<1>7. epoch <= Len(log)
  BY <1>1 DEF Init
<1>8. overlapped \in BOOLEAN
  BY DEF Init
<1>. QED  BY <1>2, <1>3, <1>4, <1>5, <1>6, <1>7, <1>8 DEF TypeOK

(* Appending a statement to the log.                                       *)
LEMMA WriteTypes == TypeOK /\ BufferedWrite => TypeOK'
<1>. SUFFICES ASSUME TypeOK, BufferedWrite PROVE TypeOK'
  OBVIOUS
<1>1. Head(todo) \in Statement /\ Tail(todo) \in Seq(Statement)
  BY DEF TypeOK, BufferedWrite
<1>2. /\ log' \in Seq(Statement) /\ Len(log') = Len(log) + 1
      /\ Len(log) \in Nat /\ todo' \in Seq(Statement)
  BY <1>1 DEF TypeOK, BufferedWrite
<1>3. Issued \subseteq Issued' /\ Len(log) + 1 \in Issued'
  BY <1>2 DEF Issued
<1>4. buffer' \in Seq(Issued')
  <2>1. buffer \in Seq(Issued')
    BY <1>3, LargerSeq DEF TypeOK
  <2>. QED  BY <2>1, <1>3 DEF BufferedWrite
<1>5. batch' \in [Thread -> Seq(Issued')]
  <2>1. \A th \in Thread : batch[th] \in Seq(Issued')
    BY <1>3, LargerSeq DEF TypeOK
  <2>2. batch' = batch /\ batch \in [Thread -> Seq(Issued)]
    BY DEF TypeOK, BufferedWrite
  <2>. QED  BY <2>1, <2>2
<1>6. pc' \in [Thread -> {"idle", "full", "flushing"}]
  BY DEF TypeOK, BufferedWrite, Thread
<1>7. epoch' \in Nat /\ epoch' <= Len(log') /\ executed' \subseteq Issued'
  BY <1>2, <1>3 DEF TypeOK, BufferedWrite
<1>8. UNCHANGED <<pos, batch, db, audit, process, overlapped, failures, stops>>
  BY DEF BufferedWrite
<1>9. /\ pos' \in [Thread -> Nat] /\ \A th \in Thread : pos'[th] <= Len(batch'[th])
      /\ db' \in [Table -> Nat] /\ audit' \in Seq(Nat)
      /\ process' \in {"up", "exiting", "down"}
      /\ overlapped' \in BOOLEAN /\ failures' \in Nat /\ stops' \in Nat
  BY <1>8 DEF TypeOK
<1>. QED  BY <1>2, <1>4, <1>5, <1>6, <1>7, <1>9 DEF TypeOK

(* A flush: taking a batch, executing it, finishing or failing.            *)
LEMMA FlushTypes ==
  ASSUME TypeOK, NEW th \in Thread, Flush(th) \/ FailFlush(th)
  PROVE  TypeOK'
<1>1. CASE TakeBatch(th)
  <2>1. UNCHANGED <<log, todo, db, audit, process, executed, epoch, failures, stops>>
    BY <1>1 DEF TakeBatch
  <2>2. buffer' \in Seq(Issued')
    BY <1>1 DEF TakeBatch, TypeOK
  <2>3. Issued' = Issued
    BY <2>1 DEF Issued
  <2>4. batch' \in [Thread -> Seq(Issued)] /\ pos' \in [Thread -> Nat]
    <3>1. CASE buffer = <<>>
      BY <1>1, <3>1 DEF TakeBatch, TypeOK
    <3>2. CASE buffer # <<>>
      <4>1. /\ batch' = [batch EXCEPT ![th] = buffer]
            /\ pos' = [pos EXCEPT ![th] = 0]
        BY <1>1, <3>2 DEF TakeBatch
      <4>. QED  BY <4>1 DEF TypeOK
    <3>. QED  BY <3>1, <3>2
  <2>5. \A o \in Thread : pos'[o] <= Len(batch'[o])
    BY <1>1 DEF TakeBatch, TypeOK
  <2>6. pc' \in [Thread -> {"idle", "full", "flushing"}] /\ overlapped' \in BOOLEAN
    BY <1>1 DEF TakeBatch, TypeOK
  <2>. QED  BY <2>1, <2>2, <2>3, <2>4, <2>5, <2>6 DEF TypeOK
<1>2. CASE Execute(th)
  <2>1. UNCHANGED <<log, todo, buffer, pc, batch, process, epoch, overlapped, failures, stops>>
    BY <1>2 DEF Execute
  <2>2. /\ batch[th] \in Seq(Issued) /\ pos[th] \in Nat /\ pos[th] < Len(batch[th])
        /\ log \in Seq(Statement)
    BY <1>2 DEF Execute, TypeOK
  <2>3. batch[th][pos[th] + 1] \in Issued
    BY <2>2
  <2>4. log[batch[th][pos[th] + 1]] \in Statement
    BY <2>2, <2>3 DEF Issued
  <2>5. /\ log[batch[th][pos[th] + 1]].value \in Nat
        /\ log[batch[th][pos[th] + 1]].table \in Table \cup {Audit}
    BY <2>4 DEF Statement
  <2>6. db' \in [Table -> Nat] /\ audit' \in Seq(Nat) /\ executed' \subseteq Issued
    <3>. DEFINE n == batch[th][pos[th] + 1]
    <3>1. executed' = executed \cup {n}
      BY <1>2 DEF Execute
    <3>2. CASE log[n].table = Audit
      <4>1. audit' = Append(audit, log[n].value) /\ db' = db
        BY <1>2, <3>2 DEF Execute
      <4>2. audit' \in Seq(Nat)
        BY <2>5, <4>1 DEF TypeOK
      <4>. QED  BY <2>3, <3>1, <4>1, <4>2 DEF TypeOK
    <3>3. CASE log[n].table # Audit
      <4>1. db' = [db EXCEPT ![log[n].table] = log[n].value] /\ audit' = audit
        BY <1>2, <3>3 DEF Execute
      <4>. QED  BY <2>3, <2>5, <3>1, <3>3, <4>1 DEF TypeOK
    <3>. QED  BY <3>2, <3>3
  <2>7. pos' \in [Thread -> Nat] /\ \A o \in Thread : pos'[o] <= Len(batch[o])
    BY <1>2, <2>2 DEF Execute, TypeOK
  <2>8. Issued' = Issued
    BY <2>1 DEF Issued
  <2>. QED  BY <2>1, <2>6, <2>7, <2>8 DEF TypeOK
<1>3. ASSUME Done(th)
      PROVE  /\ pc' \in [Thread -> {"idle", "full", "flushing"}]
             /\ batch' \in [Thread -> Seq(Issued)] /\ pos' \in [Thread -> Nat]
             /\ \A o \in Thread : pos'[o] <= Len(batch'[o])
  BY <1>3 DEF Done, TypeOK
<1>4. CASE FinishFlush(th)
  BY <1>3, <1>4 DEF FinishFlush, TypeOK, Issued
<1>5. CASE FailFlush(th)
  <2>1. UNCHANGED <<log, todo, db, audit, process, executed, epoch, overlapped, stops>>
    BY <1>5 DEF FailFlush
  <2>2. Issued' = Issued
    BY <2>1 DEF Issued
  <2>3. buffer' \in Seq(Issued) /\ failures' \in Nat
    BY <1>5 DEF FailFlush, TypeOK
  <2>. QED  BY <1>3, <1>5, <2>1, <2>2, <2>3 DEF FailFlush, TypeOK
<1>. QED  BY <1>1, <1>2, <1>4, <1>5 DEF Flush

(* Calls, exits, crashes and starts.                                       *)
LEMMA LifeTypes ==
  ASSUME TypeOK, Call \/ BeginExit \/ FinishExit \/ Crash \/ Start \/ UNCHANGED vars
  PROVE  TypeOK'
<1>1. CASE Call
  <2>1. Len(log) + 1 \in Nat
    BY DEF TypeOK
  <2>2. todo' \in Seq(Statement)
    BY <1>1, <2>1, CallStatements DEF Call
  <2>. QED  BY <1>1, <2>2 DEF Call, TypeOK, Issued
<1>2. CASE BeginExit
  BY <1>2 DEF BeginExit, TypeOK, Issued
<1>3. CASE Stop
  BY <1>3 DEF Stop, TypeOK, Issued
<1>4. CASE Start
  BY <1>4 DEF Start, TypeOK, Issued
<1>5. CASE UNCHANGED vars
  BY <1>5 DEF vars, TypeOK, Issued
<1>. QED  BY <1>1, <1>2, <1>3, <1>4, <1>5 DEF FinishExit, Crash

(* Every step keeps the type invariant.                                    *)
LEMMA NextTypes == TypeOK /\ [Next]_vars => TypeOK'
  BY WriteTypes, FlushTypes, LifeTypes DEF Next

(* The buffer, the batches and the tables stay well formed.                *)
THEOREM StoreTypes == Spec => []TypeOK
  BY InitTypes, NextTypes, PTL DEF Spec

-----------------------------------------------------------------------------
(* The elements of a sequence that is appended to ...                      *)
LEMMA AppendElements ==
  ASSUME NEW S, NEW s \in Seq(S), NEW x \in S
  PROVE  Range(s) \subseteq Range(Append(s, x)) /\ x \in Range(Append(s, x))
<1>1. x = Append(s, x)[Len(s) + 1] /\ Len(s) + 1 \in DOMAIN Append(s, x)
  OBVIOUS
<1>2. \A i \in DOMAIN s : i \in DOMAIN Append(s, x) /\ Append(s, x)[i] = s[i]
  OBVIOUS
<1>3. x \in Range(Append(s, x))
  BY <1>1 DEF Range
<1>4. ASSUME NEW y \in Range(s) PROVE y \in Range(Append(s, x))
  <2>1. PICK i \in DOMAIN s : y = s[i]
    BY DEF Range
  <2>2. i \in DOMAIN Append(s, x) /\ Append(s, x)[i] = y
    BY <2>1, <1>2
  <2>. QED  BY <2>2, Zenon DEF Range
<1>. QED  BY <1>3, <1>4

(* ... and of one that is put in front of another.                         *)
LEMMA Joined ==
  ASSUME NEW S, NEW s \in Seq(S), NEW t \in Seq(S)
  PROVE  /\ s \o t \in Seq(S) /\ Len(s \o t) = Len(s) + Len(t)
         /\ \A i \in 1 .. Len(s) : (s \o t)[i] = s[i]
         /\ \A i \in 1 .. Len(t) : (s \o t)[Len(s) + i] = t[i]
<1>1. s \o t \in Seq(S) /\ Len(s \o t) = Len(s) + Len(t)
  OBVIOUS
<1>2. \A i \in 1 .. Len(s) : (s \o t)[i] = s[i]
  OBVIOUS
<1>3. \A i \in 1 .. Len(t) : (s \o t)[Len(s) + i] = t[i]
  OBVIOUS
<1>. QED  BY <1>1, <1>2, <1>3

(* Joining two sequences drops no element of either.                       *)
LEMMA JoinedElements ==
  ASSUME NEW S, NEW s \in Seq(S), NEW t \in Seq(S)
  PROVE  Range(s) \cup Range(t) \subseteq Range(s \o t)
<1>1. \A i \in DOMAIN s : i \in DOMAIN (s \o t) /\ (s \o t)[i] = s[i]
  OBVIOUS
<1>2. \A i \in DOMAIN t : Len(s) + i \in DOMAIN (s \o t) /\ (s \o t)[Len(s) + i] = t[i]
  OBVIOUS
<1>3. ASSUME NEW y \in Range(s) PROVE y \in Range(s \o t)
  <2>1. PICK i \in DOMAIN s : y = s[i]
    BY DEF Range
  <2>2. i \in DOMAIN (s \o t) /\ (s \o t)[i] = y
    BY <2>1, <1>1
  <2>. QED  BY <2>2, Zenon DEF Range
<1>4. ASSUME NEW y \in Range(t) PROVE y \in Range(s \o t)
  <2>1. PICK i \in DOMAIN t : y = t[i]
    BY DEF Range
  <2>2. Len(s) + i \in DOMAIN (s \o t) /\ (s \o t)[Len(s) + i] = y
    BY <2>1, <1>2
  <2>. QED  BY <2>2, Zenon DEF Range
<1>. QED  BY <1>3, <1>4

(* Only a flushing thread has a batch.                                     *)
LEMMA IdleStep ==
  ASSUME TypeOK, Idle, [Next]_vars
  PROVE  Idle'
<1>1. CASE Call
  BY <1>1 DEF Call, Idle
<1>2. CASE BufferedWrite
  <2>1. process' # "down" /\ batch' = batch
    BY <1>2 DEF BufferedWrite
  <2>2. \A th \in Thread : pc'[th] # "flushing" => pc[th] # "flushing"
    BY <1>2 DEF BufferedWrite, TypeOK
  <2>. QED  BY <2>1, <2>2 DEF Idle
<1>3. ASSUME NEW th \in Thread, Flush(th) \/ FailFlush(th)
      PROVE  Idle'
  <2>1. process' # "down"
    BY <1>3 DEF Flush, FailFlush, TakeBatch, Execute, FinishFlush
  <2>2. CASE TakeBatch(th)
    BY <2>1, <2>2 DEF TakeBatch, Idle, TypeOK
  <2>3. CASE Execute(th)
    BY <2>1, <2>3 DEF Execute, Idle
  <2>4. CASE Done(th)
    BY <2>1, <2>4 DEF Done, Idle, TypeOK
  <2>. QED  BY <1>3, <2>2, <2>3, <2>4 DEF Flush, FinishFlush, FailFlush
<1>4. CASE BeginExit
  BY <1>4 DEF BeginExit, Idle, TypeOK
<1>5. CASE Stop
  BY <1>5 DEF Stop, Idle
<1>6. CASE Start
  BY <1>6 DEF Start, Idle
<1>7. CASE UNCHANGED vars
  BY <1>7 DEF vars, Idle
<1>. QED  BY <1>1, <1>2, <1>3, <1>4, <1>5, <1>6, <1>7 DEF Next, FinishExit, Crash

(* No step lets a statement fall out, nor a batch get ahead of what is     *)
(* durable.                                                                *)
LEMMA HeldStep ==
  ASSUME TypeOK, Idle, Progress, NothingDropped, [Next]_vars
  PROVE  Progress' /\ NothingDropped'
<1>1. CASE Call
  BY <1>1 DEF Call, Progress, NothingDropped, Issued
<1>2. CASE BufferedWrite
  <2>1. /\ UNCHANGED <<batch, pos, executed, epoch>>
        /\ buffer' = Append(buffer, Len(log) + 1)
        /\ Issued' = Issued \cup {Len(log) + 1}
    BY <1>2 DEF BufferedWrite, TypeOK, Issued
  <2>2. buffer \in Seq(Nat) /\ Len(log) + 1 \in Nat
    BY LargerSeq DEF TypeOK, Issued
  <2>3. Range(buffer) \subseteq Range(buffer') /\ Len(log) + 1 \in Range(buffer')
    BY <2>1, <2>2, AppendElements
  <2>4. \A n \in Issued' : n \in Issued \/ n \in Range(buffer')
    BY <2>1, <2>3
  <2>. QED  BY <2>1, <2>3, <2>4 DEF Progress, NothingDropped
<1>3. ASSUME NEW th \in Thread, TakeBatch(th)
      PROVE  Progress' /\ NothingDropped'
  <2>1. /\ UNCHANGED <<log, executed, epoch>> /\ buffer' = <<>>
        /\ pc[th] # "flushing" /\ Issued' = Issued
    BY <1>3 DEF TakeBatch, Issued, Main
  <2>2. batch[th] = <<>> /\ Range(<<>>) = {}
    BY <2>1 DEF Idle, Range
  <2>3. CASE buffer = <<>>
    BY <1>3, <2>1, <2>3 DEF TakeBatch, Progress, NothingDropped
  <2>4. CASE buffer # <<>>
    <3>1. /\ batch' = [batch EXCEPT ![th] = buffer]
          /\ pos' = [pos EXCEPT ![th] = 0]
      BY <1>3, <2>4 DEF TakeBatch
    <3>2. /\ batch'[th] = buffer /\ pos'[th] = 0
          /\ \A o \in Thread : o # th => batch'[o] = batch[o] /\ pos'[o] = pos[o]
      BY <3>1 DEF TypeOK
    <3>3. Progress'
      BY <2>1, <3>2 DEF Progress
    <3>4. NothingDropped'
      BY <2>1, <2>2, <3>2 DEF NothingDropped
    <3>. QED  BY <3>3, <3>4
  <2>. QED  BY <2>3, <2>4
<1>4. ASSUME NEW th \in Thread, Execute(th)
      PROVE  Progress' /\ NothingDropped'
  <2>1. /\ UNCHANGED <<log, buffer, batch, epoch>>
        /\ executed' = executed \cup {batch[th][pos[th] + 1]}
        /\ pos' = [pos EXCEPT ![th] = @ + 1]
    BY <1>4 DEF Execute
  <2>2. /\ pos'[th] = pos[th] + 1 /\ pos[th] \in Nat
        /\ \A o \in Thread : o # th => pos'[o] = pos[o]
    BY <2>1 DEF TypeOK
  <2>3. \A i \in 1 .. pos'[th] : i \in 1 .. pos[th] \/ i = pos[th] + 1
    BY <2>2
  <2>4. Progress'
    BY <2>1, <2>2, <2>3 DEF Progress
  <2>5. NothingDropped'
    BY <2>1 DEF NothingDropped, Issued
  <2>. QED  BY <2>4, <2>5
<1>5. ASSUME NEW th \in Thread, Done(th), UNCHANGED <<executed, log, epoch>>,
             \A n \in Range(batch[th]) : n \in executed \/ n \in Range(buffer'),
             Range(buffer) \subseteq Range(buffer')
      PROVE  Progress' /\ NothingDropped'
  <2>1. /\ batch'[th] = <<>> /\ pos'[th] = 0
        /\ \A o \in Thread : o # th => batch'[o] = batch[o] /\ pos'[o] = pos[o]
    BY <1>5 DEF Done, TypeOK
  <2>2. Progress'
    BY <1>5, <2>1 DEF Progress
  <2>3. NothingDropped'
    BY <1>5, <2>1 DEF NothingDropped, Issued
  <2>. QED  BY <2>2, <2>3
<1>6. ASSUME NEW th \in Thread, FinishFlush(th)
      PROVE  Progress' /\ NothingDropped'
  <2>1. Done(th) /\ UNCHANGED <<executed, log, epoch, buffer>> /\ pos[th] = Len(batch[th])
    BY <1>6 DEF FinishFlush
  <2>2. \A n \in Range(batch[th]) : n \in executed
    BY <2>1 DEF Progress, Range, TypeOK
  <2>. QED  BY <1>5, <2>1, <2>2
<1>7. ASSUME NEW th \in Thread, FailFlush(th)
      PROVE  Progress' /\ NothingDropped'
  <2>1. /\ Done(th) /\ UNCHANGED <<executed, log, epoch>>
        /\ buffer' = batch[th] \o buffer
    BY <1>7 DEF FailFlush
  <2>2. buffer \in Seq(Nat) /\ batch[th] \in Seq(Nat)
    BY LargerSeq DEF TypeOK, Issued
  <2>3. Range(batch[th]) \cup Range(buffer) \subseteq Range(buffer')
    BY <2>1, <2>2, JoinedElements
  <2>. QED  BY <1>5, <2>1, <2>3
<1>8. CASE BeginExit
  BY <1>8 DEF BeginExit, Progress, NothingDropped, Issued
<1>9. CASE Stop
  <2>1. \A th \in Thread : pos'[th] = 0
    BY <1>9 DEF Stop
  <2>2. \A n \in Issued' : n <= epoch'
    BY <1>9 DEF Stop, Issued
  <2>. QED  BY <2>1, <2>2 DEF Progress, NothingDropped
<1>10. CASE Start
  BY <1>10 DEF Start, Progress, NothingDropped, Issued
<1>11. CASE UNCHANGED vars
  BY <1>11 DEF vars, Progress, NothingDropped, Issued
<1>. QED
  BY <1>1, <1>2, <1>3, <1>4, <1>6, <1>7, <1>8, <1>9, <1>10, <1>11
  DEF Next, Flush, FinishExit, Crash

(* At first nothing has been issued.                                       *)
LEMMA InitHeld == Init => Idle /\ Progress /\ NothingDropped
  BY DEF Init, Idle, Progress, NothingDropped, Issued

(* Whatever is issued is durable, or still in memory: overlapping and      *)
(* failing flushes notwithstanding.                                        *)
THEOREM SafeStatements == Spec => []NothingDropped
<1>. DEFINE Inv == TypeOK /\ Idle /\ Progress /\ NothingDropped
<1>1. Init => Inv
  BY InitTypes, InitHeld
<1>2. Inv /\ [Next]_vars => Inv'
  BY NextTypes, IdleStep, HeldStep
<1>3. Inv => NothingDropped
  OBVIOUS
<1>. QED  BY <1>1, <1>2, <1>3, PTL DEF Spec

(* While the process exits the main thread flushes once, and nothing fills *)
(* the buffer again but a failure.                                         *)
Emptied ==
    /\ process = "exiting" /\ ShutdownFlush
    /\ pc[Main] \in {"idle", "flushing"} /\ failures = 0
    => buffer = <<>>

LEMMA EmptiedStep ==
  ASSUME TypeOK, Emptied, [Next]_vars
  PROVE  Emptied'
<1>1. CASE Call
  BY <1>1 DEF Call, Emptied
<1>2. CASE BufferedWrite
  BY <1>2 DEF BufferedWrite, Emptied
<1>3. ASSUME NEW th \in Thread, TakeBatch(th)  PROVE Emptied'
  BY <1>3 DEF TakeBatch, Emptied
<1>4. ASSUME NEW th \in Thread, Execute(th)  PROVE Emptied'
  BY <1>4 DEF Execute, Emptied
<1>5. ASSUME NEW th \in Thread, FinishFlush(th)  PROVE Emptied'
  <2>1. UNCHANGED <<process, buffer, failures>>
    BY <1>5 DEF FinishFlush
  <2>2. pc'[Main] # pc[Main] => pc[Main] = "flushing"
    BY <1>5 DEF FinishFlush, Done, TypeOK
  <2>. QED  BY <2>1, <2>2 DEF Emptied
<1>6. ASSUME NEW th \in Thread, FailFlush(th)  PROVE Emptied'
  BY <1>6 DEF FailFlush, Emptied, TypeOK
<1>7. CASE BeginExit
  BY <1>7 DEF BeginExit, Emptied, TypeOK, Thread
<1>8. CASE Stop
  BY <1>8 DEF Stop, Emptied
<1>9. CASE Start
  BY <1>9 DEF Start, Emptied
<1>10. CASE UNCHANGED vars
  BY <1>10 DEF vars, Emptied
<1>. QED
  BY <1>1, <1>2, <1>3, <1>4, <1>5, <1>6, <1>7, <1>8, <1>9, <1>10
  DEF Next, Flush, FinishExit, Crash

(* As long as no flush has failed, the buffer is full only while the main  *)
(* thread is about to flush it, and no batch is longer than a full buffer. *)
Bounded ==
    failures = 0 =>
        /\ Len(buffer) <= BufferSize
        /\ pc[Main] # "full" => Len(buffer) < BufferSize
        /\ \A th \in Thread : Len(batch[th]) <= BufferSize

LEMMA BoundedStep ==
  ASSUME TypeOK, Idle, Bounded, [Next]_vars
  PROVE  Bounded'
<1>. USE StoreAssumption
<1>1. CASE Call
  BY <1>1 DEF Call, Bounded
<1>2. CASE BufferedWrite
  <2>1. /\ UNCHANGED <<batch, failures>> /\ pc[Main] = "idle"
        /\ buffer' = Append(buffer, Len(log) + 1)
        /\ pc' = IF Len(buffer') >= BufferSize THEN [pc EXCEPT ![Main] = "full"] ELSE pc
    BY <1>2 DEF BufferedWrite
  <2>2. Len(buffer') = Len(buffer) + 1 /\ Len(buffer) \in Nat
    BY <2>1 DEF TypeOK
  <2>3. Len(buffer') >= BufferSize => pc'[Main] = "full"
    BY <2>1 DEF TypeOK, Thread
  <2>. QED  BY <2>1, <2>2, <2>3 DEF Bounded
<1>3. ASSUME NEW th \in Thread, TakeBatch(th)  PROVE Bounded'
  <2>1. buffer' = <<>> /\ UNCHANGED failures
    BY <1>3 DEF TakeBatch
  <2>2. \A o \in Thread : batch'[o] \in {batch[o], buffer}
    BY <1>3 DEF TakeBatch, TypeOK
  <2>. QED  BY <2>1, <2>2 DEF Bounded
<1>4. ASSUME NEW th \in Thread, Execute(th)  PROVE Bounded'
  BY <1>4 DEF Execute, Bounded
<1>5. ASSUME NEW th \in Thread, FinishFlush(th)  PROVE Bounded'
  <2>1. UNCHANGED <<buffer, failures>> /\ pc[th] = "flushing" /\ Done(th)
    BY <1>5 DEF FinishFlush
  <2>2. pc'[Main] # "full" => pc[Main] # "full"
    BY <2>1 DEF Done, TypeOK
  <2>3. \A o \in Thread : batch'[o] \in {batch[o], <<>>}
    BY <2>1 DEF Done, TypeOK
  <2>. QED  BY <2>1, <2>2, <2>3 DEF Bounded
<1>6. ASSUME NEW th \in Thread, FailFlush(th)  PROVE Bounded'
  BY <1>6 DEF FailFlush, Bounded, TypeOK
<1>7. CASE BeginExit
  <2>1. UNCHANGED <<buffer, batch, failures>> /\ pc[Main] = "idle"
    BY <1>7 DEF BeginExit
  <2>. QED  BY <2>1 DEF Bounded
<1>8. CASE Stop
  <2>1. buffer' = <<>> /\ \A th \in Thread : batch'[th] = <<>>
    BY <1>8 DEF Stop
  <2>. QED  BY <2>1 DEF Bounded
<1>9. CASE Start
  BY <1>9 DEF Start, Bounded
<1>10. CASE UNCHANGED vars
  BY <1>10 DEF vars, Bounded
<1>. QED
  BY <1>1, <1>2, <1>3, <1>4, <1>5, <1>6, <1>7, <1>8, <1>9, <1>10
  DEF Next, Flush, FinishExit, Crash

(* An orderly exit none of whose flushes has failed loses less than a full *)
(* buffer when its handlers flush another instance, as they do for the     *)
(* orchestrator's store (paper_orchestrator.py:64), and nothing of the     *)
(* buffer when they flush this one; beyond that, in both cases, at most    *)
(* what the daemon thread is executing just then (_flush_paper_on_exit     *)
(* does not wait for it).                                                  *)
THEOREM SafeExit == Spec => ExitKeeps
<1>. DEFINE Inv == TypeOK /\ Idle /\ Progress /\ NothingDropped /\ Emptied /\ Bounded
<1>1. Init => Inv
  BY InitTypes, InitHeld, StoreAssumption DEF Init, Emptied, Bounded
<1>2. Inv /\ [Next]_vars => Inv'
  BY NextTypes, IdleStep, HeldStep, EmptiedStep, BoundedStep
<1>3. Inv => (FinishExit /\ failures = 0 =>
                 /\ \A n \in Issued : n > epoch =>
                        n \in executed \cup Range(buffer) \cup Range(batch[Periodic])
                 /\ Len(buffer) < BufferSize /\ Len(batch[Periodic]) <= BufferSize
                 /\ ShutdownFlush => buffer = <<>>)
  <2>. SUFFICES ASSUME Inv, FinishExit, failures = 0
                PROVE  /\ \A n \in Issued : n > epoch =>
                              n \in executed \cup Range(buffer) \cup Range(batch[Periodic])
                       /\ Len(buffer) < BufferSize /\ Len(batch[Periodic]) <= BufferSize
                       /\ ShutdownFlush => buffer = <<>>
    OBVIOUS
  <2>1. process = "exiting" /\ pc[Main] = "idle"
    BY DEF FinishExit
  <2>2. batch[Main] = <<>> /\ Range(<<>>) = {}
    BY <2>1 DEF Idle, Thread, Range
  <2>3. ASSUME NEW n \in Issued, n > epoch
        PROVE  n \in executed \cup Range(buffer) \cup Range(batch[Periodic])
    <3>1. ~(n <= epoch)
      BY <2>3 DEF Issued, TypeOK
    <3>. QED  BY <3>1, <2>2 DEF NothingDropped, Thread
  <2>4. Len(buffer) < BufferSize /\ Len(batch[Periodic]) <= BufferSize
    BY <2>1 DEF Bounded, Thread
  <2>5. ShutdownFlush => buffer = <<>>
    BY <2>1 DEF Emptied
  <2>. QED  BY <2>3, <2>4, <2>5
<1>. QED  BY <1>1, <1>2, <1>3, PTL DEF Spec, ExitKeeps

-----------------------------------------------------------------------------
(* The numbers the arithmetic below speaks of.                             *)
LEMMA Lengths ==
  ASSUME TypeOK
  PROVE  /\ Len(log) \in Nat /\ Len(buffer) \in Nat
         /\ \A th \in Thread :
                Len(batch[th]) \in Nat /\ pos[th] \in Nat /\ pos[th] <= Len(batch[th])
  BY DEF TypeOK

(* Statements in memory are named by numbers.                              *)
LEMMA Numbers ==
  ASSUME TypeOK
  PROVE  buffer \in Seq(Nat) /\ \A th \in Thread : batch[th] \in Seq(Nat)
  BY LargerSeq DEF TypeOK, Issued

(* Without overlapping flushes the unflushed statements stay consecutive.  *)
LEMMA ConsecutiveStep ==
  ASSUME TypeOK, Idle, Consecutive, [Next]_vars
  PROVE  Consecutive'
<1>1. CASE Call
  BY <1>1 DEF Call, Consecutive
<1>2. CASE BufferedWrite
  <2>1. /\ UNCHANGED <<batch, overlapped>> /\ buffer' = Append(buffer, Len(log) + 1)
        /\ Len(log') = Len(log) + 1 /\ Len(buffer') = Len(buffer) + 1
    BY <1>2 DEF BufferedWrite, TypeOK
  <2>2. \A th \in Thread : pc'[th] = "flushing" <=> pc[th] = "flushing"
    BY <1>2 DEF BufferedWrite, TypeOK
  <2>3. ASSUME ~overlapped
        PROVE  \A i \in DOMAIN buffer' : buffer'[i] = Len(log') - Len(buffer') + i
    BY <2>1, <2>3, Lengths DEF Consecutive
  <2>4. Len(log') - Len(buffer') = Len(log) - Len(buffer)
    BY <2>1, Lengths
  <2>. QED  BY <2>1, <2>2, <2>3, <2>4 DEF Consecutive
<1>3. ASSUME NEW th \in Thread, TakeBatch(th)
      PROVE  Consecutive'
  <2>1. CASE buffer = <<>>
    <3>1. /\ UNCHANGED <<log, batch, overlapped>> /\ buffer' = buffer
          /\ pc' = [pc EXCEPT ![th] = "idle"]
      BY <1>3, <2>1 DEF TakeBatch
    <3>2. \A o \in Thread : pc'[o] = "flushing" => pc[o] = "flushing"
      BY <3>1 DEF TypeOK
    <3>. QED  BY <3>1, <3>2 DEF Consecutive
  <2>2. CASE buffer # <<>>
    <3>1. /\ log' = log /\ batch' = [batch EXCEPT ![th] = buffer]
          /\ buffer' = <<>> /\ pc' = [pc EXCEPT ![th] = "flushing"]
          /\ overlapped' = (overlapped \/ \E o \in Thread : pc[o] = "flushing")
      BY <1>3, <2>2 DEF TakeBatch
    <3>. SUFFICES ASSUME ~overlapped' PROVE Consecutive'
      BY DEF Consecutive
    <3>2. /\ ~overlapped /\ batch'[th] = buffer
          /\ \A o \in Thread : pc'[o] = "flushing" => o = th
      BY <3>1 DEF TypeOK
    <3>3. \A i \in DOMAIN buffer : buffer[i] = Len(log) - Len(buffer) + i
      BY <3>2 DEF Consecutive
    <3>4. DOMAIN buffer' = {} /\ Len(buffer') = 0
      BY <3>1
    <3>5. ASSUME NEW i \in DOMAIN buffer
          PROVE  buffer[i] = Len(log') - Len(buffer') - Len(buffer) + i
      <4>1. buffer[i] = Len(log) - Len(buffer) + i /\ i \in Nat
        BY <3>3, Lengths
      <4>2. Len(log') = Len(log)
        BY <3>1
      <4>. QED  BY <4>1, <4>2, <3>4, Lengths
    <3>6. \A o \in Thread : pc'[o] = "flushing" =>
              \A i \in DOMAIN batch'[o] :
                  batch'[o][i] = Len(log') - Len(buffer') - Len(batch'[o]) + i
      BY <3>2, <3>5
    <3>7. \A i \in DOMAIN buffer' : buffer'[i] = Len(log') - Len(buffer') + i
      BY <3>4
    <3>8. \A o \in Thread : pc'[o] = "flushing" =>
              \A p \in Thread : pc'[p] = "flushing" => p = o
      BY <3>2
    <3>. QED  BY <3>6, <3>7, <3>8, Zenon DEF Consecutive
  <2>. QED  BY <2>1, <2>2
<1>4. ASSUME NEW th \in Thread, Execute(th)
      PROVE  Consecutive'
  BY <1>4 DEF Execute, Consecutive
<1>5. ASSUME NEW th \in Thread, FinishFlush(th)
      PROVE  Consecutive'
  <2>1. /\ UNCHANGED <<log, buffer, overlapped>>
        /\ \A o \in Thread : o # th => batch'[o] = batch[o] /\ pc'[o] = pc[o]
        /\ pc'[th] = "idle"
    BY <1>5 DEF FinishFlush, Done, TypeOK
  <2>2. \A o \in Thread : pc'[o] = "flushing" => pc[o] = "flushing" /\ batch'[o] = batch[o]
    BY <2>1
  <2>3. log' = log /\ buffer' = buffer /\ overlapped' = overlapped
    BY <2>1
  <2>4. ASSUME ~overlapped, NEW p \in Thread, pc'[p] = "flushing"
        PROVE  /\ \A o \in Thread : pc'[o] = "flushing" => o = p
               /\ \A i \in DOMAIN batch'[p] :
                      batch'[p][i] = Len(log) - Len(buffer) - Len(batch'[p]) + i
    BY <2>2, <2>4 DEF Consecutive
  <2>5. ~overlapped => \A i \in DOMAIN buffer : buffer[i] = Len(log) - Len(buffer) + i
    BY DEF Consecutive
  <2>. QED  BY <2>3, <2>4, <2>5 DEF Consecutive
<1>6. ASSUME NEW th \in Thread, FailFlush(th)
      PROVE  Consecutive'
  <2>1. /\ UNCHANGED <<log, overlapped>> /\ pc[th] = "flushing"
        /\ \A o \in Thread : o # th => pc'[o] = pc[o]
        /\ pc'[th] = "idle" /\ buffer' = batch[th] \o buffer
    BY <1>6 DEF FailFlush, Done, TypeOK
  <2>. SUFFICES ASSUME ~overlapped PROVE Consecutive'
    BY <2>1 DEF Consecutive
  <2>2. /\ \A i \in DOMAIN buffer : buffer[i] = Len(log) - Len(buffer) + i
        /\ \A i \in DOMAIN batch[th] :
               batch[th][i] = Len(log) - Len(buffer) - Len(batch[th]) + i
        /\ \A o \in Thread : pc[o] = "flushing" => o = th
    BY <2>1 DEF Consecutive
  <2>3. /\ buffer' \in Seq(Nat) /\ Len(buffer') = Len(batch[th]) + Len(buffer)
        /\ \A i \in 1 .. Len(batch[th]) : buffer'[i] = batch[th][i]
        /\ \A i \in 1 .. Len(buffer) : buffer'[Len(batch[th]) + i] = buffer[i]
    BY <2>1, Numbers, Joined
  <2>4. ASSUME NEW i \in 1 .. Len(buffer')
        PROVE  buffer'[i] = Len(log) - Len(buffer') + i
    <3>0. i \in 1 .. Len(batch[th]) + Len(buffer)
      BY <2>3
    <3>1. CASE i <= Len(batch[th])
      <4>1. i \in DOMAIN batch[th] /\ buffer'[i] = batch[th][i]
        <5>1. i \in 1 .. Len(batch[th])
          BY <3>0, <3>1, Lengths
        <5>. QED  BY <2>3, <5>1, Lengths
      <4>2. batch[th][i] = Len(log) - Len(buffer) - Len(batch[th]) + i
        BY <2>2, <4>1
      <4>3. Len(buffer') = Len(batch[th]) + Len(buffer)
        BY <2>3
      <4>4. /\ Len(log) \in Nat /\ Len(buffer) \in Nat /\ Len(batch[th]) \in Nat
            /\ i \in Int
        BY <3>0, Lengths
      <4>5. Len(log) - Len(buffer) - Len(batch[th]) + i
              = Len(log) - (Len(batch[th]) + Len(buffer)) + i
        BY <4>4
      <4>. QED  BY <4>1, <4>2, <4>3, <4>5
    <3>2. CASE i > Len(batch[th])
      <4>1. i - Len(batch[th]) \in 1 .. Len(buffer)
        BY <3>0, <3>2, Lengths
      <4>2. Len(batch[th]) + (i - Len(batch[th])) = i
        BY <3>0, Lengths
      <4>3. buffer'[i] = buffer[i - Len(batch[th])]
        BY <2>3, <4>1, <4>2, Zenon
      <4>4. buffer[i - Len(batch[th])] = Len(log) - Len(buffer) + (i - Len(batch[th]))
        <5>1. DOMAIN buffer = 1 .. Len(buffer)
          BY Numbers
        <5>. QED  BY <2>2, <4>1, <5>1
      <4>5. Len(buffer') = Len(batch[th]) + Len(buffer)
        BY <2>3
      <4>6. /\ Len(log) \in Nat /\ Len(buffer) \in Nat /\ Len(batch[th]) \in Nat
            /\ i \in Int
        BY <3>0, Lengths
      <4>. QED  BY <4>3, <4>4, <4>5, <4>6
    <3>. QED  BY <3>0, <3>1, <3>2, Lengths
  <2>5. \A o \in Thread : pc'[o] # "flushing"
    BY <2>1, <2>2
  <2>6. DOMAIN buffer' = 1 .. Len(buffer')
    BY <2>3
  <2>. QED  BY <2>1, <2>4, <2>5, <2>6 DEF Consecutive
<1>7. CASE BeginExit
  BY <1>7 DEF BeginExit, Consecutive, TypeOK
<1>8. CASE Stop
  BY <1>8 DEF Stop, Consecutive
<1>9. CASE Start
  <2>1. /\ buffer' = <<>> /\ \A th \in Thread : pc'[th] = "idle"
    BY <1>9 DEF Start, Idle
  <2>. QED  BY <2>1 DEF Consecutive
<1>10. CASE UNCHANGED vars
  BY <1>10 DEF vars, Consecutive
<1>. QED
  BY <1>1, <1>2, <1>3, <1>4, <1>5, <1>6, <1>7, <1>8, <1>9, <1>10
  DEF Next, Flush, FinishExit, Crash

(* Whatever is reached already stays applied if nothing but the reach of   *)
(* the flushes changes, and it does not grow.                              *)
LEMMA StaysApplied ==
  ASSUME Applied, UNCHANGED <<log, db, epoch>>, overlapped' \/ ~overlapped,
         Reached \in Int, Reached' \in Int, overlapped' \/ Reached' <= Reached
  PROVE  Applied'
  BY DEF Applied, LastWrite, WritesOf, Issued

(* The other thread.                                                       *)
Other(th) == IF th = Main THEN Periodic ELSE Main

(* A sum over the two threads, seen from either.                           *)
LEMMA TwoThreads ==
  ASSUME NEW th \in Thread
  PROVE  /\ Other(th) \in Thread /\ Other(th) # th
         /\ \A o \in Thread : o # th => o = Other(th)
         /\ \A f \in [Thread -> Nat], b \in Nat :
                b + f[Main] + f[Periodic] = b + f[th] + f[Other(th)]
<1>1. Main # Periodic
  BY DEF Main, Periodic
<1>2. \A f \in [Thread -> Nat], b \in Nat :
          b + f[Main] + f[Periodic] = b + f[Periodic] + f[Main]
  BY DEF Thread
<1>. QED  BY <1>1, <1>2 DEF Thread, Other

(* A thread has no more executed than its batch holds.                     *)
LEMMA RestNatural ==
  ASSUME NEW b, NEW p \in [Thread -> Nat],
         \A th \in Thread : Len(b[th]) \in Nat /\ p[th] <= Len(b[th])
  PROVE  [th \in Thread |-> Len(b[th]) - p[th]] \in [Thread -> Nat]
  OBVIOUS

(* Each thread has a natural number of statements left.                    *)
LEMMA RestTyped == TypeOK => Rest \in [Thread -> Nat]
<1>. SUFFICES ASSUME TypeOK PROVE Rest \in [Thread -> Nat]
  OBVIOUS
<1>1. \A th \in Thread : Len(batch[th]) \in Nat /\ pos[th] <= Len(batch[th])
  BY Lengths
<1>. QED  BY <1>1, RestNatural DEF TypeOK, Rest

(* What is left in all, and what is reached, are numbers.                  *)
LEMMA ReachedTyped ==
  ASSUME TypeOK
  PROVE  Behind \in Nat /\ Reached \in Int
<1>1. Len(log) \in Nat /\ Len(buffer) \in Nat /\ Rest \in [Thread -> Nat]
  BY RestTyped, Lengths
<1>2. Rest[Main] \in Nat /\ Rest[Periodic] \in Nat
  BY <1>1 DEF Thread
<1>. QED  BY <1>1, <1>2 DEF Behind, Reached

(* A step of one thread moves the reach by what it adds or takes.          *)
LEMMA ReachedChange ==
  ASSUME TypeOK, TypeOK', NEW th \in Thread, log' = log,
         Rest'[Other(th)] = Rest[Other(th)]
  PROVE  /\ Rest[th] \in Nat /\ Rest'[th] \in Nat
         /\ Len(buffer) \in Nat /\ Len(buffer') \in Nat
         /\ Reached \in Int /\ Reached' \in Int
         /\ Reached' = Reached + (Len(buffer) - Len(buffer')) + (Rest[th] - Rest'[th])
<1>1. Rest \in [Thread -> Nat] /\ Len(log) \in Nat /\ Len(buffer) \in Nat
  BY RestTyped, Lengths
<1>2. Rest' \in [Thread -> Nat] /\ Len(buffer') \in Nat
  <2>1. \A o \in Thread : Len(batch'[o]) \in Nat /\ pos'[o] <= Len(batch'[o])
    BY DEF TypeOK
  <2>2. pos' \in [Thread -> Nat] /\ Len(buffer') \in Nat
    BY DEF TypeOK
  <2>. QED  BY <2>1, <2>2, RestNatural DEF Rest
<1>3. Behind = Len(buffer) + Rest[th] + Rest[Other(th)]
  BY <1>1, TwoThreads DEF Behind
<1>4. Behind' = Len(buffer') + Rest'[th] + Rest'[Other(th)]
  BY <1>2, TwoThreads DEF Behind
<1>5. /\ Rest[th] \in Nat /\ Rest'[th] \in Nat /\ Rest[Other(th)] \in Nat
      /\ Len(log') = Len(log)
  BY <1>1, <1>2, TwoThreads
<1>6. PICK l \in Nat : l = Len(log)
  BY <1>1
<1>7. PICK b \in Nat : b = Len(buffer)
  BY <1>1
<1>8. PICK c \in Nat : c = Len(buffer')
  BY <1>2
<1>9. PICK r \in Nat : r = Rest[th]
  BY <1>5
<1>10. PICK s \in Nat : s = Rest'[th]
  BY <1>5
<1>11. PICK o \in Nat : o = Rest[Other(th)]
  BY <1>5
<1>12. Reached = l - (b + r + o) /\ Reached' = l - (c + s + o)
  BY <1>3, <1>4, <1>5, <1>6, <1>7, <1>8, <1>9, <1>10, <1>11 DEF Reached
<1>13. /\ l - (b + r + o) \in Int /\ l - (c + s + o) \in Int
       /\ l - (c + s + o) = (l - (b + r + o)) + (b - c) + (r - s)
  OBVIOUS
<1>. QED  BY <1>7, <1>8, <1>9, <1>10, <1>12, <1>13, Zenon

(* Issuing a statement does not move the reach, ...                        *)
LEMMA WriteReaches ==
  ASSUME TypeOK, BufferedWrite
  PROVE  Reached' = Reached
<1>1. /\ UNCHANGED <<batch, pos>>
      /\ Len(log') = Len(log) + 1 /\ Len(buffer') = Len(buffer) + 1
  BY DEF BufferedWrite, TypeOK
<1>2. Rest' = Rest
  BY <1>1 DEF Rest
<1>3. /\ Rest[Main] \in Nat /\ Rest[Periodic] \in Nat
      /\ Len(log) \in Nat /\ Len(buffer) \in Nat
  BY RestTyped, Lengths DEF Thread
<1>4. PICK l \in Nat : l = Len(log)
  BY <1>3
<1>5. PICK b \in Nat : b = Len(buffer)
  BY <1>3
<1>6. PICK r \in Nat : r = Rest[Main]
  BY <1>3
<1>7. PICK s \in Nat : s = Rest[Periodic]
  BY <1>3
<1>8. Reached = l - (b + r + s) /\ Reached' = (l + 1) - (b + 1 + r + s)
  <2>1. Reached = Len(log) - (Len(buffer) + Rest[Main] + Rest[Periodic])
    BY DEF Reached, Behind
  <2>2. Reached' = Len(log') - (Len(buffer') + Rest[Main] + Rest[Periodic])
    BY <1>2 DEF Reached, Behind
  <2>3. Len(log') = l + 1 /\ Len(buffer') = b + 1
    BY <1>1, <1>4, <1>5
  <2>. QED  BY <2>1, <2>2, <2>3, <1>4, <1>5, <1>6, <1>7, Zenon
<1>9. (l + 1) - (b + 1 + r + s) = l - (b + r + s)
  OBVIOUS
<1>. QED  BY <1>8, <1>9, Zenon

(* ... nor does taking a batch; ...                                        *)
LEMMA TakeReaches ==
  ASSUME TypeOK, TypeOK', Idle, NEW th \in Thread, TakeBatch(th)
  PROVE  Reached' = Reached
<1>1. UNCHANGED log
  BY DEF TakeBatch
<1>2. CASE buffer = <<>>
  <2>1. UNCHANGED <<buffer, batch, pos>>
    BY <1>2 DEF TakeBatch
  <2>. QED  BY <1>1, <2>1 DEF Reached, Behind, Rest
<1>3. CASE buffer # <<>>
  <2>1. /\ batch' = [batch EXCEPT ![th] = buffer] /\ pos' = [pos EXCEPT ![th] = 0]
        /\ buffer' = <<>> /\ pc[th] # "flushing"
    BY <1>3 DEF TakeBatch, Main
  <2>2. /\ batch'[th] = buffer /\ pos'[th] = 0 /\ Len(buffer') = 0
        /\ batch'[Other(th)] = batch[Other(th)] /\ pos'[Other(th)] = pos[Other(th)]
    BY <2>1, TwoThreads DEF TypeOK
  <2>3. Len(batch[th]) = 0 /\ pos[th] = 0
    <3>1. batch[th] = <<>>
      BY <2>1 DEF Idle
    <3>. QED  BY <3>1, Lengths
  <2>4. /\ Rest'[Other(th)] = Rest[Other(th)] /\ Rest'[th] = Len(buffer)
        /\ Rest[th] = 0
    BY <2>2, <2>3, TwoThreads, Lengths DEF Rest
  <2>. QED  BY <1>1, <2>2, <2>4, ReachedChange
<1>. QED  BY <1>2, <1>3

(* ... executing a statement moves it by one, to that statement if no two  *)
(* flushes have overlapped; ...                                            *)
LEMMA ExecuteReaches ==
  ASSUME TypeOK, TypeOK', Idle, Consecutive, NEW th \in Thread, Execute(th)
  PROVE  /\ Reached \in Int /\ Reached' = Reached + 1
         /\ ~overlapped => batch[th][pos[th] + 1] = Reached + 1
<1>. DEFINE k == batch[th][pos[th] + 1]
<1>1. /\ UNCHANGED <<log, buffer, batch>> /\ pos' = [pos EXCEPT ![th] = @ + 1]
      /\ pc[th] = "flushing" /\ pos[th] < Len(batch[th])
  BY DEF Execute
<1>2. /\ pos'[th] = pos[th] + 1 /\ pos[th] \in Nat /\ Len(batch[th]) \in Nat
      /\ pos'[Other(th)] = pos[Other(th)]
  BY <1>1, TwoThreads, Lengths DEF TypeOK
<1>3. /\ Rest[th] = Len(batch[th]) - pos[th]
      /\ Rest'[th] = Len(batch[th]) - (pos[th] + 1)
      /\ Rest'[Other(th)] = Rest[Other(th)]
  BY <1>1, <1>2, TwoThreads DEF Rest
<1>4. Reached \in Int /\ Reached' = Reached + 1
  BY <1>1, <1>2, <1>3, ReachedChange
<1>5. ASSUME ~overlapped PROVE k = Reached + 1
  <2>1. Rest[Other(th)] = 0
    <3>1. batch[Other(th)] = <<>>
      BY <1>1, <1>5, TwoThreads DEF Consecutive, Idle
    <3>2. Len(batch[Other(th)]) = 0 /\ pos[Other(th)] = 0
      BY <3>1, TwoThreads, Lengths
    <3>. QED  BY <3>2, TwoThreads DEF Rest
  <2>2. Behind = Len(buffer) + Rest[th] + Rest[Other(th)]
    BY RestTyped, Lengths, TwoThreads DEF Behind
  <2>3. pos[th] + 1 \in DOMAIN batch[th]
    <3>1. batch[th] \in Seq(Nat)
      BY Numbers
    <3>. QED  BY <3>1, <1>1, <1>2
  <2>4. k = Len(log) - Len(buffer) - Len(batch[th]) + (pos[th] + 1)
    BY <1>1, <1>5, <2>3 DEF Consecutive
  <2>5. Reached = Len(log) - (Len(buffer) + (Len(batch[th]) - pos[th]) + 0)
    BY <1>3, <2>1, <2>2 DEF Reached
  <2>6. PICK l \in Nat : l = Len(log)
    BY Lengths
  <2>7. PICK b \in Nat : b = Len(buffer)
    BY Lengths
  <2>8. PICK c \in Nat : c = Len(batch[th])
    BY <1>2
  <2>9. PICK p \in Nat : p = pos[th]
    BY <1>2
  <2>10. k = l - b - c + (p + 1) /\ Reached = l - (b + (c - p) + 0)
    BY <2>4, <2>5, <2>6, <2>7, <2>8, <2>9
  <2>11. l - b - c + (p + 1) = l - (b + (c - p) + 0) + 1
    OBVIOUS
  <2>. QED  BY <2>10, <2>11, Zenon
<1>. QED  BY <1>4, <1>5

(* ... and ending a flush moves it back by what is to be repeated.         *)
LEMMA DoneReaches ==
  ASSUME TypeOK, TypeOK', NEW th \in Thread, Done(th), UNCHANGED log
  PROVE  /\ Reached \in Int /\ Reached' \in Int
         /\ Reached' = Reached + (Len(buffer) - Len(buffer')) + (Len(batch[th]) - pos[th])
<1>1. /\ batch'[th] = <<>> /\ pos'[th] = 0 /\ Len(<<>>) = 0
      /\ batch'[Other(th)] = batch[Other(th)] /\ pos'[Other(th)] = pos[Other(th)]
  BY TwoThreads DEF Done, TypeOK
<1>2. /\ Rest'[Other(th)] = Rest[Other(th)] /\ Rest'[th] = 0
      /\ Rest[th] = Len(batch[th]) - pos[th]
  BY <1>1, TwoThreads DEF Rest
<1>3. /\ Rest[th] \in Nat /\ Reached \in Int /\ Reached' \in Int
      /\ Reached' = Reached + (Len(buffer) - Len(buffer')) + (Rest[th] - Rest'[th])
  BY <1>2, ReachedChange
<1>4. Rest[th] - Rest'[th] = Len(batch[th]) - pos[th]
  BY <1>2, <1>3
<1>. QED  BY <1>3, <1>4

(* A failed flush puts its whole batch back.                               *)
LEMMA FailReaches ==
  ASSUME TypeOK, TypeOK', NEW th \in Thread, FailFlush(th)
  PROVE  /\ Reached \in Int /\ Reached' \in Int /\ Reached' <= Reached
<1>1. /\ Done(th) /\ UNCHANGED log /\ buffer' = batch[th] \o buffer
  BY DEF FailFlush
<1>2. Len(buffer') = Len(batch[th]) + Len(buffer)
  BY <1>1, Numbers, Joined
<1>3. /\ Reached \in Int /\ Reached' \in Int
      /\ Reached' = Reached + (Len(buffer) - Len(buffer')) + (Len(batch[th]) - pos[th])
  BY <1>1, DoneReaches
<1>4. PICK c \in Nat : c = Len(batch[th])
  BY Lengths
<1>5. PICK b \in Nat : b = Len(buffer)
  BY Lengths
<1>6. PICK p \in Nat : p = pos[th]
  BY Lengths
<1>7. PICK r \in Int : r = Reached
  BY <1>3
<1>8. Reached' = r + (b - (c + b)) + (c - p)
  BY <1>2, <1>3, <1>4, <1>5, <1>6, <1>7
<1>9. r + (b - (c + b)) + (c - p) <= r
  OBVIOUS
<1>. QED  BY <1>3, <1>7, <1>8, <1>9

(* A flush that ends well has reached the whole of its batch.              *)
LEMMA FinishReaches ==
  ASSUME TypeOK, TypeOK', NEW th \in Thread, FinishFlush(th)
  PROVE  Reached \in Int /\ Reached' = Reached
<1>1. /\ Done(th) /\ UNCHANGED <<log, buffer>> /\ pos[th] = Len(batch[th])
  BY DEF FinishFlush
<1>2. /\ Reached \in Int
      /\ Reached' = Reached + (Len(buffer) - Len(buffer')) + (Len(batch[th]) - pos[th])
  BY <1>1, DoneReaches
<1>3. Len(batch[th]) \in Nat /\ Len(buffer) \in Nat /\ pos[th] \in Nat
  BY Lengths
<1>. QED  BY <1>1, <1>2, <1>3

(* A table's last write is applied, or still to be executed, after every   *)
(* step without overlapping flushes.                                       *)
LEMMA AppliedStep ==
  ASSUME TypeOK, TypeOK', Idle, Consecutive, Applied, [Next]_vars
  PROVE  Applied'
<1>0. Reached \in Int /\ Behind \in Nat
  BY ReachedTyped
<1>1. CASE Call
  BY <1>1 DEF Call, Applied, Reached, Behind, Rest, LastWrite, WritesOf, Issued
<1>2. CASE BufferedWrite
  <2>1. /\ UNCHANGED <<db, epoch, overlapped>>
        /\ \A n \in Issued : n \in Issued' /\ log'[n] = log[n]
    BY <1>2 DEF BufferedWrite, TypeOK, Issued
  <2>2. Reached' = Reached
    BY <1>2, WriteReaches
  <2>. SUFFICES ASSUME ~overlapped, NEW t \in Table, NEW n \in Issued', LastWrite(n, t)',
                       n <= Reached
                PROVE  db[t] = log'[n].value
    BY <2>1, <2>2 DEF Applied
  <2>3. n \in Issued
    <3>1. n <= Len(log)
      BY <1>0, Lengths DEF Issued, Reached
    <3>. QED  BY <3>1 DEF Issued
  <2>4. LastWrite(n, t)
    BY <2>1, <2>3 DEF LastWrite, WritesOf
  <2>. QED  BY <2>1, <2>3, <2>4 DEF Applied
<1>3. ASSUME NEW th \in Thread, TakeBatch(th)
      PROVE  Applied'
  <2>1. UNCHANGED <<log, db, epoch>> /\ (overlapped' \/ ~overlapped)
    BY <1>3 DEF TakeBatch
  <2>. QED  BY <1>0, <1>3, <2>1, TakeReaches, StaysApplied
<1>4. ASSUME NEW th \in Thread, Execute(th)
      PROVE  Applied'
  <2>. DEFINE k == batch[th][pos[th] + 1]
  <2>1. /\ UNCHANGED <<log, epoch, overlapped>> /\ pos[th] < Len(batch[th])
    BY <1>4 DEF Execute
  <2>2. /\ Reached' = Reached + 1 /\ pos[th] \in Nat
        /\ ~overlapped => k = Reached + 1
    BY <1>4, ExecuteReaches, Lengths
  <2>. SUFFICES ASSUME ~overlapped, NEW t \in Table, NEW n \in Issued, LastWrite(n, t),
                       n <= Reached + 1
                PROVE  db'[t] = log[n].value
    BY <2>1, <2>2 DEF Applied, LastWrite, WritesOf, Issued
  <2>6. k \in Issued
    BY <2>1, <2>2 DEF TypeOK
  <2>7. log[n].table = t /\ t # Audit
    BY DEF LastWrite, WritesOf, Table, Audit
  <2>8. CASE n = k
    BY <1>4, <2>7, <2>8 DEF Execute, TypeOK
  <2>9. CASE n # k
    <3>1. n <= Reached
      BY <2>2, <2>9, <1>0 DEF Issued
    <3>2. db[t] = log[n].value
      BY <3>1 DEF Applied
    <3>3. log[k].table # t
      <4>0. n > epoch /\ epoch \in Nat /\ n \in Nat /\ k \in Nat
        <5>1. n \in WritesOf(t) /\ epoch \in Nat
          BY DEF LastWrite, TypeOK
        <5>2. \A m \in Issued : m \in Nat
          BY Lengths DEF Issued
        <5>. QED  BY <5>1, <5>2, <2>6 DEF WritesOf
      <4>1. n > epoch /\ k > n /\ epoch \in Nat /\ n \in Nat /\ k \in Nat
        BY <2>2, <3>1, <4>0, <1>0
      <4>2. k \notin WritesOf(t)
        BY <4>1 DEF LastWrite
      <4>. QED  BY <4>1, <4>2, <2>6 DEF WritesOf
    <3>. QED  BY <1>4, <3>2, <3>3 DEF Execute, TypeOK
  <2>. QED  BY <2>8, <2>9
<1>5. ASSUME NEW th \in Thread, FinishFlush(th)
      PROVE  Applied'
  <2>1. UNCHANGED <<log, db, epoch, overlapped>>
    BY <1>5 DEF FinishFlush
  <2>. QED  BY <1>0, <1>5, <2>1, FinishReaches, StaysApplied
<1>6. ASSUME NEW th \in Thread, FailFlush(th)
      PROVE  Applied'
  <2>1. UNCHANGED <<log, db, epoch, overlapped>>
    BY <1>6 DEF FailFlush
  <2>. QED  BY <1>6, <2>1, FailReaches, StaysApplied
<1>7. CASE BeginExit
  BY <1>7 DEF BeginExit, Applied, Reached, Behind, Rest, LastWrite, WritesOf, Issued
<1>8. CASE Stop
  <2>1. \A n \in Issued' : ~(n > epoch')
    BY <1>8, Lengths DEF Stop, Issued
  <2>. QED  BY <2>1 DEF Applied, LastWrite, WritesOf
<1>9. CASE Start
  <2>1. \A n \in Issued' : ~(n > epoch')
    BY <1>9, Lengths DEF Start, Idle, Issued
  <2>. QED  BY <2>1 DEF Applied, LastWrite, WritesOf
<1>10. CASE UNCHANGED vars
  BY <1>10 DEF vars, Applied, Reached, Behind, Rest, LastWrite, WritesOf, Issued
<1>. QED
  BY <1>1, <1>2, <1>3, <1>4, <1>5, <1>6, <1>7, <1>8, <1>9, <1>10
  DEF Next, Flush, FinishExit, Crash

(* At first nothing is unflushed and no table has been written.            *)
LEMMA InitOrder == Init => Idle /\ Consecutive /\ Applied
  BY DEF Init, Idle, Consecutive, Applied, Issued

(* When everything is flushed, all that was issued has been reached.       *)
LEMMA QuietIsReached ==
  ASSUME TypeOK, Idle, Applied
  PROVE  LastWriteWins
<1>. SUFFICES ASSUME Quiet, ~overlapped, NEW t \in Table, NEW n \in WritesOf(t),
                     \A m \in WritesOf(t) : m <= n
              PROVE  db[t] = log[n].value
  BY DEF LastWriteWins
<1>1. n \in Issued /\ LastWrite(n, t)
  BY DEF LastWrite, WritesOf
<1>2. \A th \in Thread : Len(batch[th]) = 0 /\ pos[th] = 0
  BY Lengths DEF Quiet, Idle
<1>3. Reached = Len(log)
  <2>1. Rest[Main] = 0 /\ Rest[Periodic] = 0
    BY <1>2 DEF Rest, Thread
  <2>2. Len(buffer) = 0 /\ Len(log) \in Nat
    BY Lengths DEF Quiet
  <2>. QED  BY <2>1, <2>2 DEF Reached, Behind
<1>. QED  BY <1>1, <1>3, Lengths DEF Applied, Issued

(* A table holds what was last issued for it once all is flushed, failed   *)
(* and repeated batches included, unless two flushes overlapped.           *)
THEOREM SafeOrder == Spec => []LastWriteWins
<1>. DEFINE Inv == TypeOK /\ Idle /\ Consecutive /\ Applied
<1>1. Init => Inv
  BY InitTypes, InitOrder
<1>2. Inv /\ [Next]_vars => Inv'
  BY NextTypes, IdleStep, ConsecutiveStep, AppliedStep
<1>3. Inv => LastWriteWins
  BY QuietIsReached
<1>. QED  BY <1>1, <1>2, <1>3, PTL DEF Spec

-----------------------------------------------------------------------------
(* An audit statement's value is its number.                               *)
LEMMA NumberedStep ==
  ASSUME TypeOK, Numbered, [Next]_vars
  PROVE  Numbered'
<1>1. CASE Call
  <2>1. log' = log
    BY <1>1 DEF Call
  <2>2. \/ todo' = SavePortfolio(Len(log) + 1) \/ todo' = SetConfig(Len(log) + 1)
        \/ todo' = AppendAudit(Len(log) + 1)
    BY <1>1 DEF Call
  <2>3. \A i \in DOMAIN todo' : todo'[i].table = Audit =>
            i = 1 /\ Len(todo') = 1 /\ todo'[i].value = Len(log) + 1
    BY <2>2 DEF SavePortfolio, SetConfig, AppendAudit, Audit
  <2>. QED  BY <2>1, <2>3 DEF Numbered, Issued
<1>2. CASE BufferedWrite
  <2>1. /\ todo # <<>> /\ todo \in Seq(Statement) /\ log \in Seq(Statement)
        /\ log' = Append(log, Head(todo)) /\ todo' = Tail(todo)
    BY <1>2 DEF BufferedWrite, TypeOK
  <2>2. /\ Len(log') = Len(log) + 1 /\ log'[Len(log) + 1] = todo[1]
        /\ \A n \in Issued : log'[n] = log[n]
    BY <2>1 DEF Issued
  <2>3. 1 \in DOMAIN todo /\ Len(todo') = Len(todo) - 1
    BY <2>1
  <2>4. todo[1].table = Audit => Len(todo) = 1 /\ todo[1].value = Len(log) + 1
    BY <2>3 DEF Numbered
  <2>5. \A n \in Issued' : n \in Issued \/ n = Len(log) + 1
    BY <2>1, <2>2 DEF Issued
  <2>6. \A n \in Issued' : log'[n].table = Audit => log'[n].value = n
    BY <2>2, <2>4, <2>5 DEF Numbered
  <2>7. \A i \in DOMAIN todo' : i + 1 \in DOMAIN todo /\ todo'[i] = todo[i + 1] /\ i + 1 # 1
    BY <2>1
  <2>8. \A i \in DOMAIN todo' : todo'[i].table # Audit
    BY <2>7 DEF Numbered
  <2>. QED  BY <2>6, <2>8 DEF Numbered
<1>3. ASSUME NEW th \in Thread, Flush(th) \/ FailFlush(th)
      PROVE  Numbered'
  BY <1>3 DEF Flush, FailFlush, TakeBatch, Execute, FinishFlush, Numbered, Issued
<1>4. CASE Stop
  BY <1>4 DEF Stop, Numbered, Issued
<1>5. CASE BeginExit \/ Start \/ UNCHANGED vars
  BY <1>5 DEF BeginExit, Start, vars, Numbered, Issued
<1>. QED  BY <1>1, <1>2, <1>3, <1>4, <1>5 DEF Next, FinishExit, Crash

(* Without failures, no step puts a statement in a second place.           *)
LEMMA OnceStep ==
  ASSUME TypeOK, Idle, Numbered, Once, [Next]_vars
  PROVE  Once'
<1>1. CASE Call
  BY <1>1 DEF Call, Once, InOnePlace
<1>2. CASE BufferedWrite
  <2>1. /\ UNCHANGED <<batch, pos, executed, audit, failures>>
        /\ buffer' = Append(buffer, Len(log) + 1)
        /\ executed \subseteq Issued /\ buffer \in Seq(Issued)
        /\ \A th \in Thread : batch[th] \in Seq(Issued)
    BY <1>2 DEF BufferedWrite, TypeOK
  <2>. SUFFICES ASSUME failures = 0, InOnePlace PROVE InOnePlace'
    BY <2>1 DEF Once
  <2>2. Len(log) + 1 \notin Issued /\ Len(log) \in Nat
    BY Lengths DEF Issued
  <2>3. \A i \in DOMAIN buffer' : \/ i \in DOMAIN buffer /\ buffer'[i] = buffer[i]
                                  \/ i = Len(buffer) + 1 /\ buffer'[i] = Len(log) + 1
    BY <2>1
  <2>4. /\ \A i \in DOMAIN buffer : buffer[i] # Len(log) + 1
        /\ \A th \in Thread : \A i \in DOMAIN batch[th] : batch[th][i] # Len(log) + 1
        /\ Len(log) + 1 \notin executed
    BY <2>1, <2>2
  <2>5. \A i, j \in DOMAIN buffer' : buffer'[i] = buffer'[j] => i = j
    BY <2>3, <2>4 DEF InOnePlace
  <2>6. \A i \in DOMAIN buffer' : buffer'[i] \notin executed
    BY <2>3, <2>4 DEF InOnePlace
  <2>7. \A th \in Thread : \A i \in DOMAIN batch[th], j \in DOMAIN buffer' :
            batch[th][i] # buffer'[j]
    BY <2>3, <2>4 DEF InOnePlace
  <2>. QED  BY <2>1, <2>5, <2>6, <2>7 DEF InOnePlace
<1>3. ASSUME NEW th \in Thread, TakeBatch(th)
      PROVE  Once'
  <2>1. UNCHANGED <<executed, audit, failures>> /\ buffer' = <<>>
    BY <1>3 DEF TakeBatch
  <2>. SUFFICES ASSUME failures = 0, InOnePlace PROVE InOnePlace'
    BY <2>1 DEF Once
  <2>2. CASE buffer = <<>>
    BY <1>3, <2>1, <2>2 DEF TakeBatch, InOnePlace
  <2>3. CASE buffer # <<>>
    <3>1. /\ batch' = [batch EXCEPT ![th] = buffer] /\ pos' = [pos EXCEPT ![th] = 0]
      BY <1>3, <2>3 DEF TakeBatch
    <3>2. /\ batch'[th] = buffer
          /\ \A o \in Thread : o # th => batch'[o] = batch[o] /\ pos'[o] = pos[o]
      BY <3>1 DEF TypeOK
    <3>3. DOMAIN buffer' = {}
      BY <2>1
    <3>4. ASSUME NEW o \in Thread
          PROVE  /\ \A i, j \in DOMAIN batch'[o] : batch'[o][i] = batch'[o][j] => i = j
                 /\ \A i \in DOMAIN batch'[o] : i > pos'[o] => batch'[o][i] \notin executed
                 /\ \A q \in Thread \ {o} :
                        \A i \in DOMAIN batch'[o], j \in DOMAIN batch'[q] :
                            batch'[o][i] # batch'[q][j]
      <4>1. CASE o = th
        BY <3>2, <4>1 DEF InOnePlace
      <4>2. CASE o # th
        <5>1. batch'[o] = batch[o] /\ pos'[o] = pos[o]
          BY <3>2, <4>2
        <5>2. \A q \in Thread \ {o} : \A i \in DOMAIN batch[o], j \in DOMAIN batch'[q] :
                  batch[o][i] # batch'[q][j]
          BY <3>2, <4>2 DEF InOnePlace
        <5>. QED  BY <5>1, <5>2 DEF InOnePlace
      <4>. QED  BY <4>1, <4>2
    <3>. QED  BY <2>1, <3>3, <3>4 DEF InOnePlace
  <2>. QED  BY <2>2, <2>3
<1>4. ASSUME NEW th \in Thread, Execute(th)
      PROVE  Once'
  <2>. DEFINE k == batch[th][pos[th] + 1]
  <2>1. /\ UNCHANGED <<log, buffer, batch, failures>>
        /\ pos' = [pos EXCEPT ![th] = @ + 1] /\ executed' = executed \cup {k}
        /\ pos[th] \in Nat /\ pos[th] < Len(batch[th]) /\ batch[th] \in Seq(Issued)
    BY <1>4 DEF Execute, TypeOK
  <2>. SUFFICES ASSUME failures = 0, InOnePlace PROVE InOnePlace'
    BY <2>1 DEF Once
  <2>2. /\ pos'[th] = pos[th] + 1
        /\ \A o \in Thread : o # th => pos'[o] = pos[o]
    BY <2>1 DEF TypeOK
  <2>3. pos[th] + 1 \in DOMAIN batch[th] /\ pos[th] + 1 > pos[th]
    BY <2>1
  <2>4. k \in Issued /\ k \notin executed
    BY <2>1, <2>3 DEF InOnePlace
  <2>5. \A i \in DOMAIN buffer : buffer[i] \notin executed'
    BY <2>1, <2>3 DEF InOnePlace
  <2>6. ASSUME NEW o \in Thread, NEW i \in DOMAIN batch[o], i > pos'[o]
        PROVE  batch[o][i] \notin executed'
    <3>1. CASE o = th
      <4>1. i > pos[th] /\ i # pos[th] + 1
        BY <2>1, <2>2, <2>6, <3>1
      <4>. QED  BY <2>1, <2>3, <3>1, <4>1 DEF InOnePlace
    <3>2. CASE o # th
      BY <2>1, <2>2, <2>3, <2>6, <3>2 DEF InOnePlace
    <3>. QED  BY <3>1, <3>2
  <2>7. /\ \A i \in DOMAIN audit' : audit'[i] \in executed'
        /\ \A i, j \in DOMAIN audit' : audit'[i] = audit'[j] => i = j
    <3>1. CASE log[k].table = Audit
      <4>1. audit' = Append(audit, k) /\ audit \in Seq(Nat)
        BY <1>4, <2>4, <3>1 DEF Execute, Numbered, TypeOK
      <4>2. \A i \in DOMAIN audit' : \/ i \in DOMAIN audit /\ audit'[i] = audit[i]
                                     \/ i = Len(audit) + 1 /\ audit'[i] = k
        BY <4>1
      <4>. QED  BY <2>1, <2>4, <4>2 DEF InOnePlace
    <3>2. CASE log[k].table # Audit
      <4>1. audit' = audit
        BY <1>4, <3>2 DEF Execute
      <4>. QED  BY <2>1, <4>1 DEF InOnePlace
    <3>. QED  BY <3>1, <3>2
  <2>. QED  BY <2>1, <2>5, <2>6, <2>7 DEF InOnePlace
<1>5. ASSUME NEW th \in Thread, FinishFlush(th)
      PROVE  Once'
  <2>1. /\ UNCHANGED <<buffer, executed, audit, failures>> /\ batch'[th] = <<>>
        /\ \A o \in Thread : o # th => batch'[o] = batch[o] /\ pos'[o] = pos[o]
    BY <1>5 DEF FinishFlush, Done, TypeOK
  <2>. SUFFICES ASSUME failures = 0, InOnePlace PROVE InOnePlace'
    BY <2>1 DEF Once
  <2>2. DOMAIN batch'[th] = {}
    BY <2>1
  <2>3. ASSUME NEW o \in Thread
        PROVE  /\ \A i, j \in DOMAIN batch'[o] : batch'[o][i] = batch'[o][j] => i = j
               /\ \A i \in DOMAIN batch'[o] : i > pos'[o] => batch'[o][i] \notin executed
               /\ \A i \in DOMAIN batch'[o], j \in DOMAIN buffer : batch'[o][i] # buffer[j]
               /\ \A q \in Thread \ {o} :
                      \A i \in DOMAIN batch'[o], j \in DOMAIN batch'[q] :
                          batch'[o][i] # batch'[q][j]
    <3>1. CASE o = th
      BY <2>2, <3>1
    <3>2. CASE o # th
      <4>1. batch'[o] = batch[o] /\ pos'[o] = pos[o]
        BY <2>1, <3>2
      <4>2. \A q \in Thread \ {o} : \A i \in DOMAIN batch[o], j \in DOMAIN batch'[q] :
                batch[o][i] # batch'[q][j]
        BY <2>1, <2>2, <3>2 DEF InOnePlace
      <4>. QED  BY <4>1, <4>2 DEF InOnePlace
    <3>. QED  BY <3>1, <3>2
  <2>. QED  BY <2>1, <2>3 DEF InOnePlace
<1>6. ASSUME NEW th \in Thread, FailFlush(th)
      PROVE  Once'
  <2>1. failures' # 0
    BY <1>6 DEF FailFlush, TypeOK
  <2>. QED  BY <2>1 DEF Once
<1>7. CASE BeginExit
  BY <1>7 DEF BeginExit, Once, InOnePlace
<1>8. CASE Stop
  <2>1. /\ UNCHANGED <<executed, audit, failures>>
        /\ DOMAIN buffer' = {} /\ \A th \in Thread : DOMAIN batch'[th] = {}
    BY <1>8 DEF Stop
  <2>. QED  BY <2>1 DEF Once, InOnePlace
<1>9. CASE Start \/ UNCHANGED vars
  BY <1>9 DEF Start, vars, Once, InOnePlace
<1>. QED
  BY <1>1, <1>2, <1>3, <1>4, <1>5, <1>6, <1>7, <1>8, <1>9
  DEF Next, Flush, FinishExit, Crash

(* At first there are no statements and no audit rows.                     *)
LEMMA InitOnce == Init => Idle /\ Numbered /\ Once
  BY DEF Init, Idle, Numbered, Once, InOnePlace, Issued

(* While no flush fails, each audit row is durable at most once.           *)
THEOREM SafeAudit == Spec => []AuditOnceWithoutFailure
<1>. DEFINE Inv == TypeOK /\ Idle /\ Numbered /\ Once
<1>1. Init => Inv
  BY InitTypes, InitOnce
<1>2. Inv /\ [Next]_vars => Inv'
  BY NextTypes, IdleStep, NumberedStep, OnceStep
<1>3. Inv => AuditOnceWithoutFailure
  BY DEF Once, InOnePlace, AuditOnceWithoutFailure
<1>. QED  BY <1>1, <1>2, <1>3, PTL DEF Spec

-----------------------------------------------------------------------------
(* What has been reached in this run of the process is durable.            *)
LEMMA ReachedIsDurable ==
  ASSUME TypeOK, Idle, Progress, NothingDropped, Consecutive, ~overlapped,
         NEW m \in Issued, m > epoch, m <= Reached
  PROVE  m \in executed
<1>1. PICK r \in Nat : r = Rest[Main]
  BY RestTyped DEF Thread
<1>2. PICK s \in Nat : s = Rest[Periodic]
  BY RestTyped DEF Thread
<1>3. PICK l \in Nat : l = Len(log)
  BY Lengths
<1>4. PICK b \in Nat : b = Len(buffer)
  BY Lengths
<1>5. PICK n \in Nat : n = m
  BY <1>3 DEF Issued
<1>6. n <= l - (b + r + s)
  BY <1>1, <1>2, <1>3, <1>4, <1>5 DEF Reached, Behind
<1>7. m \notin Range(buffer)
  <2>. SUFFICES ASSUME NEW i \in DOMAIN buffer, buffer[i] = m PROVE FALSE
    BY Zenon DEF Range
  <2>1. buffer[i] = Len(log) - Len(buffer) + i
    BY DEF Consecutive
  <2>2. i \in Int /\ i > 0
    BY Numbers
  <2>3. n = l - b + i
    BY <1>3, <1>4, <1>5, <2>1
  <2>. QED  BY <1>6, <2>2, <2>3
<1>8. ASSUME NEW th \in Thread, m \in Range(batch[th]) PROVE m \in executed
  <2>1. PICK i \in DOMAIN batch[th] : batch[th][i] = m
    BY <1>8, Zenon DEF Range
  <2>2. i \in Int /\ i > 0
    BY Numbers
  <2>3. pc[th] = "flushing"
    <3>1. batch[th] # <<>>
      BY <2>1
    <3>. QED  BY <3>1 DEF Idle
  <2>4. m = Len(log) - Len(buffer) - Len(batch[th]) + i
    BY <2>1, <2>3 DEF Consecutive
  <2>5. PICK c \in Nat : c = Len(batch[th])
    BY Lengths
  <2>6. PICK p \in Nat : p = pos[th]
    BY Lengths
  <2>7. c - p = r \/ c - p = s
    BY <1>1, <1>2, <2>5, <2>6 DEF Rest, Thread
  <2>8. n = l - b - c + i
    BY <1>3, <1>4, <1>5, <2>4, <2>5
  <2>9. i <= p
    BY <1>6, <2>2, <2>7, <2>8
  <2>. QED  BY <2>1, <2>2, <2>6, <2>9 DEF Progress
<1>9. ~(m <= epoch)
  BY <1>5 DEF TypeOK
<1>. QED  BY <1>7, <1>8, <1>9 DEF NothingDropped

(* Every step keeps what is durable a prefix of what was issued.           *)
LEMMA PrefixStep ==
  ASSUME TypeOK, TypeOK', Idle, Progress, NothingDropped, Consecutive, DurablePrefix,
         [Next]_vars
  PROVE  DurablePrefix'
<1>1. ASSUME UNCHANGED <<log, executed, epoch>>, overlapped' \/ ~overlapped
      PROVE  DurablePrefix'
  BY <1>1 DEF DurablePrefix, Issued
<1>2. CASE Call
  BY <1>1, <1>2 DEF Call
<1>3. CASE BufferedWrite
  <2>1. /\ UNCHANGED <<executed, epoch, overlapped>> /\ executed \subseteq Issued
        /\ Len(log') = Len(log) + 1
    BY <1>3 DEF BufferedWrite, TypeOK
  <2>2. ASSUME NEW n \in executed, NEW m \in Issued', m <= n PROVE m \in Issued
    <3>1. n <= Len(log) /\ n \in Nat /\ m \in Nat /\ m >= 1
      BY <2>1, <2>2, Lengths DEF Issued
    <3>. QED  BY <2>2, <3>1, Lengths DEF Issued
  <2>. QED  BY <2>1, <2>2 DEF DurablePrefix
<1>4. ASSUME NEW th \in Thread, TakeBatch(th)
      PROVE  DurablePrefix'
  BY <1>1, <1>4 DEF TakeBatch
<1>5. ASSUME NEW th \in Thread, Execute(th)
      PROVE  DurablePrefix'
  <2>. DEFINE k == batch[th][pos[th] + 1]
  <2>1. /\ UNCHANGED <<log, epoch, overlapped>> /\ executed' = executed \cup {k}
        /\ Issued' = Issued
    BY <1>5 DEF Execute, Issued
  <2>. SUFFICES ASSUME ~overlapped, NEW n \in executed', NEW m \in Issued,
                       epoch < m, m <= n
                PROVE  m \in executed'
    BY <2>1 DEF DurablePrefix
  <2>2. CASE n \in executed
    BY <2>1, <2>2 DEF DurablePrefix
  <2>3. CASE n = k
    <3>1. k = Reached + 1 /\ Reached \in Int
      BY <1>5, ExecuteReaches
    <3>2. m \in Nat /\ epoch \in Nat
      BY Lengths DEF Issued, TypeOK
    <3>3. CASE m = k
      BY <2>1, <3>3
    <3>4. CASE m # k
      <4>1. m <= Reached /\ m > epoch
        BY <2>3, <3>1, <3>2, <3>4
      <4>. QED  BY <2>1, <4>1, ReachedIsDurable
    <3>. QED  BY <3>3, <3>4
  <2>. QED  BY <2>1, <2>2, <2>3
<1>6. ASSUME NEW th \in Thread, FinishFlush(th) \/ FailFlush(th)
      PROVE  DurablePrefix'
  BY <1>1, <1>6 DEF FinishFlush, FailFlush
<1>7. CASE Stop \/ Start
  <2>1. /\ epoch' = Len(log) /\ log' = log
    BY <1>7 DEF Stop, Start, Idle
  <2>2. \A m \in Issued' : ~(epoch' < m)
    BY <2>1, Lengths DEF Issued
  <2>. QED  BY <2>2 DEF DurablePrefix
<1>8. CASE BeginExit \/ UNCHANGED vars
  BY <1>1, <1>8 DEF BeginExit, vars
<1>. QED
  BY <1>2, <1>3, <1>4, <1>5, <1>6, <1>7, <1>8 DEF Next, Flush, FinishExit, Crash

(* Unless two flushes overlapped, a statement is durable only after every   *)
(* earlier one of the same run of the process: a crash cannot keep a trade  *)
(* and lose the portfolio that was saved before it.                         *)
THEOREM SafePrefix == Spec => []DurablePrefix
<1>. DEFINE Inv == /\ TypeOK /\ Idle /\ Progress /\ NothingDropped /\ Consecutive
                   /\ DurablePrefix
<1>1. Init => Inv
  <2>1. Init => DurablePrefix
    BY DEF Init, DurablePrefix
  <2>. QED  BY <2>1, InitTypes, InitHeld, InitOrder
<1>2. Inv /\ [Next]_vars => Inv'
  BY NextTypes, IdleStep, HeldStep, ConsecutiveStep, PrefixStep
<1>3. Inv => DurablePrefix
  OBVIOUS
<1>. QED  BY <1>1, <1>2, <1>3, PTL DEF Spec

-----------------------------------------------------------------------------
(* Nothing in memory is of an earlier run of the process.                  *)
Recent ==
    /\ \A i \in DOMAIN buffer : buffer[i] > epoch
    /\ \A th \in Thread : \A i \in DOMAIN batch[th] : batch[th][i] > epoch

(* No step brings a statement of an earlier run back.                      *)
LEMMA RecentStep ==
  ASSUME TypeOK, Recent, [Next]_vars
  PROVE  Recent'
<1>1. CASE Call \/ BeginExit \/ Start \/ UNCHANGED vars
  BY <1>1 DEF Call, BeginExit, Start, vars, Recent
<1>2. CASE BufferedWrite
  <2>1. /\ UNCHANGED <<batch, epoch>> /\ buffer' = Append(buffer, Len(log) + 1)
        /\ epoch \in Nat /\ epoch <= Len(log)
    BY <1>2 DEF BufferedWrite, TypeOK
  <2>2. Len(log) + 1 > epoch
    BY <2>1, Lengths
  <2>3. \A i \in DOMAIN buffer' : \/ i \in DOMAIN buffer /\ buffer'[i] = buffer[i]
                                  \/ buffer'[i] = Len(log) + 1
    BY <2>1, Numbers
  <2>. QED  BY <2>1, <2>2, <2>3 DEF Recent
<1>3. ASSUME NEW th \in Thread, TakeBatch(th)
      PROVE  Recent'
  <2>1. UNCHANGED epoch /\ DOMAIN buffer' = {}
    BY <1>3 DEF TakeBatch
  <2>2. \A o \in Thread : batch'[o] = batch[o] \/ batch'[o] = buffer
    BY <1>3 DEF TakeBatch, TypeOK
  <2>. QED  BY <2>1, <2>2 DEF Recent
<1>4. ASSUME NEW th \in Thread, Execute(th)
      PROVE  Recent'
  BY <1>4 DEF Execute, Recent
<1>5. ASSUME NEW th \in Thread, FinishFlush(th) \/ FailFlush(th)
      PROVE  Recent'
  <2>1. UNCHANGED epoch /\ (buffer' = buffer \/ buffer' = batch[th] \o buffer)
    BY <1>5 DEF FinishFlush, FailFlush
  <2>2. \A o \in Thread : batch'[o] = batch[o] \/ DOMAIN batch'[o] = {}
    BY <1>5 DEF FinishFlush, FailFlush, Done, TypeOK
  <2>3. ASSUME buffer' = batch[th] \o buffer, NEW i \in DOMAIN buffer'
        PROVE  \/ i \in DOMAIN batch[th] /\ buffer'[i] = batch[th][i]
               \/ i - Len(batch[th]) \in DOMAIN buffer
                  /\ buffer'[i] = buffer[i - Len(batch[th])]
    BY <2>3, Numbers
  <2>4. \A i \in DOMAIN buffer' : buffer'[i] > epoch
    BY <2>1, <2>3 DEF Recent
  <2>. QED  BY <2>1, <2>2, <2>4 DEF Recent
<1>6. CASE Stop
  <2>1. DOMAIN buffer' = {} /\ \A th \in Thread : DOMAIN batch'[th] = {}
    BY <1>6 DEF Stop
  <2>. QED  BY <2>1 DEF Recent
<1>. QED  BY <1>1, <1>2, <1>3, <1>4, <1>5, <1>6 DEF Next, Flush, FinishExit, Crash

(* What a failed flush puts back is of this run of the process: all that is *)
(* in memory afterwards is in the buffer.                                   *)
LEMMA BufferIsRecent ==
  ASSUME TypeOK', Consecutive', Recent', ~overlapped',
         \A th \in Thread : batch'[th] = <<>> /\ pos'[th] = 0
  PROVE  epoch' <= Reached'
<1>1. /\ Len(log') \in Nat /\ Len(buffer') \in Nat /\ buffer' \in Seq(Issued')
      /\ epoch' \in Nat /\ epoch' <= Len(log')
  BY DEF TypeOK
<1>2. Rest'[Main] = 0 /\ Rest'[Periodic] = 0
  BY DEF Rest, Thread
<1>3. PICK l \in Nat : l = Len(log')
  BY <1>1
<1>4. PICK b \in Nat : b = Len(buffer')
  BY <1>1
<1>5. PICK e \in Nat : e = epoch' /\ e <= l
  BY <1>1, <1>3
<1>6. Reached' = l - (b + 0 + 0)
  BY <1>2, <1>3, <1>4 DEF Reached, Behind
<1>7. CASE b = 0
  BY <1>5, <1>6, <1>7
<1>8. CASE b # 0
  <2>1. 1 \in DOMAIN buffer'
    BY <1>1, <1>4, <1>8
  <2>2. buffer'[1] = l - b + 1 /\ buffer'[1] > e
    BY <1>3, <1>4, <1>5, <2>1 DEF Consecutive, Recent
  <2>. QED  BY <1>5, <1>6, <2>2
<1>. QED  BY <1>7, <1>8

(* Every step without overlapping flushes is one of the queue's.           *)
LEMMA QueueStep ==
  ASSUME TypeOK, TypeOK', Idle, Consecutive, Consecutive', Recent', [Next]_vars,
         ~overlapped'
  PROVE  IF failures' = failures THEN Queue!Orderly \/ UNCHANGED Queue!vars
                                 ELSE Queue!Repeat
<1>1. ASSUME UNCHANGED <<log, db, audit, epoch, failures>>, Reached' = Reached
      PROVE  failures' = failures /\ UNCHANGED Queue!vars
  BY <1>1 DEF Queue!vars
<1>2. CASE Call \/ BeginExit \/ Start \/ UNCHANGED vars
  <2>1. UNCHANGED <<log, db, audit, epoch, failures, buffer, batch, pos>>
    BY <1>2 DEF Call, BeginExit, Start, vars
  <2>2. Reached' = Reached
    BY <2>1 DEF Reached, Behind, Rest
  <2>. QED  BY <1>1, <2>1, <2>2
<1>3. CASE BufferedWrite
  <2>1. /\ UNCHANGED <<db, audit, epoch, failures>>
        /\ log' = Append(log, Head(todo)) /\ log \in Seq(Statement)
    BY <1>3 DEF BufferedWrite, TypeOK
  <2>2. Reached' = Reached
    BY <1>3, WriteReaches
  <2>3. Head(todo) \in Statement
    BY <1>3 DEF BufferedWrite, TypeOK
  <2>4. Len(log') = Len(log) + 1 /\ log'[Len(log')] = Head(todo)
    BY <2>1, <2>3
  <2>5. Queue!Issue
    BY <2>1, <2>2, <2>4 DEF Queue!Issue
  <2>. QED  BY <2>1, <2>5 DEF Queue!Orderly
<1>4. ASSUME NEW th \in Thread, TakeBatch(th)
      PROVE  failures' = failures /\ UNCHANGED Queue!vars
  <2>1. UNCHANGED <<log, db, audit, epoch, failures>>
    BY <1>4 DEF TakeBatch
  <2>. QED  BY <1>1, <1>4, <2>1, TakeReaches
<1>5. ASSUME NEW th \in Thread, Execute(th)
      PROVE  failures' = failures /\ Queue!Orderly
  <2>. DEFINE k == batch[th][pos[th] + 1]
  <2>1. /\ UNCHANGED <<log, epoch, failures, overlapped>>
        /\ pos[th] \in Nat /\ pos[th] < Len(batch[th]) /\ batch[th] \in Seq(Issued)
    BY <1>5 DEF Execute, TypeOK
  <2>2. Reached \in Int /\ Reached' = Reached + 1 /\ k = Reached + 1
    BY <1>5, <2>1, ExecuteReaches
  <2>3. k \in Issued
    BY <2>1
  <2>4. Reached < Len(log)
    BY <2>2, <2>3, Lengths DEF Issued
  <2>5. /\ log[k].table = Audit => audit' = Append(audit, log[k].value) /\ UNCHANGED db
        /\ log[k].table # Audit =>
               db' = [db EXCEPT ![log[k].table] = log[k].value] /\ UNCHANGED audit
    BY <1>5 DEF Execute
  <2>6. Reached' = k
    BY <2>2
  <2>7. Queue!Persist
    BY <2>1, <2>2, <2>4, <2>5, <2>6 DEF Queue!Persist
  <2>. QED  BY <2>1, <2>7 DEF Queue!Orderly
<1>6. ASSUME NEW th \in Thread, FinishFlush(th)
      PROVE  failures' = failures /\ UNCHANGED Queue!vars
  <2>1. UNCHANGED <<log, db, audit, epoch, failures>>
    BY <1>6 DEF FinishFlush
  <2>. QED  BY <1>1, <1>6, <2>1, FinishReaches
<1>7. ASSUME NEW th \in Thread, FailFlush(th)
      PROVE  failures' # failures /\ Queue!Repeat
  <2>1. /\ UNCHANGED <<log, db, audit, epoch, overlapped>> /\ pc[th] = "flushing"
        /\ failures' = failures + 1 /\ failures \in Nat /\ Done(th)
    BY <1>7 DEF FailFlush, TypeOK
  <2>2. ASSUME NEW o \in Thread PROVE batch'[o] = <<>> /\ pos'[o] = 0
    <3>1. CASE o = th
      BY <2>1, <3>1 DEF Done, TypeOK
    <3>2. CASE o # th
      <4>1. batch[o] = <<>>
        BY <2>1, <3>2 DEF Consecutive, Idle
      <4>2. pos[o] = 0
        BY <4>1, Lengths
      <4>. QED  BY <2>1, <3>2, <4>1, <4>2 DEF Done, TypeOK
    <3>. QED  BY <3>1, <3>2
  <2>3. epoch' <= Reached'
    BY <2>2, BufferIsRecent
  <2>4. Reached \in Int /\ Reached' \in Int /\ Reached' <= Reached
    BY <1>7, FailReaches
  <2>5. Reached' \in epoch .. Reached
    <3>1. epoch \in Int /\ epoch' = epoch
      BY <2>1 DEF TypeOK
    <3>. QED  BY <2>3, <2>4, <3>1
  <2>6. failures' # failures
    BY <2>1
  <2>. QED  BY <2>1, <2>5, <2>6 DEF Queue!Repeat
<1>8. CASE Stop
  <2>1. /\ UNCHANGED <<log, db, audit, failures>> /\ epoch' = Len(log)
        /\ buffer' = <<>> /\ batch' = [th \in Thread |-> <<>>]
        /\ pos' = [th \in Thread |-> 0]
    BY <1>8 DEF Stop
  <2>2. Rest'[Main] = 0 /\ Rest'[Periodic] = 0 /\ Len(buffer') = 0
    BY <2>1 DEF Rest, Thread
  <2>3. Reached' = Len(log)
    BY <2>1, <2>2, Lengths DEF Reached, Behind
  <2>4. Queue!Lose
    BY <2>1, <2>3 DEF Queue!Lose
  <2>. QED  BY <2>1, <2>4 DEF Queue!Orderly
<1>. QED
  BY <1>2, <1>3, <1>4, <1>5, <1>6, <1>7, <1>8 DEF Next, Flush, FinishExit, Crash

(* At first nothing has been issued, reached or lost.                      *)
LEMMA InitQueue == Init => Queue!Init /\ Recent
<1>. SUFFICES ASSUME Init PROVE Queue!Init /\ Recent
  OBVIOUS
<1>1. Len(log) = 0 /\ Len(buffer) = 0 /\ Rest[Main] = 0 /\ Rest[Periodic] = 0
  BY DEF Init, Rest, Thread
<1>2. Reached = 0
  BY <1>1 DEF Reached, Behind
<1>. QED  BY <1>2 DEF Init, Queue!Init, Recent

(* Unless two flushes overlap, the store is the queue that its clients take *)
(* it for: one statement after the other takes effect in the order they     *)
(* were issued, a failed flush repeats some of this run of the process, and *)
(* what a stop loses does not come back.                                    *)
THEOREM ImplementsQueue == Spec => StoreIsQueue
<1>. DEFINE Inv == TypeOK /\ Idle /\ Consecutive /\ Recent
<1>1. Init => Inv /\ Queue!Init
  BY InitTypes, InitOrder, InitQueue
<1>2. Inv /\ [Next]_vars => Inv'
  BY NextTypes, IdleStep, ConsecutiveStep, RecentStep
<1>3. Inv /\ Inv' /\ [Next]_vars =>
          [~overlapped' =>
               IF failures' = failures THEN Queue!Orderly \/ UNCHANGED Queue!vars
                                       ELSE Queue!Repeat]_vars
  BY QueueStep
<1>. QED  BY <1>1, <1>2, <1>3, PTL DEF Spec, StoreIsQueue
=============================================================================
