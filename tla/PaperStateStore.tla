-------------------------- MODULE PaperStateStore --------------------------
(***************************************************************************)
(* The buffered DuckDB store of the paper-trading service                  *)
(* (services/paper_trading/state_store.py).  The main thread (the event    *)
(* loop) issues SQL statements into _write_buffer and flushes it when it is *)
(* full; a daemon thread flushes it periodically.  A flush takes the buffer *)
(* under _buffer_lock and executes it outside the lock, statement by        *)
(* statement, each durable on its own; a failure puts the whole batch back. *)
(* An operator marked "Variant" is the definition after it with a mistake;  *)
(* nothing uses it but the test that the properties find the mistake.       *)
(***************************************************************************)
EXTENDS Integers, Sequences, Functions

CONSTANTS
    BufferSize,     \* _buffer_size: the length at which a writer flushes
    ShutdownFlush,  \* whether the exit handlers flush this instance: they
                    \* know the module-level paper_state_store only
    MaxStatements,  \* bound: statements issued
    MaxFailures,    \* bound: flushes that raise
    MaxStops        \* bound: exits and crashes

ASSUME StoreAssumption ==
    /\ BufferSize \in Nat \ {0}
    /\ ShutdownFlush \in BOOLEAN
    /\ MaxStatements \in Nat /\ MaxFailures \in Nat /\ MaxStops \in Nat

Main == "main"
Periodic == "periodic"
Thread == {Main, Periodic}

(* portfolio_state and config hold one row (the cycle date); positions is  *)
(* one value too, as save_positions always rewrites it: 0 is the empty     *)
(* table.  audit_log is a list of rows, daily/trade/order inserts behave   *)
(* like a config upsert of another key.                                    *)
Table == {"portfolio_state", "positions", "config"}
Audit == "audit_log"

VARIABLES
    log,       \* every statement issued so far, in order; a statement is named by its index
    todo,      \* statements the main thread's current call has still to issue
    buffer,    \* _write_buffer, a sequence of statements
    pc,        \* where each thread is: "idle", "full" (about to flush), "flushing"
    batch,     \* the copy of the buffer a flushing thread executes
    pos,       \* how much of its batch a flushing thread has executed
    db,        \* the durable value of each table
    audit,     \* the durable audit rows
    process,   \* "up", "exiting", "down"
    executed,  \* history: the statements that have been made durable
    epoch,     \* history: how many statements had been issued when the process last stopped
    overlapped,\* history: two flushes have been under way at once since the start
    failures,  \* flushes that raised so far
    stops      \* exits and crashes so far

vars == <<log, todo, buffer, pc, batch, pos, db, audit, process, executed,
          epoch, overlapped, failures, stops>>

(* A statement sets a table to a value, or appends an audit row.           *)
Statement == [table : Table \cup {Audit}, value : Nat]

Issued == 1 .. Len(log)

TypeOK ==
    /\ log \in Seq(Statement)
    /\ todo \in Seq(Statement)
    /\ buffer \in Seq(Issued)
    /\ pc \in [Thread -> {"idle", "full", "flushing"}]
    /\ batch \in [Thread -> Seq(Issued)]
    /\ pos \in [Thread -> Nat]
    /\ \A th \in Thread : pos[th] <= Len(batch[th])
    /\ db \in [Table -> Nat]
    /\ audit \in Seq(Nat)
    /\ process \in {"up", "exiting", "down"}
    /\ executed \subseteq Issued
    /\ epoch \in Nat /\ epoch <= Len(log)
    /\ overlapped \in BOOLEAN
    /\ failures \in Nat /\ stops \in Nat

Init ==
    /\ log = <<>> /\ todo = <<>> /\ buffer = <<>>
    /\ pc = [th \in Thread |-> "idle"]
    /\ batch = [th \in Thread |-> <<>>]
    /\ pos = [th \in Thread |-> 0]
    /\ db = [t \in Table |-> 0]
    /\ audit = <<>>
    /\ process = "up"
    /\ executed = {} /\ epoch = 0 /\ overlapped = FALSE
    /\ failures = 0 /\ stops = 0

-----------------------------------------------------------------------------
(* The calls of the store's clients, as the statements each one issues.    *)
(* v distinguishes the calls.                                              *)
SavePortfolio(v) ==
    << [table |-> "portfolio_state", value |-> v],
       [table |-> "positions", value |-> 0],
       [table |-> "positions", value |-> v] >>

SetConfig(v) == << [table |-> "config", value |-> v] >>

AppendAudit(v) == << [table |-> Audit, value |-> v] >>

Call ==
    /\ process = "up" /\ pc[Main] = "idle" /\ todo = <<>>
    /\ \E op \in {SavePortfolio(Len(log) + 1), SetConfig(Len(log) + 1),
                  AppendAudit(Len(log) + 1)} :
            /\ Len(log) + Len(op) <= MaxStatements
            /\ todo' = op
    /\ UNCHANGED <<log, buffer, pc, batch, pos, db, audit, process, executed,
                   epoch, overlapped, failures, stops>>

(* _buffered_write                                                         *)
(* Variant: the flush waits for one statement more than the buffer's size. *)
WriteBeyondSize ==
    /\ process = "up" /\ pc[Main] = "idle" /\ todo # <<>>
    /\ log' = Append(log, Head(todo))
    /\ todo' = Tail(todo)
    /\ buffer' = Append(buffer, Len(log) + 1)
    /\ pc' = IF Len(buffer') > BufferSize THEN [pc EXCEPT ![Main] = "full"] ELSE pc
    /\ UNCHANGED <<batch, pos, db, audit, process, executed, epoch, overlapped,
                   failures, stops>>

BufferedWrite ==
    /\ process = "up" /\ pc[Main] = "idle" /\ todo # <<>>
    /\ log' = Append(log, Head(todo))
    /\ todo' = Tail(todo)
    /\ buffer' = Append(buffer, Len(log) + 1)
    /\ pc' = IF Len(buffer') >= BufferSize THEN [pc EXCEPT ![Main] = "full"] ELSE pc
    /\ UNCHANGED <<batch, pos, db, audit, process, executed, epoch, overlapped,
                   failures, stops>>

(* Variant: the batch is copied and the buffer kept.                       *)
TakeWithoutClear(th) ==
    /\ process # "down"
    /\ pc[th] = (IF th = Main THEN "full" ELSE "idle")
    /\ buffer # <<>>
    /\ pc' = [pc EXCEPT ![th] = "flushing"]
    /\ batch' = [batch EXCEPT ![th] = buffer]
    /\ pos' = [pos EXCEPT ![th] = 0]
    /\ overlapped' = (overlapped \/ \E o \in Thread : pc[o] = "flushing")
    /\ UNCHANGED <<log, todo, buffer, db, audit, process, executed, epoch, failures,
                   stops>>

(* The first critical section of _flush_buffer.  The periodic thread comes *)
(* here whenever its timer fires.                                          *)
TakeBatch(th) ==
    /\ process # "down"
    /\ pc[th] = (IF th = Main THEN "full" ELSE "idle")
    /\ IF buffer = <<>>
       THEN /\ pc' = [pc EXCEPT ![th] = "idle"]
            /\ UNCHANGED <<batch, pos, overlapped>>
       ELSE /\ pc' = [pc EXCEPT ![th] = "flushing"]
            /\ batch' = [batch EXCEPT ![th] = buffer]
            /\ pos' = [pos EXCEPT ![th] = 0]
            /\ overlapped' = (overlapped \/ \E o \in Thread : pc[o] = "flushing")
    /\ buffer' = <<>>
    /\ UNCHANGED <<log, todo, db, audit, process, executed, epoch, failures, stops>>

(* conn.execute(query, params): autocommitted by DuckDB.                   *)
Execute(th) ==
    /\ process # "down"
    /\ pc[th] = "flushing" /\ pos[th] < Len(batch[th])
    /\ LET n == batch[th][pos[th] + 1]
           s == log[n]
       IN  /\ IF s.table = Audit
              THEN audit' = Append(audit, s.value) /\ UNCHANGED db
              ELSE db' = [db EXCEPT ![s.table] = s.value] /\ UNCHANGED audit
           /\ executed' = executed \cup {n}
    /\ pos' = [pos EXCEPT ![th] = @ + 1]
    /\ UNCHANGED <<log, todo, buffer, pc, batch, process, epoch, overlapped,
                   failures, stops>>

(* Variant: the position in the batch is not reset.                        *)
DoneKeepingPos(th) ==
    /\ pc' = [pc EXCEPT ![th] = "idle"]
    /\ batch' = [batch EXCEPT ![th] = <<>>]
    /\ UNCHANGED pos

Done(th) ==
    /\ pc' = [pc EXCEPT ![th] = "idle"]
    /\ batch' = [batch EXCEPT ![th] = <<>>]
    /\ pos' = [pos EXCEPT ![th] = 0]

FinishFlush(th) ==
    /\ process # "down"
    /\ pc[th] = "flushing" /\ pos[th] = Len(batch[th])
    /\ Done(th)
    /\ UNCHANGED <<log, todo, buffer, db, audit, process, executed, epoch,
                   overlapped, failures, stops>>

(* Variants: a failed batch is dropped, or goes to the back of the buffer. *)
FailDropping(th) ==
    /\ process # "down"
    /\ pc[th] = "flushing" /\ failures < MaxFailures
    /\ Done(th)
    /\ failures' = failures + 1
    /\ UNCHANGED <<log, todo, buffer, db, audit, process, executed, epoch,
                   overlapped, stops>>

FailAppending(th) ==
    /\ process # "down"
    /\ pc[th] = "flushing" /\ failures < MaxFailures
    /\ Done(th)
    /\ buffer' = buffer \o batch[th]
    /\ failures' = failures + 1
    /\ UNCHANGED <<log, todo, db, audit, process, executed, epoch, overlapped, stops>>

(* Connecting, executing or committing raised: the whole batch goes back   *)
(* to the front of the buffer, what it had already executed included.      *)
FailFlush(th) ==
    /\ process # "down"
    /\ pc[th] = "flushing" /\ failures < MaxFailures
    /\ Done(th)
    /\ buffer' = batch[th] \o buffer
    /\ failures' = failures + 1
    /\ UNCHANGED <<log, todo, db, audit, process, executed, epoch, overlapped, stops>>

-----------------------------------------------------------------------------
(* The interpreter exits: the main thread has returned, atexit runs        *)
(* _flush_paper_on_exit, which flushes this instance or another one.       *)
BeginExit ==
    /\ process = "up" /\ pc[Main] = "idle" /\ todo = <<>>
    /\ stops < MaxStops
    /\ process' = "exiting"
    /\ pc' = IF ShutdownFlush THEN [pc EXCEPT ![Main] = "full"] ELSE pc
    /\ UNCHANGED <<log, todo, buffer, batch, pos, db, audit, executed, epoch,
                   overlapped, failures, stops>>

(* Everything in memory goes, whatever the daemon thread was doing.        *)
Stop ==
    /\ process' = "down"
    /\ todo' = <<>> /\ buffer' = <<>>
    /\ pc' = [th \in Thread |-> "idle"]
    /\ batch' = [th \in Thread |-> <<>>]
    /\ pos' = [th \in Thread |-> 0]
    /\ epoch' = Len(log)
    /\ stops' = stops + 1
    /\ UNCHANGED <<log, db, audit, executed, overlapped, failures>>

FinishExit == process = "exiting" /\ pc[Main] = "idle" /\ Stop

Crash == process # "down" /\ stops < MaxStops /\ Stop

Start ==
    /\ process = "down"
    /\ process' = "up"
    /\ overlapped' = FALSE
    /\ UNCHANGED <<log, todo, buffer, pc, batch, pos, db, audit, executed, epoch,
                   failures, stops>>

Flush(th) == TakeBatch(th) \/ Execute(th) \/ FinishFlush(th)

Next ==
    \/ Call
    \/ BufferedWrite
    \/ \E th \in Thread : Flush(th) \/ FailFlush(th)
    \/ BeginExit \/ FinishExit \/ Crash \/ Start

Spec == Init /\ [][Next]_vars

(* The periodic loop wakes every _flush_interval seconds for as long as    *)
(* the process runs, and a thread that has begun a flush or a call goes on.*)
FairSpec ==
    /\ Spec
    /\ WF_vars(BufferedWrite)
    /\ \A th \in Thread : WF_vars(Flush(th))
    /\ WF_vars(FinishExit)

-----------------------------------------------------------------------------
(* A statement issued in this run of the process is durable, in the buffer *)
(* or in a batch being executed: between the two critical sections of a    *)
(* flush, and when a flush fails half way, nothing falls between them.     *)
NothingDropped ==
    \A n \in Issued :
        \/ n <= epoch
        \/ n \in executed
        \/ n \in Range(buffer)
        \/ \E th \in Thread : n \in Range(batch[th])

Quiet == process = "up" /\ buffer = <<>> /\ \A th \in Thread : pc[th] = "idle"

(* The statements of this run that write table t.                          *)
WritesOf(t) == {n \in Issued : n > epoch /\ log[n].table = t}

(* When nothing is left to flush, each table holds what the last statement *)
(* issued for it wrote, unless two flushes overlapped: batches that fail   *)
(* half way go back in front of what was issued meanwhile.                 *)
LastWriteWins ==
    Quiet /\ ~overlapped =>
        \A t \in Table : \A n \in WritesOf(t) :
            (\A m \in WritesOf(t) : m <= n) => db[t] = log[n].value

(* As long as no flush has raised, each audit row is durable at most once, *)
(* even when flushes overlap.                                              *)
AuditOnceWithoutFailure ==
    failures = 0 => \A i, j \in DOMAIN audit : audit[i] = audit[j] => i = j

(* The statements still to be executed, and the last one before them.      *)
Rest == [th \in Thread |-> Len(batch[th]) - pos[th]]

Behind == Len(buffer) + Rest[Main] + Rest[Periodic]

Reached == Len(log) - Behind

(* What is durable of this run of the process is a prefix of what was       *)
(* issued, unless two flushes overlapped: a crash never keeps a statement   *)
(* and loses an earlier one, not even while a failed batch is repeated.     *)
DurablePrefix ==
    ~overlapped =>
        \A n \in executed : \A m \in Issued : epoch < m /\ m <= n => m \in executed

(* As long as no two flushes overlap, the store is the queue of statements  *)
(* that the rest of the service takes it for; only a failed flush repeats   *)
(* anything, and nothing that a stop has lost.                              *)
Queue == INSTANCE StatementQueue WITH reached <- Reached, lost <- epoch

StoreIsQueue ==
    /\ Queue!Init
    /\ [][~overlapped' =>
              IF failures' = failures THEN Queue!Orderly \/ UNCHANGED Queue!vars
                                      ELSE Queue!Repeat]_vars

(* What an orderly exit costs as long as no flush has failed.  Handlers    *)
(* that do not know the instance lose what is in its buffer, always less   *)
(* than a full one; those that know it leave nothing there.  Either way,   *)
(* what the periodic thread is executing at that moment may be lost with   *)
(* it: nobody waits for it.  All else is durable.                          *)
ExitKeeps ==
    [][FinishExit /\ failures = 0 =>
           /\ \A n \in Issued : n > epoch =>
                  n \in executed \cup Range(buffer) \cup Range(batch[Periodic])
           /\ Len(buffer) < BufferSize /\ Len(batch[Periodic]) <= BufferSize
           /\ ShutdownFlush => buffer = <<>>]_vars

(* Whatever is issued becomes durable, through any finite number of failed *)
(* flushes, unless the process stops first.                                *)
EventuallyDurable ==
    \A n \in 1 .. MaxStatements :
        (n \in Issued) ~> (n \in executed \/ n <= epoch)

-----------------------------------------------------------------------------
(* "Program kapanip acilsa bile veri kaybolmaz" (line 6), "Graceful        *)
(* shutdown: buffer'i flush et" (line 618): nothing issued is lost by an   *)
(* orderly exit of the process.                                            *)
ExitLosesNothing ==
    [][FinishExit => \A n \in Issued : n > epoch => n \in executed]_vars
=============================================================================
