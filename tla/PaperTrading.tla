---------------------------- MODULE PaperTrading ----------------------------
(***************************************************************************)
(* The paper-trading service as a whole: the scheduler task and the tasks  *)
(* the portfolio API starts run the two daily cycles over one in-memory    *)
(* VirtualPortfolio and one buffered PaperStateStore, on one event loop.   *)
(*                                                                         *)
(* A step is what a task runs between two awaits.  Left out: prices (a lot *)
(* is worth 1), commissions, the risk gate's reasons and the market data,  *)
(* which here only decide whether an order fills and how much of it.  The  *)
(* store is the queue of statements that PaperStateStore describes in      *)
(* detail: its statements become durable one by one, in order.             *)
(* "Variant" marks a mistaken form of the definition after it.             *)
(***************************************************************************)
EXTENDS PortfolioOps, Sequences, FiniteSets, SequencesExt

CONSTANTS
    Capital,      \* initial_capital
    OrderLots,    \* lots a BUY signal is sized to
    Gross,        \* tickers under gross settlement (the KAP registry)
    Weekend,      \* days without a session
    Deposits,     \* amounts of the deposit endpoint
    Prompt,       \* bound: whether half a day passes only once every write is
                  \* durable and the debounce interval is over (both take 30 s)
    LastTime,     \* bound: half days the clock runs for
    MaxCrashes,   \* bound: times the process stops
    MaxRequests,  \* bound: requests to the API, whatever they ask
    MaxDeposited  \* bound: money deposited in all

ASSUME TradingAssumption ==
    /\ IsFiniteSet(Ticker)
    /\ Capital \in Nat /\ OrderLots \in Nat \ {0}
    /\ Gross \subseteq Ticker /\ Weekend \subseteq Nat
    /\ Deposits \subseteq Nat \ {0} /\ Prompt \in BOOLEAN
    /\ LastTime \in Nat /\ MaxCrashes \in Nat
    /\ MaxRequests \in Nat /\ MaxDeposited \in Nat

Task == {"scheduler", "api"}
None == -1

(* The clock counts half days: 2*d is day d from 09:55, 2*d + 1 from 18:15.*)
Time == 0 .. LastTime
DayOf(time) == time \div 2
Day == 0 .. DayOf(LastTime)
IsMorning(time) == time % 2 = 0
IsSession(d) == d \notin Weekend

Signal == [side : {"BUY", "SELL"}, ticker : Ticker, made : Time]

(* Statements in the write buffer.  The row of portfolio_state holds the   *)
(* whole snapshot as JSON, and that row alone is loaded; the positions     *)
(* table written after it is never read back.                              *)
Statement == [op : {"portfolio"}, pf : Portfolio]
        \cup [op : {"date"}, date : Day]
        \cup [op : {"signal"}, signal : Signal]
        \cup [op : {"order"}, ticker : Ticker]
        \cup [op : {"clear"}]

(* What is durable: the row of portfolio_state, if there is one, the date   *)
(* of the last completed cycle, the pending signals, the shares ordered.    *)
Database == [pf : Seq(Portfolio), date : Day \cup {None},
             pending : SUBSET Signal, ordered : SUBSET Ticker]

VARIABLES
    now,       \* the clock
    up,        \* the process runs
    pf,        \* paper_orchestrator.portfolio
    db,        \* what is durable
    buffer,    \* the statements that are not durable yet
    ready,     \* 30 s have passed since should_save last said yes
    job,       \* the cycle each task is running
    booting,   \* the scheduler has not read last_cycle_date yet
    missed,    \* the cycles execute_full_catchup has still to replay
    due,       \* the scheduler's sleep has just ended
    crashes, requests,
    deposited, \* history: the acknowledged deposits
    bought     \* history: shares bought under gross settlement today

vars == <<now, up, pf, db, buffer, ready, job, booting, missed, due, crashes,
          requests, deposited, bought>>
history == <<deposited, bought>>

(* Where a cycle is: "morning" and "eod" are its first step, "value" the   *)
(* part of the evening cycle after its awaits, "logged" its last await when *)
(* it runs inside a morning cycle (nested), "execute" the blocking part of *)
(* the morning cycle.  held is current_positions, read before an await. *)
Job == [pc : {"idle", "morning", "eod", "value", "logged", "execute"}, day : Day,
        nested : BOOLEAN, held : SUBSET Ticker]

Idle == [pc |-> "idle", day |-> 0, nested |-> FALSE, held |-> {}]

Cycle == [day : Day, kind : {"morning", "eod"}]

NewJob(kind, d) == [Idle EXCEPT !.pc = kind, !.day = d]

TypeOK ==
    /\ now \in Time
    /\ up \in BOOLEAN /\ ready \in BOOLEAN /\ booting \in BOOLEAN /\ due \in BOOLEAN
    /\ pf \in Portfolio
    /\ db \in Database
    /\ buffer \in Seq(Statement)
    /\ job \in [Task -> Job]
    /\ missed \subseteq Cycle
    /\ crashes \in 0 .. MaxCrashes /\ requests \in 0 .. MaxRequests
    /\ deposited \in 0 .. MaxDeposited
    /\ bought \subseteq Ticker

Init ==
    /\ now = 0 /\ up = FALSE
    /\ pf = NewPortfolio(Capital)
    /\ db = [pf |-> <<>>, date |-> None, pending |-> {}, ordered |-> {}]
    /\ buffer = <<>> /\ ready = TRUE
    /\ job = [t \in Task |-> Idle]
    /\ booting = FALSE /\ missed = {} /\ due = FALSE
    /\ crashes = 0 /\ requests = 0
    /\ deposited = 0 /\ bought = {}

-----------------------------------------------------------------------------
Lots(p) == SumFunction(p.lots)

Held(p) == {t \in Ticker : p.lots[t] > 0}

Apply(d, st) ==
    CASE st.op = "portfolio" -> [d EXCEPT !.pf = <<st.pf>>]
      [] st.op = "date"      -> [d EXCEPT !.date = st.date]
      [] st.op = "signal"    -> [d EXCEPT !.pending = @ \cup {st.signal}]
      [] st.op = "order"     -> [d EXCEPT !.ordered = @ \cup {st.ticker}]
      [] st.op = "clear"     -> [d EXCEPT !.pending = {}]

(* Variant: the unsettled pools of the snapshot are forgotten.             *)
LoadedSettledOnly(p) ==
    IF db.pf = <<>> THEN p
    ELSE WithHoldings(WithPools(db.pf[1], db.pf[1].settled, 0, 0), db.pf[1].lots, p.today)

(* load_from_store: without a row the portfolio keeps what it has.  The    *)
(* snapshot has no gross_settlement_intraday: that of the object stays.    *)
Loaded(p) == IF db.pf = <<>> THEN p
             ELSE WithHoldings(db.pf[1], db.pf[1].lots, p.today)

(* load_pending_signals reads what is durable and has not expired.  A      *)
(* signal expires 24 hours after it was made: whether one made at the same *)
(* hour yesterday still counts is a matter of seconds.                     *)
PendingSignals ==
    {{s \in db.pending : s.made + 2 > now}, {s \in db.pending : s.made + 2 >= now}}

(* save_to_store: save_portfolio_state unless should_save refuses.         *)
Saving(p) == IF ready THEN << [op |-> "portfolio", pf |-> p] >> ELSE <<>>

(* A task that is not at an await keeps every other task from running.     *)
LoopFree == up /\ \A t \in Task : job[t].pc # "execute"

Continue(t, pc) == job' = [job EXCEPT ![t].pc = pc]
Finish(t) == job' = [job EXCEPT ![t] = Idle]

-----------------------------------------------------------------------------
(* run_morning_execution_cycle up to the decision to bootstrap.            *)
Morning(t) ==
    /\ LoopFree /\ job[t].pc = "morning"
    /\ \E pending \in PendingSignals :
            IF pending = {}
            THEN job' = [job EXCEPT ![t].pc = "eod", ![t].nested = TRUE]
            ELSE Continue(t, "execute")
    /\ UNCHANGED <<now, up, pf, db, buffer, ready, booting, missed, due, crashes,
                   requests, history>>

(* run_eod_signal_cycle: read the positions, then await the database and   *)
(* the price feed.                                                         *)
EodStart(t) ==
    /\ LoopFree /\ job[t].pc = "eod"
    /\ job' = [job EXCEPT ![t].pc = "value", ![t].held = Held(pf)]
    /\ UNCHANGED <<now, up, pf, db, buffer, ready, booting, missed, due, crashes,
                   requests, history>>

Statements(side, tickers) ==
    [i \in 1 .. Cardinality(tickers) |->
        [op |-> "signal",
         signal |-> [side |-> side, ticker |-> SetToSeq(tickers)[i], made |-> now]]]

(* The statements an evening cycle may queue.  It rebalances when asked to *)
(* (nested), when nothing is held, or when the holding period is over.     *)
(* The exit loop never resets should_exit: a first position that meets no  *)
(* exit rule raises (EodRaise), one that does makes every position exit.   *)
(* save_pending_signals replaces what is stored, and an empty list keeps it.*)
QueuedSignals(t) ==
    {<<>>} \cup
    {<< [op |-> "clear"] >> \o Statements("SELL", job[t].held) \o Statements("BUY", entries) :
        entries \in {e \in SUBSET (Ticker \ job[t].held) : e # {} \/ job[t].held # {}}}

MarkToMarket(t) ==
    /\ LoopFree /\ job[t].pc = "value"
    /\ pf' = RollSettlementDay(pf)
    /\ ready' = FALSE

(* mark_to_market_cycle and, after it, the signals for the next opening.   *)
EodValue(t) ==
    /\ MarkToMarket(t)
    /\ \E queued \in QueuedSignals(t) : buffer' = buffer \o Saving(pf') \o queued
    /\ IF job[t].nested THEN Continue(t, "logged") ELSE Finish(t)
    /\ UNCHANGED <<now, up, db, booting, missed, due, crashes, requests,
                   history>>

(* The record of the cycle is written, and the morning cycle goes on.      *)
Resume(t) ==
    /\ LoopFree /\ job[t].pc = "logged"
    /\ Continue(t, "execute")
    /\ UNCHANGED <<now, up, pf, db, buffer, ready, booting, missed, due, crashes,
                   requests, history>>

(* A failing task is abandoned by its caller: the scheduler logs the error *)
(* and the catch-up skips the rest of the day.                             *)
Abandon(t) ==
    /\ Finish(t)
    /\ missed' = {m \in missed : t = "scheduler" => m.day # job[t].day}

(* An exit rule that matched nothing: should_exit has no value.            *)
EodRaise(t) ==
    /\ MarkToMarket(t)
    /\ job[t].held # {}
    /\ buffer' = buffer \o Saving(pf')
    /\ Abandon(t)
    /\ UNCHANGED <<now, up, db, booting, due, crashes, requests, history>>

(* A database, a feed or the scan raised before the portfolio was touched.   *)
Raise(t) ==
    /\ up /\ job[t].pc # "idle"
    /\ \A o \in Task \ {t} : job[o].pc # "execute"
    /\ Abandon(t)
    /\ UNCHANGED <<now, up, pf, db, buffer, ready, booting, due, crashes,
                   requests, history>>

(* Variant: a sale is not limited to the holding.                          *)
SellsUnlimited(pending, p) ==
    {sold \in [Ticker -> 0 .. OrderLots] :
        \A t \in Ticker : sold[t] > 0 => \E s \in pending : s.side = "SELL" /\ s.ticker = t}

(* What the orders of the pending signals fill, sells before buys: any     *)
(* part of a holding, and at most the sized lots of a share that is not    *)
(* held once the sells are done, as far as the cash goes.                  *)
Sells(pending, p) ==
    {sold \in [Ticker -> 0 .. OrderLots] :
        \A t \in Ticker : sold[t] > 0 =>
            /\ \E s \in pending : s.side = "SELL" /\ s.ticker = t
            /\ sold[t] <= AvailableToSell(p, t)}

(* Variant: no look at what is held.                                       *)
NeverHolding(p, t) == FALSE

AlreadyHolding(p, t) == p.lots[t] > 0

Buys(pending, p) ==
    {took \in [Ticker -> 0 .. OrderLots] :
        /\ \A t \in Ticker : took[t] > 0 =>
                /\ \E s \in pending : s.side = "BUY" /\ s.ticker = t
                /\ ~AlreadyHolding(p, t)
        /\ CanOpen(p, SumFunction(took))}

AfterSells(p, sold) ==
    WithHoldings(WithPools(p, p.settled, p.t1, p.t2 + SumFunction(sold)),
                 [t \in Ticker |-> p.lots[t] - sold[t]], p.today)

AfterBuys(p, took) ==
    DeductCash(WithHoldings(p, [t \in Ticker |-> p.lots[t] + took[t]],
                    [t \in Ticker |-> p.today[t] + IF t \in Gross THEN took[t] ELSE 0]),
               SumFunction(took))

Orders(took) ==
    LET tickers == {t \in Ticker : took[t] > 0}
    IN  [i \in 1 .. Cardinality(tickers) |->
            [op |-> "order", ticker |-> SetToSeq(tickers)[i]]]

(* Variant: the portfolio is saved before its orders.                      *)
PortfolioFirst(t, took, p) ==
    Saving(p) \o Orders(took) \o << [op |-> "date", date |-> job[t].day], [op |-> "clear"] >>

(* What a completed cycle writes, in order: the orders as they fill, the   *)
(* portfolio, last_cycle_date, and the clearing of the pending signals.    *)
CycleStatements(t, took, p) ==
    Orders(took) \o Saving(p) \o << [op |-> "date", date |-> job[t].day], [op |-> "clear"] >>

(* execute_pending_signals, process_daily_cycle.                           *)
ExecutePending(t) ==
    /\ up /\ job[t].pc = "execute"
    /\ \E pending \in PendingSignals \ {{}} : \E sold \in Sells(pending, pf) :
       \E took \in Buys(pending, AfterSells(pf, sold)) :
            /\ pf' = RollSettlementDay(AfterBuys(AfterSells(pf, sold), took))
            /\ buffer' = buffer \o CycleStatements(t, took, pf')
            /\ bought' = bought \cup {x \in Gross : took[x] > 0}
    /\ ready' = FALSE
    /\ Finish(t)
    /\ UNCHANGED <<now, up, db, booting, missed, due, crashes, requests,
                   deposited>>

(* The valuation, or the performance report after the roll, raised when the  *)
(* orders had filled: nothing is saved, and the pending signals stay.      *)
ExecuteRaises(t) ==
    /\ up /\ job[t].pc = "execute"
    /\ \E pending \in PendingSignals \ {{}} : \E sold \in Sells(pending, pf) :
       \E took \in Buys(pending, AfterSells(pf, sold)) :
            /\ LET filled == AfterBuys(AfterSells(pf, sold), took)
               IN  pf' \in {filled, RollSettlementDay(filled)}
            /\ buffer' = buffer \o Orders(took)
            /\ bought' = bought \cup {x \in Gross : took[x] > 0}
    /\ Abandon(t)
    /\ UNCHANGED <<now, up, db, ready, booting, due, crashes, requests,
                   deposited>>

(* NO_PENDING_SIGNALS, NO_TRADE, HALTED: the pending signals stay.         *)
ExecuteNothing(t) ==
    /\ up /\ job[t].pc = "execute"
    /\ Finish(t)
    /\ UNCHANGED <<now, up, pf, db, buffer, ready, booting, missed, due, crashes,
                   requests, history>>

-----------------------------------------------------------------------------
(* get_missed_trading_days: the sessions after the last cycle, before today.*)
MissedDays == {d \in Day : db.date # None /\ db.date < d /\ d < DayOf(now) /\ IsSession(d)}

(* execute_full_catchup                                                    *)
BeginCatchUp ==
    /\ LoopFree /\ booting
    /\ booting' = FALSE
    /\ missed' = [day : MissedDays, kind : {"morning", "eod"}]
    /\ UNCHANGED <<now, up, pf, db, buffer, ready, job, due, crashes, requests, history>>

(* The days are replayed in their order, the morning before the evening.   *)
NextMissed(m) ==
    /\ m \in missed
    /\ \A n \in missed \ {m} : m.day < n.day \/ (m.day = n.day /\ m.kind = "morning")

Replay(m) == job' = [job EXCEPT !["scheduler"] = NewJob(m.kind, m.day)]

(* Variant: the cycle is not taken off the list.                           *)
ReplaySame ==
    /\ LoopFree /\ ~booting /\ job["scheduler"].pc = "idle"
    /\ \E m \in missed : NextMissed(m) /\ Replay(m)
    /\ UNCHANGED <<now, up, pf, db, buffer, ready, booting, missed, due, crashes,
                   requests, history>>

ReplayNext ==
    /\ LoopFree /\ ~booting /\ job["scheduler"].pc = "idle"
    /\ \E m \in missed : NextMissed(m) /\ Replay(m) /\ missed' = missed \ {m}
    /\ UNCHANGED <<now, up, pf, db, buffer, ready, booting, due, crashes,
                   requests, history>>

Sleeping == up /\ ~booting /\ missed = {} /\ job["scheduler"].pc = "idle"

(* Variant: without the pause after a cycle the phase comes due again.     *)
RunScheduledAgain ==
    /\ LoopFree /\ Sleeping /\ due
    /\ job' = [job EXCEPT !["scheduler"] =
                    NewJob(IF IsMorning(now) THEN "morning" ELSE "eod", DayOf(now))]
    /\ UNCHANGED <<now, up, pf, db, buffer, ready, booting, missed, due, crashes,
                   requests, history>>

(* paper_trading_scheduler: the phase whose time has come.  It tests for   *)
(* the weekend only, which the model does not tell from a holiday.         *)
RunScheduled ==
    /\ LoopFree /\ Sleeping /\ due
    /\ due' = FALSE
    /\ job' = [job EXCEPT !["scheduler"] =
                    NewJob(IF IsMorning(now) THEN "morning" ELSE "eod", DayOf(now))]
    /\ UNCHANGED <<now, up, pf, db, buffer, ready, booting, missed, crashes,
                   requests, history>>

(* A phase that begins while the scheduler is still busy is not seen.      *)
Tick ==
    /\ now < LastTime /\ ~due
    /\ Prompt /\ up => buffer = <<>> /\ ready
    /\ now' = now + 1
    /\ due' = (Sleeping /\ IsSession(DayOf(now')))
    /\ bought' = IF IsMorning(now') THEN {} ELSE bought
    /\ UNCHANGED <<up, pf, db, buffer, ready, job, booting, missed, crashes,
                   requests, deposited>>

-----------------------------------------------------------------------------
(* The trigger endpoints: a cycle for today, as a task of its own.         *)
Trigger ==
    /\ LoopFree /\ job["api"].pc = "idle" /\ requests < MaxRequests
    /\ requests' = requests + 1
    /\ \E kind \in {"morning", "eod"} :
            job' = [job EXCEPT !["api"] = NewJob(kind, DayOf(now))]
    /\ UNCHANGED <<now, up, pf, db, buffer, ready, booting, missed, due, crashes,
                   history>>

(* Any portfolio request: _get_pm.                                         *)
Read ==
    /\ LoopFree /\ requests < MaxRequests
    /\ requests' = requests + 1
    /\ pf' = Loaded(pf)
    /\ UNCHANGED <<now, up, db, buffer, ready, job, booting, missed, due, crashes,
                   history>>

(* deposit_funds: _get_pm, then deposit_cash, which saves nothing.         *)
Deposit ==
    /\ LoopFree /\ requests < MaxRequests
    /\ requests' = requests + 1
    /\ \E amount \in Deposits :
            /\ deposited + amount <= MaxDeposited
            /\ deposited' = deposited + amount
            /\ pf' = DepositCash(Loaded(pf), amount)
    /\ UNCHANGED <<now, up, db, buffer, ready, job, booting, missed, due, crashes,
                   bought>>

-----------------------------------------------------------------------------
(* The store makes its oldest statement durable.                           *)
Flush ==
    /\ up /\ buffer # <<>>
    /\ db' = Apply(db, Head(buffer))
    /\ buffer' = Tail(buffer)
    /\ UNCHANGED <<now, up, pf, ready, job, booting, missed, due, crashes,
                   requests, history>>

(* Thirty seconds without a save.                                          *)
DebounceOver ==
    /\ up /\ ~ready /\ ready' = TRUE
    /\ UNCHANGED <<now, up, pf, db, buffer, job, booting, missed, due, crashes,
                   requests, history>>

Crash ==
    /\ up /\ crashes < MaxCrashes
    /\ crashes' = crashes + 1
    /\ up' = FALSE /\ due' = FALSE /\ booting' = FALSE
    /\ buffer' = <<>> /\ missed' = {}
    /\ job' = [t \in Task |-> Idle]
    /\ UNCHANGED <<now, pf, db, ready, requests, history>>

(* A new process: PaperTradingOrchestrator.__init__ loads the portfolio.   *)
Start ==
    /\ ~up /\ up' = TRUE
    /\ pf' = Loaded(NewPortfolio(Capital))
    /\ ready' = TRUE /\ booting' = TRUE
    /\ UNCHANGED <<now, db, buffer, job, missed, due, crashes, requests,
                   history>>

Step(t) == Morning(t) \/ EodStart(t) \/ EodValue(t) \/ EodRaise(t) \/ Resume(t)
           \/ Raise(t) \/ ExecutePending(t) \/ ExecuteRaises(t) \/ ExecuteNothing(t)

Next ==
    \/ \E t \in Task : Step(t)
    \/ BeginCatchUp \/ ReplayNext \/ RunScheduled \/ Tick
    \/ Trigger \/ Read \/ Deposit
    \/ Flush \/ DebounceOver \/ Crash \/ Start

Spec == Init /\ [][Next]_vars

(* The event loop runs every task that can run, and what a task awaits     *)
(* comes to an end, in a result or in an error.                            *)
Fairness ==
    /\ \A t \in Task : WF_vars(Step(t))
    /\ WF_vars(BeginCatchUp) /\ WF_vars(ReplayNext) /\ WF_vars(RunScheduled)

-----------------------------------------------------------------------------
(* However often the pending signals are executed again - after a failed    *)
(* cycle, a restart, a second trigger before the clearing is durable - no   *)
(* share is bought twice: the holding never exceeds one order.              *)
NoDoublePurchase == \A t \in Ticker : pf.lots[t] <= OrderLots

(* Cash and lots add up to the capital and what was deposited since, in      *)
(* memory and in the durable snapshot, across crashes, reloads and replays:  *)
(* no sale or purchase is counted twice or by half.  A reload may lose a     *)
(* deposit (DepositsKept), never more.                                       *)
WorthOf(p) == Balance(p) + Lots(p)

Accounted(p) == WorthOf(p) \in Capital .. Capital + deposited

MoneyConserved == Accounted(pf) /\ (db.pf # <<>> => Accounted(db.pf[1]))

(* A share the durable portfolio holds has a durable order: an order is     *)
(* stored before the portfolio that contains it, and a crash keeps a prefix.*)
HoldingsOrdered == db.pf # <<>> => Held(db.pf[1]) \subseteq db.ordered

(* Cycles that fail do not stop the catch-up: it ends, or the process does. *)
CatchUpEnds == missed # {} ~> Sleeping \/ ~up

(* How much the scheduler has before it: the steps left of the cycle it is  *)
(* in, at most, and five and a start for each cycle it has still to replay. *)
StepsLeft == [morning |-> 5, eod |-> 4, value |-> 3, logged |-> 2, execute |-> 1, idle |-> 0]

CatchUpLeft == 6 * Cardinality(missed) + StepsLeft[job["scheduler"].pc]

(* The replay never gets stuck between two cycles and never loses ground:   *)
(* of the cycles left there is always one that comes next; while the        *)
(* scheduler is busy no request, trigger or second cycle adds to what it    *)
(* has before it, and each step of its own takes some off, also one that    *)
(* fails.                                                                   *)
CatchUpShrinks ==
    /\ [](missed # {} => \E m \in missed : NextMissed(m))
    /\ [][up' /\ (missed # {} \/ job["scheduler"].pc # "idle") =>
            /\ CatchUpLeft' <= CatchUpLeft
            /\ Step("scheduler") \/ ReplayNext => CatchUpLeft' < CatchUpLeft]_vars

-----------------------------------------------------------------------------
(* paper_trading_scheduler "works by the session calendar: 18:15 evening     *)
(* signals & 09:55 opening" (background_tasks.py:74): a phase of a session   *)
(* day whose time comes while the process runs comes due.                    *)
PhaseServed == [][now' # now /\ up /\ IsSession(DayOf(now')) => due']_vars

(* deposit_cash "adds cash to the portfolio and updates the total balance"  *)
(* (virtual_portfolio.py:715): an acknowledged deposit stays.               *)
DepositsKept == WorthOf(pf) >= Capital + deposited

(* "Ayni gun alinan hisse ayni gun satilamaz" (virtual_portfolio.py:7).     *)
GrossLockHolds ==
    [][\A t \in Task : ExecutePending(t) =>
            \A x \in bought : pf'.lots[x] >= pf.lots[x]]_vars

(* "Kalici Durumu Kaydet" (paper_orchestrator.py:278): a completed cycle    *)
(* hands the portfolio it leaves to the store.                              *)
CompletedCycleIsSaved ==
    [][\A t \in Task : ExecutePending(t) =>
            \E i \in DOMAIN buffer' : buffer'[i] = [op |-> "portfolio", pf |-> pf']]_vars

(* "Sinyalleri ... sabah seans acilisinda yurutulmek uzere kaydeder"        *)
(* (state_store.py:495): the signals of an evening are there at the opening *)
(* of the next session.                                                     *)
EveningSignalsOpen ==
    due /\ IsMorning(now) =>
        \A s \in db.pending :
            ~IsMorning(s.made) /\ (\A d \in DayOf(s.made) + 1 .. DayOf(now) - 1 : ~IsSession(d))
                => \A loaded \in PendingSignals : s \in loaded
=============================================================================
