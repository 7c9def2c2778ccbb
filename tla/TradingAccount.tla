--------------------------- MODULE TradingAccount ---------------------------
(***************************************************************************)
(* What a T+2 cash account with gross-settlement locks promises, without   *)
(* saying how a purchase is funded or how the locks are kept.              *)
(***************************************************************************)
EXTENDS Integers

CONSTANTS
    Ticker,      \* the shares that can be held
    Lots,        \* order sizes
    Price,       \* execution prices
    Commission,  \* commissions of one execution
    Capital      \* opening cash

VARIABLES
    due,     \* due[n]: cash whose settlement completes after n-1 more days
    free,    \* free[t]: lots of t that may be sold
    locked   \* locked[t]: lots of t bought today under gross settlement

vars == <<due, free, locked>>

Total(d) == d[1] + d[2] + d[3]

(* A pool may be drawn down, never up; an overdrawn one may be levelled.   *)
NoPoolGrows == \A n \in 1..3 : due'[n] <= due[n] \/ due'[n] <= 0

Init == /\ due = <<Capital, 0, 0>>
        /\ free = [t \in Ticker |-> 0]
        /\ locked = [t \in Ticker |-> 0]

(* A purchase takes exactly its cost out of the account, from any pools,   *)
(* and only when the account can pay for it.                               *)
Buy(t) ==
    \E q \in Lots, p \in Price, c \in Commission :
        /\ Total(due') = Total(due) - (q * p + c)
        /\ Total(due') >= 0
        /\ NoPoolGrows
        /\ \/ free' = [free EXCEPT ![t] = @ + q] /\ UNCHANGED locked
           \/ locked' = [locked EXCEPT ![t] = @ + q] /\ UNCHANGED free

(* Only free lots are sold, and the proceeds are due in two days.          *)
Sell(t) ==
    \E q \in 1 .. free[t], p \in Price, c \in Commission :
        /\ due' = [due EXCEPT ![3] = @ + (q * p - c)]
        /\ free' = [free EXCEPT ![t] = @ - q]
        /\ UNCHANGED locked

SettleDay ==
    /\ due' = <<due[1] + due[2], due[3], 0>>
    /\ free' = [t \in Ticker |-> free[t] + locked[t]]
    /\ locked' = [t \in Ticker |-> 0]

(* Deposits and dividends are settled money.                               *)
Credit ==
    /\ due'[1] >= due[1]
    /\ due' = [due EXCEPT ![1] = due'[1]]
    /\ UNCHANGED <<free, locked>>

(* New shares for old ones: nobody ends up with fewer.                     *)
Bonus(t) ==
    /\ free'[t] >= free[t]
    /\ free' = [free EXCEPT ![t] = free'[t]]
    /\ UNCHANGED <<due, locked>>

Next == \/ SettleDay
        \/ Credit
        \/ \E t \in Ticker : Buy(t) \/ Sell(t) \/ Bonus(t)

Spec == Init /\ [][Next]_vars
=============================================================================
