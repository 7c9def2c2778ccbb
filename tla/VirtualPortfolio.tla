-------------------------- MODULE VirtualPortfolio --------------------------
(***************************************************************************)
(* One VirtualPortfolio object under any sequence of its public            *)
(* operations (services/paper_trading/virtual_portfolio.py), without a     *)
(* state store, as the module-level singleton has none.                    *)
(***************************************************************************)
EXTENDS PortfolioOps

CONSTANTS
    Capital,      \* initial_capital
    Lots,         \* order sizes
    Price,        \* execution prices per lot
    Commission,   \* commissions of one execution
    Deposits,     \* amounts of deposit_cash
    Dividends,    \* gross dividends per lot
    BonusPct,     \* bonus-issue ratios, in percent
    MaxCash,      \* bound: total cash the model explores
    MaxDebt,      \* bound: how far a pool may go below zero
    MaxLots       \* bound: lots of one share the model explores

ASSUME CapitalAssumption == Capital \in Nat
ASSUME OrderAssumption == /\ Lots \subseteq Nat \ {0}
                          /\ Price \subseteq Nat \ {0}
                          /\ Commission \subseteq Nat
ASSUME CreditAssumption == /\ Deposits \subseteq Nat
                           /\ Dividends \subseteq Nat
                           /\ BonusPct \subseteq Nat \ {0}

VARIABLE pf

TypeOK == pf \in Portfolio

Init == pf = NewPortfolio(Capital)

Bounded == /\ Balance(pf) <= MaxCash
           /\ pf.settled >= -MaxDebt /\ pf.t1 >= -MaxDebt /\ pf.t2 >= -MaxDebt
           /\ \A t \in Ticker : pf.lots[t] <= MaxLots

(* open_position: the INSUFFICIENT_CASH return changes nothing.            *)
Open(t) ==
    \E q \in Lots, p \in Price, c \in Commission, gross \in BOOLEAN :
        /\ CanOpen(pf, q * p + c)
        /\ pf' = OpenPosition(pf, t, q, q * p + c, gross)

(* close_position: NO_POSITION and GROSS_SETTLEMENT_BLOCKED change nothing.*)
Close(t) ==
    \E q \in Lots \cup {0}, p \in Price, c \in Commission :
        /\ CanClose(pf, t, q)
        /\ LET sold == SoldQuantity(pf, t, q)
           IN  pf' = ClosePosition(pf, t, sold, sold * p - c)

Roll == pf' = RollSettlementDay(pf)

Deposit == \E a \in Deposits : pf' = DepositCash(pf, a)

Dividend(t) ==
    /\ pf.lots[t] > 0
    /\ \E d \in Dividends : \E net \in NetDividends(pf, t, d) :
            pf' = DepositCash(pf, net)

BonusIssue(t) ==
    /\ pf.lots[t] > 0
    /\ \E pct \in BonusPct : \E n \in BonusQuantities(pf, t, pct) :
            pf' = WithHoldings(pf, [pf.lots EXCEPT ![t] = n], pf.today)

Next ==
    /\ \/ Roll
       \/ Deposit
       \/ \E t \in Ticker : Open(t) \/ Close(t) \/ Dividend(t) \/ BonusIssue(t)
    /\ Bounded'

Spec == Init /\ [][Next]_pf

-----------------------------------------------------------------------------
(* Lots bought today under gross settlement are still held: no sequence of *)
(* top-ups, partial sales and bonus issues lets close_position sell into   *)
(* them before the settlement day rolls (BIST brut takas, lines 252-260).  *)
GrossSettlementHeld == \A t \in Ticker : pf.today[t] <= pf.lots[t]

(* The account never goes (further) below zero through a purchase: only a  *)
(* sale whose minimum commission exceeds its proceeds can do that.  Relates*)
(* the guard of open_position, which counts the commission, to the three-  *)
(* stage deduction that must take the same amount.                         *)
OverdraftOnlyByCommission ==
    [][Balance(pf') < 0 /\ Balance(pf') < Balance(pf)
          => \E t \in Ticker : pf'.lots[t] < pf.lots[t]]_pf

(* The portfolio implements the T+2 account: purchases cost exactly what   *)
(* they cost however the pools stand, proceeds wait two settlement days,   *)
(* locked lots are never sold.                                             *)
Account == INSTANCE TradingAccount WITH
    Lots <- Lots, Price <- Price, Commission <- Commission, Capital <- Capital,
    due <- <<pf.settled, pf.t1, pf.t2>>,
    free <- [t \in Ticker |-> pf.lots[t] - pf.today[t]],
    locked <- pf.today

ImplementsAccount == Account!Spec
=============================================================================
