---------------------------- MODULE PortfolioOps ----------------------------
(***************************************************************************)
(* The operations of class VirtualPortfolio                                *)
(* (services/paper_trading/virtual_portfolio.py) as operators on a         *)
(* portfolio record.  Money is an integer number of kurus, a holding an    *)
(* integer number of lots.                                                 *)
(* An operator marked "Variant" is the definition after it with a mistake  *)
(* in it, which the properties are able to find; nothing else uses it.     *)
(*                                                                         *)
(* Left out: blocked_cash (no code path makes it non-zero), average cost,  *)
(* prices and the trade/order/equity lists, none of which any guard reads. *)
(***************************************************************************)
EXTENDS Integers

CONSTANT Ticker

(* settled/t1/t2: the three value-date pools of __init__; lots: the        *)
(* quantity of each entry of _positions (0: no entry); today: the dict     *)
(* gross_settlement_intraday (0: no entry).                                *)
Portfolio == [settled : Int, t1 : Int, t2 : Int,
              lots : [Ticker -> Nat], today : [Ticker -> Nat]]

NoLots == [t \in Ticker |-> 0]

NewPortfolio(capital) ==
    [settled |-> capital, t1 |-> 0, t2 |-> 0, lots |-> NoLots, today |-> NoLots]

(* pf with its pools, or its holdings, replaced.                           *)
WithPools(pf, s, a, b) ==
    [settled |-> s, t1 |-> a, t2 |-> b, lots |-> pf.lots, today |-> pf.today]

WithHoldings(pf, lots, today) ==
    [settled |-> pf.settled, t1 |-> pf.t1, t2 |-> pf.t2, lots |-> lots, today |-> today]

NonNegative(x) == IF x > 0 THEN x ELSE 0

Balance(pf) == pf.settled + pf.t1 + pf.t2

(* Variant: each pool floored by itself.                                   *)
CashPoolByPool(pf) == NonNegative(pf.settled) + NonNegative(pf.t1) + NonNegative(pf.t2)

(* purchasing_power, total_cash and the property cash.                     *)
Cash(pf) == NonNegative(Balance(pf))

WithdrawableCash(pf) == NonNegative(pf.settled)

(* Variant: unsettled money skips a day.                                   *)
RollEverything(pf) ==
    WithHoldings(WithPools(pf, Balance(pf), 0, 0), pf.lots, NoLots)

RollSettlementDay(pf) ==
    WithHoldings(WithPools(pf, pf.settled + pf.t1, pf.t2, 0), pf.lots, NoLots)

(* _deduct_cash_hierarchical: settled cash first, then T+1, then T+2.      *)
DeductCash(pf, amount) ==
    LET afterSettled == amount - pf.settled
        afterT1      == afterSettled - pf.t1
    IN  CASE pf.settled >= amount -> WithPools(pf, pf.settled - amount, pf.t1, pf.t2)
          [] pf.settled < amount /\ pf.t1 >= afterSettled ->
               WithPools(pf, 0, pf.t1 - afterSettled, pf.t2)
          [] OTHER -> WithPools(pf, 0, 0, NonNegative(pf.t2 - afterT1))

CanOpen(pf, cost) == cost <= Cash(pf)

OpenPosition(pf, t, qty, cost, gross) ==
    LET bought == WithHoldings(pf, [pf.lots EXCEPT ![t] = @ + qty],
                               IF gross THEN [pf.today EXCEPT ![t] = @ + qty]
                                        ELSE pf.today)
    IN  DeductCash(bought, cost)

(* What close_position sells when asked for qty lots; qty = 0 stands for   *)
(* quantity=None.                                                          *)
SoldQuantity(pf, t, qty) ==
    IF 0 < qty /\ qty < pf.lots[t] THEN qty ELSE pf.lots[t]

AvailableToSell(pf, t) == pf.lots[t] - pf.today[t]

(* Variant: the gross-settlement check is missing.                         *)
CanCloseAnything(pf, t, qty) == pf.lots[t] > 0

CanClose(pf, t, qty) ==
    /\ pf.lots[t] > 0
    /\ SoldQuantity(pf, t, qty) <= AvailableToSell(pf, t)

(* Variant: a sale releases the lots bought today.                         *)
CloseReleasing(pf, t, sold, revenue) ==
    WithHoldings(WithPools(pf, pf.settled, pf.t1, pf.t2 + revenue),
                 [pf.lots EXCEPT ![t] = @ - sold], [pf.today EXCEPT ![t] = @ - sold])

ClosePosition(pf, t, sold, revenue) ==
    WithHoldings(WithPools(pf, pf.settled, pf.t1, pf.t2 + revenue),
                 [pf.lots EXCEPT ![t] = @ - sold], pf.today)

(* deposit_cash; a dividend is credited the same way.                      *)
DepositCash(pf, amount) == WithPools(pf, pf.settled + amount, pf.t1, pf.t2)

(* round(0.90 * cash_amount * quantity, 2): a kurus nearest to the exact   *)
(* value; binary floating point may settle a tie either way.               *)
NetDividends(pf, t, perLot) ==
    LET tenths == 9 * perLot * pf.lots[t]
    IN  {n \in (tenths \div 10) .. (tenths \div 10 + 1) :
            10 * n - tenths <= 5 /\ tenths - 10 * n <= 5}

(* int(quantity * (1 + pct/100)).  When 1 + pct/100 has no finite binary   *)
(* expansion an exact product may be represented just below the integer    *)
(* (int(100 * 1.15) = 114), and the truncation then loses a lot.           *)
BonusQuantities(pf, t, pct) ==
    LET hundredths == pf.lots[t] * (100 + pct)
        whole      == hundredths \div 100
    IN  {whole} \cup {n \in {whole - 1} : hundredths % 100 = 0 /\ pct % 25 # 0}
=============================================================================
