----------------------- MODULE VirtualPortfolioProofs -----------------------
(***************************************************************************)
(* Theorems of VirtualPortfolio, for every set of shares, order sizes,     *)
(* prices, commissions and credits the assumptions allow.                  *)
(***************************************************************************)
EXTENDS VirtualPortfolio, TLAPS

-----------------------------------------------------------------------------
(* The operators of PortfolioOps.                                          *)

(* The three-stage deduction takes exactly the amount when the cash covers *)
(* it: the max(0, ...) of its last stage never swallows a shortfall; it    *)
(* raises no pool above zero and leaves the holdings alone.                *)
LEMMA DeductCashExact ==
    ASSUME NEW p \in Portfolio, NEW amount \in Nat \ {0}, amount <= Cash(p)
    PROVE  /\ DeductCash(p, amount) \in Portfolio
           /\ Balance(DeductCash(p, amount)) = Balance(p) - amount
           /\ DeductCash(p, amount).lots = p.lots
           /\ DeductCash(p, amount).today = p.today
           /\ DeductCash(p, amount).settled <= p.settled \/ DeductCash(p, amount).settled <= 0
           /\ DeductCash(p, amount).t1 <= p.t1 \/ DeductCash(p, amount).t1 <= 0
           /\ DeductCash(p, amount).t2 <= p.t2 \/ DeductCash(p, amount).t2 <= 0
  <1> DEFINE d == DeductCash(p, amount)
             afterSettled == amount - p.settled
             afterT1 == afterSettled - p.t1
  <1>0. p.settled \in Int /\ p.t1 \in Int /\ p.t2 \in Int
    BY DEF Portfolio
  <1>1. CASE p.settled >= amount
    <2>1. d = WithPools(p, p.settled - amount, p.t1, p.t2)
      BY <1>0, <1>1 DEF DeductCash
    <2> QED
      BY <2>1, <1>0, <1>1 DEF WithPools, Portfolio, Balance
  <1>2. CASE p.settled < amount /\ p.t1 >= afterSettled
    <2>1. d = WithPools(p, 0, p.t1 - afterSettled, p.t2)
      BY <1>0, <1>2 DEF DeductCash
    <2> QED
      BY <2>1, <1>0, <1>2 DEF WithPools, Portfolio, Balance
  <1>3. CASE p.settled < amount /\ p.t1 < afterSettled
    <2>1. p.t2 - afterT1 >= 0
      BY <1>0, <1>3 DEF Cash, NonNegative, Balance
    <2>2. NonNegative(p.t2 - afterT1) = p.t2 - afterT1
      BY <2>1, <1>0 DEF NonNegative
    <2>3. d = WithPools(p, 0, 0, p.t2 - afterT1)
      BY <1>0, <1>3, <2>2 DEF DeductCash
    <2> QED
      BY <2>1, <2>3, <1>0, <1>3 DEF WithPools, Portfolio, Balance
  <1> QED
    BY <1>0, <1>1, <1>2, <1>3

(* An order costs a positive number of kurus.                              *)
LEMMA CostIsPositive ==
    ASSUME NEW q \in Lots, NEW p \in Price, NEW c \in Commission
    PROVE  q * p + c \in Nat \ {0}
  <1>1. q \in Nat \ {0} /\ p \in Nat \ {0} /\ c \in Nat
    BY OrderAssumption
  <1> QED
    BY <1>1

(* open_position as a whole: the cost leaves the account exactly, the lots *)
(* arrive, and they are locked when the share settles gross.               *)
LEMMA OpenPositionFacts ==
    ASSUME NEW p \in Portfolio, NEW t \in Ticker, NEW q \in Nat,
           NEW cost \in Nat \ {0}, NEW gross \in BOOLEAN, CanOpen(p, cost)
    PROVE  LET d == OpenPosition(p, t, q, cost, gross)
           IN  /\ d \in Portfolio
               /\ Balance(d) = Balance(p) - cost
               /\ d.lots = [p.lots EXCEPT ![t] = @ + q]
               /\ d.today = IF gross THEN [p.today EXCEPT ![t] = @ + q] ELSE p.today
               /\ d.settled <= p.settled \/ d.settled <= 0
               /\ d.t1 <= p.t1 \/ d.t1 <= 0
               /\ d.t2 <= p.t2 \/ d.t2 <= 0
  <1> DEFINE lots == [p.lots EXCEPT ![t] = @ + q]
             today == IF gross THEN [p.today EXCEPT ![t] = @ + q] ELSE p.today
             bought == WithHoldings(p, lots, today)
  <1>1. bought \in Portfolio
    BY DEF Portfolio, WithHoldings
  <1>2. /\ bought.settled = p.settled /\ bought.t1 = p.t1 /\ bought.t2 = p.t2
        /\ bought.lots = lots /\ bought.today = today
    BY DEF WithHoldings
  <1>3. Balance(bought) = Balance(p) /\ cost <= Cash(bought)
    BY <1>2 DEF Balance, CanOpen, Cash
  <1>4. OpenPosition(p, t, q, cost, gross) = DeductCash(bought, cost)
    BY DEF OpenPosition
  <1> HIDE DEF bought
  <1> QED
    BY <1>1, <1>2, <1>3, <1>4, DeductCashExact

(* What is sold was held, was not locked, and is at least one lot.         *)
LEMMA SoldQuantityFacts ==
    ASSUME NEW p \in Portfolio, NEW t \in Ticker, NEW q \in Nat, CanClose(p, t, q)
    PROVE  /\ SoldQuantity(p, t, q) \in Nat \ {0}
           /\ SoldQuantity(p, t, q) <= p.lots[t] - p.today[t]
           /\ SoldQuantity(p, t, q) <= p.lots[t]
  <1>1. p.lots[t] \in Nat /\ p.today[t] \in Nat
    BY DEF Portfolio
  <1> QED
    BY <1>1 DEF CanClose, SoldQuantity, AvailableToSell

(* A bonus issue never takes lots away, even when it truncates one.        *)
LEMMA BonusNeverShrinks ==
    ASSUME NEW p \in Portfolio, NEW t \in Ticker, p.lots[t] > 0,
           NEW pct \in Nat \ {0}, NEW n \in BonusQuantities(p, t, pct)
    PROVE  n \in Nat /\ n >= p.lots[t]
  <1> DEFINE q == p.lots[t]
             extra == q * pct
  <1>1. q \in Nat \ {0}
    BY DEF Portfolio
  <1>2. extra \in Nat /\ extra >= 1
    <2>1. extra \in Nat
      BY <1>1
    <2>2. extra >= 1
      BY <1>1
    <2> QED
      BY <2>1, <2>2
  <1>3. q * (100 + pct) = 100 * q + extra
    BY <1>1
  <1>4. n = (100 * q + extra) \div 100
        \/ (n = (100 * q + extra) \div 100 - 1 /\ (100 * q + extra) % 100 = 0)
    BY <1>3 DEF BonusQuantities
  <1> HIDE DEF q, extra
  <1>5. n \in Nat /\ n >= q
    BY <1>1, <1>2, <1>4
  <1> QED
    BY <1>5 DEF q

-----------------------------------------------------------------------------
(* Every step changes the portfolio in one of these ways.  The properties  *)
(* below only look at these facts, never at the operators.                 *)
OpenFacts(t, q, cost) ==
    /\ Balance(pf') = Balance(pf) - cost /\ Balance(pf') >= 0
    /\ pf'.settled <= pf.settled \/ pf'.settled <= 0
    /\ pf'.t1 <= pf.t1 \/ pf'.t1 <= 0
    /\ pf'.t2 <= pf.t2 \/ pf'.t2 <= 0
    /\ pf'.lots = [pf.lots EXCEPT ![t] = @ + q]
    /\ pf'.today \in {pf.today, [pf.today EXCEPT ![t] = @ + q]}

(* A purchase keeps the invariant.                                         *)
LEMMA OpenStep ==
    ASSUME pf \in Portfolio, NEW t \in Ticker, Open(t)
    PROVE  /\ pf' \in Portfolio
           /\ \E q \in Lots, p \in Price, c \in Commission : OpenFacts(t, q, q * p + c)
  <1>1. PICK q \in Lots, p \in Price, c \in Commission, gross \in BOOLEAN :
            /\ CanOpen(pf, q * p + c)
            /\ pf' = OpenPosition(pf, t, q, q * p + c, gross)
    BY DEF Open
  <1> DEFINE cost == q * p + c
  <1>2. cost \in Nat \ {0}
    BY CostIsPositive
  <1>3. q \in Nat
    BY OrderAssumption
  <1> HIDE DEF cost
  <1>4. /\ CanOpen(pf, cost)
        /\ pf' = OpenPosition(pf, t, q, cost, gross)
    BY <1>1 DEF cost
  <1>5. Balance(pf) - cost >= 0
    BY <1>2, <1>4 DEF CanOpen, Cash, NonNegative, Balance, Portfolio
  <1>6. LET d == OpenPosition(pf, t, q, cost, gross)
        IN  /\ d \in Portfolio
            /\ Balance(d) = Balance(pf) - cost
            /\ d.lots = [pf.lots EXCEPT ![t] = @ + q]
            /\ d.today = IF gross THEN [pf.today EXCEPT ![t] = @ + q] ELSE pf.today
            /\ d.settled <= pf.settled \/ d.settled <= 0
            /\ d.t1 <= pf.t1 \/ d.t1 <= 0
            /\ d.t2 <= pf.t2 \/ d.t2 <= 0
    BY <1>2, <1>3, <1>4, OpenPositionFacts
  <1>7. Balance(pf') = Balance(OpenPosition(pf, t, q, cost, gross))
    BY <1>4 DEF Balance
  <1>8. pf' \in Portfolio /\ OpenFacts(t, q, cost)
    BY <1>4, <1>5, <1>6, <1>7 DEF OpenFacts
  <1> QED
    BY <1>8 DEF cost

(* So does a sale: it takes no lot that is locked.                         *)
LEMMA CloseStep ==
    ASSUME pf \in Portfolio, NEW t \in Ticker, Close(t)
    PROVE  /\ pf' \in Portfolio
           /\ \E sold \in Nat \ {0}, p \in Price, c \in Commission :
                /\ sold <= pf.lots[t] - pf.today[t]
                /\ pf'.settled = pf.settled /\ pf'.t1 = pf.t1
                /\ pf'.t2 = pf.t2 + (sold * p - c)
                /\ pf'.lots = [pf.lots EXCEPT ![t] = @ - sold]
                /\ pf'.today = pf.today
  <1>1. PICK q \in Lots \cup {0}, p \in Price, c \in Commission :
            /\ CanClose(pf, t, q)
            /\ pf' = ClosePosition(pf, t, SoldQuantity(pf, t, q), SoldQuantity(pf, t, q) * p - c)
    BY DEF Close
  <1> DEFINE sold == SoldQuantity(pf, t, q)
             revenue == sold * p - c
  <1>2. q \in Nat /\ p \in Nat /\ c \in Nat
    BY OrderAssumption
  <1>3. /\ sold \in Nat \ {0}
        /\ sold <= pf.lots[t] - pf.today[t]
        /\ sold <= pf.lots[t]
    BY <1>1, <1>2, SoldQuantityFacts
  <1> HIDE DEF sold
  <1>4. revenue \in Int
    BY <1>2, <1>3
  <1>5. pf' = ClosePosition(pf, t, sold, revenue)
    BY <1>1 DEF sold
  <1> HIDE DEF revenue
  <1>6. pf'.t2 = pf.t2 + revenue
    BY <1>5 DEF ClosePosition, WithPools, WithHoldings
  <1>7. /\ pf'.settled = pf.settled /\ pf'.t1 = pf.t1
        /\ pf'.lots = [pf.lots EXCEPT ![t] = @ - sold]
        /\ pf'.today = pf.today
    BY <1>5 DEF ClosePosition, WithPools, WithHoldings
  <1>8. pf' \in Portfolio
    BY <1>3, <1>4, <1>5 DEF ClosePosition, WithPools, WithHoldings, Portfolio
  <1> QED
    BY <1>3, <1>6, <1>7, <1>8 DEF revenue

(* So does the settlement roll, which unlocks everything.                  *)
LEMMA RollStep ==
    ASSUME pf \in Portfolio, Roll
    PROVE  /\ pf' \in Portfolio
           /\ pf'.settled = pf.settled + pf.t1 /\ pf'.t1 = pf.t2 /\ pf'.t2 = 0
           /\ pf'.lots = pf.lots /\ pf'.today = NoLots
  BY DEF Roll, RollSettlementDay, WithPools, WithHoldings, Portfolio, NoLots

(* Deposits and dividends.                                                 *)
LEMMA CreditStep ==
    ASSUME pf \in Portfolio, Deposit \/ \E t \in Ticker : Dividend(t)
    PROVE  /\ pf' \in Portfolio
           /\ pf'.settled >= pf.settled /\ pf'.t1 = pf.t1 /\ pf'.t2 = pf.t2
           /\ pf'.lots = pf.lots /\ pf'.today = pf.today
  <1>1. PICK a \in Nat : pf' = DepositCash(pf, a)
    <2>1. CASE Deposit
      BY <2>1, CreditAssumption DEF Deposit
    <2>2. ASSUME NEW t \in Ticker, Dividend(t)
          PROVE  \E a \in Nat : pf' = DepositCash(pf, a)
      <3>1. PICK d \in Dividends : \E net \in NetDividends(pf, t, d) : pf' = DepositCash(pf, net)
        BY <2>2 DEF Dividend
      <3>2. PICK net \in NetDividends(pf, t, d) : pf' = DepositCash(pf, net)
        BY <3>1
      <3>3. 9 * d * pf.lots[t] \in Nat
        BY CreditAssumption DEF Portfolio
      <3>4. net \in Nat
        BY <3>2, <3>3 DEF NetDividends
      <3> QED
        BY <3>2, <3>4
    <2> QED
      BY <2>1, <2>2
  <1> QED
    BY <1>1 DEF DepositCash, WithPools, Portfolio

(* So does a bonus issue, since it never takes lots away.                  *)
LEMMA BonusStep ==
    ASSUME pf \in Portfolio, NEW t \in Ticker, BonusIssue(t)
    PROVE  /\ pf' \in Portfolio
           /\ pf'.settled = pf.settled /\ pf'.t1 = pf.t1 /\ pf'.t2 = pf.t2
           /\ \E n \in Nat : n >= pf.lots[t] /\ pf'.lots = [pf.lots EXCEPT ![t] = n]
           /\ pf'.today = pf.today
  <1>1. PICK pct \in BonusPct : \E n \in BonusQuantities(pf, t, pct) :
            pf' = WithHoldings(pf, [pf.lots EXCEPT ![t] = n], pf.today)
    BY DEF BonusIssue
  <1>2. PICK n \in BonusQuantities(pf, t, pct) :
            pf' = WithHoldings(pf, [pf.lots EXCEPT ![t] = n], pf.today)
    BY <1>1
  <1>3. pct \in Nat \ {0} /\ pf.lots[t] > 0
    BY CreditAssumption DEF BonusIssue
  <1>4. n \in Nat /\ n >= pf.lots[t]
    BY <1>3, BonusNeverShrinks
  <1> QED
    BY <1>2, <1>4 DEF WithHoldings, Portfolio

-----------------------------------------------------------------------------
(* The pools stay integers and the holdings natural numbers; with it, lots *)
(* under a gross-settlement lock are still held.  Neither part needs the   *)
(* other for a purchase, both are needed for a sale.                       *)
IInv == TypeOK /\ GrossSettlementHeld

(* Every step of the portfolio keeps the invariant.                        *)
LEMMA IInvInductive == Spec => []IInv
  <1>1. Init => IInv
    BY CapitalAssumption
       DEF Init, NewPortfolio, NoLots, Portfolio, IInv, TypeOK, GrossSettlementHeld
  <1>2. IInv /\ [Next]_pf => IInv'
    <2> SUFFICES ASSUME IInv, [Next]_pf PROVE IInv'
      OBVIOUS
    <2> USE DEF IInv, TypeOK, GrossSettlementHeld
    <2>0. /\ pf.lots \in [Ticker -> Nat]
          /\ pf.today \in [Ticker -> Nat]
      BY DEF Portfolio
    <2>1. CASE Roll
      BY <2>0, <2>1, RollStep DEF NoLots
    <2>2. CASE Deposit \/ \E t \in Ticker : Dividend(t)
      BY <2>2, CreditStep
    <2>3. ASSUME NEW t \in Ticker, Open(t) PROVE IInv'
      <3>1. PICK q \in Lots, p \in Price, c \in Commission : OpenFacts(t, q, q * p + c)
        BY <2>3, OpenStep
      <3>2. pf' \in Portfolio /\ q \in Nat
        BY <2>3, OpenStep, OrderAssumption
      <3> QED
        BY <2>0, <3>1, <3>2 DEF OpenFacts
    <2>4. ASSUME NEW t \in Ticker, Close(t) PROVE IInv'
      <3>1. PICK sold \in Nat \ {0} :
                /\ sold <= pf.lots[t] - pf.today[t]
                /\ pf'.lots = [pf.lots EXCEPT ![t] = @ - sold]
                /\ pf'.today = pf.today
        BY <2>4, CloseStep
      <3>2. pf' \in Portfolio
        BY <2>4, CloseStep
      <3> QED
        BY <2>0, <3>1, <3>2
    <2>5. ASSUME NEW t \in Ticker, BonusIssue(t) PROVE IInv'
      <3>1. PICK n \in Nat : n >= pf.lots[t] /\ pf'.lots = [pf.lots EXCEPT ![t] = n]
        BY <2>5, BonusStep
      <3>2. pf' \in Portfolio /\ pf'.today = pf.today
        BY <2>5, BonusStep
      <3> QED
        BY <2>0, <3>1, <3>2
    <2>6. CASE UNCHANGED pf
      BY <2>6
    <2> QED
      BY <2>1, <2>2, <2>3, <2>4, <2>5, <2>6 DEF Next
  <1> QED
    BY <1>1, <1>2, PTL DEF Spec

(* The portfolio record is well formed: no position ever has a negative    *)
(* number of lots, whatever is bought, sold, split or rounded.             *)
THEOREM TypeCorrect == Spec => []TypeOK
  <1>1. IInv => TypeOK
    BY DEF IInv
  <1> QED
    BY <1>1, IInvInductive, PTL

(* Lots bought today under gross settlement are never sold before the      *)
(* settlement day rolls.                                                   *)
THEOREM GrossSettlement == Spec => []GrossSettlementHeld
  <1>1. IInv => GrossSettlementHeld
    BY DEF IInv
  <1> QED
    BY <1>1, IInvInductive, PTL

(* No purchase, roll, credit or bonus issue drives the balance below zero; *)
(* only a sale that earns less than its commission does.                   *)
THEOREM NoOverdraftByPurchase == Spec => OverdraftOnlyByCommission
  <1> DEFINE Step == Balance(pf') < 0 /\ Balance(pf') < Balance(pf)
                        => \E t \in Ticker : pf'.lots[t] < pf.lots[t]
  <1>1. TypeOK /\ [Next]_pf => [Step]_pf
    <2> SUFFICES ASSUME TypeOK, Next PROVE Step
      OBVIOUS
    <2>0. /\ pf \in Portfolio
          /\ pf.lots \in [Ticker -> Nat]
          /\ pf.settled \in Int /\ pf.t1 \in Int /\ pf.t2 \in Int
      BY DEF TypeOK, Portfolio
    <2>1. CASE Roll
      BY <2>0, <2>1, RollStep DEF Balance
    <2>2. CASE Deposit \/ \E t \in Ticker : Dividend(t)
      <3>1. /\ pf' \in Portfolio
            /\ pf'.settled >= pf.settled /\ pf'.t1 = pf.t1 /\ pf'.t2 = pf.t2
        BY <2>0, <2>2, CreditStep
      <3>2. pf'.settled \in Int
        BY <3>1 DEF Portfolio
      <3> QED
        BY <2>0, <3>1, <3>2 DEF Balance
    <2>3. ASSUME NEW t \in Ticker, Open(t) PROVE Step
      <3>1. Balance(pf') >= 0
        BY <2>0, <2>3, OpenStep DEF OpenFacts
      <3>2. Balance(pf') \in Int
        BY <2>0, <2>3, OpenStep DEF Balance, Portfolio
      <3> QED
        BY <3>1, <3>2
    <2>4. ASSUME NEW t \in Ticker, Close(t) PROVE Step
      <3>1. PICK sold \in Nat \ {0} : pf'.lots = [pf.lots EXCEPT ![t] = @ - sold]
        BY <2>0, <2>4, CloseStep
      <3>2. pf'.lots[t] < pf.lots[t]
        BY <2>0, <3>1
      <3> QED
        BY <3>2
    <2>5. ASSUME NEW t \in Ticker, BonusIssue(t) PROVE Step
      BY <2>0, <2>5, BonusStep DEF Balance
    <2> QED
      BY <2>1, <2>2, <2>3, <2>4, <2>5 DEF Next
  <1> QED
    BY <1>1, TypeCorrect, PTL DEF Spec, OverdraftOnlyByCommission

-----------------------------------------------------------------------------
(* The portfolio implements the T+2 account, whatever its pools.           *)
LEMMA AccountInit == Init => Account!Init
  <1> SUFFICES ASSUME Init PROVE Account!Init
    OBVIOUS
  <1>1. /\ pf.settled = Capital /\ pf.t1 = 0 /\ pf.t2 = 0
        /\ pf.lots = NoLots /\ pf.today = NoLots
    BY DEF Init, NewPortfolio
  <1>2. [t \in Ticker |-> pf.lots[t] - pf.today[t]] = [t \in Ticker |-> 0]
    BY <1>1 DEF NoLots
  <1> QED
    BY <1>1, <1>2 DEF Account!Init, NoLots

(* Every step of the portfolio is a step of the account or a stutter.      *)
LEMMA AccountStep ==
    ASSUME IInv, Next
    PROVE  Account!Next
  <1> DEFINE d == <<pf.settled, pf.t1, pf.t2>>
             f == [t \in Ticker |-> pf.lots[t] - pf.today[t]]
  <1>0. /\ pf \in Portfolio
        /\ pf.lots \in [Ticker -> Nat] /\ pf.today \in [Ticker -> Nat]
        /\ pf.settled \in Int /\ pf.t1 \in Int /\ pf.t2 \in Int
        /\ \A t \in Ticker : pf.today[t] <= pf.lots[t]
    BY DEF IInv, TypeOK, GrossSettlementHeld, Portfolio
  <1>1. CASE Roll
    <2>1. /\ pf'.settled = pf.settled + pf.t1 /\ pf'.t1 = pf.t2 /\ pf'.t2 = 0
          /\ pf'.lots = pf.lots /\ pf'.today = NoLots
      BY <1>0, <1>1, RollStep
    <2>2. d' = <<d[1] + d[2], d[3], 0>>
      BY <2>1
    <2>3. f' = [t \in Ticker |-> f[t] + pf.today[t]]
      BY <1>0, <2>1 DEF NoLots
    <2>4. pf'.today = [t \in Ticker |-> 0]
      BY <2>1 DEF NoLots
    <2> QED
      BY <2>2, <2>3, <2>4 DEF Account!Next, Account!SettleDay
  <1>2. CASE Deposit \/ \E t \in Ticker : Dividend(t)
    <2>1. /\ pf'.settled >= pf.settled /\ pf'.t1 = pf.t1 /\ pf'.t2 = pf.t2
          /\ pf'.lots = pf.lots /\ pf'.today = pf.today
      BY <1>0, <1>2, CreditStep
    <2>2. d'[1] >= d[1] /\ d' = [d EXCEPT ![1] = d'[1]] /\ f' = f
      BY <2>1
    <2> QED
      BY <2>1, <2>2 DEF Account!Next, Account!Credit
  <1>3. ASSUME NEW t \in Ticker, Open(t) PROVE Account!Next
    <2>1. PICK q \in Lots, p \in Price, c \in Commission : OpenFacts(t, q, q * p + c)
      BY <1>0, <1>3, OpenStep
    <2>2. q \in Nat /\ q * p + c \in Nat
      BY OrderAssumption, CostIsPositive
    <2>3. Account!Total(d') = Account!Total(d) - (q * p + c) /\ Account!Total(d') >= 0
      BY <2>1 DEF OpenFacts, Balance, Account!Total
    <2>4. \A n \in 1..3 : d'[n] <= d[n] \/ d'[n] <= 0
      <3>1. /\ d'[1] = pf'.settled /\ d'[2] = pf'.t1 /\ d'[3] = pf'.t2
            /\ d[1] = pf.settled /\ d[2] = pf.t1 /\ d[3] = pf.t2
        OBVIOUS
      <3>2. /\ d'[1] <= d[1] \/ d'[1] <= 0
            /\ d'[2] <= d[2] \/ d'[2] <= 0
            /\ d'[3] <= d[3] \/ d'[3] <= 0
        BY <2>1, <3>1 DEF OpenFacts
      <3>3. \A n \in 1..3 : n = 1 \/ n = 2 \/ n = 3
        OBVIOUS
      <3> HIDE DEF d
      <3> QED
        BY <3>2, <3>3
    <2>5. CASE pf'.today = pf.today
      <3>1. f' = [f EXCEPT ![t] = @ + q]
        <4>1. pf'.lots = [pf.lots EXCEPT ![t] = @ + q]
          BY <2>1 DEF OpenFacts
        <4>2. ASSUME NEW u \in Ticker
              PROVE  f'[u] = [f EXCEPT ![t] = @ + q][u]
          <5>1. CASE u = t
            BY <5>1, <1>0, <2>2, <2>5, <4>1
          <5>2. CASE u # t
            BY <5>2, <1>0, <2>2, <2>5, <4>1
          <5> QED
            BY <5>1, <5>2
        <4> QED
          BY <4>2
      <3>2. Account!Buy(t)
        BY <2>3, <2>4, <2>5, <3>1 DEF Account!Buy, Account!NoPoolGrows
      <3> QED
        BY <3>2 DEF Account!Next
    <2>6. CASE pf'.today = [pf.today EXCEPT ![t] = @ + q]
      <3>1. f' = f
        BY <1>0, <2>1, <2>2, <2>6 DEF OpenFacts
      <3>2. Account!Buy(t)
        BY <2>3, <2>4, <2>6, <3>1 DEF Account!Buy, Account!NoPoolGrows
      <3> QED
        BY <3>2 DEF Account!Next
    <2> QED
      BY <2>1, <2>5, <2>6 DEF OpenFacts
  <1>4. ASSUME NEW t \in Ticker, Close(t) PROVE Account!Next
    <2>1. PICK sold \in Nat \ {0}, p \in Price, c \in Commission :
                /\ sold <= pf.lots[t] - pf.today[t]
                /\ pf'.settled = pf.settled /\ pf'.t1 = pf.t1
                /\ pf'.t2 = pf.t2 + (sold * p - c)
                /\ pf'.lots = [pf.lots EXCEPT ![t] = @ - sold]
                /\ pf'.today = pf.today
      BY <1>0, <1>4, CloseStep
    <2>2. sold \in 1 .. f[t] /\ p \in Price /\ c \in Commission
      <3>1. f[t] = pf.lots[t] - pf.today[t] /\ f[t] \in Int
        BY <1>0
      <3> HIDE DEF f
      <3> QED
        BY <2>1, <3>1
    <2>3. d' = [d EXCEPT ![3] = @ + (sold * p - c)]
      <3> DEFINE revenue == sold * p - c
      <3>1. /\ pf'.settled = pf.settled /\ pf'.t1 = pf.t1
            /\ pf'.t2 = pf.t2 + revenue
        BY <2>1
      <3> HIDE DEF revenue
      <3>2. d' = [d EXCEPT ![3] = @ + revenue]
        BY <3>1
      <3> QED
        BY <3>2 DEF revenue
    <2>4. f' = [f EXCEPT ![t] = @ - sold]
      <3>1. ASSUME NEW u \in Ticker
            PROVE  f'[u] = [f EXCEPT ![t] = @ - sold][u]
        <4>1. CASE u = t
          BY <4>1, <1>0, <2>1
        <4>2. CASE u # t
          BY <4>2, <1>0, <2>1
        <4> QED
          BY <4>1, <4>2
      <3> QED
        BY <3>1
    <2>5. Account!Sell(t)
      <3>1. \E q \in 1 .. f[t], price \in Price, com \in Commission :
                /\ d' = [d EXCEPT ![3] = @ + (q * price - com)]
                /\ f' = [f EXCEPT ![t] = @ - q]
                /\ pf'.today = pf.today
        <4>1. /\ d' = [d EXCEPT ![3] = @ + (sold * p - c)]
              /\ f' = [f EXCEPT ![t] = @ - sold]
              /\ pf'.today = pf.today
          BY <2>1, <2>3, <2>4
        <4> HIDE DEF d, f
        <4> QED
          BY <2>2, <4>1, Zenon
      <3> QED
        BY <3>1 DEF Account!Sell
    <2> QED
      BY <2>5 DEF Account!Next
  <1>5. ASSUME NEW t \in Ticker, BonusIssue(t) PROVE Account!Next
    <2>1. PICK n \in Nat : n >= pf.lots[t] /\ pf'.lots = [pf.lots EXCEPT ![t] = n]
      BY <1>0, <1>5, BonusStep
    <2>2. /\ pf'.settled = pf.settled /\ pf'.t1 = pf.t1 /\ pf'.t2 = pf.t2
          /\ pf'.today = pf.today
      BY <1>0, <1>5, BonusStep
    <2>3. f'[t] >= f[t]
      BY <1>0, <2>1, <2>2
    <2>4. f' = [f EXCEPT ![t] = n - pf.today[t]]
      BY <1>0, <2>1, <2>2
    <2>5. f'[t] = n - pf.today[t]
      BY <1>0, <2>1, <2>2
    <2>6. Account!Bonus(t)
      BY <2>2, <2>3, <2>4, <2>5 DEF Account!Bonus
    <2> QED
      BY <2>6 DEF Account!Next
  <1> QED
    BY <1>1, <1>2, <1>3, <1>4, <1>5 DEF Next

(* Every behaviour of the portfolio is a behaviour of the T+2 account: a   *)
(* purchase costs exactly its price and commission, proceeds wait two      *)
(* settlement days, only unlocked lots are sold.                           *)
THEOREM PortfolioIsAccount == Spec => ImplementsAccount
  <1>1. IInv /\ [Next]_pf => [Account!Next]_(Account!vars)
    <2> SUFFICES ASSUME IInv, [Next]_pf PROVE [Account!Next]_(Account!vars)
      OBVIOUS
    <2>1. CASE Next
      BY <2>1, AccountStep
    <2>2. CASE UNCHANGED pf
      BY <2>2 DEF Account!vars
    <2> QED
      BY <2>1, <2>2
  <1> QED
    BY <1>1, AccountInit, IInvInductive, PTL DEF Spec, ImplementsAccount, Account!Spec
=============================================================================
