------------------------- MODULE PaperTradingProofs -------------------------
(***************************************************************************)
(* Theorems of PaperTrading, and of its history in TradingPhases, for any  *)
(* finite set of shares and any capital, order size, holidays, deposits    *)
(* and number of crashes, triggers and requests.                           *)
(***************************************************************************)
EXTENDS TradingPhases, FiniteSetTheorems, SequenceTheorems, TLAPS

-----------------------------------------------------------------------------
(* Sums over a finite set.  SumFunctionOnSet is a recursive function chosen *)
(* for the set it is applied to: the first lemmas show that the choice      *)
(* succeeds, by a smallest counterexample instead of an induction.          *)

(* Every non-empty set of numbers has a least element.                     *)
LEMMA LeastNumber ==
    ASSUME NEW S \in SUBSET Nat, S # {}
    PROVE  \E n \in S : \A m \in S : n <= m
  <1> DEFINE R == OpToRel(<, Nat)
  <1>1. IsWellFoundedOn(R, Nat)
    BY NatLessThanWellFounded
  <1>2. \A m, n \in Nat : m < n => <<m, n>> \in R
    BY DEF OpToRel
  <1> HIDE DEF R
  <1>3. PICK n \in S : \A m \in S : <<m, n>> \notin R
    BY <1>1, WFMin
  <1>4. ASSUME NEW m \in S PROVE n <= m
    <2>1. m \in Nat /\ n \in Nat /\ ~(m < n)
      BY <1>2, <1>3
    <2> QED
      BY <2>1
  <1> QED
    BY <1>4

Pick(s) == CHOOSE x \in s : TRUE

(* The equation of a sum over the subsets of S, up to n elements.          *)
Summed(f, S, g, n) ==
    g = [s \in {u \in SUBSET S : Cardinality(u) <= n} |->
            IF s = {} THEN 0 ELSE f[Pick(s)] + g[s \ {Pick(s)}]]

LEMMA Picked ==
    ASSUME NEW S, IsFiniteSet(S), NEW s \in SUBSET S, s # {}
    PROVE  /\ Pick(s) \in s /\ s \ {Pick(s)} \in SUBSET S
           /\ Cardinality(s) \in Nat \ {0}
           /\ Cardinality(s \ {Pick(s)}) = Cardinality(s) - 1
  <1>1. Pick(s) \in s
    BY DEF Pick
  <1>2. IsFiniteSet(s)
    BY FS_Subset
  <1> QED
    BY <1>1, <1>2, FS_RemoveElement, FS_CardinalityType, FS_EmptySet

LEMMA SumExists ==
    ASSUME NEW f, NEW S, IsFiniteSet(S)
    PROVE  \A n \in Nat : \E g : Summed(f, S, g, n)
  <1> DEFINE Bad == {n \in Nat : ~ \E g : Summed(f, S, g, n)}
             Small(n) == {u \in SUBSET S : Cardinality(u) <= n}
             Table(g, n) == [s \in Small(n) |-> 
                  IF s = {} THEN 0 ELSE f[Pick(s)] + g[s \ {Pick(s)}]]
  <1>1. SUFFICES ASSUME Bad # {} PROVE FALSE
    OBVIOUS
  <1>2. PICK n \in Bad : \A m \in Bad : n <= m
    BY <1>1, LeastNumber
  <1>3. \A u \in SUBSET S : Cardinality(u) \in Nat
    BY FS_Subset, FS_CardinalityType
  <1>4. CASE n = 0
    <2> DEFINE g == [s \in Small(0) |-> 0]
    <2>1. ASSUME NEW s \in Small(0) PROVE s = {}
      BY <1>3, FS_Subset, FS_EmptySet
    <2>2. g = Table(g, 0)
      BY <2>1
    <2> QED
      BY <1>4, <2>2 DEF Summed
  <1>5. CASE n > 0
    <2>1. n - 1 \in Nat /\ n - 1 \notin Bad
      BY <1>2, <1>5
    <2>2. PICK h : h = Table(h, n - 1)
      BY <2>1 DEF Summed
    <2> DEFINE g == Table(h, n)
    <2>3. ASSUME NEW s \in Small(n), s # {} PROVE g[s \ {Pick(s)}] = h[s \ {Pick(s)}]
      <3> DEFINE r == s \ {Pick(s)}
      <3>1. r \in Small(n - 1) /\ r \in Small(n)
        BY <1>2, <1>3, <2>1, <2>3, Picked
      <3> HIDE DEF r
      <3>2. h[r] = Table(h, n - 1)[r]
        BY <2>2
      <3> QED
        BY <3>1, <3>2 DEF r
    <2>4. g = Table(g, n)
      BY <2>3
    <2> QED
      BY <2>4 DEF Summed
  <1> QED
    BY <1>2, <1>4, <1>5


(* What a sum over S is computed by.                                       *)
Sums(f, S, g) ==
    /\ SumFunctionOnSet(f, S) = g[S]
    /\ g[{}] = 0
    /\ \A s \in SUBSET S : s # {} => g[s] = f[Pick(s)] + g[s \ {Pick(s)}]

LEMMA SumDefined ==
    ASSUME NEW f, NEW S, IsFiniteSet(S)
    PROVE  \E g : Sums(f, S, g)
  <1> DEFINE Body(h) == [s \in SUBSET S |-> IF s = {} THEN 0 ELSE f[Pick(s)] + h[s \ {Pick(s)}]]
             g == CHOOSE h : h = Body(h)
  <1>1. Cardinality(S) \in Nat
    BY FS_CardinalityType
  <1>2. {u \in SUBSET S : Cardinality(u) <= Cardinality(S)} = SUBSET S
    BY FS_Subset
  <1>3. \E h : h = Body(h)
    <2>1. PICK h : Summed(f, S, h, Cardinality(S))
      BY <1>1, SumExists
    <2>2. h = Body(h)
      BY <1>2, <2>1 DEF Summed
    <2> QED
      BY <2>2
  <1>4. g = Body(g)
    BY <1>3
  <1>5. SumFunctionOnSet(f, S) = g[S]
    BY DEF SumFunctionOnSet, FoldFunctionOnSet, MapThenFoldSet, Pick
  <1> HIDE DEF g
  <1>6. ASSUME NEW s \in SUBSET S
        PROVE  g[s] = IF s = {} THEN 0 ELSE f[Pick(s)] + g[s \ {Pick(s)}]
    BY <1>4
  <1> QED
    BY <1>5, <1>6 DEF Sums

(* Induction over the subsets of a finite set.                              *)
LEMMA SmallestSubset ==
    ASSUME NEW S, IsFiniteSet(S), NEW B \in SUBSET (SUBSET S), B # {}
    PROVE  \E s \in B : s # {} => s \ {Pick(s)} \notin B
  <1> DEFINE Sizes == {Cardinality(s) : s \in B}
  <1>1. \A s \in B : Cardinality(s) \in Nat
    BY FS_Subset, FS_CardinalityType
  <1>2. PICK n \in Sizes : \A m \in Sizes : n <= m
    <2>1. Sizes \in SUBSET Nat /\ Sizes # {}
      BY <1>1
    <2> HIDE DEF Sizes
    <2> QED
      BY <2>1, LeastNumber
  <1>3. PICK s \in B : n = Cardinality(s)
    BY <1>2
  <1>4. ASSUME s # {}, s \ {Pick(s)} \in B PROVE FALSE
    <2>1. Cardinality(s) <= Cardinality(s \ {Pick(s)})
      BY <1>2, <1>3, <1>4
    <2> QED
      BY <1>4, <2>1, Picked
  <1> QED
    BY <1>4

LEMMA SumNatural ==
    ASSUME NEW S, IsFiniteSet(S), NEW f \in [S -> Nat]
    PROVE  SumFunctionOnSet(f, S) \in Nat
  <1>1. PICK g : Sums(f, S, g)
    BY SumDefined
  <1> DEFINE Bad == {s \in SUBSET S : g[s] \notin Nat}
  <1>2. SUFFICES ASSUME Bad # {} PROVE FALSE
    BY <1>1 DEF Sums
  <1>3. PICK s \in Bad : s # {} => s \ {Pick(s)} \notin Bad
    BY <1>2, SmallestSubset
  <1>4. s # {}
    <2>1. g[{}] = 0
      BY <1>1 DEF Sums
    <2> QED
      BY <1>3, <2>1
  <1>5. Pick(s) \in S /\ s \ {Pick(s)} \in SUBSET S
    BY <1>4, Picked
  <1> QED
    BY <1>1, <1>3, <1>4, <1>5 DEF Sums

LEMMA SumAdds ==
    ASSUME NEW S, IsFiniteSet(S), NEW f \in [S -> Nat], NEW g \in [S -> Nat]
    PROVE  SumFunctionOnSet([x \in S |-> f[x] + g[x]], S)
              = SumFunctionOnSet(f, S) + SumFunctionOnSet(g, S)
  <1> DEFINE h == [x \in S |-> f[x] + g[x]]
  <1>1. PICK F : Sums(f, S, F)
    BY SumDefined
  <1>2. PICK G : Sums(g, S, G)
    BY SumDefined
  <1>3. PICK H : Sums(h, S, H)
    BY SumDefined
  <1> DEFINE Bad == {s \in SUBSET S : ~ (F[s] \in Int /\ G[s] \in Int /\ H[s] = F[s] + G[s])}
  <1>4. SUFFICES ASSUME Bad # {} PROVE FALSE
    BY <1>1, <1>2, <1>3 DEF Sums
  <1>5. PICK s \in Bad : s # {} => s \ {Pick(s)} \notin Bad
    BY <1>4, SmallestSubset
  <1>6. s # {}
    <2>1. F[{}] = 0 /\ G[{}] = 0 /\ H[{}] = 0
      BY <1>1, <1>2, <1>3 DEF Sums
    <2>2. {} \notin Bad
      BY <2>1
    <2> QED
      BY <1>5, <2>2
  <1> DEFINE x == Pick(s)
             r == s \ {Pick(s)}
  <1>7. x \in S /\ r \in SUBSET S
    BY <1>6, Picked
  <1>8. F[s] = f[x] + F[r] /\ G[s] = g[x] + G[r] /\ H[s] = h[x] + H[r]
    BY <1>1, <1>2, <1>3, <1>6 DEF Sums
  <1>9. F[r] \in Int /\ G[r] \in Int /\ H[r] = F[r] + G[r]
    BY <1>5, <1>6, <1>7
  <1>10. h[x] = f[x] + g[x] /\ f[x] \in Nat /\ g[x] \in Nat
    BY <1>7
  <1> HIDE DEF x, r, h
  <1>11. F[s] \in Int /\ G[s] \in Int /\ H[s] = F[s] + G[s]
    BY <1>8, <1>9, <1>10
  <1> QED
    BY <1>5, <1>11

LEMMA SumZero ==
    ASSUME NEW S, IsFiniteSet(S)
    PROVE  SumFunctionOnSet([x \in S |-> 0], S) = 0
  <1> DEFINE z == [x \in S |-> 0]
  <1>1. PICK g : Sums(z, S, g)
    BY SumDefined
  <1> DEFINE Bad == {s \in SUBSET S : g[s] # 0}
  <1>2. SUFFICES ASSUME Bad # {} PROVE FALSE
    BY <1>1 DEF Sums
  <1>3. PICK s \in Bad : s # {} => s \ {Pick(s)} \notin Bad
    BY <1>2, SmallestSubset
  <1>4. s # {}
    <2>1. g[{}] = 0
      BY <1>1 DEF Sums
    <2> QED
      BY <1>3, <2>1
  <1>5. Pick(s) \in S /\ s \ {Pick(s)} \in SUBSET S
    BY <1>4, Picked
  <1>6. g[s] = z[Pick(s)] + g[s \ {Pick(s)}]
    BY <1>1, <1>4 DEF Sums
  <1> QED
    BY <1>3, <1>4, <1>5, <1>6

-----------------------------------------------------------------------------
(* The sequence made of a finite set lists its elements, all of them.      *)
LEMMA SetAsSequence ==
    ASSUME NEW S, IsFiniteSet(S)
    PROVE  /\ Cardinality(S) \in Nat
           /\ SetToSeq(S) \in [1 .. Cardinality(S) -> S]
           /\ \A x \in S : \E i \in 1 .. Cardinality(S) : SetToSeq(S)[i] = x
  <1> DEFINE D == 1 .. Cardinality(S)
  <1>1. Cardinality(S) \in Nat /\ ExistsBijection(D, S)
    BY FS_CardinalityType
  <1>2. \E f \in [D -> S] : IsInjective(f)
    <2>1. PICK f \in Bijection(D, S) : TRUE
      BY <1>1 DEF ExistsBijection
    <2>2. f \in [D -> S] /\ IsInjective(f)
      BY <2>1 DEF Bijection, Injection, IsInjective
    <2> QED
      BY <2>2
  <1>3. SetToSeq(S) \in [D -> S] /\ IsInjective(SetToSeq(S))
    BY <1>2 DEF SetToSeq
  <1>4. SetToSeq(S) \in Injection(D, S)
    BY <1>3 DEF Injection, IsInjective
  <1>5. Cardinality(D) = Cardinality(S)
    BY <1>1, FS_Interval
  <1>6. SetToSeq(S) \in Surjection(D, S)
    BY <1>4, <1>5, FS_Injection
  <1> QED
    BY <1>1, <1>3, <1>6 DEF Surjection

-----------------------------------------------------------------------------
(* The money of a portfolio.                                               *)
LEMMA LotsNatural ==
    ASSUME NEW p \in Portfolio
    PROVE  Lots(p) \in Nat
  <1>1. p.lots \in [Ticker -> Nat] /\ DOMAIN p.lots = Ticker
    BY DEF Portfolio
  <1> QED
    BY <1>1, TradingAssumption, SumNatural DEF Lots, SumFunction

(* What a portfolio of this service is, with deposits of d in all: no debt, *)
(* no holding above one order, and cash and lots that add up.              *)
Sound(p, d) ==
    /\ p \in Portfolio
    /\ Balance(p) >= 0
    /\ \A t \in Ticker : p.lots[t] <= OrderLots
    /\ WorthOf(p) \in Capital .. Capital + d

LEMMA MoreDeposits ==
    ASSUME NEW d \in Nat, NEW e \in Nat, d <= e, NEW p, Sound(p, d)
    PROVE  Sound(p, e)
  BY TradingAssumption DEF Sound

(* Portfolios with the same cash and lots are sound together.              *)
LEMMA SameWorth ==
    ASSUME NEW d \in Nat, NEW p, Sound(p, d),
           NEW q \in Portfolio, q.lots = p.lots, Balance(q) = Balance(p)
    PROVE  Sound(q, d)
  BY DEF Sound, WorthOf, Lots

LEMMA NewIsSound ==
    ASSUME NEW d \in Nat
    PROVE  Sound(NewPortfolio(Capital), d)
  <1> DEFINE p == NewPortfolio(Capital)
  <1>1. Capital \in Nat /\ OrderLots \in Nat
    BY TradingAssumption
  <1>2. p \in Portfolio /\ Balance(p) = Capital /\ \A t \in Ticker : p.lots[t] = 0
    BY <1>1 DEF NewPortfolio, NoLots, Portfolio, Balance
  <1>3. Lots(p) = 0
    <2>1. p.lots = [t \in Ticker |-> 0] /\ DOMAIN p.lots = Ticker
      BY DEF NewPortfolio, NoLots
    <2> QED
      BY <2>1, SumZero, TradingAssumption DEF Lots, SumFunction
  <1> HIDE DEF p
  <1> QED
    BY <1>1, <1>2, <1>3 DEF Sound, WorthOf, p

LEMMA RollIsSound ==
    ASSUME NEW d \in Nat, NEW p, Sound(p, d)
    PROVE  Sound(RollSettlementDay(p), d) /\ RollSettlementDay(p).lots = p.lots
  <1> DEFINE q == RollSettlementDay(p)
  <1>1. p \in Portfolio
    BY DEF Sound
  <1>2. q \in Portfolio /\ q.lots = p.lots /\ Balance(q) = Balance(p)
    BY <1>1 DEF RollSettlementDay, WithPools, WithHoldings, Portfolio, NoLots, Balance
  <1> QED
    BY <1>2, SameWorth

LEMMA DepositIsSound ==
    ASSUME NEW d \in Nat, NEW p, Sound(p, d), NEW amount \in Nat
    PROVE  Sound(DepositCash(p, amount), d + amount)
  <1> DEFINE q == DepositCash(p, amount)
  <1>1. p \in Portfolio /\ Balance(p) \in Int /\ Lots(p) \in Int
    BY LotsNatural DEF Sound, Balance, Portfolio
  <1>2. q \in Portfolio /\ q.lots = p.lots /\ Balance(q) = Balance(p) + amount
    BY <1>1 DEF DepositCash, WithPools, Portfolio, Balance
  <1>3. Lots(q) = Lots(p)
    BY <1>2 DEF Lots
  <1> HIDE DEF q
  <1> QED
    BY <1>1, <1>2, <1>3, TradingAssumption DEF Sound, WorthOf, q

(* The three-stage deduction takes exactly the amount the cash covers.     *)
LEMMA Deducted ==
    ASSUME NEW p \in Portfolio, Balance(p) >= 0, NEW amount \in Nat, amount <= Cash(p)
    PROVE  /\ DeductCash(p, amount) \in Portfolio
           /\ Balance(DeductCash(p, amount)) = Balance(p) - amount
           /\ Balance(p) - amount >= 0
           /\ DeductCash(p, amount).lots = p.lots
  <1> DEFINE q == DeductCash(p, amount)
             afterSettled == amount - p.settled
             afterT1 == afterSettled - p.t1
  <1>1. p.settled \in Int /\ p.t1 \in Int /\ p.t2 \in Int
    BY DEF Portfolio
  <1>2. amount <= Balance(p)
    BY <1>1 DEF Cash, NonNegative, Balance
  <1>3. CASE p.settled >= amount
    <2>1. q = WithPools(p, p.settled - amount, p.t1, p.t2)
      BY <1>1, <1>3 DEF DeductCash
    <2> QED
      BY <1>1, <1>2, <1>3, <2>1 DEF WithPools, Portfolio, Balance
  <1>4. CASE p.settled < amount /\ p.t1 >= afterSettled
    <2>1. q = WithPools(p, 0, p.t1 - afterSettled, p.t2)
      BY <1>1, <1>4 DEF DeductCash
    <2> QED
      BY <1>1, <1>2, <1>4, <2>1 DEF WithPools, Portfolio, Balance
  <1>5. CASE p.settled < amount /\ p.t1 < afterSettled
    <2>1. NonNegative(p.t2 - afterT1) = p.t2 - afterT1
      BY <1>1, <1>2 DEF NonNegative, Balance
    <2>2. q = WithPools(p, 0, 0, p.t2 - afterT1)
      BY <1>1, <1>5, <2>1 DEF DeductCash
    <2> QED
      BY <1>1, <1>2, <1>5, <2>2 DEF WithPools, Portfolio, Balance
  <1> QED
    BY <1>1, <1>3, <1>4, <1>5

(* What is sold turns into cash, lot by lot.                               *)
LEMMA SellIsSound ==
    ASSUME NEW d \in Nat, NEW p, Sound(p, d), NEW pending, NEW sold \in Sells(pending, p)
    PROVE  /\ Sound(AfterSells(p, sold), d)
           /\ \A t \in Ticker : AfterSells(p, sold).lots[t] <= p.lots[t]
  <1> DEFINE q == AfterSells(p, sold)
             kept == [t \in Ticker |-> p.lots[t] - sold[t]]
             proceeds == SumFunction(sold)
  <1>1. /\ p \in Portfolio /\ p.lots \in [Ticker -> Nat] /\ p.today \in [Ticker -> Nat]
        /\ OrderLots \in Nat
    BY TradingAssumption DEF Sound, Portfolio
  <1>2. sold \in [Ticker -> Nat] /\ \A t \in Ticker : sold[t] <= p.lots[t]
    BY <1>1 DEF Sells, AvailableToSell
  <1>3. kept \in [Ticker -> Nat] /\ \A t \in Ticker : kept[t] <= p.lots[t]
    BY <1>1, <1>2
  <1>4. proceeds \in Nat
    BY <1>2, TradingAssumption, SumNatural DEF SumFunction
  <1>5. Lots(p) = SumFunctionOnSet(kept, Ticker) + proceeds
    <2>1. p.lots = [t \in Ticker |-> kept[t] + sold[t]]
      BY <1>1, <1>2
    <2> HIDE DEF kept
    <2>2. SumFunctionOnSet([t \in Ticker |-> kept[t] + sold[t]], Ticker)
            = SumFunctionOnSet(kept, Ticker) + SumFunctionOnSet(sold, Ticker)
      BY <1>2, <1>3, TradingAssumption, SumAdds
    <2> QED
      BY <1>1, <1>2, <2>1, <2>2 DEF Lots, SumFunction
  <1> HIDE DEF proceeds
  <1>6. /\ q.settled = p.settled /\ q.t1 = p.t1 /\ q.t2 = p.t2 + proceeds
        /\ q.lots = kept /\ q.today = p.today
    BY DEF AfterSells, WithHoldings, WithPools, proceeds
  <1>7. q \in Portfolio
    BY <1>1, <1>3, <1>4 DEF AfterSells, WithHoldings, WithPools, Portfolio, proceeds
  <1>8. Lots(q) = SumFunctionOnSet(kept, Ticker) /\ SumFunctionOnSet(kept, Ticker) \in Nat
    BY <1>3, <1>6, TradingAssumption, SumNatural DEF Lots, SumFunction
  <1>9. /\ Balance(q) = Balance(p) + proceeds
        /\ Balance(p) \in Int
    BY <1>1, <1>4, <1>6 DEF Balance, Portfolio
  <1> HIDE DEF q, kept
  <1>10. WorthOf(q) = WorthOf(p)
    BY <1>4, <1>5, <1>8, <1>9 DEF WorthOf
  <1>11. \A t \in Ticker : q.lots[t] <= OrderLots
    <2>1. \A t \in Ticker : p.lots[t] <= OrderLots
      BY DEF Sound
    <2>2. ASSUME NEW t \in Ticker PROVE q.lots[t] <= OrderLots
      <3>1. p.lots[t] \in Nat /\ kept[t] \in Nat
        BY <1>1, <1>3
      <3>2. q.lots[t] = kept[t] /\ kept[t] <= p.lots[t] /\ p.lots[t] <= OrderLots
        BY <1>3, <1>6, <2>1
      <3> QED
        BY <1>1, <3>1, <3>2
    <2> QED
      BY <2>2
  <1> QED
    BY <1>3, <1>4, <1>6, <1>7, <1>9, <1>10, <1>11 DEF Sound, q

(* What is bought is paid for, lot by lot, and adds to no holding.         *)
LEMMA BuyIsSound ==
    ASSUME NEW d \in Nat, NEW p, Sound(p, d), NEW pending, NEW took \in Buys(pending, p)
    PROVE  /\ Sound(AfterBuys(p, took), d)
           /\ \A t \in Ticker : AfterBuys(p, took).lots[t] = p.lots[t] + took[t]
  <1> DEFINE lots == [t \in Ticker |-> p.lots[t] + took[t]]
             today == [t \in Ticker |-> p.today[t] + IF t \in Gross THEN took[t] ELSE 0]
             w == WithHoldings(p, lots, today)
             cost == SumFunction(took)
             q == AfterBuys(p, took)
  <1>1. /\ p \in Portfolio /\ p.lots \in [Ticker -> Nat] /\ p.today \in [Ticker -> Nat]
        /\ OrderLots \in Nat
    BY TradingAssumption DEF Sound, Portfolio
  <1>2. /\ took \in [Ticker -> Nat]
        /\ \A t \in Ticker : took[t] <= OrderLots
        /\ \A t \in Ticker : took[t] > 0 => ~(p.lots[t] > 0)
        /\ CanOpen(p, cost)
    BY <1>1 DEF Buys, AlreadyHolding
  <1>3. /\ lots \in [Ticker -> Nat] /\ today \in [Ticker -> Nat]
        /\ \A t \in Ticker : lots[t] <= OrderLots
    BY <1>1, <1>2 DEF Sound
  <1>4. cost \in Nat
    BY <1>2, TradingAssumption, SumNatural DEF SumFunction
  <1>5. SumFunctionOnSet(lots, Ticker) = Lots(p) + cost /\ Lots(p) \in Nat
    BY <1>1, <1>2, TradingAssumption, SumAdds, LotsNatural DEF Lots, SumFunction
  <1>6. /\ w \in Portfolio /\ w.lots = lots
        /\ Balance(w) = Balance(p) /\ Cash(w) = Cash(p)
    BY <1>1, <1>3 DEF WithHoldings, Portfolio, Balance, Cash
  <1>7. q = DeductCash(w, cost)
    BY DEF AfterBuys
  <1> HIDE DEF w, cost, q
  <1>8. /\ q \in Portfolio /\ q.lots = lots
        /\ Balance(q) = Balance(p) - cost /\ Balance(q) >= 0
    <2>1. Balance(w) >= 0 /\ cost <= Cash(w)
      BY <1>2, <1>6 DEF Sound, CanOpen
    <2> QED
      BY <1>4, <1>6, <1>7, <2>1, Deducted
  <1>9. Lots(q) = SumFunctionOnSet(lots, Ticker)
    BY <1>8 DEF Lots, SumFunction
  <1>10. Balance(p) \in Int
    BY <1>1 DEF Balance, Portfolio
  <1> HIDE DEF lots
  <1>11. WorthOf(q) = WorthOf(p)
    BY <1>4, <1>5, <1>8, <1>9, <1>10 DEF WorthOf
  <1> QED
    BY <1>3, <1>8, <1>11 DEF Sound, q, lots

(* What the orders of a cycle leave.                                       *)
LEMMA FillIsSound ==
    ASSUME NEW d \in Nat, NEW p, Sound(p, d), NEW pending,
           NEW sold \in Sells(pending, p), NEW took \in Buys(pending, AfterSells(p, sold))
    PROVE  LET q == AfterBuys(AfterSells(p, sold), took)
           IN  /\ Sound(q, d)
               /\ Held(q) \subseteq Held(p) \cup {t \in Ticker : took[t] > 0}
  <1> DEFINE s == AfterSells(p, sold)
             q == AfterBuys(s, took)
  <1>1. Sound(s, d) /\ \A t \in Ticker : s.lots[t] <= p.lots[t]
    BY SellIsSound
  <1>2. took \in Buys(pending, s)
    OBVIOUS
  <1> HIDE DEF s
  <1>3. Sound(q, d) /\ \A t \in Ticker : q.lots[t] = s.lots[t] + took[t]
    BY <1>1, <1>2, BuyIsSound
  <1> HIDE DEF q
  <1>4. p.lots \in [Ticker -> Nat] /\ s.lots \in [Ticker -> Nat] /\ took \in [Ticker -> Nat]
    BY <1>1, TradingAssumption DEF Sound, Portfolio, Buys
  <1>5. Held(q) \subseteq Held(p) \cup {t \in Ticker : took[t] > 0}
    BY <1>1, <1>3, <1>4 DEF Held
  <1> QED
    BY <1>3, <1>5 DEF q, s

-----------------------------------------------------------------------------
(* The statements the cycles write.                                        *)
OrderOf(t) == [op |-> "order", ticker |-> t]

(* Sequence x holds no portfolio but p, and p comes after an order for each *)
(* share of T, as do all later statements.                                  *)
Writes(x, p, T) ==
    /\ x \in Seq(Statement)
    /\ \A i \in DOMAIN x : x[i].op = "portfolio" =>
            /\ x[i].pf = p
            /\ \A t \in T : \E j \in 1 .. i : x[j] = OrderOf(t)
    /\ \A t \in T : \E j \in DOMAIN x : x[j] = OrderOf(t)

LEMMA StatementKinds ==
    /\ \A p \in Portfolio : [op |-> "portfolio", pf |-> p] \in Statement
    /\ \A d \in Day : [op |-> "date", date |-> d] \in Statement
    /\ \A s \in Signal : [op |-> "signal", signal |-> s] \in Statement
    /\ \A t \in Ticker : OrderOf(t) \in Statement
    /\ [op |-> "clear"] \in Statement
  BY DEF Statement, OrderOf

(* One sequence after another.                                             *)
LEMMA Joined ==
    ASSUME NEW S, NEW x \in Seq(S), NEW y \in Seq(S)
    PROVE  /\ x \o y \in Seq(S)
           /\ Len(x \o y) = Len(x) + Len(y) /\ Len(x) \in Nat /\ Len(y) \in Nat
           /\ DOMAIN x = 1 .. Len(x) /\ DOMAIN y = 1 .. Len(y)
           /\ DOMAIN (x \o y) = 1 .. Len(x) + Len(y)
           /\ \A i \in 1 .. Len(x) : (x \o y)[i] = x[i]
           /\ \A i \in 1 .. Len(y) : (x \o y)[Len(x) + i] = y[i]
           /\ \A i \in 1 .. Len(x) + Len(y) :
                 i \in 1 .. Len(x) \/ \E k \in 1 .. Len(y) : i = Len(x) + k
  <1>1. /\ x \o y \in Seq(S) /\ Len(x \o y) = Len(x) + Len(y)
        /\ Len(x) \in Nat /\ Len(y) \in Nat
        /\ DOMAIN x = 1 .. Len(x) /\ DOMAIN y = 1 .. Len(y)
        /\ DOMAIN (x \o y) = 1 .. Len(x) + Len(y)
    OBVIOUS
  <1>2. \A i \in 1 .. Len(x) : (x \o y)[i] = x[i]
    OBVIOUS
  <1>3. \A i \in 1 .. Len(y) : (x \o y)[Len(x) + i] = y[i]
    OBVIOUS
  <1>4. ASSUME NEW i \in 1 .. Len(x) + Len(y), i \notin 1 .. Len(x)
        PROVE  \E k \in 1 .. Len(y) : i = Len(x) + k
    <2>1. i - Len(x) \in 1 .. Len(y) /\ i = Len(x) + (i - Len(x))
      BY <1>1, <1>4
    <2> QED
      BY <2>1
  <1> QED
    BY <1>1, <1>2, <1>3, <1>4

(* What follows the orders may save the portfolio; what follows that does   *)
(* not matter.                                                              *)
LEMMA WritesJoined ==
    ASSUME NEW p, NEW T, NEW x, NEW y,
           Writes(x, p, T), Writes(y, p, {})
    PROVE  Writes(x \o y, p, T)
  <1> DEFINE z == x \o y
             n == Len(x)
  <1>1. x \in Seq(Statement) /\ y \in Seq(Statement)
    BY DEF Writes
  <1>2. /\ z \in Seq(Statement)
        /\ n \in Nat /\ Len(y) \in Nat
        /\ DOMAIN x = 1 .. n /\ DOMAIN y = 1 .. Len(y)
        /\ DOMAIN z = 1 .. n + Len(y)
        /\ \A i \in 1 .. n : z[i] = x[i]
        /\ \A i \in 1 .. Len(y) : z[n + i] = y[i]
        /\ \A i \in 1 .. n + Len(y) : i \in 1 .. n \/ \E k \in 1 .. Len(y) : i = n + k
    BY <1>1, Joined
  <1> HIDE DEF z, n
  <1>3. ASSUME NEW t \in T PROVE \E j \in 1 .. n : z[j] = OrderOf(t)
    BY <1>2 DEF Writes
  <1>4. ASSUME NEW i \in DOMAIN z, z[i].op = "portfolio"
        PROVE  z[i].pf = p /\ \A t \in T : \E j \in 1 .. i : z[j] = OrderOf(t)
    <2>1. CASE i \in 1 .. n
      <3>1. x[i].pf = p /\ \A t \in T : \E j \in 1 .. i : x[j] = OrderOf(t)
        BY <1>2, <1>4, <2>1 DEF Writes
      <3>2. \A j \in 1 .. i : z[j] = x[j]
        BY <1>2, <2>1
      <3> QED
        BY <1>2, <2>1, <3>1, <3>2
    <2>2. ASSUME NEW k \in 1 .. Len(y), i = n + k
          PROVE  z[i].pf = p /\ \A t \in T : \E j \in 1 .. i : z[j] = OrderOf(t)
      <3>1. z[i] = y[k]
        BY <1>2, <2>2
      <3>2. z[i].pf = p
        BY <1>2, <1>4, <3>1 DEF Writes
      <3>3. 1 .. n \subseteq 1 .. i
        BY <1>2, <2>2
      <3> QED
        BY <1>3, <3>2, <3>3
    <2> QED
      BY <1>2, <2>1, <2>2
  <1>5. \A t \in T : \E j \in DOMAIN z : z[j] = OrderOf(t)
    <2>1. 1 .. n \subseteq DOMAIN z
      BY <1>2
    <2> QED
      BY <1>3, <2>1
  <1> QED
    BY <1>2, <1>4, <1>5 DEF Writes, z

LEMMA SavingWrites ==
    ASSUME NEW p \in Portfolio
    PROVE  Writes(Saving(p), p, {})
  <1>1. CASE ready
    <2>1. Saving(p) = << [op |-> "portfolio", pf |-> p] >>
      BY <1>1 DEF Saving
    <2>2. [op |-> "portfolio", pf |-> p] \in Statement
      BY StatementKinds
    <2> QED
      BY <2>1, <2>2 DEF Writes
  <1>2. CASE ~ready
    <2>1. Saving(p) = <<>>
      BY <1>2 DEF Saving
    <2> QED
      BY <2>1 DEF Writes
  <1> QED
    BY <1>1, <1>2

(* A sequence without portfolios.                                          *)
LEMMA OtherWrites ==
    ASSUME NEW x \in Seq(Statement), \A i \in DOMAIN x : x[i].op # "portfolio", NEW p
    PROVE  Writes(x, p, {})
  BY DEF Writes

LEMMA SignalsWrite ==
    ASSUME now \in Time, NEW side \in {"BUY", "SELL"}, NEW T \in SUBSET Ticker, NEW p
    PROVE  Writes(Statements(side, T), p, {})
  <1> DEFINE x == Statements(side, T)
             n == Cardinality(T)
             q == SetToSeq(T)
  <1>1. n \in Nat /\ q \in [1 .. n -> T]
    BY TradingAssumption, FS_Subset, SetAsSequence
  <1> HIDE DEF n, q
  <1>2. x = [i \in 1 .. n |->
                [op |-> "signal", signal |-> [side |-> side, ticker |-> q[i], made |-> now]]]
    BY DEF Statements, n, q
  <1> HIDE DEF x
  <1>3. ASSUME NEW i \in 1 .. n
        PROVE  x[i] \in Statement /\ x[i].op = "signal"
    <2>1. [side |-> side, ticker |-> q[i], made |-> now] \in Signal
      BY <1>1 DEF Signal
    <2> QED
      BY <1>2, <2>1, StatementKinds
  <1>4. x \in Seq(Statement) /\ DOMAIN x = 1 .. n
    <2>1. x \in [1 .. n -> Statement]
      BY <1>2, <1>3
    <2> QED
      BY <1>1, <2>1
  <1>5. \A i \in DOMAIN x : x[i].op # "portfolio"
    BY <1>3, <1>4
  <1> QED
    BY <1>4, <1>5, OtherWrites DEF x

LEMMA QueuedWrites ==
    ASSUME TypeOK, NEW t \in Task, NEW queued \in QueuedSignals(t), NEW p
    PROVE  Writes(queued, p, {})
  <1>1. CASE queued = <<>>
    BY <1>1 DEF Writes
  <1>2. ASSUME NEW entries \in SUBSET (Ticker \ job[t].held),
               queued = << [op |-> "clear"] >> \o Statements("SELL", job[t].held)
                            \o Statements("BUY", entries)
        PROVE  Writes(queued, p, {})
    <2>1. now \in Time /\ job[t].held \in SUBSET Ticker /\ entries \in SUBSET Ticker
      BY DEF TypeOK, Job
    <2>2. Writes(Statements("SELL", job[t].held), p, {})
      BY <2>1, SignalsWrite
    <2>3. Writes(Statements("BUY", entries), p, {})
      BY <2>1, SignalsWrite
    <2>4. Writes(<< [op |-> "clear"] >>, p, {})
      BY StatementKinds DEF Writes
    <2> QED
      BY <1>2, <2>2, <2>3, <2>4, WritesJoined
  <1> QED
    BY <1>1, <1>2 DEF QueuedSignals

LEMMA OrdersWrite ==
    ASSUME NEW took \in [Ticker -> Nat], NEW p
    PROVE  Writes(Orders(took), p, {t \in Ticker : took[t] > 0})
  <1> DEFINE T == {t \in Ticker : took[t] > 0}
             x == Orders(took)
             n == Cardinality(T)
             q == SetToSeq(T)
  <1>1. n \in Nat /\ q \in [1 .. n -> T] /\ \A t \in T : \E i \in 1 .. n : q[i] = t
    <2>1. IsFiniteSet(T)
      BY TradingAssumption, FS_Subset
    <2> HIDE DEF T
    <2> QED
      BY <2>1, SetAsSequence
  <1>2. T \subseteq Ticker
    OBVIOUS
  <1>3. x = [i \in 1 .. n |-> OrderOf(q[i])]
    BY DEF Orders, OrderOf
  <1> HIDE DEF T, x, n, q
  <1>4. ASSUME NEW i \in 1 .. n
        PROVE  x[i] = OrderOf(q[i]) /\ x[i] \in Statement /\ x[i].op = "order"
    BY <1>1, <1>2, <1>3, StatementKinds DEF OrderOf
  <1>5. x \in Seq(Statement) /\ DOMAIN x = 1 .. n
    <2>1. x \in [1 .. n -> Statement]
      BY <1>3, <1>4
    <2> QED
      BY <1>1, <2>1
  <1>6. \A t \in T : \E j \in DOMAIN x : x[j] = OrderOf(t)
    BY <1>1, <1>4, <1>5
  <1>7. \A i \in DOMAIN x : x[i].op # "portfolio"
    BY <1>4, <1>5
  <1>8. Writes(x, p, T)
    BY <1>5, <1>6, <1>7 DEF Writes
  <1> QED
    BY <1>8 DEF x, T

LEMMA CycleWrites ==
    ASSUME TypeOK, NEW t \in Task, NEW took \in [Ticker -> Nat], NEW p \in Portfolio
    PROVE  Writes(CycleStatements(t, took, p), p, {x \in Ticker : took[x] > 0})
  <1> DEFINE last == << [op |-> "date", date |-> job[t].day], [op |-> "clear"] >>
  <1>1. job[t].day \in Day
    BY DEF TypeOK, Job
  <1>2. Writes(last, p, {})
    <2>1. last \in Seq(Statement)
      BY <1>1, StatementKinds
    <2>2. \A i \in DOMAIN last : last[i].op # "portfolio"
      OBVIOUS
    <2> QED
      BY <2>1, <2>2, OtherWrites
  <1> HIDE DEF last
  <1>3. Writes(Orders(took), p, {x \in Ticker : took[x] > 0})
    BY OrdersWrite
  <1>4. Writes(Orders(took) \o Saving(p), p, {x \in Ticker : took[x] > 0})
    BY <1>3, SavingWrites, WritesJoined
  <1>5. Writes(Orders(took) \o Saving(p) \o last, p, {x \in Ticker : took[x] > 0})
    BY <1>2, <1>4, WritesJoined
  <1> QED
    BY <1>5 DEF CycleStatements, last

-----------------------------------------------------------------------------
(* The invariant.  Every portfolio there is - in memory, durable, or on its *)
(* way to the database - is sound: a flush makes durable what was handed to *)
(* the store long before, and a reload puts that back into memory.          *)
AllSound ==
    /\ Sound(pf, deposited)
    /\ \A i \in DOMAIN db.pf : Sound(db.pf[i], deposited)
    /\ \A i \in DOMAIN buffer : buffer[i].op = "portfolio" => Sound(buffer[i].pf, deposited)

(* The order for a share is durable, or among the first n statements of b.  *)
Ordered(t, d, b, n) == t \in d.ordered \/ \E j \in 1 .. n : b[j] = OrderOf(t)

(* What a portfolio holds was ordered before it was saved, and what the one *)
(* in memory holds was ordered before it will be.                           *)
Covered ==
    /\ \A i \in DOMAIN db.pf : Held(db.pf[i]) \subseteq db.ordered
    /\ \A i \in DOMAIN buffer : buffer[i].op = "portfolio" =>
            \A t \in Held(buffer[i].pf) : Ordered(t, db, buffer, i)
    /\ up => \A t \in Held(pf) : Ordered(t, db, buffer, Len(buffer))

IInv == TypeOK /\ AllSound /\ Covered

(* A step of a cycle: the portfolio becomes another sound one, whose new    *)
(* shares T are ordered, and statements join the buffer.                    *)
CycleStep(x, T) ==
    /\ up /\ up' = up /\ db' = db /\ deposited' = deposited
    /\ Sound(pf', deposited) /\ Held(pf') \subseteq Held(pf) \cup T
    /\ buffer' = buffer \o x /\ Writes(x, pf', T)

(* A load: the portfolio becomes the durable one, or stays if there is none,*)
(* but for its locks and what is deposited.                                 *)
LoadStep ==
    /\ db' = db /\ buffer' = buffer /\ up' \in BOOLEAN
    /\ deposited' \in Nat /\ deposited' >= deposited
    /\ Sound(pf', deposited')
    /\ \/ db.pf # <<>> /\ Held(pf') \subseteq Held(db.pf[1])
       \/ Held(pf') = {}
       \/ up /\ Held(pf') \subseteq Held(pf)

LEMMA DayOfTime ==
    /\ \A time \in Time : DayOf(time) \in Day
    /\ Day \subseteq Nat /\ 0 \in Day
  BY TradingAssumption DEF Time, DayOf, Day

LEMMA JobsTyped ==
    /\ Idle \in Job
    /\ \A kind \in {"morning", "eod"}, d \in Day : NewJob(kind, d) \in Job
  BY DayOfTime DEF Idle, Job, NewJob

(* What the next steps look at and where the tasks are.                    *)
Control ==
    /\ now \in Time
    /\ up \in BOOLEAN /\ ready \in BOOLEAN /\ booting \in BOOLEAN /\ due \in BOOLEAN
    /\ job \in [Task -> Job]
    /\ missed \subseteq Cycle
    /\ crashes \in 0 .. MaxCrashes /\ requests \in 0 .. MaxRequests
    /\ deposited \in 0 .. MaxDeposited
    /\ bought \subseteq Ticker

LEMMA StepControl ==
    ASSUME TypeOK, NEW t \in Task, Step(t)
    PROVE  Control'
  <1> USE DEF TypeOK, Control, history
  <1>1. CASE Morning(t)
    BY <1>1 DEF Morning, Continue, Job
  <1>2. CASE EodStart(t)
    BY <1>2 DEF EodStart, Job, Held
  <1>3. CASE EodValue(t)
    <2>1. job' = [job EXCEPT ![t].pc = "logged"] \/ job' = [job EXCEPT ![t] = Idle]
      BY <1>3 DEF EodValue, Continue, Finish
    <2>2. job' \in [Task -> Job]
      <3>1. CASE job' = [job EXCEPT ![t].pc = "logged"]
        BY <3>1 DEF Job
      <3>2. CASE job' = [job EXCEPT ![t] = Idle]
        BY <3>2, JobsTyped
      <3> QED
        BY <2>1, <3>1, <3>2
    <2> QED
      BY <1>3, <2>2 DEF EodValue, MarkToMarket
  <1>4. CASE EodRaise(t)
    BY <1>4, JobsTyped DEF EodRaise, MarkToMarket, Abandon, Finish
  <1>5. CASE Resume(t)
    BY <1>5 DEF Resume, Continue, Job
  <1>6. CASE Raise(t)
    BY <1>6, JobsTyped DEF Raise, Abandon, Finish
  <1>7. CASE ExecutePending(t)
    <2>1. bought' \subseteq Ticker
      BY <1>7, TradingAssumption DEF ExecutePending
    <2>2. job' \in [Task -> Job]
      BY <1>7, JobsTyped DEF ExecutePending, Finish
    <2> QED
      BY <1>7, <2>1, <2>2 DEF ExecutePending
  <1>8. CASE ExecuteRaises(t)
    <2>1. bought' \subseteq Ticker
      BY <1>8, TradingAssumption DEF ExecuteRaises
    <2>2. job' \in [Task -> Job] /\ missed' \subseteq Cycle
      BY <1>8, JobsTyped DEF ExecuteRaises, Abandon, Finish
    <2> QED
      BY <1>8, <2>1, <2>2 DEF ExecuteRaises
  <1>9. CASE ExecuteNothing(t)
    BY <1>9, JobsTyped DEF ExecuteNothing, Finish
  <1> QED
    BY <1>1, <1>2, <1>3, <1>4, <1>5, <1>6, <1>7, <1>8, <1>9 DEF Step

LEMMA NextControl ==
    ASSUME TypeOK, [Next]_vars
    PROVE  Control'
  <1> USE DEF TypeOK, Control, history
  <1>1. ASSUME NEW t \in Task, Step(t) PROVE Control'
    BY <1>1, StepControl
  <1>2. CASE BeginCatchUp
    <2>1. missed' \subseteq Cycle
      BY <1>2 DEF BeginCatchUp, MissedDays, Cycle
    <2> QED
      BY <1>2, <2>1 DEF BeginCatchUp
  <1>3. CASE ReplayNext
    <2>1. PICK m \in missed : Replay(m) /\ missed' = missed \ {m}
      BY <1>3 DEF ReplayNext
    <2>2. NewJob(m.kind, m.day) \in Job
      BY JobsTyped DEF Cycle
    <2>3. job' \in [Task -> Job] /\ missed' \subseteq Cycle
      BY <2>1, <2>2 DEF Replay
    <2> QED
      BY <1>3, <2>3 DEF ReplayNext
  <1>4. CASE RunScheduled
    <2>1. NewJob(IF IsMorning(now) THEN "morning" ELSE "eod", DayOf(now)) \in Job
      BY JobsTyped, DayOfTime
    <2> QED
      BY <1>4, <2>1 DEF RunScheduled
  <1>5. CASE Tick
    <2>1. now' \in Time
      BY <1>5, TradingAssumption DEF Tick, Time
    <2> QED
      BY <1>5, <2>1 DEF Tick, Sleeping
  <1>6. CASE Trigger
    <2>1. job' \in [Task -> Job]
      BY <1>6, JobsTyped, DayOfTime DEF Trigger
    <2>2. requests' \in 0 .. MaxRequests
      BY <1>6, TradingAssumption DEF Trigger
    <2> QED
      BY <1>6, <2>1, <2>2 DEF Trigger
  <1>7. CASE Read
    <2>1. requests' \in 0 .. MaxRequests
      BY <1>7, TradingAssumption DEF Read
    <2> QED
      BY <1>7, <2>1 DEF Read
  <1>8. CASE Deposit
    <2>1. deposited' \in 0 .. MaxDeposited /\ requests' \in 0 .. MaxRequests
      BY <1>8, TradingAssumption DEF Deposit
    <2> QED
      BY <1>8, <2>1 DEF Deposit
  <1>9. CASE Flush
    BY <1>9 DEF Flush
  <1>10. CASE DebounceOver
    BY <1>10 DEF DebounceOver
  <1>11. CASE Crash
    <2>1. crashes' \in 0 .. MaxCrashes
      BY <1>11, TradingAssumption DEF Crash
    <2>2. job' \in [Task -> Job]
      BY <1>11, JobsTyped DEF Crash
    <2> QED
      BY <1>11, <2>1, <2>2 DEF Crash
  <1>12. CASE Start
    BY <1>12 DEF Start
  <1>13. CASE UNCHANGED vars
    BY <1>13 DEF vars
  <1> QED
    BY <1>1, <1>2, <1>3, <1>4, <1>5, <1>6, <1>7, <1>8, <1>9, <1>10, <1>11, <1>12, <1>13
       DEF Next

(* Every step of a task leaves the portfolio alone or writes it out.       *)
LEMMA StepKinds ==
    ASSUME IInv, NEW t \in Task, Step(t)
    PROVE  UNCHANGED <<up, pf, db, buffer, deposited>> \/ \E x, T : CycleStep(x, T)
  <1> DEFINE Quiet == UNCHANGED <<up, pf, db, buffer, deposited>>
  <1>1. deposited \in Nat /\ Sound(pf, deposited) /\ TypeOK
    BY TradingAssumption DEF IInv, AllSound, TypeOK
  <1>2. CASE Morning(t) \/ EodStart(t) \/ Resume(t) \/ Raise(t) \/ ExecuteNothing(t)
    BY <1>2 DEF Morning, EodStart, Resume, Raise, ExecuteNothing, history
  <1>3. ASSUME NEW x, Writes(x, pf', {}), buffer' = buffer \o x, pf' = RollSettlementDay(pf),
               up, UNCHANGED <<up, db, deposited>>
        PROVE  CycleStep(x, {})
    <2>1. Sound(pf', deposited) /\ pf'.lots = pf.lots
      BY <1>1, <1>3, RollIsSound
    <2> QED
      BY <1>3, <2>1 DEF CycleStep, Held
  <1>4. CASE EodValue(t) \/ EodRaise(t)
    <2>1. /\ pf' = RollSettlementDay(pf)
          /\ up /\ UNCHANGED <<up, db, deposited>>
      BY <1>4 DEF EodValue, EodRaise, MarkToMarket, LoopFree, history
    <2>2. pf' \in Portfolio
      BY <1>1, <2>1, RollIsSound DEF Sound
    <2>3. Writes(Saving(pf'), pf', {})
      BY <2>2, SavingWrites
    <2>4. CASE EodRaise(t)
      BY <1>3, <2>1, <2>3, <2>4 DEF EodRaise
    <2>5. CASE EodValue(t)
      <3>1. PICK queued \in QueuedSignals(t) : buffer' = buffer \o Saving(pf') \o queued
        BY <2>5 DEF EodValue
      <3>2. Writes(queued, pf', {})
        BY <1>1, QueuedWrites
      <3>3. Writes(Saving(pf') \o queued, pf', {})
        BY <2>3, <3>2, WritesJoined
      <3>4. buffer' = buffer \o (Saving(pf') \o queued)
        <4>1. buffer \in Seq(Statement) /\ Saving(pf') \in Seq(Statement) /\ queued \in Seq(Statement)
          BY <1>1, <2>3, <3>2 DEF TypeOK, Writes
        <4> QED
          BY <3>1, <4>1, ConcatAssociative
      <3> QED
        BY <1>3, <2>1, <3>3, <3>4
    <2> QED
      BY <1>4, <2>4, <2>5
  <1>5. ASSUME NEW pending, NEW sold \in Sells(pending, pf),
               NEW took \in Buys(pending, AfterSells(pf, sold)), NEW filled,
               filled = AfterBuys(AfterSells(pf, sold), took),
               pf' = filled \/ pf' = RollSettlementDay(filled)
        PROVE  /\ took \in [Ticker -> Nat]
               /\ Sound(pf', deposited)
               /\ Held(pf') \subseteq Held(pf) \cup {x \in Ticker : took[x] > 0}
    <2>1. took \in [Ticker -> Nat]
      BY TradingAssumption DEF Buys
    <2>2. Sound(filled, deposited) /\ Held(filled) \subseteq Held(pf) \cup {x \in Ticker : took[x] > 0}
      BY <1>1, <1>5, FillIsSound
    <2>3. Sound(pf', deposited) /\ pf'.lots = filled.lots
      BY <1>1, <1>5, <2>2, RollIsSound
    <2> QED
      BY <2>1, <2>2, <2>3 DEF Held
  <1>6. CASE ExecutePending(t)
    <2>1. PICK pending \in PendingSignals \ {{}} : \E sold \in Sells(pending, pf) :
            \E took \in Buys(pending, AfterSells(pf, sold)) :
                /\ pf' = RollSettlementDay(AfterBuys(AfterSells(pf, sold), took))
                /\ buffer' = buffer \o CycleStatements(t, took, pf')
      BY <1>6 DEF ExecutePending
    <2>2. PICK sold \in Sells(pending, pf) : \E took \in Buys(pending, AfterSells(pf, sold)) :
                /\ pf' = RollSettlementDay(AfterBuys(AfterSells(pf, sold), took))
                /\ buffer' = buffer \o CycleStatements(t, took, pf')
      BY <2>1
    <2>3. PICK took \in Buys(pending, AfterSells(pf, sold)) :
                /\ pf' = RollSettlementDay(AfterBuys(AfterSells(pf, sold), took))
                /\ buffer' = buffer \o CycleStatements(t, took, pf')
      BY <2>2
    <2> DEFINE T == {x \in Ticker : took[x] > 0}
    <2>4. took \in [Ticker -> Nat] /\ Sound(pf', deposited) /\ Held(pf') \subseteq Held(pf) \cup T
      BY <1>5, <2>3
    <2>5. Writes(CycleStatements(t, took, pf'), pf', T)
      BY <1>1, <2>4, CycleWrites DEF Sound
    <2>6. CycleStep(CycleStatements(t, took, pf'), T)
      BY <1>6, <2>3, <2>4, <2>5 DEF ExecutePending, CycleStep
    <2> QED
      BY <2>6
  <1>7. CASE ExecuteRaises(t)
    <2>1. PICK pending \in PendingSignals \ {{}} : \E sold \in Sells(pending, pf) :
            \E took \in Buys(pending, AfterSells(pf, sold)) :
                /\ \/ pf' = AfterBuys(AfterSells(pf, sold), took)
                   \/ pf' = RollSettlementDay(AfterBuys(AfterSells(pf, sold), took))
                /\ buffer' = buffer \o Orders(took)
      BY <1>7 DEF ExecuteRaises
    <2>2. PICK sold \in Sells(pending, pf) : \E took \in Buys(pending, AfterSells(pf, sold)) :
                /\ \/ pf' = AfterBuys(AfterSells(pf, sold), took)
                   \/ pf' = RollSettlementDay(AfterBuys(AfterSells(pf, sold), took))
                /\ buffer' = buffer \o Orders(took)
      BY <2>1
    <2>3. PICK took \in Buys(pending, AfterSells(pf, sold)) :
                /\ \/ pf' = AfterBuys(AfterSells(pf, sold), took)
                   \/ pf' = RollSettlementDay(AfterBuys(AfterSells(pf, sold), took))
                /\ buffer' = buffer \o Orders(took)
      BY <2>2
    <2> DEFINE T == {x \in Ticker : took[x] > 0}
    <2>4. took \in [Ticker -> Nat] /\ Sound(pf', deposited) /\ Held(pf') \subseteq Held(pf) \cup T
      BY <1>5, <2>3
    <2>5. Writes(Orders(took), pf', T)
      BY <2>4, OrdersWrite
    <2>6. CycleStep(Orders(took), T)
      BY <1>7, <2>3, <2>4, <2>5 DEF ExecuteRaises, CycleStep
    <2> QED
      BY <2>6
  <1> QED
    BY <1>2, <1>4, <1>6, <1>7 DEF Step

(* Reading the portfolio back gives a sound one.                           *)
LEMMA LoadedIsSound ==
    ASSUME IInv, NEW p, Sound(p, deposited)
    PROVE  /\ Sound(Loaded(p), deposited)
           /\ \/ db.pf # <<>> /\ Loaded(p).lots = db.pf[1].lots
              \/ Loaded(p) = p
  <1>1. deposited \in Nat
    BY TradingAssumption DEF IInv, TypeOK
  <1>2. CASE db.pf = <<>>
    BY <1>2 DEF Loaded
  <1>3. CASE db.pf # <<>>
    <2> DEFINE row == db.pf[1]
    <2>1. db.pf \in Seq(Portfolio)
      BY DEF IInv, TypeOK, Database
    <2>2. 1 \in DOMAIN db.pf
      BY <1>3, <2>1
    <2>3. Sound(row, deposited)
      BY <2>2 DEF IInv, AllSound
    <2> HIDE DEF row
    <2>4. Loaded(p) = WithHoldings(row, row.lots, p.today)
      BY <1>3 DEF Loaded, row
    <2>5. row \in Portfolio /\ p \in Portfolio
      BY <2>3 DEF Sound
    <2>6. Loaded(p) \in Portfolio /\ Loaded(p).lots = row.lots /\ Balance(Loaded(p)) = Balance(row)
      BY <2>4, <2>5 DEF WithHoldings, Portfolio, Balance
    <2> QED
      BY <1>1, <1>3, <2>3, <2>6, SameWorth DEF row
  <1> QED
    BY <1>2, <1>3

(* A request, a deposit and a start load the portfolio.                    *)
LEMMA LoadKinds ==
    ASSUME IInv, Read \/ Deposit \/ Start
    PROVE  LoadStep
  <1>1. deposited \in Nat /\ Sound(pf, deposited) /\ up \in BOOLEAN
    BY TradingAssumption DEF IInv, AllSound, TypeOK
  <1>2. CASE Read
    <2>1. pf' = Loaded(pf) /\ up /\ UNCHANGED <<up, db, buffer, deposited>>
      BY <1>2 DEF Read, LoopFree, history
    <2> QED
      BY <1>1, <2>1, LoadedIsSound DEF LoadStep, Held
  <1>3. CASE Deposit
    <2>1. PICK amount \in Deposits :
                deposited' = deposited + amount /\ pf' = DepositCash(Loaded(pf), amount)
      BY <1>3 DEF Deposit
    <2>2. amount \in Nat /\ up /\ UNCHANGED <<up, db, buffer>>
      BY <1>3, TradingAssumption DEF Deposit, LoopFree
    <2>3. Sound(Loaded(pf), deposited)
      BY <1>1, LoadedIsSound
    <2>4. Sound(pf', deposited') /\ deposited' \in Nat /\ deposited' >= deposited
      BY <1>1, <2>1, <2>2, <2>3, DepositIsSound
    <2>5. pf'.lots = Loaded(pf).lots
      BY <2>1 DEF DepositCash, WithPools
    <2> QED
      BY <1>1, <2>2, <2>4, <2>5, LoadedIsSound DEF LoadStep, Held
  <1>4. CASE Start
    <2> DEFINE p == NewPortfolio(Capital)
    <2>1. pf' = Loaded(p) /\ up' = TRUE /\ UNCHANGED <<db, buffer, deposited>>
      BY <1>4 DEF Start, history
    <2>2. Sound(p, deposited)
      BY <1>1, NewIsSound
    <2>3. Held(p) = {}
      BY DEF Held, NewPortfolio, NoLots
    <2> HIDE DEF p
    <2> QED
      BY <1>1, <2>1, <2>2, <2>3, LoadedIsSound DEF LoadStep, Held
  <1> QED
    BY <1>2, <1>3, <1>4

-----------------------------------------------------------------------------
(* Each kind of step keeps the invariant.                                  *)

(* Data are the part of the type invariant that Control leaves out.        *)
Data == pf \in Portfolio /\ db \in Database /\ buffer \in Seq(Statement)

LEMMA CycleKeeps ==
    ASSUME IInv, NEW x, NEW T, CycleStep(x, T)
    PROVE  Data' /\ AllSound' /\ Covered'
  <1> DEFINE n == Len(buffer)
             m == Len(x)
             z == buffer \o x
  <1>1. /\ buffer \in Seq(Statement) /\ x \in Seq(Statement) /\ buffer' = z
        /\ db' = db /\ deposited' = deposited /\ up /\ up'
    BY DEF IInv, TypeOK, CycleStep, Writes
  <1>2. /\ z \in Seq(Statement)
        /\ n \in Nat /\ m \in Nat /\ Len(z) = n + m
        /\ DOMAIN buffer = 1 .. n /\ DOMAIN x = 1 .. m
        /\ DOMAIN z = 1 .. n + m
        /\ \A i \in 1 .. n : z[i] = buffer[i]
        /\ \A i \in 1 .. m : z[n + i] = x[i]
        /\ \A i \in 1 .. n + m : i \in 1 .. n \/ \E k \in 1 .. m : i = n + k
    BY <1>1, Joined
  <1>3. Data'
    BY <1>1, <1>2 DEF Data, IInv, TypeOK, CycleStep, Sound
  <1> HIDE DEF z, n, m
  <1>4. ASSUME NEW i \in DOMAIN z, z[i].op = "portfolio"
        PROVE  /\ Sound(z[i].pf, deposited)
               /\ \A t \in Held(z[i].pf) : Ordered(t, db, z, i)
    <2>1. CASE i \in 1 .. n
      <3>1. /\ Sound(buffer[i].pf, deposited)
            /\ \A t \in Held(buffer[i].pf) : Ordered(t, db, buffer, i)
            /\ z[i] = buffer[i]
        BY <1>2, <1>4, <2>1 DEF IInv, AllSound, Covered
      <3>2. \A j \in 1 .. i : z[j] = buffer[j]
        BY <1>2, <2>1
      <3> QED
        BY <3>1, <3>2 DEF Ordered
    <2>2. ASSUME NEW k \in 1 .. m, i = n + k
          PROVE  /\ Sound(z[i].pf, deposited)
                 /\ \A t \in Held(z[i].pf) : Ordered(t, db, z, i)
      <3>1. z[i] = x[k]
        BY <1>2, <2>2
      <3>2. z[i].pf = pf' /\ \A t \in T : \E j \in 1 .. k : x[j] = OrderOf(t)
        BY <1>2, <1>4, <3>1 DEF CycleStep, Writes
      <3>3. ASSUME NEW t \in T PROVE Ordered(t, db, z, i)
        <4>1. PICK j \in 1 .. k : x[j] = OrderOf(t)
          BY <3>2
        <4>2. n + j \in 1 .. i /\ z[n + j] = x[j]
          BY <1>2, <2>2
        <4> QED
          BY <4>1, <4>2 DEF Ordered
      <3>4. ASSUME NEW t \in Held(pf) PROVE Ordered(t, db, z, i)
        <4>1. Ordered(t, db, buffer, n)
          BY <1>1 DEF IInv, Covered, n
        <4>2. \A j \in 1 .. n : j \in 1 .. i /\ z[j] = buffer[j]
          BY <1>2, <2>2
        <4> QED
          BY <4>1, <4>2 DEF Ordered
      <3>5. Sound(pf', deposited) /\ Held(pf') \subseteq Held(pf) \cup T
        BY DEF CycleStep
      <3> QED
        BY <3>2, <3>3, <3>4, <3>5
    <2> QED
      BY <1>2, <2>1, <2>2
  <1>5. \A t \in Held(pf') : Ordered(t, db, z, Len(z))
    <2>1. ASSUME NEW t \in T PROVE Ordered(t, db, z, Len(z))
      <3>1. PICK j \in 1 .. m : x[j] = OrderOf(t)
        BY <1>2 DEF CycleStep, Writes
      <3>2. n + j \in 1 .. Len(z) /\ z[n + j] = x[j]
        BY <1>2
      <3> QED
        BY <3>1, <3>2 DEF Ordered
    <2>2. ASSUME NEW t \in Held(pf) PROVE Ordered(t, db, z, Len(z))
      <3>1. Ordered(t, db, buffer, n)
        BY <1>1 DEF IInv, Covered, n
      <3>2. \A j \in 1 .. n : j \in 1 .. Len(z) /\ z[j] = buffer[j]
        BY <1>2
      <3> QED
        BY <3>1, <3>2 DEF Ordered
    <2> QED
      BY <2>1, <2>2 DEF CycleStep
  <1>6. AllSound'
    BY <1>1, <1>4 DEF AllSound, IInv, CycleStep, z
  <1>7. Covered'
    BY <1>1, <1>4, <1>5 DEF Covered, IInv, z
  <1> QED
    BY <1>3, <1>6, <1>7

LEMMA LoadKeeps ==
    ASSUME IInv, LoadStep
    PROVE  Data' /\ AllSound' /\ Covered'
  <1>1. /\ db' = db /\ buffer' = buffer
        /\ deposited \in Nat /\ deposited' \in Nat /\ deposited <= deposited'
        /\ Sound(pf', deposited')
    BY TradingAssumption DEF LoadStep, IInv, TypeOK
  <1>2. Data'
    BY <1>1 DEF Data, Sound, IInv, TypeOK
  <1>3. \A p : Sound(p, deposited) => Sound(p, deposited')
    BY <1>1, MoreDeposits
  <1>4. AllSound'
    BY <1>1, <1>3 DEF AllSound, IInv
  <1>5. ASSUME up', NEW t \in Held(pf')
        PROVE  Ordered(t, db, buffer, Len(buffer))
    <2>1. CASE db.pf # <<>> /\ Held(pf') \subseteq Held(db.pf[1])
      <3>1. 1 \in DOMAIN db.pf
        <4>1. db.pf \in Seq(Portfolio)
          BY DEF IInv, TypeOK, Database
        <4> QED
          BY <2>1, <4>1
      <3>2. t \in db.ordered
        BY <1>5, <2>1, <3>1 DEF IInv, Covered
      <3> QED
        BY <3>2 DEF Ordered
    <2>2. CASE up /\ Held(pf') \subseteq Held(pf)
      BY <1>5, <2>2 DEF IInv, Covered
    <2> QED
      BY <1>5, <2>1, <2>2 DEF LoadStep
  <1>6. Covered'
    BY <1>1, <1>5 DEF Covered, IInv
  <1> QED
    BY <1>2, <1>4, <1>6

(* A statement takes effect: nothing that was durable is lost but the old  *)
(* portfolio row and the pending signals.                                  *)
LEMMA Applied ==
    ASSUME NEW d \in Database, NEW st \in Statement
    PROVE  /\ Apply(d, st) \in Database
           /\ Apply(d, st).pf = IF st.op = "portfolio" THEN <<st.pf>> ELSE d.pf
           /\ d.ordered \subseteq Apply(d, st).ordered
           /\ \A t : st = OrderOf(t) => t \in Apply(d, st).ordered
  <1>1. CASE st \in [op : {"portfolio"}, pf : Portfolio]
    <2>1. Apply(d, st) = [d EXCEPT !.pf = <<st.pf>>]
      BY <1>1 DEF Apply
    <2>2. st.op = "portfolio" /\ <<st.pf>> \in Seq(Portfolio)
      BY <1>1
    <2>3. Apply(d, st) \in Database
      BY <2>1, <2>2 DEF Database
    <2> QED
      BY <2>1, <2>2, <2>3 DEF Database, OrderOf
  <1>2. CASE st \in [op : {"date"}, date : Day]
    <2>1. Apply(d, st) = [d EXCEPT !.date = st.date]
      BY <1>2 DEF Apply
    <2> QED
      BY <1>2, <2>1 DEF Database, OrderOf
  <1>3. CASE st \in [op : {"signal"}, signal : Signal]
    <2>1. Apply(d, st) = [d EXCEPT !.pending = @ \cup {st.signal}]
      BY <1>3 DEF Apply
    <2> QED
      BY <1>3, <2>1 DEF Database, OrderOf
  <1>4. CASE st \in [op : {"order"}, ticker : Ticker]
    <2>1. Apply(d, st) = [d EXCEPT !.ordered = @ \cup {st.ticker}]
      BY <1>4 DEF Apply
    <2> QED
      BY <1>4, <2>1 DEF Database, OrderOf
  <1>5. CASE st \in [op : {"clear"}]
    <2>1. Apply(d, st) = [d EXCEPT !.pending = {}]
      BY <1>5 DEF Apply
    <2> QED
      BY <1>5, <2>1 DEF Database, OrderOf
  <1> QED
    BY <1>1, <1>2, <1>3, <1>4, <1>5 DEF Statement

LEMMA FlushKeeps ==
    ASSUME IInv, Flush
    PROVE  Data' /\ AllSound' /\ Covered'
  <1> DEFINE st == buffer[1]
             n == Len(buffer)
             z == buffer'
  <1>1. /\ buffer \in Seq(Statement) /\ db \in Database
        /\ UNCHANGED <<up, pf, deposited>>
    BY DEF Flush, IInv, TypeOK, history
  <1>2. /\ db' = Apply(db, st) /\ st \in Statement
        /\ z \in Seq(Statement) /\ n \in Nat \ {0} /\ Len(z) = n - 1
        /\ DOMAIN buffer = 1 .. n /\ DOMAIN z = 1 .. n - 1
        /\ \A i \in 1 .. n - 1 : z[i] = buffer[i + 1]
    BY <1>1 DEF Flush
  <1> HIDE DEF st, z, n
  <1>3. /\ db' \in Database
        /\ db'.pf = IF st.op = "portfolio" THEN <<st.pf>> ELSE db.pf
        /\ db.ordered \subseteq db'.ordered
        /\ \A t : st = OrderOf(t) => t \in db'.ordered
    BY <1>1, <1>2, Applied
  <1>4. Data'
    BY <1>1, <1>2, <1>3 DEF Data, IInv, TypeOK, z
  <1>5. AllSound'
    <2>1. \A i \in DOMAIN z : z[i].op = "portfolio" => Sound(z[i].pf, deposited)
      <3>1. ASSUME NEW i \in DOMAIN z PROVE i + 1 \in DOMAIN buffer /\ z[i] = buffer[i + 1]
        BY <1>2
      <3> QED
        BY <3>1 DEF IInv, AllSound
    <2>2. \A i \in DOMAIN db'.pf : Sound(db'.pf[i], deposited)
      <3>1. CASE st.op = "portfolio"
        <4>1. Sound(st.pf, deposited)
          BY <1>2, <3>1 DEF IInv, AllSound, st
        <4> QED
          BY <1>3, <3>1, <4>1
      <3>2. CASE st.op # "portfolio"
        BY <1>3, <3>2 DEF IInv, AllSound
      <3> QED
        BY <3>1, <3>2
    <2> QED
      BY <1>1, <2>1, <2>2 DEF IInv, AllSound, z
  <1>6. ASSUME NEW t, NEW i \in 1 .. n, Ordered(t, db, buffer, i)
        PROVE  Ordered(t, db', z, i - 1)
    <2>1. CASE t \in db.ordered
      BY <1>3, <2>1 DEF Ordered
    <2>2. ASSUME NEW j \in 1 .. i, buffer[j] = OrderOf(t) PROVE Ordered(t, db', z, i - 1)
      <3>1. CASE j = 1
        BY <1>3, <2>2, <3>1 DEF Ordered, st
      <3>2. CASE j # 1
        <4>1. j - 1 \in 1 .. i - 1 /\ z[j - 1] = buffer[j]
          BY <1>2, <3>2
        <4> QED
          BY <2>2, <4>1 DEF Ordered
      <3> QED
        BY <3>1, <3>2
    <2> QED
      BY <1>6, <2>1, <2>2 DEF Ordered
  <1>7. Covered'
    <2>1. \A i \in DOMAIN db'.pf : Held(db'.pf[i]) \subseteq db'.ordered
      <3>1. CASE st.op = "portfolio"
        <4>1. ASSUME NEW t \in Held(st.pf) PROVE t \in db.ordered
          <5>1. Ordered(t, db, buffer, 1)
            BY <1>2, <3>1 DEF IInv, Covered, st
          <5>2. \A j \in 1 .. 1 : buffer[j] # OrderOf(t)
            BY <3>1 DEF OrderOf, st
          <5> QED
            BY <5>1, <5>2 DEF Ordered
        <4> QED
          BY <1>3, <3>1, <4>1
      <3>2. CASE st.op # "portfolio"
        BY <1>3, <3>2 DEF IInv, Covered
      <3> QED
        BY <3>1, <3>2
    <2>2. ASSUME NEW i \in DOMAIN z, z[i].op = "portfolio", NEW t \in Held(z[i].pf)
          PROVE  Ordered(t, db', z, i)
      <3>1. i + 1 \in 1 .. n /\ z[i] = buffer[i + 1] /\ (i + 1) - 1 = i
        BY <1>2
      <3>2. Ordered(t, db, buffer, i + 1)
        BY <1>2, <2>2, <3>1 DEF IInv, Covered
      <3> QED
        BY <1>6, <3>1, <3>2
    <2>3. ASSUME up, NEW t \in Held(pf) PROVE Ordered(t, db', z, Len(z))
      <3>1. Ordered(t, db, buffer, n)
        BY <2>3 DEF IInv, Covered, n
      <3> QED
        BY <1>2, <1>6, <3>1
    <2> QED
      BY <1>1, <2>1, <2>2, <2>3 DEF Covered, z
  <1> QED
    BY <1>4, <1>5, <1>7

LEMMA CrashKeeps ==
    ASSUME IInv, Crash
    PROVE  Data' /\ AllSound' /\ Covered'
  <1>1. /\ UNCHANGED <<pf, db, deposited>> /\ buffer' = <<>> /\ up' = FALSE
    BY DEF Crash, history
  <1>2. Data'
    BY <1>1 DEF Data, IInv, TypeOK
  <1> QED
    BY <1>1, <1>2 DEF AllSound, Covered, IInv

LEMMA InitKeeps == Init => IInv
  <1> SUFFICES ASSUME Init PROVE IInv
    OBVIOUS
  <1>1. /\ pf = NewPortfolio(Capital) /\ deposited = 0 /\ buffer = <<>> /\ up = FALSE
        /\ db = [pf |-> <<>>, date |-> None, pending |-> {}, ordered |-> {}]
    BY DEF Init
  <1>2. Sound(pf, deposited)
    BY <1>1, NewIsSound
  <1>3. TypeOK
    <2>1. db \in Database
      BY <1>1 DEF Database
    <2>2. job \in [Task -> Job]
      BY JobsTyped DEF Init
    <2>3. now \in Time
      BY TradingAssumption DEF Init, Time
    <2>4. pf \in Portfolio /\ buffer \in Seq(Statement)
      BY <1>1, <1>2 DEF Sound
    <2>5. /\ crashes \in 0 .. MaxCrashes /\ requests \in 0 .. MaxRequests
          /\ deposited \in 0 .. MaxDeposited
      BY TradingAssumption DEF Init
    <2> QED
      BY <2>1, <2>2, <2>3, <2>4, <2>5 DEF Init, TypeOK
  <1> QED
    BY <1>1, <1>2, <1>3 DEF IInv, AllSound, Covered

(* Every step keeps the invariant.                                         *)
LEMMA NextKeeps ==
    ASSUME IInv, [Next]_vars
    PROVE  IInv'
  <1>1. Control'
    BY NextControl DEF IInv
  <1>2. Data' /\ AllSound' /\ Covered'
    <2>1. CASE UNCHANGED <<up, pf, db, buffer, deposited>>
      BY <2>1 DEF Data, AllSound, Covered, Ordered, IInv, TypeOK
    <2>2. ASSUME NEW t \in Task, Step(t) PROVE Data' /\ AllSound' /\ Covered'
      BY <2>1, <2>2, StepKinds, CycleKeeps
    <2>3. CASE BeginCatchUp \/ ReplayNext \/ RunScheduled \/ Tick \/ Trigger \/ DebounceOver
      BY <2>1, <2>3
         DEF BeginCatchUp, ReplayNext, RunScheduled, Tick, Trigger, DebounceOver, history
    <2>4. CASE Read \/ Deposit \/ Start
      BY <2>4, LoadKinds, LoadKeeps
    <2>5. CASE Flush
      BY <2>5, FlushKeeps
    <2>6. CASE Crash
      BY <2>6, CrashKeeps
    <2>7. CASE UNCHANGED vars
      BY <2>1, <2>7 DEF vars
    <2> QED
      BY <2>2, <2>3, <2>4, <2>5, <2>6, <2>7 DEF Next
  <1>3. TypeOK'
    BY <1>1, <1>2 DEF TypeOK, Control, Data
  <1> QED
    BY <1>2, <1>3 DEF IInv

LEMMA Invariant == Spec => []IInv
  BY InitKeeps, NextKeeps, PTL DEF Spec

-----------------------------------------------------------------------------
(* Whatever fails, is read back or run again, the service stays in its      *)
(* types: no holding and no sold share count below zero, no statement that  *)
(* the database could not take.                                             *)
THEOREM TradingTypes == Spec => []TypeOK
  <1>1. IInv => TypeOK
    BY DEF IInv
  <1> QED
    BY <1>1, Invariant, PTL

(* No share is bought twice, however often the pending signals are executed *)
(* again after a failed cycle, a restart or a second trigger.               *)
THEOREM SafePurchases == Spec => []NoDoublePurchase
  <1>1. IInv => NoDoublePurchase
    BY DEF IInv, AllSound, Sound, NoDoublePurchase
  <1> QED
    BY <1>1, Invariant, PTL

(* In memory and in the database, cash and lots add up to the capital and   *)
(* at most the acknowledged deposits.                                       *)
THEOREM SafeMoney == Spec => []MoneyConserved
  <1>1. ASSUME IInv PROVE MoneyConserved
    <2>1. ASSUME db.pf # <<>> PROVE 1 \in DOMAIN db.pf
      BY <1>1, <2>1 DEF IInv, TypeOK, Database
    <2> QED
      BY <1>1, <2>1 DEF IInv, AllSound, Sound, MoneyConserved, Accounted
  <1> QED
    BY <1>1, Invariant, PTL

(* A share the durable portfolio holds has a durable order, wherever the    *)
(* process stopped.                                                         *)
THEOREM SafeHoldings == Spec => []HoldingsOrdered
  <1>1. ASSUME IInv PROVE HoldingsOrdered
    <2>1. ASSUME db.pf # <<>> PROVE 1 \in DOMAIN db.pf
      BY <1>1, <2>1 DEF IInv, TypeOK, Database
    <2> QED
      BY <1>1, <2>1 DEF IInv, Covered, HoldingsOrdered
  <1> QED
    BY <1>1, Invariant, PTL

-----------------------------------------------------------------------------
(* The cycles left are finitely many.                                      *)
LEMMA CyclesFinite ==
    ASSUME NEW cycles \in SUBSET Cycle
    PROVE  IsFiniteSet(cycles) /\ Cardinality(cycles) \in Nat
  <1> DEFINE Kind == {"morning", "eod"}
             f == [x \in Day \X Kind |-> [day |-> x[1], kind |-> x[2]]]
  <1>1. IsFiniteSet(Day \X Kind)
    <2>1. IsFiniteSet(Day)
      <3>1. DayOf(LastTime) \in Int
        BY TradingAssumption DEF DayOf
      <3> QED
        BY <3>1, FS_Interval DEF Day
    <2>2. IsFiniteSet(Kind)
      <3>1. IsFiniteSet({"morning"}) /\ IsFiniteSet({"eod"}) /\ Kind = {"morning"} \cup {"eod"}
        BY FS_Singleton
      <3> QED
        BY <3>1, FS_Union
    <2> QED
      BY <2>1, <2>2, FS_Product
  <1>2. f \in Surjection(Day \X Kind, Cycle)
    <2>1. f \in [Day \X Kind -> Cycle]
      BY DEF Cycle
    <2>2. ASSUME NEW m \in Cycle PROVE \E x \in Day \X Kind : f[x] = m
      <3>1. m.day \in Day /\ m.kind \in Kind /\ m = [day |-> m.day, kind |-> m.kind]
        BY DEF Cycle
      <3>2. <<m.day, m.kind>> \in Day \X Kind /\ f[<<m.day, m.kind>>] = m
        BY <3>1
      <3> QED
        BY <3>2
    <2> QED
      BY <2>1, <2>2 DEF Surjection
  <1>3. IsFiniteSet(Cycle)
    BY <1>1, <1>2, FS_Surjection
  <1> QED
    BY <1>3, FS_Subset, FS_CardinalityType

(* Of the cycles left, the morning of the first day, or else its evening,  *)
(* comes next.                                                             *)
LEMMA OneIsNext ==
    ASSUME TypeOK, missed # {}
    PROVE  \E m \in missed : NextMissed(m)
  <1> DEFINE days == {m.day : m \in missed}
  <1>1. \A m \in missed : /\ m.day \in Nat /\ m.kind \in {"morning", "eod"}
                          /\ m = [day |-> m.day, kind |-> m.kind]
    <2>1. \A m \in Cycle : /\ m.day \in Day /\ m.kind \in {"morning", "eod"}
                           /\ m = [day |-> m.day, kind |-> m.kind]
      BY DEF Cycle
    <2>2. Day \subseteq Nat /\ missed \subseteq Cycle
      BY DayOfTime DEF TypeOK
    <2> QED
      BY <2>1, <2>2
  <1>2. PICK d \in days : \A e \in days : d <= e
    <2>1. days \in SUBSET Nat /\ days # {}
      BY <1>1
    <2> QED
      BY <2>1, LeastNumber
  <1>3. PICK first \in missed : first.day = d
    BY <1>2
  <1>4. \A n \in missed : n.day = d \/ d < n.day
    BY <1>1, <1>2, <1>3
  <1>5. CASE [day |-> d, kind |-> "morning"] \in missed
    BY <1>4, <1>5 DEF NextMissed
  <1>6. CASE [day |-> d, kind |-> "morning"] \notin missed
    <2>1. \A n \in missed : n.day = d => n = first
      BY <1>1, <1>3, <1>6
    <2> QED
      BY <1>3, <1>4, <2>1 DEF NextMissed
  <1> QED
    BY <1>5, <1>6

(* Nothing is left to replay, and the scheduler in no cycle, before it has *)
(* read the date of the last one.                                          *)
Booted == booting \/ ~up => missed = {} /\ job["scheduler"].pc = "idle"

(* What a step of the scheduler's own cycle does to what is left.          *)
LEMMA OwnStep ==
    ASSUME TypeOK, Step("scheduler")
    PROVE  /\ missed' \subseteq missed /\ UNCHANGED <<up, booting>>
           /\ StepsLeft[job'["scheduler"].pc] < StepsLeft[job["scheduler"].pc]
           /\ job'["scheduler"].pc \in {"idle", "eod", "value", "logged", "execute"}
           /\ up
  <1> DEFINE s == "scheduler"
  <1>1. s \in Task /\ job[s] \in Job
    BY DEF Task, TypeOK
  <1>2. \A pc \in {"idle", "eod", "value", "logged", "execute"} :
           job' = [job EXCEPT ![s].pc = pc] => job'[s].pc = pc
    BY <1>1 DEF TypeOK, Job
  <1>3. Finish(s) => job'[s].pc = "idle"
    BY <1>1 DEF Finish, Idle, TypeOK
  <1>4. Abandon(s) => missed' \subseteq missed
    BY DEF Abandon
  <1>5. CASE Morning(s)
    <2>1. job[s].pc = "morning" /\ UNCHANGED <<missed, up, booting>> /\ up
      BY <1>5 DEF Morning, LoopFree
    <2>2. job'[s].pc \in {"eod", "execute"}
      BY <1>1, <1>5 DEF Morning, Continue, TypeOK, Job
    <2> QED
      BY <2>1, <2>2 DEF StepsLeft
  <1>6. CASE EodStart(s)
    <2>1. job[s].pc = "eod" /\ UNCHANGED <<missed, up, booting>> /\ up
      BY <1>6 DEF EodStart, LoopFree
    <2>2. job'[s].pc = "value"
      BY <1>1, <1>6 DEF EodStart, TypeOK, Job
    <2> QED
      BY <2>1, <2>2 DEF StepsLeft
  <1>7. CASE EodValue(s)
    <2>1. job[s].pc = "value" /\ UNCHANGED <<missed, up, booting>> /\ up
      BY <1>7 DEF EodValue, MarkToMarket, LoopFree
    <2>2. job'[s].pc \in {"idle", "logged"}
      BY <1>2, <1>3, <1>7 DEF EodValue, Continue
    <2> QED
      BY <2>1, <2>2 DEF StepsLeft
  <1>8. CASE EodRaise(s)
    <2>1. job[s].pc = "value" /\ UNCHANGED <<up, booting>> /\ up /\ missed' \subseteq missed
      BY <1>4, <1>8 DEF EodRaise, MarkToMarket, LoopFree
    <2>2. job'[s].pc = "idle"
      BY <1>3, <1>8 DEF EodRaise, Abandon
    <2> QED
      BY <2>1, <2>2 DEF StepsLeft
  <1>9. CASE Resume(s)
    <2>1. job[s].pc = "logged" /\ UNCHANGED <<missed, up, booting>> /\ up
      BY <1>9 DEF Resume, LoopFree
    <2>2. job'[s].pc = "execute"
      BY <1>2, <1>9 DEF Resume, Continue
    <2> QED
      BY <2>1, <2>2 DEF StepsLeft
  <1>10. CASE Raise(s)
    <2>1. /\ job[s].pc \in {"morning", "eod", "value", "logged", "execute"}
          /\ UNCHANGED <<up, booting>> /\ up /\ missed' \subseteq missed
      BY <1>1, <1>4, <1>10 DEF Raise, Job
    <2>2. job'[s].pc = "idle"
      BY <1>3, <1>10 DEF Raise, Abandon
    <2> QED
      BY <2>1, <2>2 DEF StepsLeft
  <1>11. CASE ExecutePending(s) \/ ExecuteNothing(s)
    <2>1. job[s].pc = "execute" /\ UNCHANGED <<missed, up, booting>> /\ up
      BY <1>11 DEF ExecutePending, ExecuteNothing
    <2>2. job'[s].pc = "idle"
      BY <1>3, <1>11 DEF ExecutePending, ExecuteNothing
    <2> QED
      BY <2>1, <2>2 DEF StepsLeft
  <1>12. CASE ExecuteRaises(s)
    <2>1. job[s].pc = "execute" /\ UNCHANGED <<up, booting>> /\ up /\ missed' \subseteq missed
      BY <1>4, <1>12 DEF ExecuteRaises
    <2>2. job'[s].pc = "idle"
      BY <1>3, <1>12 DEF ExecuteRaises, Abandon
    <2> QED
      BY <2>1, <2>2 DEF StepsLeft
  <1> QED
    BY <1>5, <1>6, <1>7, <1>8, <1>9, <1>10, <1>11, <1>12 DEF Step

(* A step of a cycle started through the API leaves the scheduler alone.   *)
LEMMA OtherStep ==
    ASSUME TypeOK, Step("api")
    PROVE  /\ missed' = missed /\ UNCHANGED <<up, booting>>
           /\ job'["scheduler"] = job["scheduler"] /\ up
  <1>1. \A pc : job' = [job EXCEPT !["api"] = pc] => job'["scheduler"] = job["scheduler"]
    BY DEF TypeOK, Task
  <1>2. Abandon("api") => missed' = missed /\ job'["scheduler"] = job["scheduler"]
    BY <1>1 DEF Abandon, Finish
  <1>3. CASE Morning("api") \/ EodStart("api") \/ Resume("api")
    BY <1>3 DEF Morning, EodStart, Resume, Continue, LoopFree, TypeOK, Task
  <1>4. CASE EodValue("api")
    BY <1>4 DEF EodValue, MarkToMarket, Continue, Finish, LoopFree, TypeOK, Task
  <1>5. CASE EodRaise("api")
    BY <1>2, <1>5 DEF EodRaise, MarkToMarket, LoopFree
  <1>6. CASE Raise("api")
    BY <1>2, <1>6 DEF Raise
  <1>7. CASE ExecutePending("api") \/ ExecuteNothing("api")
    BY <1>7 DEF ExecutePending, ExecuteNothing, Finish, TypeOK, Task
  <1>8. CASE ExecuteRaises("api")
    BY <1>2, <1>8 DEF ExecuteRaises
  <1> QED
    BY <1>3, <1>4, <1>5, <1>6, <1>7, <1>8 DEF Step

LEMMA BootedStep ==
    ASSUME TypeOK, Booted, [Next]_vars
    PROVE  Booted'
  <1>1. CASE Step("scheduler")
    BY <1>1, OwnStep DEF Booted, StepsLeft
  <1>2. CASE Step("api")
    BY <1>2, OtherStep DEF Booted
  <1>3. CASE BeginCatchUp \/ ReplayNext \/ RunScheduled
    BY <1>3 DEF BeginCatchUp, ReplayNext, RunScheduled, Sleeping, LoopFree, Booted
  <1>4. CASE Trigger
    BY <1>4 DEF Trigger, Booted, TypeOK, Task
  <1>5. CASE Tick \/ Read \/ Deposit \/ Flush \/ DebounceOver
    BY <1>5 DEF Tick, Read, Deposit, Flush, DebounceOver, Booted
  <1>6. CASE Crash
    BY <1>6 DEF Crash, Booted, Task, Idle
  <1>7. CASE Start
    BY <1>7 DEF Start, Booted
  <1>8. CASE UNCHANGED vars
    BY <1>8 DEF vars, Booted
  <1> QED
    BY <1>1, <1>2, <1>3, <1>4, <1>5, <1>6, <1>7, <1>8 DEF Next, Task

(* Every step of the scheduler shortens what it has before it, and no step *)
(* of anyone else makes it longer.                                         *)
LEMMA LeftStep ==
    ASSUME TypeOK, TypeOK', Booted, Next, up', missed # {} \/ job["scheduler"].pc # "idle"
    PROVE  /\ CatchUpLeft' <= CatchUpLeft
           /\ Step("scheduler") \/ ReplayNext => CatchUpLeft' < CatchUpLeft
  <1>1. up /\ ~booting
    BY DEF Booted, TypeOK
  <1>0. missed \in SUBSET Cycle /\ missed' \in SUBSET Cycle
    BY DEF TypeOK
  <1>2. PICK n \in Nat : n = Cardinality(missed)
    BY <1>0, CyclesFinite
  <1>3. PICK k \in Nat : k = Cardinality(missed)'
    BY <1>0, CyclesFinite
  <1>4. job["scheduler"] \in Job /\ job'["scheduler"] \in Job
    BY DEF TypeOK, Task
  <1>5. PICK a \in 0 .. 5 : a = StepsLeft[job["scheduler"].pc]
    BY <1>4 DEF Job, StepsLeft
  <1>6. PICK b \in 0 .. 5 : b = StepsLeft[job'["scheduler"].pc]
    BY <1>4 DEF Job, StepsLeft
  <1>7. CatchUpLeft = 6 * n + a /\ CatchUpLeft' = 6 * k + b
    BY <1>2, <1>3, <1>5, <1>6 DEF CatchUpLeft, StepsLeft
  <1>8. missed' \subseteq missed => k <= n
    BY <1>2, <1>3, <1>0, CyclesFinite, FS_Subset
  <1>9. ASSUME Step("scheduler") PROVE CatchUpLeft' < CatchUpLeft
    <2>1. missed' \subseteq missed /\ b < a
      BY <1>5, <1>6, <1>9, OwnStep
    <2> QED
      BY <1>7, <1>8, <2>1
  <1>10. ASSUME ReplayNext PROVE CatchUpLeft' < CatchUpLeft
    <2>1. PICK m \in missed : missed' = missed \ {m}
      BY <1>10 DEF ReplayNext, NextMissed
    <2>2. k = n - 1
      BY <1>2, <1>3, <1>0, <2>1, CyclesFinite, FS_RemoveElement
    <2>3. a = 0
      BY <1>5, <1>10 DEF ReplayNext, StepsLeft
    <2> QED
      BY <1>7, <2>2, <2>3
  <1>11. ASSUME missed' = missed, job'["scheduler"] = job["scheduler"]
         PROVE  CatchUpLeft' <= CatchUpLeft
    <2>1. n = k /\ a = b
      BY <1>2, <1>3, <1>5, <1>6, <1>11
    <2> QED
      BY <1>7, <2>1
  <1>12. CASE Step("scheduler") \/ ReplayNext
    <2>1. CatchUpLeft' < CatchUpLeft
      BY <1>9, <1>10, <1>12
    <2> QED
      BY <1>7, <2>1
  <1>13. CASE ~ (Step("scheduler") \/ ReplayNext)
    <2>1. missed' = missed /\ job'["scheduler"] = job["scheduler"]
      <3>1. CASE Step("api")
        BY <3>1, OtherStep
      <3>2. CASE BeginCatchUp \/ RunScheduled
        BY <1>1, <3>2 DEF BeginCatchUp, RunScheduled, Sleeping
      <3>3. CASE Trigger
        BY <3>3 DEF Trigger, TypeOK, Task
      <3>4. CASE Tick \/ Read \/ Deposit \/ Flush \/ DebounceOver
        BY <3>4 DEF Tick, Read, Deposit, Flush, DebounceOver
      <3>5. CASE Crash \/ Start
        BY <1>1, <3>5 DEF Crash, Start
      <3> QED
        BY <1>13, <3>1, <3>2, <3>3, <3>4, <3>5 DEF Next, Task
    <2> QED
      BY <1>11, <1>13, <2>1
  <1> QED
    BY <1>12, <1>13

(* The catch-up always has a next cycle, and nothing but the end of the     *)
(* process keeps it from getting through them.                              *)
THEOREM CatchUpProgress == Spec => CatchUpShrinks
  <1>1. Init => Booted
    BY DEF Init, Booted, Task, Idle
  <1>2. Spec => [](IInv /\ Booted)
    <2>1. IInv => TypeOK
      BY DEF IInv
    <2>2. IInv /\ Booted /\ [Next]_vars => Booted'
      BY <2>1, BootedStep
    <2> QED
      BY <1>1, <2>2, Invariant, PTL DEF Spec
  <1>3. IInv => (missed # {} => \E m \in missed : NextMissed(m))
    BY OneIsNext DEF IInv
  <1>4. /\ IInv /\ Booted
        /\ IInv' /\ Booted'
        /\ [Next]_vars
        => [up' /\ (missed # {} \/ job["scheduler"].pc # "idle") =>
              /\ CatchUpLeft' <= CatchUpLeft
              /\ Step("scheduler") \/ ReplayNext => CatchUpLeft' < CatchUpLeft]_vars
    BY LeftStep DEF IInv
  <1> QED
    BY <1>2, <1>3, <1>4, PTL DEF Spec, CatchUpShrinks

-----------------------------------------------------------------------------
(* The history of the phases.                                              *)

(* Every date in the sequence x of statements is one of D.                 *)
DatesIn(x, D) ==
    /\ x \in Seq(Statement)
    /\ \A i \in DOMAIN x : x[i].op = "date" => x[i].date \in D

LEMMA DatesJoined ==
    ASSUME NEW D, NEW x, NEW y, DatesIn(x, D), DatesIn(y, D)
    PROVE  DatesIn(x \o y, D)
  <1> DEFINE z == x \o y
  <1>1. x \in Seq(Statement) /\ y \in Seq(Statement)
    BY DEF DatesIn
  <1>2. /\ z \in Seq(Statement) /\ DOMAIN z = 1 .. Len(x) + Len(y)
        /\ DOMAIN x = 1 .. Len(x) /\ DOMAIN y = 1 .. Len(y)
        /\ \A i \in 1 .. Len(x) : z[i] = x[i]
        /\ \A i \in 1 .. Len(y) : z[Len(x) + i] = y[i]
        /\ \A i \in 1 .. Len(x) + Len(y) :
              i \in 1 .. Len(x) \/ \E k \in 1 .. Len(y) : i = Len(x) + k
    BY <1>1, Joined
  <1> HIDE DEF z
  <1>3. ASSUME NEW i \in DOMAIN z, z[i].op = "date" PROVE z[i].date \in D
    <2>1. CASE i \in 1 .. Len(x)
      BY <1>2, <1>3, <2>1 DEF DatesIn
    <2>2. ASSUME NEW k \in 1 .. Len(y), i = Len(x) + k PROVE z[i].date \in D
      BY <1>2, <1>3, <2>2 DEF DatesIn
    <2> QED
      BY <1>2, <2>1, <2>2
  <1>4. DatesIn(z, D)
    BY <1>2, <1>3 DEF DatesIn
  <1> QED
    BY <1>4 DEF z

(* Portfolios, orders and signals are no dates.                            *)
LEMMA UndatedWrites ==
    ASSUME TypeOK, NEW D
    PROVE  /\ \A p \in Portfolio : DatesIn(Saving(p), D)
           /\ \A took \in [Ticker -> Nat] : DatesIn(Orders(took), D)
           /\ \A t \in Task : \A queued \in QueuedSignals(t) : DatesIn(queued, D)
  <1>1. ASSUME NEW p \in Portfolio PROVE DatesIn(Saving(p), D)
    <2>1. Saving(p) \in Seq(Statement)
      BY SavingWrites DEF Writes
    <2>2. \A i \in DOMAIN Saving(p) : Saving(p)[i].op # "date"
      BY DEF Saving
    <2> QED
      BY <2>1, <2>2 DEF DatesIn
  <1>2. ASSUME NEW took \in [Ticker -> Nat] PROVE DatesIn(Orders(took), D)
    <2>1. Orders(took) \in Seq(Statement)
      BY OrdersWrite DEF Writes
    <2>2. \A i \in DOMAIN Orders(took) : Orders(took)[i].op # "date"
      BY DEF Orders
    <2> QED
      BY <2>1, <2>2 DEF DatesIn
  <1>3. ASSUME NEW side \in {"BUY", "SELL"}, NEW T \in SUBSET Ticker
        PROVE  DatesIn(Statements(side, T), D)
    <2>1. Statements(side, T) \in Seq(Statement)
      BY SignalsWrite DEF Writes, TypeOK
    <2>2. \A i \in DOMAIN Statements(side, T) : Statements(side, T)[i].op # "date"
      BY DEF Statements
    <2> QED
      BY <2>1, <2>2 DEF DatesIn
  <1>4. DatesIn(<< [op |-> "clear"] >>, D) /\ DatesIn(<<>>, D)
    BY StatementKinds DEF DatesIn
  <1>5. ASSUME NEW t \in Task, NEW queued \in QueuedSignals(t) PROVE DatesIn(queued, D)
    <2>1. CASE queued = <<>>
      BY <1>4, <2>1
    <2>2. ASSUME NEW entries \in SUBSET (Ticker \ job[t].held),
                 queued = << [op |-> "clear"] >> \o Statements("SELL", job[t].held)
                              \o Statements("BUY", entries)
          PROVE  DatesIn(queued, D)
      <3>1. job[t].held \in SUBSET Ticker /\ entries \in SUBSET Ticker
        BY DEF TypeOK, Job
      <3>2. DatesIn(Statements("SELL", job[t].held), D) /\ DatesIn(Statements("BUY", entries), D)
        BY <1>3, <3>1
      <3> QED
        BY <1>4, <2>2, <3>2, DatesJoined
    <2> QED
      BY <2>1, <2>2 DEF QueuedSignals
  <1> QED
    BY <1>1, <1>2, <1>5

(* A cycle dates nothing but its completion, by its own day.               *)
LEMMA StepDates ==
    ASSUME IInv, TypeOK', NEW t \in Task, Step(t), NEW D, DatesIn(buffer, D), job[t].day \in D
    PROVE  DatesIn(buffer', D)
  <1>1. TypeOK /\ pf' \in Portfolio
    BY DEF IInv, TypeOK
  <1>2. CASE UNCHANGED buffer
    BY <1>2
  <1>3. CASE EodValue(t)
    <2>1. PICK queued \in QueuedSignals(t) : buffer' = buffer \o Saving(pf') \o queued
      BY <1>3 DEF EodValue
    <2> QED
      BY <1>1, <2>1, UndatedWrites, DatesJoined
  <1>4. CASE EodRaise(t)
    <2>1. buffer' = buffer \o Saving(pf')
      BY <1>4 DEF EodRaise
    <2> QED
      BY <1>1, <2>1, UndatedWrites, DatesJoined
  <1>5. ASSUME NEW pending, NEW p, NEW took \in Buys(pending, p) PROVE DatesIn(Orders(took), D)
    <2>1. took \in [Ticker -> Nat]
      BY TradingAssumption DEF Buys
    <2> QED
      BY <1>1, <2>1, UndatedWrites
  <1>6. CASE ExecutePending(t)
    <2>1. PICK pending, p : \E took \in Buys(pending, p) :
                buffer' = buffer \o CycleStatements(t, took, pf')
      BY <1>6 DEF ExecutePending
    <2>2. PICK took \in Buys(pending, p) : buffer' = buffer \o CycleStatements(t, took, pf')
      BY <2>1
    <2> DEFINE last == << [op |-> "date", date |-> job[t].day], [op |-> "clear"] >>
    <2>3. DatesIn(last, D)
      <3>1. job[t].day \in Day
        BY <1>1 DEF TypeOK, Job
      <3>2. last \in Seq(Statement)
        BY <3>1, StatementKinds
      <3> QED
        BY <3>2 DEF DatesIn
    <2>4. CycleStatements(t, took, pf') = Orders(took) \o Saving(pf') \o last
      BY DEF CycleStatements
    <2> HIDE DEF last
    <2>5. DatesIn(Orders(took) \o Saving(pf') \o last, D)
      BY <1>1, <1>5, <2>3, UndatedWrites, DatesJoined
    <2> QED
      BY <2>2, <2>4, <2>5, DatesJoined
  <1>7. CASE ExecuteRaises(t)
    <2>1. PICK pending, p : \E took \in Buys(pending, p) : buffer' = buffer \o Orders(took)
      BY <1>7 DEF ExecuteRaises
    <2> QED
      BY <1>5, <2>1, DatesJoined
  <1>8. CASE Morning(t) \/ EodStart(t) \/ Resume(t) \/ Raise(t) \/ ExecuteNothing(t)
    BY <1>2, <1>8 DEF Morning, EodStart, Resume, Raise, ExecuteNothing
  <1> QED
    BY <1>3, <1>4, <1>6, <1>7, <1>8 DEF Step

(* A step of a cycle keeps its day until it ends, and changes nothing that *)
(* the other cycle or the clock stands at.                                 *)
LEMMA StepFrame ==
    ASSUME TypeOK, NEW t \in Task, Step(t)
    PROVE  /\ job[t].pc # "idle" /\ up
           /\ UNCHANGED <<now, up, db, booting, due>> /\ missed' \subseteq missed
           /\ \A o \in Task \ {t} : job'[o] = job[o]
           /\ job'[t].pc # "idle" => job'[t].day = job[t].day
  <1> DEFINE Moves == /\ \A o \in Task \ {t} : job'[o] = job[o]
                      /\ job'[t].pc # "idle" => job'[t].day = job[t].day
  <1>1. \A pc : Continue(t, pc) => Moves
    BY DEF Continue, TypeOK, Job
  <1>2. Finish(t) => Moves
    BY DEF Finish, Idle, TypeOK
  <1>3. Abandon(t) => Moves /\ missed' \subseteq missed
    BY <1>2 DEF Abandon
  <1>4. CASE Morning(t)
    <2>1. Moves
      BY <1>1, <1>4 DEF Morning, TypeOK, Job
    <2> QED
      BY <1>4, <2>1 DEF Morning, LoopFree
  <1>5. CASE EodStart(t)
    <2>1. Moves
      BY <1>5 DEF EodStart, TypeOK, Job
    <2> QED
      BY <1>5, <2>1 DEF EodStart, LoopFree
  <1>6. CASE EodValue(t)
    <2>1. Moves
      BY <1>1, <1>2, <1>6 DEF EodValue
    <2> QED
      BY <1>6, <2>1 DEF EodValue, MarkToMarket, LoopFree
  <1>7. CASE EodRaise(t)
    BY <1>3, <1>7 DEF EodRaise, MarkToMarket, LoopFree
  <1>8. CASE Resume(t)
    BY <1>1, <1>8 DEF Resume, LoopFree
  <1>9. CASE Raise(t)
    BY <1>3, <1>9 DEF Raise
  <1>10. CASE ExecutePending(t) \/ ExecuteNothing(t)
    BY <1>2, <1>10 DEF ExecutePending, ExecuteNothing
  <1>11. CASE ExecuteRaises(t)
    BY <1>3, <1>11 DEF ExecuteRaises
  <1> QED
    BY <1>4, <1>5, <1>6, <1>7, <1>8, <1>9, <1>10, <1>11 DEF Step

(* The days that may still be dated: none to come, and, until the date is  *)
(* read that the catch-up goes by, none before the one it was then.        *)
Allowed == {d \in Day : d <= DayOf(now) /\ (booting => begun <= 2 * d)}

AllDates ==
    /\ db.date # None => db.date \in Allowed
    /\ DatesIn(buffer, Allowed)
    /\ \A t \in Task : job[t].pc # "idle" => job[t].day \in Allowed

(* What has begun is past or present, and what is to begin comes after it. *)
Ahead ==
    /\ begun \in Int /\ begun <= now
    /\ due => begun < now
    /\ booting => begun <= 2 * DayOf(now)
    /\ \A m \in missed :
          m.day < DayOf(now) /\ begun < 2 * m.day + (IF m.kind = "morning" THEN 0 ELSE 1)

Stopped == ~up => ~booting /\ ~due /\ buffer = <<>> /\ job["api"].pc = "idle"

PhaseInv == Booted /\ AllDates /\ Ahead /\ Stopped

LEMMA HalfDays ==
    ASSUME NEW n \in Nat
    PROVE  /\ DayOf(n) \in Nat
           /\ n = 2 * DayOf(n) + (IF IsMorning(n) THEN 0 ELSE 1)
           /\ DayOf(n) <= DayOf(n + 1)
  BY DEF DayOf, IsMorning

LEMMA NowHalved ==
    ASSUME TypeOK
    PROVE  /\ now \in Nat /\ DayOf(now) \in Nat /\ DayOf(now) \in Day
           /\ now = 2 * DayOf(now) + (IF IsMorning(now) THEN 0 ELSE 1)
           /\ 2 * DayOf(now) <= now
           /\ DayOf(now + 1) \in Nat /\ DayOf(now) <= DayOf(now + 1)
  <1>1. now \in Nat /\ now + 1 \in Nat /\ DayOf(now) \in Day
    BY TradingAssumption, DayOfTime DEF TypeOK, Time
  <1>2. /\ DayOf(now) \in Nat /\ DayOf(now) <= DayOf(now + 1)
        /\ now = 2 * DayOf(now) + (IF IsMorning(now) THEN 0 ELSE 1)
    BY <1>1, HalfDays
  <1>3. DayOf(now + 1) \in Nat
    BY <1>1, HalfDays
  <1>4. 2 * DayOf(now) <= now
    <2>1. CASE IsMorning(now)
      BY <1>1, <1>2, <2>1
    <2>2. CASE ~IsMorning(now)
      BY <1>1, <1>2, <2>2
    <2> QED
      BY <2>1, <2>2
  <1> QED
    BY <1>1, <1>2, <1>3, <1>4

LEMMA LargerDates ==
    ASSUME NEW x, NEW D, NEW E, D \subseteq E, DatesIn(x, D)
    PROVE  DatesIn(x, E)
  BY DEF DatesIn

(* The scheduler begins a cycle only with ReplayNext and RunScheduled.     *)
LEMMA ReplayAhead ==
    ASSUME TypeOK, PhaseInv, ReplayNext, Record
    PROVE  /\ Phase(job'["scheduler"]) > begun
           /\ AllDates' /\ Ahead' /\ Stopped'
  <1>1. PICK m \in missed : NextMissed(m) /\ Replay(m) /\ missed' = missed \ {m}
    BY DEF ReplayNext
  <1>2. /\ up /\ ~booting /\ Begins /\ UNCHANGED <<now, up, db, buffer, booting, due>>
        /\ job' = [job EXCEPT !["scheduler"] = NewJob(m.kind, m.day)]
    <2>1. /\ up /\ ~booting /\ UNCHANGED <<now, up, db, buffer, booting, due>>
          /\ job["scheduler"].pc = "idle"
      BY DEF ReplayNext, LoopFree
    <2>2. job' = [job EXCEPT !["scheduler"] = NewJob(m.kind, m.day)]
      BY <1>1 DEF Replay
    <2>3. m.kind \in {"morning", "eod"}
      BY DEF TypeOK, Cycle
    <2>4. job'["scheduler"].pc = m.kind
      BY <2>2 DEF NewJob, Idle, TypeOK, Task
    <2> QED
      BY <2>1, <2>2, <2>3, <2>4 DEF Begins
  <1>3. \A k \in missed : k.day \in Day /\ k.day \in Nat /\ k.kind \in {"morning", "eod"}
    BY DayOfTime DEF TypeOK, Cycle
  <1>4. /\ job'["scheduler"].pc = m.kind /\ job'["scheduler"].day = m.day
        /\ job'["api"] = job["api"]
    BY <1>2 DEF NewJob, Idle, TypeOK, Task
  <1>5. begun' = 2 * m.day + (IF m.kind = "morning" THEN 0 ELSE 1)
    BY <1>2, <1>4 DEF Record, Phase
  <1>6. Phase(job'["scheduler"]) = begun'
    BY <1>4, <1>5 DEF Phase
  <1>7. now \in Nat /\ DayOf(now) \in Nat /\ 2 * DayOf(now) <= now
    BY NowHalved
  <1>8. begun < begun' /\ m.day < DayOf(now)
    BY <1>5 DEF PhaseInv, Ahead
  <1>9. begun' \in Int /\ begun' < now
    BY <1>3, <1>5, <1>7, <1>8
  <1>10. ASSUME NEW k \in missed'
         PROVE  k.day < DayOf(now) /\ begun' < 2 * k.day + (IF k.kind = "morning" THEN 0 ELSE 1)
    <2>1. k \in missed /\ k # m
      BY <1>1
    <2>2. m.day < k.day \/ (m.day = k.day /\ m.kind = "morning")
      BY <1>1, <2>1 DEF NextMissed
    <2>3. m.day = k.day => k.kind # m.kind
      <3>1. m \in Cycle /\ k \in Cycle
        BY <2>1 DEF TypeOK
      <3> QED
        BY <2>1, <3>1 DEF Cycle
    <2>4. k.day < DayOf(now)
      BY <2>1 DEF PhaseInv, Ahead
    <2> QED
      BY <1>3, <1>5, <2>1, <2>2, <2>3, <2>4
  <1>11. Ahead'
    <2>1. now' = now /\ DayOf(now') = DayOf(now) /\ ~booting'
      BY <1>2
    <2>2. \A k \in missed' :
             k.day < DayOf(now') /\ begun' < 2 * k.day + (IF k.kind = "morning" THEN 0 ELSE 1)
      BY <1>10, <2>1
    <2>3. begun' \in Int /\ begun' < now' /\ now' \in Nat
      BY <1>7, <1>9, <2>1
    <2>4. begun' <= now'
      BY <2>3
    <2> QED
      BY <2>1, <2>2, <2>3, <2>4 DEF Ahead
  <1>12. Allowed' = Allowed /\ m.day \in Allowed
    <2>1. DayOf(now') = DayOf(now) /\ ~booting /\ ~booting'
      BY <1>2
    <2>2. m.day \in Day /\ m.day <= DayOf(now)
      BY <1>3, <1>7, <1>8
    <2> QED
      BY <2>1, <2>2 DEF Allowed
  <1>13. AllDates'
    BY <1>2, <1>4, <1>12 DEF PhaseInv, AllDates, Task
  <1>14. Stopped'
    BY <1>2 DEF Stopped
  <1> QED
    BY <1>3, <1>5, <1>6, <1>8, <1>11, <1>13, <1>14 DEF PhaseInv, Ahead

LEMMA ScheduledAhead ==
    ASSUME TypeOK, PhaseInv, RunScheduled, Record
    PROVE  /\ Phase(job'["scheduler"]) > begun
           /\ AllDates' /\ Ahead' /\ Stopped'
  <1> DEFINE kind == IF IsMorning(now) THEN "morning" ELSE "eod"
  <1>1. /\ up /\ ~booting /\ due /\ due' = FALSE /\ missed = {}
        /\ UNCHANGED <<now, up, db, buffer, booting, missed>>
        /\ job["scheduler"].pc = "idle"
        /\ job' = [job EXCEPT !["scheduler"] = NewJob(kind, DayOf(now))]
    BY DEF RunScheduled, Sleeping, LoopFree
  <1>2. /\ job'["scheduler"].pc = kind /\ job'["scheduler"].day = DayOf(now)
        /\ job'["api"] = job["api"]
    BY <1>1 DEF NewJob, Idle, TypeOK, Task
  <1>3. /\ now \in Nat /\ DayOf(now) \in Day /\ DayOf(now) \in Nat
        /\ now = 2 * DayOf(now) + (IF IsMorning(now) THEN 0 ELSE 1)
    BY NowHalved
  <1>4. Phase(job'["scheduler"]) = now
    BY <1>2, <1>3 DEF Phase
  <1>5. begun' = now /\ begun < now
    BY <1>1, <1>2, <1>4 DEF Record, Begins, PhaseInv, Ahead
  <1>6. Ahead'
    BY <1>1, <1>3, <1>5 DEF Ahead
  <1>7. Allowed' = Allowed /\ DayOf(now) \in Allowed
    BY <1>1, <1>3 DEF Allowed
  <1>8. AllDates'
    BY <1>1, <1>2, <1>7 DEF PhaseInv, AllDates, Task
  <1>9. Stopped'
    BY <1>1 DEF Stopped
  <1> QED
    BY <1>3, <1>4, <1>5, <1>6, <1>8, <1>9 DEF PhaseInv, Ahead

(* Nothing else begins a cycle of the scheduler.                           *)
LEMMA StepAhead ==
    ASSUME IInv, TypeOK', PhaseInv, NEW t \in Task, Step(t), Record
    PROVE  ~Begins /\ AllDates' /\ Ahead' /\ Stopped'
  <1>1. TypeOK
    BY DEF IInv
  <1>2. /\ job[t].pc # "idle" /\ up
        /\ UNCHANGED <<now, up, db, booting, due>> /\ missed' \subseteq missed
        /\ \A o \in Task \ {t} : job'[o] = job[o]
        /\ job'[t].pc # "idle" => job'[t].day = job[t].day
    BY <1>1, StepFrame
  <1>3. ~Begins
    BY <1>2 DEF Begins, Task
  <1>4. begun' = begun
    BY <1>2, <1>3 DEF Record
  <1>5. Allowed' = Allowed
    BY <1>2, <1>4 DEF Allowed
  <1>6. DatesIn(buffer', Allowed)
    BY <1>2, StepDates DEF PhaseInv, AllDates
  <1>7. AllDates'
    BY <1>2, <1>5, <1>6 DEF PhaseInv, AllDates
  <1>8. Ahead'
    BY <1>2, <1>4 DEF PhaseInv, Ahead
  <1>9. Stopped'
    BY <1>2 DEF Stopped
  <1> QED
    BY <1>3, <1>7, <1>8, <1>9

LEMMA BeginAhead ==
    ASSUME TypeOK, PhaseInv, BeginCatchUp, Record
    PROVE  ~Begins /\ AllDates' /\ Ahead' /\ Stopped'
  <1>1. /\ up /\ booting /\ booting' = FALSE
        /\ missed' = [day : MissedDays, kind : {"morning", "eod"}]
        /\ UNCHANGED <<now, up, db, buffer, job, due>>
    BY DEF BeginCatchUp, LoopFree
  <1>2. ~Begins /\ begun' = begun
    BY <1>1 DEF Begins, Record
  <1>3. begun \in Int /\ \A d \in Day : d \in Nat
    BY DayOfTime DEF PhaseInv, Ahead
  <1>4. ASSUME NEW m \in missed'
        PROVE  m.day < DayOf(now) /\ begun < 2 * m.day + (IF m.kind = "morning" THEN 0 ELSE 1)
    <2>1. m.day \in MissedDays /\ m.kind \in {"morning", "eod"}
      BY <1>1
    <2>2. m.day \in Nat /\ db.date # None /\ db.date < m.day /\ m.day < DayOf(now)
      BY <1>3, <2>1 DEF MissedDays
    <2>3. db.date \in Nat /\ begun <= 2 * db.date
      BY <1>1, <1>3, <2>2 DEF PhaseInv, AllDates, Allowed
    <2> QED
      BY <1>3, <2>1, <2>2, <2>3
  <1>5. Ahead'
    BY <1>1, <1>2, <1>4 DEF PhaseInv, Ahead
  <1>6. Allowed \subseteq Allowed'
    BY <1>1 DEF Allowed
  <1>7. DatesIn(buffer', Allowed')
    BY <1>1, <1>6, LargerDates DEF PhaseInv, AllDates
  <1>8. AllDates'
    BY <1>1, <1>6, <1>7 DEF PhaseInv, AllDates
  <1> QED
    BY <1>1, <1>2, <1>5, <1>8 DEF Stopped

LEMMA TickAhead ==
    ASSUME TypeOK, PhaseInv, Tick, Record
    PROVE  ~Begins /\ AllDates' /\ Ahead' /\ Stopped'
  <1>1. /\ now' = now + 1 /\ UNCHANGED <<up, db, buffer, job, booting, missed>>
        /\ due' = (Sleeping /\ IsSession(DayOf(now')))
    BY DEF Tick
  <1>2. ~Begins /\ begun' = begun
    BY <1>1 DEF Begins, Record
  <1>3. now \in Nat /\ DayOf(now) \in Nat /\ DayOf(now') \in Nat /\ DayOf(now) <= DayOf(now')
    BY <1>1, NowHalved
  <1>4. \A d \in Day : d \in Nat
    BY DayOfTime
  <1>5. missed \subseteq Cycle /\ \A m \in Cycle : m.day \in Nat
    BY <1>4 DEF TypeOK, Cycle
  <1>6. Ahead'
    BY <1>1, <1>2, <1>3, <1>5 DEF PhaseInv, Ahead
  <1>7. Allowed \subseteq Allowed'
    BY <1>1, <1>2, <1>3, <1>4 DEF Allowed
  <1>8. AllDates'
    BY <1>1, <1>7, LargerDates DEF PhaseInv, AllDates
  <1>9. Stopped'
    BY <1>1 DEF PhaseInv, Stopped, Sleeping
  <1> QED
    BY <1>2, <1>6, <1>8, <1>9

LEMMA TriggerAhead ==
    ASSUME TypeOK, PhaseInv, Trigger, Record
    PROVE  ~Begins /\ AllDates' /\ Ahead' /\ Stopped'
  <1>1. PICK kind \in {"morning", "eod"} : job' = [job EXCEPT !["api"] = NewJob(kind, DayOf(now))]
    BY DEF Trigger
  <1>2. up /\ UNCHANGED <<now, up, db, buffer, booting, missed, due>>
    BY DEF Trigger, LoopFree
  <1>3. job'["scheduler"] = job["scheduler"] /\ job'["api"].day = DayOf(now)
    BY <1>1 DEF NewJob, Idle, TypeOK, Task
  <1>4. ~Begins /\ begun' = begun
    BY <1>2, <1>3 DEF Begins, Record
  <1>5. DayOf(now) \in Allowed /\ Allowed' = Allowed
    <2>1. DayOf(now) \in Day /\ DayOf(now) \in Nat
      BY DayOfTime DEF TypeOK
    <2>2. booting => begun <= 2 * DayOf(now)
      BY DEF PhaseInv, Ahead
    <2> QED
      BY <1>2, <1>4, <2>1, <2>2 DEF Allowed
  <1>6. AllDates'
    BY <1>2, <1>3, <1>5 DEF PhaseInv, AllDates, Task
  <1>7. Ahead'
    BY <1>2, <1>4 DEF PhaseInv, Ahead
  <1>8. Stopped'
    BY <1>2 DEF Stopped
  <1> QED
    BY <1>4, <1>6, <1>7, <1>8

(* Only a date changes the date.                                           *)
LEMMA DateApplied ==
    ASSUME NEW d \in Database, NEW st \in Statement
    PROVE  \/ Apply(d, st).date = d.date
           \/ st.op = "date" /\ Apply(d, st).date = st.date
  <1>1. CASE st.op = "portfolio"
    BY <1>1 DEF Apply, Database
  <1>2. CASE st.op = "date"
    BY <1>2 DEF Apply, Database
  <1>3. CASE st.op = "signal"
    BY <1>3 DEF Apply, Database
  <1>4. CASE st.op = "order"
    BY <1>4 DEF Apply, Database
  <1>5. CASE st.op = "clear"
    BY <1>5 DEF Apply, Database
  <1> QED
    BY <1>1, <1>2, <1>3, <1>4, <1>5 DEF Statement

LEMMA FlushAhead ==
    ASSUME TypeOK, PhaseInv, Flush, Record
    PROVE  ~Begins /\ AllDates' /\ Ahead' /\ Stopped'
  <1>1. /\ up /\ buffer # <<>> /\ db' = Apply(db, Head(buffer)) /\ buffer' = Tail(buffer)
        /\ UNCHANGED <<now, up, job, booting, missed, due>>
    BY DEF Flush
  <1>2. ~Begins /\ begun' = begun
    BY <1>1 DEF Begins, Record
  <1>3. Allowed' = Allowed
    BY <1>1, <1>2 DEF Allowed
  <1>4. DatesIn(buffer, Allowed) /\ buffer \in Seq(Statement)
    BY DEF PhaseInv, AllDates, TypeOK
  <1>5. DatesIn(buffer', Allowed)
    <2>1. /\ buffer' \in Seq(Statement)
          /\ \A i \in DOMAIN buffer' : i + 1 \in DOMAIN buffer /\ buffer'[i] = buffer[i + 1]
      BY <1>1, <1>4
    <2> QED
      BY <1>4, <2>1 DEF DatesIn
  <1>6. db'.date # None => db'.date \in Allowed
    <2>1. /\ Head(buffer) \in Statement
          /\ Head(buffer).op = "date" => Head(buffer).date \in Allowed
      <3>1. 1 \in DOMAIN buffer /\ Head(buffer) = buffer[1]
        BY <1>1, <1>4
      <3> QED
        BY <1>4, <3>1 DEF DatesIn
    <2>2. db \in Database
      BY DEF TypeOK
    <2>3. \/ db'.date = db.date
          \/ Head(buffer).op = "date" /\ db'.date = Head(buffer).date
      BY <1>1, <2>1, <2>2, DateApplied
    <2> QED
      BY <2>1, <2>3 DEF PhaseInv, AllDates
  <1>7. AllDates'
    BY <1>1, <1>3, <1>5, <1>6 DEF PhaseInv, AllDates
  <1>8. Ahead'
    BY <1>1, <1>2 DEF PhaseInv, Ahead
  <1>9. Stopped'
    BY <1>1 DEF Stopped
  <1> QED
    BY <1>2, <1>7, <1>8, <1>9

LEMMA StopAhead ==
    ASSUME TypeOK, PhaseInv, Crash \/ Start, Record
    PROVE  ~Begins /\ AllDates' /\ Ahead' /\ Stopped'
  <1>1. ~Begins
    BY DEF Crash, Start, Begins, Task, Idle
  <1>2. DatesIn(<<>>, Allowed') /\ \A d \in Day : d \in Nat
    BY DayOfTime DEF DatesIn
  <1>3. CASE Crash
    <2>1. /\ up' = FALSE /\ due' = FALSE /\ booting' = FALSE /\ buffer' = <<>> /\ missed' = {}
          /\ job' = [t \in Task |-> Idle] /\ UNCHANGED <<now, db>>
      BY <1>3 DEF Crash
    <2>2. begun' = begun
      BY <1>1, <2>1 DEF Record
    <2>3. Allowed \subseteq Allowed'
      BY <2>1 DEF Allowed
    <2>4. AllDates'
      BY <1>2, <2>1, <2>3 DEF PhaseInv, AllDates, Idle
    <2>5. Ahead'
      BY <2>1, <2>2 DEF PhaseInv, Ahead
    <2>6. Stopped'
      BY <2>1 DEF Stopped, Task, Idle
    <2> QED
      BY <1>1, <2>4, <2>5, <2>6
  <1>4. CASE Start
    <2>1. /\ ~up /\ up' = TRUE /\ booting' = TRUE /\ ~due /\ buffer = <<>> /\ missed = {}
          /\ UNCHANGED <<now, db, buffer, job, missed, due>>
          /\ \A t \in Task : job[t].pc = "idle"
      BY <1>4 DEF Start, PhaseInv, Booted, Stopped, Task
    <2>2. begun' = Completed
      BY <2>1 DEF Record
    <2>3. now \in Nat /\ DayOf(now) \in Nat /\ 2 * DayOf(now) <= now
      BY NowHalved
    <2>4. db.date # None => db.date \in Day /\ db.date \in Nat /\ db.date <= DayOf(now)
      BY <1>2 DEF PhaseInv, AllDates, Allowed
    <2>5. begun' \in Int /\ begun' <= 2 * DayOf(now)
      BY <2>2, <2>3, <2>4 DEF Completed, None
    <2>6. db.date # None => db.date \in Allowed'
      BY <2>1, <2>2, <2>4 DEF Allowed, Completed
    <2>7. AllDates'
      BY <1>2, <2>1, <2>6 DEF AllDates
    <2>8. Ahead'
      BY <2>1, <2>3, <2>5 DEF Ahead
    <2>9. Stopped'
      BY <2>1 DEF Stopped
    <2> QED
      BY <1>1, <2>7, <2>8, <2>9
  <1> QED
    BY <1>3, <1>4

LEMMA PhaseStep ==
    ASSUME IInv, TypeOK', PhaseInv, [Next /\ Record]_phaseVars
    PROVE  PhaseInv' /\ (Begins => Phase(job'["scheduler"]) > begun)
  <1>1. TypeOK
    BY DEF IInv
  <1>2. Booted'
    <2>1. [Next]_vars
      BY DEF phaseVars
    <2> QED
      BY <1>1, <2>1, BootedStep DEF PhaseInv
  <1> DEFINE Good == /\ AllDates' /\ Ahead' /\ Stopped'
                     /\ Begins => Phase(job'["scheduler"]) > begun
  <1>3. CASE UNCHANGED phaseVars
    <2>1. UNCHANGED <<now, up, db, buffer, job, booting, missed, due, begun>>
      BY <1>3 DEF phaseVars, vars
    <2>2. ~Begins /\ Allowed' = Allowed
      BY <2>1 DEF Begins, Allowed
    <2>3. AllDates'
      BY <2>1, <2>2 DEF PhaseInv, AllDates
    <2> QED
      BY <1>2, <2>1, <2>2, <2>3 DEF PhaseInv, Ahead, Stopped
  <1>4. ASSUME Next, Record PROVE Good
    <2>1. ASSUME NEW t \in Task, Step(t) PROVE Good
      BY <1>4, <2>1, StepAhead
    <2>2. CASE ReplayNext \/ RunScheduled
      BY <1>1, <1>4, <2>2, ReplayAhead, ScheduledAhead
    <2>3. CASE BeginCatchUp \/ Tick \/ Trigger
      BY <1>1, <1>4, <2>3, BeginAhead, TickAhead, TriggerAhead
    <2>4. CASE Flush \/ Crash \/ Start
      BY <1>1, <1>4, <2>4, FlushAhead, StopAhead
    <2>5. CASE Read \/ Deposit \/ DebounceOver
      <3>1. UNCHANGED <<now, up, db, buffer, job, booting, missed, due>>
        BY <2>5 DEF Read, Deposit, DebounceOver
      <3>2. ~Begins /\ begun' = begun
        BY <1>4, <3>1 DEF Begins, Record
      <3>3. Allowed' = Allowed
        BY <3>1, <3>2 DEF Allowed
      <3>4. AllDates'
        BY <3>1, <3>3 DEF PhaseInv, AllDates
      <3> QED
        BY <3>1, <3>2, <3>4 DEF PhaseInv, Ahead, Stopped
    <2> QED
      BY <1>4, <2>1, <2>2, <2>3, <2>4, <2>5 DEF Next
  <1> QED
    BY <1>2, <1>3, <1>4 DEF PhaseInv

(* A process of paper_trading_scheduler runs every phase at most once and  *)
(* in order, in its time or replayed, through failing cycles and triggered *)
(* ones; a restart, of which there may be any number, does not return to   *)
(* what is durably completed.                                              *)
THEOREM PhasesOnce == HistorySpec => PhasesInOrder
  <1>1. HistoryInit => PhaseInv
    <2>. SUFFICES ASSUME HistoryInit PROVE PhaseInv
      OBVIOUS
    <2>1. /\ now = 0 /\ up = FALSE /\ db.date = None /\ buffer = <<>> /\ missed = {}
          /\ \A t \in Task : job[t].pc = "idle"
          /\ booting = FALSE /\ due = FALSE /\ begun = -1
      BY DEF HistoryInit, Init, Idle, None
    <2>2. AllDates
      BY <2>1 DEF AllDates, DatesIn
    <2> QED
      BY <2>1, <2>2 DEF PhaseInv, Booted, Ahead, Stopped, Task
  <1>2. HistorySpec => []IInv
    <2>1. HistoryInit => Init
      BY DEF HistoryInit
    <2>2. [Next /\ Record]_phaseVars => [Next]_vars
      BY DEF phaseVars
    <2>3. HistorySpec => Spec
      BY <2>1, <2>2, PTL DEF HistorySpec, Spec
    <2> QED
      BY <2>3, Invariant, PTL
  <1>3. IInv => TypeOK
    BY DEF IInv
  <1>4. IInv /\ TypeOK' /\ PhaseInv /\ [Next /\ Record]_phaseVars => PhaseInv'
    BY PhaseStep
  <1>5. IInv /\ TypeOK' /\ PhaseInv /\ [Next /\ Record]_phaseVars
            => [Begins => Phase(job'["scheduler"]) > begun]_phaseVars
    BY PhaseStep
  <1> QED
    BY <1>1, <1>2, <1>3, <1>4, <1>5, PTL DEF HistorySpec, PhasesInOrder
=============================================================================
