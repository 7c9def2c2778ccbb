--------------------------- MODULE EodExitsProofs ---------------------------
(***************************************************************************)
(* The exit loop for any number of positions, any thresholds and any       *)
(* gains: what TLC checks for two positions in MCEodExits.                 *)
(***************************************************************************)
EXTENDS EodExits, TLAPS

(* Where the loop stands: each position it has passed is queued with the   *)
(* reason of the last one up to it that meets a rule, the others are not   *)
(* queued; should_exit is unbound only before the first position, where a  *)
(* loop that raised has stopped, and otherwise holds what the position     *)
(* just passed was queued with.                                            *)
LoopInv ==
    /\ \A p \in Position : IF p < next THEN Carries(queued[p], p) ELSE queued[p] = ""
    /\ IF exit = "unbound" THEN next = 1 ELSE next > 1 /\ Carries(exit, next - 1)
    /\ phase = "raised" => exit = "unbound" /\ Rule(1) = ""
    /\ phase = "done" => next = Slot + 1

IInv == TypeOK /\ LoopInv

(* What the steps below use of the constants.                              *)
LEMMA ConstantFacts ==
    /\ Slot \in Nat /\ Slot > 0 /\ HardStop \in Int
    /\ MaxHold \in Nat /\ Pnl \subseteq Int /\ Gaps \subseteq Nat
  <1>1. Slot \in Nat /\ Slot > 0 /\ HardStop \in Int /\ MaxHold \in Nat
    BY ExitAssumption
  <1>2. Pnl \subseteq Int /\ Gaps \subseteq Nat
    BY ExitAssumption
  <1>. QED
    BY <1>1, <1>2

(* The start of the loop is in range, and no position is before it.        *)
LEMMA FirstPosition == 1 \in 1 .. Slot + 1 /\ \A p \in Position : ~(p < 1)
  <1>1. 1 \in 1 .. Slot + 1
    BY ConstantFacts
  <1>2. \A p \in Position : ~(p < 1)
    BY DEF Position
  <1>. QED
    BY <1>1, <1>2

(* The elif chain: a rule's name or none, and the hard stop comes first.   *)
LEMMA RuleFacts ==
    ASSUME NEW p \in Position, pnl \in [Position -> Int]
    PROVE  /\ Rule(p) \in Reason \cup {""}
           /\ pnl[p] <= HardStop => Rule(p) = "HARD_STOP"
  <1> DEFINE s == pnl[p] <= HardStop
             b == pnl[p] > HardStop /\ PeakGain(p) >= BreakevenTrigger /\ pnl[p] <= BreakevenLock
             a == pnl[p] > HardStop /\ PeakGain(p) >= Activation /\ pnl[p] <= PeakGain(p) - Buffer
  <1>1. pnl[p] \in Int /\ HardStop \in Int
    BY ConstantFacts
  <1>2. s => ~b /\ ~a
    BY <1>1
  <1>3. CASE s
    BY <1>2, <1>3 DEF Rule, Reason
  <1>4. CASE ~s
    BY <1>4 DEF Rule, Reason
  <1>. QED
    BY <1>3, <1>4

(* A carried reason is a reason, and that of a position at the hard stop   *)
(* is the hard stop.                                                       *)
LEMMA CarriedFacts ==
    ASSUME NEW p \in Position, NEW reason, pnl \in [Position -> Int], Carries(reason, p)
    PROVE  /\ reason \in Reason /\ reason # ""
           /\ pnl[p] <= HardStop => reason = "HARD_STOP"
  <1>1. PICK q \in 1 .. p : /\ Rule(q) # "" /\ reason = Rule(q)
                            /\ \A k \in q + 1 .. p : Rule(k) = ""
    BY DEF Carries
  <1>2. p \in Int /\ q \in Int /\ p <= Slot /\ q \in Position
    BY ConstantFacts DEF Position
  <1>3. reason \in Reason
    BY <1>1, <1>2, RuleFacts
  <1>4. ASSUME pnl[p] <= HardStop PROVE reason = "HARD_STOP"
    <2>1. Rule(p) = "HARD_STOP"
      BY <1>4, RuleFacts
    <2>2. q = p
      <3>1. ~(p \in q + 1 .. p)
        BY <1>1, <2>1
      <3>. QED
        BY <1>2, <3>1
    <2>. QED
      BY <1>1, <2>1, <2>2
  <1>5. reason # ""
    BY <1>1
  <1>. QED
    BY <1>3, <1>4, <1>5

(* A position that meets a rule starts a reason; one that meets none       *)
(* carries the one before on.                                              *)
LEMMA CarryOn ==
    ASSUME NEW p \in Position, NEW reason
    PROVE  /\ Rule(p) # "" => Carries(Rule(p), p)
           /\ Rule(p) = "" /\ p > 1 /\ Carries(reason, p - 1) => Carries(reason, p)
  <1>1. p \in Int /\ 1 <= p /\ p <= Slot
    BY ConstantFacts DEF Position
  <1>2. ASSUME Rule(p) # "" PROVE Carries(Rule(p), p)
    <2>1. p \in 1 .. p
      BY <1>1
    <2>2. ASSUME NEW k \in p + 1 .. p PROVE FALSE
      BY <1>1
    <2>. QED
      BY <1>2, <2>1, <2>2, Zenon DEF Carries
  <1>3. ASSUME Rule(p) = "", p > 1, Carries(reason, p - 1) PROVE Carries(reason, p)
    <2>1. PICK q \in 1 .. p - 1 : /\ Rule(q) # "" /\ reason = Rule(q)
                                  /\ \A k \in q + 1 .. p - 1 : Rule(k) = ""
      BY <1>3 DEF Carries
    <2>2. q \in 1 .. p
      BY <1>1
    <2>3. ASSUME NEW k \in q + 1 .. p PROVE Rule(k) = ""
      <3>1. k = p \/ k \in q + 1 .. p - 1
        BY <1>1
      <3>. QED
        BY <1>3, <2>1, <3>1
    <2>. QED
      BY <2>1, <2>2, <2>3 DEF Carries
  <1>. QED
    BY <1>2, <1>3

(* The rules look only at what an evening leaves alone.                    *)
LEMMA RuleSame ==
    ASSUME UNCHANGED <<pnl, held, pred>>
    PROVE  /\ \A p : Rule(p)' = Rule(p)
           /\ \A reason, p : Carries(reason, p)' = Carries(reason, p)
  <1>1. \A p : Rule(p)' = Rule(p)
    BY Zenon DEF Rule, PeakGain
  <1>. QED
    BY <1>1, Zenon DEF Carries

(* What an iteration assigns: unbound only where no rule has been met yet, *)
(* otherwise the reason of the last position that meets one.               *)
LEMMA ExitFacts ==
    ASSUME IInv, next \in Position
    PROVE  IF ExitAfter(next) = "unbound" THEN next = 1 /\ Rule(next) = ""
                                          ELSE Carries(ExitAfter(next), next)
  <1>1. pnl \in [Position -> Int] /\ LoopInv
    BY DEF IInv, TypeOK
  <1>2. CASE Rule(next) # ""
    <2>1. Rule(next) # "unbound"
      BY <1>1, <1>2, RuleFacts DEF Reason
    <2>. QED
      BY <1>2, <2>1, CarryOn DEF ExitAfter
  <1>3. CASE Rule(next) = ""
    <2>1. ExitAfter(next) = exit
      BY <1>3 DEF ExitAfter
    <2>2. CASE exit = "unbound"
      BY <1>1, <1>3, <2>1, <2>2 DEF LoopInv
    <2>3. CASE exit # "unbound"
      <3>1. next > 1 /\ Carries(exit, next - 1)
        BY <1>1, <2>3 DEF LoopInv
      <3>. QED
        BY <1>3, <2>1, <2>3, <3>1, CarryOn
    <2>. QED
      BY <2>2, <2>3
  <1>. QED
    BY <1>2, <1>3

(* One iteration of the loop keeps the invariant.                          *)
LEMMA ScanStep == IInv /\ Scan => IInv'
  <1>. SUFFICES ASSUME IInv, Scan PROVE IInv'
    OBVIOUS
  <1>. USE DEF IInv
  <1>1. Slot \in Nat /\ next \in Position /\ next \in Int /\ 1 <= next
    <2>1. next \in 1 .. Slot + 1 /\ next <= Slot
      BY DEF Scan, TypeOK
    <2>. QED
      BY <2>1, ConstantFacts DEF Position
  <1>2. /\ exit' = ExitAfter(next)
        /\ IF exit' = "unbound" THEN next = 1 /\ Rule(next) = "" ELSE Carries(exit', next)
    BY <1>1, ExitFacts DEF Scan
  <1>3. UNCHANGED <<pnl, held, pred, high>>
    BY DEF Scan
  <1>4. /\ \A p : Rule(p)' = Rule(p)
        /\ \A reason, p : Carries(reason, p)' = Carries(reason, p)
    BY <1>3, RuleSame
  <1>5. CASE exit' = "unbound"
    <2>1. phase' = "raised" /\ UNCHANGED <<next, queued>>
      BY <1>5 DEF Scan
    <2>2. TypeOK'
      BY <1>3, <1>5, <2>1 DEF TypeOK
    <2>3. next' = 1 /\ Rule(1)' = ""
      BY <1>2, <1>4, <1>5, <2>1
    <2>4. \A p \in Position : queued'[p] = "" /\ ~(p < next')
      <3>1. \A p \in Position : ~(p < 1)
        BY FirstPosition
      <3>. QED
        BY <2>1, <2>3, <3>1 DEF LoopInv
    <2>5. LoopInv'
      BY <1>5, <2>1, <2>3, <2>4 DEF LoopInv
    <2>. QED
      BY <2>2, <2>5
  <1>6. CASE exit' # "unbound"
    <2>1. /\ queued' = [queued EXCEPT ![next] = exit']
          /\ next' = next + 1
          /\ phase' = IF next = Slot THEN "done" ELSE "loop"
      BY <1>6 DEF Scan
    <2>2. Carries(exit', next) /\ exit' \in Reason
      <3>1. Carries(exit', next) /\ pnl \in [Position -> Int]
        BY <1>2, <1>6 DEF TypeOK
      <3>. QED
        BY <1>1, <3>1, CarriedFacts
    <2>3. queued' \in [Position -> Reason \cup {""}]
      BY <2>1, <2>2 DEF TypeOK
    <2>4. next' \in 1 .. Slot + 1 /\ phase' \in {"loop", "done", "raised"}
      BY <1>1, <2>1 DEF Position
    <2>5. TypeOK'
      BY <1>3, <2>2, <2>3, <2>4 DEF TypeOK
    <2>6. ASSUME NEW p \in Position
          PROVE  (IF p < next THEN Carries(queued[p], p) ELSE queued[p] = "")'
      <3>1. CASE p = next
        <4>1. p < next'
          BY <1>1, <2>1, <3>1
        <4>2. queued'[p] = exit'
          BY <2>1, <3>1 DEF TypeOK
        <4>3. Carries(queued'[p], p)
          BY <2>2, <3>1, <4>2, Zenon
        <4>4. Carries(queued[p], p)'
          BY <1>4, <4>3
        <4>. QED
          BY <4>1, <4>4
      <3>2. CASE p # next
        <4>1. (p < next') = (p < next)
          BY <1>1, <2>1, <3>2 DEF Position
        <4>2. queued'[p] = queued[p]
          BY <2>1, <3>2 DEF TypeOK
        <4>3. IF p < next THEN Carries(queued[p], p) ELSE queued[p] = ""
          BY DEF LoopInv
        <4>. QED
          BY <1>4, <4>1, <4>2, <4>3
      <3>. QED
        BY <3>1, <3>2
    <2>7. phase' # "raised" /\ (phase' = "done" => next' = Slot + 1)
      BY <2>1
    <2>8. next' > 1 /\ Carries(exit, next - 1)'
      <3>1. next' > 1 /\ next' - 1 = next
        BY <1>1, <2>1
      <3>2. Carries(exit', next' - 1)
        BY <2>2, <3>1
      <3>. QED
        BY <1>4, <3>1, <3>2
    <2>9. LoopInv'
      BY <1>6, <2>6, <2>7, <2>8 DEF LoopInv
    <2>. QED
      BY <2>5, <2>9
  <1>. QED
    BY <1>5, <1>6

(* A new evening starts the loop over.                                     *)
LEMMA EveningStep == IInv /\ NextEvening => IInv'
  <1>. SUFFICES ASSUME IInv, NextEvening PROVE IInv'
    OBVIOUS
  <1>1. TypeOK
    BY DEF IInv
  <1>2. /\ next' = 1 /\ exit' = "unbound" /\ phase' = "loop"
        /\ queued' = [p \in Position |-> ""]
    BY DEF NextEvening, LoopStarts
  <1>3. pnl' \in [Position -> Int] /\ pred' \in [Position -> Prediction]
    BY ConstantFacts DEF NextEvening
  <1>4. PICK gap \in Gaps, sold \in SUBSET Position :
            /\ held' = [p \in Position |-> IF p \in sold THEN 0 ELSE DaysHeld(p, gap)]
            /\ high' = [p \in Position |->
                            IF p \in sold THEN pnl'[p] ELSE Larger(high[p], pnl'[p])]
    BY DEF NextEvening
  <1>5. held' \in [Position -> 0 .. MaxHold]
    <2> DEFINE h(p) == IF p \in sold THEN 0 ELSE DaysHeld(p, gap)
    <2>1. ASSUME NEW p \in Position PROVE h(p) \in 0 .. MaxHold
      <3>1. held[p] \in 0 .. MaxHold
        BY <1>1 DEF TypeOK
      <3>2. gap \in Nat /\ MaxHold \in Nat
        BY ConstantFacts
      <3>. QED
        BY <3>1, <3>2 DEF DaysHeld
    <2>2. held' = [p \in Position |-> h(p)]
      BY <1>4
    <2> HIDE DEF h
    <2>. QED
      BY <2>1, <2>2
  <1>6. high' \in [Position -> Int]
    <2> DEFINE g(p) == IF p \in sold THEN pnl'[p] ELSE Larger(high[p], pnl'[p])
    <2>1. ASSUME NEW p \in Position PROVE g(p) \in Int
      <3>1. high[p] \in Int /\ pnl'[p] \in Int
        BY <1>1, <1>3 DEF TypeOK
      <3>. QED
        BY <3>1 DEF Larger
    <2>2. high' = [p \in Position |-> g(p)]
      BY <1>4
    <2> HIDE DEF g
    <2>. QED
      BY <2>1, <2>2
  <1>7. next' \in 1 .. Slot + 1
    BY <1>2, FirstPosition, Zenon
  <1>8. TypeOK'
    BY <1>2, <1>3, <1>5, <1>6, <1>7 DEF TypeOK
  <1>9. LoopInv'
    <2>1. \A p \in Position : ~(p < next') /\ queued'[p] = ""
      BY <1>2, FirstPosition, Zenon
    <2>2. phase' # "done" /\ phase' # "raised"
      BY <1>2
    <2>. QED
      BY <1>2, <2>1, <2>2, Zenon DEF LoopInv
  <1>. QED
    BY <1>8, <1>9 DEF IInv

(* The invariant holds initially and is kept by every step.                *)
LEMMA LoopInvariant == Spec => []IInv
  <1>1. Init => IInv
    <2>. SUFFICES ASSUME Init PROVE IInv
      OBVIOUS
    <2>1. pnl \in [Position -> Int] /\ high = pnl
      BY ConstantFacts DEF Init
    <2>2. held \in [Position -> 0 .. MaxHold] /\ next \in 1 .. Slot + 1
      <3>1. held = [p \in Position |-> 0] /\ next = 1
        BY DEF Init
      <3>2. 0 \in 0 .. MaxHold
        BY ConstantFacts
      <3>. QED
        BY <3>1, <3>2, FirstPosition, Zenon
    <2>3. TypeOK
      BY <2>1, <2>2 DEF Init, TypeOK
    <2>4. LoopInv
      <3>1. next = 1 /\ exit = "unbound" /\ phase # "done" /\ phase # "raised"
        BY DEF Init
      <3>2. \A p \in Position : ~(p < next) /\ queued[p] = ""
        BY <3>1, FirstPosition, Zenon DEF Init
      <3>. QED
        BY <3>1, <3>2, Zenon DEF LoopInv
    <2>. QED
      BY <2>3, <2>4 DEF IInv
  <1>2. IInv /\ [Next]_vars => IInv'
    <2>1. ASSUME IInv, UNCHANGED vars PROVE IInv'
      <3>1. /\ \A p : Rule(p)' = Rule(p)
            /\ \A reason, p : Carries(reason, p)' = Carries(reason, p)
        BY <2>1, RuleSame DEF vars
      <3>2. TypeOK'
        BY <2>1 DEF IInv, TypeOK, vars
      <3>3. LoopInv'
        BY <2>1, <3>1 DEF IInv, LoopInv, vars
      <3>. QED
        BY <3>2, <3>3 DEF IInv
    <2>. QED
      BY <2>1, ScanStep, EveningStep DEF Next
  <1>. QED
    BY <1>1, <1>2, PTL DEF Spec

(* Every variable keeps its type.                                          *)
THEOREM ExitsTyped == Spec => []TypeOK
  <1>1. IInv => TypeOK
    BY DEF IInv
  <1>. QED
    BY <1>1, LoopInvariant, PTL

(* Of a loop that is done, every position carries its reason.              *)
LEMMA DoneCarries ==
    ASSUME IInv, phase = "done", NEW p \in Position
    PROVE  Carries(queued[p], p)
  <1>1. next = Slot + 1 /\ Slot \in Nat
    BY ConstantFacts DEF IInv, LoopInv
  <1>2. p < next
    BY <1>1 DEF Position
  <1>. QED
    BY <1>2 DEF IInv, LoopInv

(* How far the missing reset of should_exit and exit_reason in             *)
(* run_eod_signal_cycle reaches, for any number of positions and any       *)
(* thresholds: a position that meets no rule is sold under the reason of   *)
(* the last one before it that does, and the loop raises only over a first *)
(* position that meets none, with nothing queued.                          *)
THEOREM LoopDecides == Spec => []LoopResult
  <1>1. IInv => LoopResult
    <2>. SUFFICES ASSUME IInv PROVE LoopResult
      OBVIOUS
    <2>1. ASSUME phase = "done", NEW p \in Position PROVE Carries(queued[p], p)
      BY <2>1, DoneCarries
    <2>2. ASSUME phase = "raised" PROVE Rule(1) = "" /\ \A p \in Position : queued[p] = ""
      <3>1. Rule(1) = "" /\ next = 1
        BY <2>2 DEF IInv, LoopInv
      <3>2. \A p \in Position : ~(p < next)
        BY <3>1, FirstPosition
      <3>. QED
        BY <3>1, <3>2 DEF IInv, LoopInv
    <2>. QED
      BY <2>1, <2>2 DEF LoopResult
  <1>. QED
    BY <1>1, LoopInvariant, PTL

(* A cycle that does not raise queues every position at the hard stop      *)
(* under that reason.                                                      *)
THEOREM HardStopSold == Spec => []LossIsCut
  <1>1. IInv => LossIsCut
    <2>. SUFFICES ASSUME IInv, phase = "done", NEW p \in Position, pnl[p] <= HardStop
                  PROVE  queued[p] = "HARD_STOP"
      BY DEF LossIsCut
    <2>1. Carries(queued[p], p) /\ pnl \in [Position -> Int]
      BY DoneCarries DEF IInv, TypeOK
    <2>. QED
      BY <2>1, CarriedFacts
  <1>. QED
    BY <1>1, LoopInvariant, PTL

(* A cycle that does not raise queues every position: the fact about the   *)
(* loop that the composition PaperTrading is built on.                     *)
THEOREM LoopSellsAll == Spec => []AllOrRaise
  <1>1. IInv => AllOrRaise
    <2>. SUFFICES ASSUME IInv, phase = "done", NEW p \in Position PROVE queued[p] # ""
      BY DEF AllOrRaise
    <2>1. Carries(queued[p], p) /\ pnl \in [Position -> Int]
      BY DoneCarries DEF IInv, TypeOK
    <2>. QED
      BY <2>1, CarriedFacts
  <1>. QED
    BY <1>1, LoopInvariant, PTL
=============================================================================
