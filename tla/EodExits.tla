------------------------------ MODULE EodExits ------------------------------
(***************************************************************************)
(* The exit loop of the evening cycle (services/pipeline/                  *)
(* run_unified_daily.py, run_eod_signal_cycle): each evening it walks over *)
(* the open positions and queues a sale for those that meet an exit rule.  *)
(* Percentages are in tenths of a percent.  A trailing distance is one     *)
(* constant here; the code computes it from the share's ATR.  "Variant"    *)
(* marks a mistaken form of the definition after it, used by no other.     *)
(***************************************************************************)
EXTENDS Integers

CONSTANTS
    Slot,               \* the positions are 1 .. Slot, in loop order
    HardStop,           \* FROZEN_PARAMS["hard_stop_pct"]
    BreakevenTrigger, BreakevenLock,
    Activation, Buffer, \* take_profit_activation_pct, atr_buffer_pct
    MinHold, MaxHold,   \* min_hold_days, max_hold_days
    Pnl,                \* unrealized_pnl_pct of a position on an evening
    Gaps                \* days between two evenings that rebalance

ASSUME ExitAssumption ==
    /\ Slot \in Nat \ {0}
    /\ HardStop \in Int /\ Activation \in Int /\ Buffer \in Int
    /\ BreakevenTrigger \in Int /\ BreakevenLock \in Int
    /\ HardStop < 0 /\ BreakevenLock < BreakevenTrigger /\ Buffer > 0
    /\ MinHold \in Nat /\ MaxHold \in Nat /\ MinHold < MaxHold
    /\ Pnl \subseteq Int /\ Gaps \subseteq Nat \ {0}

Position == 1 .. Slot

(* The scan's prediction for a share: none, one good enough to keep it, or *)
(* one whose score or rank lets it decay.                                  *)
Prediction == {"none", "keep", "decayed"}

Reason == {"HARD_STOP", "BREAKEVEN_PROTECTION", "ATR_TRAILING_PROFIT", "MAX_HOLD",
           "UNIVERSE_REMOVAL", "ALPHA_DECAY"}

VARIABLES
    pnl,     \* unrealized_pnl_pct of each position
    held,    \* days_held, counted up to MaxHold
    pred,    \* pos_pred
    high,    \* history: the best pnl of the position on any evening so far
    next,    \* the position the loop comes to next
    exit,    \* should_exit and exit_reason: "unbound", or the last reason assigned
    queued,  \* exit_signals: the reason each position is queued with, or ""
    phase    \* "loop", "done", "raised"

vars == <<pnl, held, pred, high, next, exit, queued, phase>>

TypeOK ==
    /\ pnl \in [Position -> Int] /\ high \in [Position -> Int]
    /\ held \in [Position -> 0 .. MaxHold]
    /\ pred \in [Position -> Prediction]
    /\ next \in 1 .. Slot + 1
    /\ exit \in Reason \cup {"unbound"}
    /\ queued \in [Position -> Reason \cup {""}]
    /\ phase \in {"loop", "done", "raised"}

LoopStarts ==
    /\ next' = 1 /\ exit' = "unbound" /\ phase' = "loop"
    /\ queued' = [p \in Position |-> ""]

Init ==
    /\ pnl \in [Position -> Pnl] /\ high = pnl
    /\ held = [p \in Position |-> 0]
    /\ pred \in [Position -> Prediction]
    /\ next = 1 /\ exit = "unbound" /\ phase = "loop"
    /\ queued = [p \in Position |-> ""]

(* No position carries a peak_pnl_pct, so the default, tonight's pnl, is   *)
(* what the maximum is taken of.                                           *)
PeakGain(p) == pnl[p]

(* Variant: a loss of exactly the hard stop is not at the hard stop.       *)
RuleStrict(p) ==
    CASE pnl[p] < HardStop -> "HARD_STOP"
      [] OTHER -> IF pred[p] = "none" THEN "UNIVERSE_REMOVAL" ELSE ""

(* The rule a position meets, the first in the order of the elif chain;    *)
(* "" when it meets none.                                                  *)
Rule(p) ==
    CASE pnl[p] <= HardStop -> "HARD_STOP"
      [] pnl[p] > HardStop /\ PeakGain(p) >= BreakevenTrigger /\ pnl[p] <= BreakevenLock ->
            "BREAKEVEN_PROTECTION"
      [] pnl[p] > HardStop /\ PeakGain(p) >= Activation /\ pnl[p] <= PeakGain(p) - Buffer ->
            "ATR_TRAILING_PROFIT"
      [] OTHER ->
            IF held[p] >= MaxHold /\ PeakGain(p) < 80 THEN "MAX_HOLD"
            ELSE IF pred[p] = "none" THEN "UNIVERSE_REMOVAL"
            ELSE IF held[p] >= MinHold /\ pred[p] = "decayed" THEN "ALPHA_DECAY"
            ELSE ""

(* What should_exit and exit_reason hold once the rules have been tried:   *)
(* a position that meets none leaves them as they are.                     *)
ExitAfter(p) == IF Rule(p) = "" THEN exit ELSE Rule(p)

Scan ==
    /\ phase = "loop" /\ next <= Slot
    /\ exit' = ExitAfter(next)
    /\ IF exit' = "unbound"
       THEN phase' = "raised" /\ UNCHANGED <<next, queued>>
       ELSE /\ queued' = [queued EXCEPT ![next] = exit']
            /\ next' = next + 1
            /\ phase' = IF next = Slot THEN "done" ELSE "loop"
    /\ UNCHANGED <<pnl, held, pred, high>>

Larger(a, b) == IF a > b THEN a ELSE b

(* days_held, when gap more days have gone by since the evening before.    *)
(* Variant: the two dates are subtracted the other way round.              *)
DaysHeldSwapped(p, gap) == held[p] - gap

DaysHeld(p, gap) == IF held[p] + gap > MaxHold THEN MaxHold ELSE held[p] + gap

(* Another evening: the queued sales have filled, or not; a slot that was  *)
(* sold holds a new position.                                              *)
NextEvening ==
    /\ phase # "loop"
    /\ pnl' \in [Position -> Pnl]
    /\ pred' \in [Position -> Prediction]
    /\ \E gap \in Gaps, sold \in SUBSET {p \in Position : phase = "done" /\ queued[p] # ""} :
        /\ held' = [p \in Position |-> IF p \in sold THEN 0 ELSE DaysHeld(p, gap)]
        /\ high' = [p \in Position |->
                        IF p \in sold THEN pnl'[p] ELSE Larger(high[p], pnl'[p])]
    /\ LoopStarts

Next == Scan \/ NextEvening

Spec == Init /\ [][Next]_vars

-----------------------------------------------------------------------------
(* A loss at the hard stop is queued for sale under that name, whatever    *)
(* other rule the position meets and whatever the loop has carried over    *)
(* from the positions before it - unless the cycle raised.                 *)
LossIsCut ==
    phase = "done" => \A p \in Position : pnl[p] <= HardStop => queued[p] = "HARD_STOP"

(* The reason of the last position up to p that meets a rule.              *)
Carries(reason, p) ==
    \E q \in 1 .. p :
        /\ Rule(q) # "" /\ reason = Rule(q)
        /\ \A k \in q + 1 .. p : Rule(k) = ""

(* How far the missing reset of should_exit reaches (ExitOnlyByRule, below, *)
(* is what was meant): every position is queued, with the reason of the    *)
(* last one up to it that meets a rule - its own, when it meets one - and  *)
(* the loop raises exactly when the first position meets none, before      *)
(* anything is queued.                                                     *)
LoopResult ==
    /\ phase = "done" => \A p \in Position : Carries(queued[p], p)
    /\ phase = "raised" => Rule(1) = "" /\ \A p \in Position : queued[p] = ""

(* The loop sells everything or raises: should_exit keeps the value of the *)
(* position before.  PaperTrading's QueuedSignals and EodRaise rest on it. *)
AllOrRaise == phase = "done" => \A p \in Position : queued[p] # ""

-----------------------------------------------------------------------------
(* "Munferit Satis & Stop Mantigi" (run_unified_daily.py:217), a sale and  *)
(* stop logic for each position by itself: a position is queued for sale   *)
(* only when it meets a rule, whatever the positions before it meet.       *)
ExitOnlyByRule == \A p \in Position : queued[p] # "" => Rule(p) # ""

(* "%8 primde maliyet stopu (+%1)" (frozen_strategy_engine.py:71): a       *)
(* position that was up by the trigger and has fallen back to the lock is  *)
(* sold under that rule.                                                   *)
BreakevenProtects ==
    phase = "done" =>
        \A p \in Position :
            high[p] >= BreakevenTrigger /\ pnl[p] <= BreakevenLock /\ pnl[p] > HardStop
                => queued[p] = "BREAKEVEN_PROTECTION"
=============================================================================
