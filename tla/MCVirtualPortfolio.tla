------------------------- MODULE MCVirtualPortfolio -------------------------
(* A small portfolio: two shares, prices that let one lot sell for less    *)
(* than its commission, a dividend with a rounding tie and a bonus ratio   *)
(* whose product binary floating point may truncate.                       *)
EXTENDS VirtualPortfolio

MCLots == {1, 4}
MCPrice == {1, 3}
MCCommission == {0, 2}
MCDeposits == {2}
MCDividends == {5}
MCBonusPct == {20, 100}
=============================================================================
