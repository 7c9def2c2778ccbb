----------------------------- MODULE MCEodExits -----------------------------
(***************************************************************************)
(* Two positions, with the thresholds of FROZEN_PARAMS and a loss at the   *)
(* hard stop, a gain at the lock and one above every activation.           *)
(***************************************************************************)
EXTENDS EodExits

MCHardStop == -65
MCPnl == {-65, 10, 120}
=============================================================================
