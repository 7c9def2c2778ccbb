-------------------------- MODULE MCSchedulerLocks --------------------------
(* Two processes that both crash, delay and fail.                          *)
EXTENDS SchedulerLocks, TLC

Identical == Permutations(Node)
=============================================================================
