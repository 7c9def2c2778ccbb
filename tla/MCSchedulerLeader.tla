-------------------------- MODULE MCSchedulerLeader --------------------------
(* Three processes, or two and the return of one of them under a new name. *)
EXTENDS SchedulerLeader, TLC

Identical == Permutations(Node)
=============================================================================
