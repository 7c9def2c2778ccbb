-------------------------- MODULE MCUnifiedScheduler --------------------------
(* One job that needs the market and one that does not and comes after it. *)
EXTENDS UnifiedScheduler

CONSTANTS scan, report

MCJob == {scan, report}
MCTrading == {scan}
MCPriority == [j \in MCJob |-> IF j = scan THEN 2 ELSE 7]
===============================================================================
