---------------------------- MODULE TradingPhases ----------------------------
(***************************************************************************)
(* PaperTrading with a history of the cycles that the scheduler begins, in *)
(* which one can say of a whole day what happened to its two phases: that  *)
(* of 09:55 and that of 18:15.  The history variable changes nothing of    *)
(* what the service does.                                                  *)
(***************************************************************************)
EXTENDS PaperTrading

VARIABLE
    begun   \* the phase whose cycle the scheduler began last; in a process
            \* that has begun none, the morning of the last completed cycle

phaseVars == <<vars, begun>>

(* A cycle is known by the time of its phase.                              *)
Phase(j) == 2 * j.day + (IF j.pc = "morning" THEN 0 ELSE 1)

Begins == job["scheduler"].pc = "idle" /\ job'["scheduler"].pc # "idle"

Completed == IF db.date = None THEN None ELSE 2 * db.date

Record ==
    begun' = IF ~up /\ up' THEN Completed
             ELSE IF Begins THEN Phase(job'["scheduler"])
             ELSE begun

HistoryInit == Init /\ begun = None

HistorySpec ==
    HistoryInit /\ [][Next /\ Record]_phaseVars /\ Fairness

-----------------------------------------------------------------------------
(* A process runs every phase at most once and in order, replayed or in its  *)
(* time: what the scheduler begins is later than all that this process began *)
(* before, and a process that is started anew begins with phases later than  *)
(* the last cycle whose completion is durable.  Cycles may fail, and the     *)
(* process may stop between a cycle's end and the statement that dates it.   *)
PhasesInOrder == [][Begins => Phase(job'["scheduler"]) > begun]_phaseVars
=============================================================================
