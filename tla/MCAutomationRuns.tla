--------------------------- MODULE MCAutomationRuns ---------------------------
(* An instance of AutomationRuns for TLC.                                  *)
EXTENDS AutomationRuns, TLC

CONSTANTS daily, once

(* Jobs meet in the worker's batch alone, so a run looks at one of them    *)
(* while the other waits for its time.                                     *)
Waits(j) == job[j] = Scheduled(j) /\ made[j] = 0 /\ (asked = Nothing \/ asked[2] # j)

OneJobAtATime == \E j \in Job : \A other \in Job \ {j} : Waits(other)
=============================================================================
