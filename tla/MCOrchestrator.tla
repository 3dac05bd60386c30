-------------------------- MODULE MCOrchestrator --------------------------
(***************************************************************************)
(* A daemon with one loop, and the orchestrator with concurrent callers.   *)
(***************************************************************************)
EXTENDS Orchestrator, TLC

\* At most one slot for work resumed in_progress.
MCStateCap == [s \in {"in_progress"} |-> 1]
TodoCap == [s \in {"todo"} |-> 2]
Callers == Permutations(Worker)
=============================================================================
