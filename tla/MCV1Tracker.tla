--------------------------- MODULE MCV1Tracker ---------------------------
(***************************************************************************)
(* Two daemons and the API of one of them, on one task.                    *)
(***************************************************************************)
EXTENDS V1Tracker

CONSTANTS a1, a2

MCProc == (Agent \X {"loop", "beat"}) \cup {<<a1, "api">>}
MCView == {<<a1, a2>>}
MCApiOps == {"create", "claim", "handoff", "requeue"}

\* Every property holds trivially once one of the races happened.
NotYetRaced == ~blind /\ ~hidden
=============================================================================
