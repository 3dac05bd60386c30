---------------------------- MODULE MCV2Tracker ----------------------------
(***************************************************************************)
(* Two agents whose daemons share a list with one issue, from two starting *)
(* points.                                                                 *)
(***************************************************************************)
EXTENDS V2Tracker

CONSTANTS c1, c2, api

MCHash == {10 * a + n : a \in Agent, n \in 1 .. 9}
MCNonce == 1 .. 299

Rec(kind, a, lamport, seq, prev, ref, tag) ==
  [kind |-> kind, author |-> a, lamport |-> lamport, seq |-> seq, prev |-> prev, epoch |-> 0,
   issue |-> "i", nonce |-> None, claim |-> None, ref |-> ref, approver |-> None, tag |-> tag]

\* Agent 1 opened the issue and agent 2 approved it.
OpenedAndApproved ==
  [h \in {11, 21} |-> IF h = 11 THEN Rec("open", 1, 1, 1, None, None, None)
                                ELSE Rec("approval", 2, 2, 1, None, 11, "approve")]

MCOwner == [c \in Caller |-> IF c = c2 THEN 2 ELSE 1]
WorkOps == {"claim", "release", "handoff", "consume"}

\* Two daemons compete for the approved issue.
Dispatching == [preload |-> OpenedAndApproved, maxseq |-> <<4, 4>>,
                ops |-> [c \in Caller |-> WorkOps]]

\* From an empty list: agent 1 opens, claims and parks, agent 2 approves,
\* requeues and competes for the work.
Parking == [preload |-> [h \in {} |-> None], maxseq |-> <<3, 4>>,
            ops |-> [c \in Caller |-> IF c = c1 THEN {"create", "claim", "block", "consume"}
                                      ELSE {"approve", "requeue", "claim", "consume"}]]

\* The daemon's API and its orchestrator use one tracker.
Sharing == [preload |-> OpenedAndApproved, maxseq |-> <<4, 4>>,
            ops |-> [c \in Caller |-> IF c = api THEN {"approve"} ELSE WorkOps]]

DispatchingOrParking == {Dispatching, Parking}
JustSharing == {Sharing}
=============================================================================
