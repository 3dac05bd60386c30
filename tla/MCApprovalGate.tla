--------------------------- MODULE MCApprovalGate ---------------------------
EXTENDS ApprovalGate

CONSTANTS a1, a2, remote

\* Accepted with off, approve and auto; refused for want of signing or of ack.
MCWorkflows ==
  {[dispatch |-> d, legacy |-> TRUE, ack |-> k, required |-> None, signing |-> s] :
     d \in {"off", None, "auto"}, k \in {None, TRUE}, s \in {None, "required"}}
  \ [dispatch : {"off", "auto"}, legacy : {TRUE}, ack : {TRUE}, required : {None}, signing : {None}]

Once == {<<a1, 1>>}
Twice == {<<a1, 1>>, <<a1, 2>>}
\* Everyone knows the approver a1, which knows no other agent.
KnowsApprover == [a \in Agent |-> {a, a1, Remote}]

\* Everything but consent is excused once a write raced.
NotYetRaced == ~blind
=============================================================================
