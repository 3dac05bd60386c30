-------------------------- MODULE MCV2LamportCap --------------------------
(***************************************************************************)
(* Three authors with chains of up to three records and every assignment   *)
(* of lamports, so that horizons depend on one another across authors and  *)
(* lamports may fall along a chain.                                        *)
(***************************************************************************)
EXTENDS V2LamportCap

CONSTANTS MaxLamport, ChainLengths

Entry(a, n, lamport) ==
  [kind |-> "claim", author |-> a, lamport |-> lamport, seq |-> n, prev |-> None,
   epoch |-> 0, issue |-> "i", nonce |-> 1, claim |-> None, ref |-> None,
   approver |-> None, tag |-> None]

\* The hash of author a's n-th record.
Name(a, n) == 10 * a + n
Chains == {<<a, n>> \in Agent \X (1 .. 3) : n <= ChainLengths[a]}

MCHash == {Name(c[1], c[2]) : c \in Chains}
MCInputs == {[h \in MCHash |-> Entry(h \div 10, h % 10, lamports[h])] :
               lamports \in [MCHash -> 0 .. MaxLamport]}
MCChainLengths == <<3, 2, 1>>
=============================================================================
