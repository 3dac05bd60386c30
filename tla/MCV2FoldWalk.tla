--------------------------- MODULE MCV2FoldWalk ---------------------------
(***************************************************************************)
(* The walk over lists of records written to collide.  The outcome of the  *)
(* walk depends on the fold order only, so each family of records is given *)
(* in every order; one more family lets lamports tie.                      *)
(***************************************************************************)
EXTENDS V2FoldWalk, TLC

Rec(kind, author, issue, nonce, claim, ref, approver, tag) ==
  [kind |-> kind, author |-> author, lamport |-> 0, seq |-> 1, prev |-> None,
   epoch |-> 0, issue |-> issue, nonce |-> nonce, claim |-> claim, ref |-> ref,
   approver |-> approver, tag |-> tag]

\* Record n has hash n.
Shape ==
  <<Rec("open",     1, "i", None, None, None, None, None),
    Rec("claim",    1, "i", 1, None, None, None, None),
    Rec("claim",    2, "i", 2, None, None, None, None),
    Rec("release",  1, "i", 1, 2, None, None, None),
    Rec("complete", 2, "i", 2, 3, None, None, None),
    Rec("block",    1, "i", 1, 2, None, None, "awaiting_approval"),
    Rec("requeue",  2, "i", 1, None, 6, None, None),
    Rec("approval", 1, "i", None, None, 1, None, "approve"),
    Rec("consume",  1, "i", 1, 2, 8, 1, None),
    Rec("consume",  2, "i", 2, 3, 8, 1, None),
    Rec("handoff",  2, "i", 2, 3, None, None, None),
    Rec("open",     2, "i", None, None, None, None, None),
    Rec("release",  2, "i", 1, 2, None, None, None),
    Rec("block",    2, "i", 2, 3, None, None, "other"),
    Rec("requeue",  1, "i", 2, None, 14, None, None),
    Rec("approval", 2, "i", None, None, 1, None, "deny"),
    Rec("consume",  1, "i", 1, 2, 16, 2, None),
    Rec("consume",  1, "j", 1, 2, 8, 1, None)>>

Given(order) == [h \in DOMAIN order |-> [Shape[h] EXCEPT !.lamport = order[h]]]

Families == {{1, 2, 3, 4, 8, 9, 10}, {1, 2, 3, 4, 5, 10, 11}, {1, 2, 3, 6, 7, 12, 13},
             {1, 2, 3, 4, 14, 15}, {1, 2, 8, 16, 17, 18}}
Ties == [{1, 2, 3, 4, 5, 8, 9, 10} -> 1 .. 2]

MCInputs == {Given(order) : order \in Ties \cup UNION {Permutations(f) : f \in Families}}
=============================================================================
