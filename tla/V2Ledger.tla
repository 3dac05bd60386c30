----------------------------- MODULE V2Ledger -----------------------------
(***************************************************************************)
(* What the v2 fold promises of a list, without records or order: each     *)
(* issue is held under at most one claim at a time, a claim is granted at  *)
(* most once, and an approval is spent at most once, under a held claim.   *)
(***************************************************************************)
CONSTANTS Issue, Claim, Approval, None

VARIABLES
  lease,     \* what each issue is: absent, free, held under a claim, ...
  granted,   \* the claims each issue was ever granted to
  spent      \* spent approval -> the claim it was spent under

ledger == <<lease, granted, spent>>

Idle(status) == [status |-> status, claim |-> None]

Init ==
  /\ lease = [i \in Issue |-> Idle("absent")]
  /\ granted = [i \in Issue |-> {}]
  /\ spent = [a \in {} |-> None]

Create(i) ==
  /\ lease[i].status = "absent"
  /\ lease' = [lease EXCEPT ![i] = Idle("free")]
  /\ UNCHANGED <<granted, spent>>

Grant(i, c) ==
  /\ lease[i].status = "free"
  /\ \A j \in Issue : c \notin granted[j]
  /\ lease' = [lease EXCEPT ![i] = [status |-> "held", claim |-> c]]
  /\ granted' = [granted EXCEPT ![i] = @ \cup {c}]
  /\ UNCHANGED spent

\* Released, parked for an approval, or closed for good.
End(i) ==
  /\ lease[i].status = "held"
  /\ \E status \in {"free", "parked", "closed"} :
       lease' = [lease EXCEPT ![i] = Idle(status)]
  /\ UNCHANGED <<granted, spent>>

Unpark(i) ==
  /\ lease[i].status = "parked"
  /\ lease' = [lease EXCEPT ![i] = Idle("free")]
  /\ UNCHANGED <<granted, spent>>

Spend(i, a) ==
  /\ lease[i].status = "held"
  /\ a \notin DOMAIN spent
  /\ spent' = [b \in DOMAIN spent \cup {a} |->
                 IF b = a THEN lease[i].claim ELSE spent[b]]
  /\ UNCHANGED <<lease, granted>>

Next ==
  \E i \in Issue :
    \/ Create(i) \/ End(i) \/ Unpark(i)
    \/ \E c \in Claim : Grant(i, c)
    \/ \E a \in Approval : Spend(i, a)

Spec == Init /\ [][Next]_ledger
=============================================================================
