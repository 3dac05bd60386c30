------------------------------ MODULE V2Fold ------------------------------
(***************************************************************************)
(* fold_v2 (v2/fold.rs) as a function of the records a replica can see,    *)
(* for the modules in which replicas act on it.  V2FoldWalk and            *)
(* V2LamportCap study its two loops one iteration at a time; here each is  *)
(* one operator.                                                           *)
(***************************************************************************)
EXTENDS V2Events, FiniteSets

CONSTANT Skew      \* LAMPORT_MAX_SKEW

-----------------------------------------------------------------------------
(* Phase 1: admission.                                                      *)

\* Membership at the epoch the record names; a requeue's approver as well.
AdmitEvent(E, S, rosters) ==
  {h \in S : /\ E[h].epoch + 1 \in DOMAIN rosters
             /\ E[h].author \in rosters[E[h].epoch + 1]
             /\ E[h].kind = "requeue" => E[h].approver \in rosters[E[h].epoch + 1]}

AtSeq(E, C, a, n) == {h \in C : E[h].author = a /\ E[h].seq = n}

\* Seq n of author a is filled by one record that links to its predecessor.
Linked(E, C, a, n) ==
  LET at == AtSeq(E, C, a, n)
  IN /\ Cardinality(at) = 1
     /\ \A h \in at : IF n = 1 THEN E[h].prev = None
                       ELSE E[h].prev \in AtSeq(E, C, a, n - 1)

\* Fork evidence: an author's chain reaches a seq that two signed records fill.
Forks(E, C) ==
  {<<E[h].author, E[h].seq>> :
     h \in {x \in C : /\ AtSeq(E, C, E[x].author, E[x].seq) # {x}
                      /\ \A n \in 1 .. E[x].seq - 1 : Linked(E, C, E[x].author, n)}}

\* The prefix of each author's chain before its first gap, fork or broken link.
ChainAuthor(E, C) ==
  {h \in C : \A n \in 1 .. E[h].seq : Linked(E, C, E[h].author, n)}

\* One pass of the lamport cap: what is out of reach of C falls, and with it
\* the rest of its author's chain.  A pass of the code may remove more, as its
\* running maximum leaves out what the pass has marked; both loops end at the one
\* greatest self-sustaining set (V2LamportCapProofs: CapSound, CapComplete).
CapPass(E, C) ==
  LET far == {h \in C : /\ E[h].lamport > Skew
                        /\ \A g \in C : \/ E[g].lamport >= E[h].lamport
                                        \/ E[h].lamport > E[g].lamport + Skew}
  IN {h \in C : \A g \in far : E[g].author = E[h].author => E[g].seq > E[h].seq}

ApplyLamportCap(E, C) ==
  LET cap[S \in SUBSET C] == LET left == CapPass(E, S)
                             IN IF left = S THEN S ELSE cap[left]
  IN cap[C]

Admitted(E, S, rosters) == ApplyLamportCap(E, ChainAuthor(E, AdmitEvent(E, S, rosters)))

-----------------------------------------------------------------------------
(* Phase 2: the ordered walk.                                               *)

WalkStart == [issues |-> [i \in Issue |-> AbsentIssue], effective |-> [a \in {} |-> None],
              handoffs |-> {}]

\* E is the admitted contents; w what the walk has made of the records before h.
WalkStep(E, w, h) ==
  LET e == E[h]
      st == w.issues[e.issue]
  IN CASE e.kind \in TransitionKinds /\ TransitionApplies(st, e) ->
            [w EXCEPT !.issues[e.issue] = ApplyTransition(st, h, e)]
       [] e.kind = "consume" /\ ConsumeEffective(E, st, w.effective, e) ->
            [w EXCEPT !.effective = [a \in DOMAIN @ \cup {e.ref} |->
                                       IF a = e.ref THEN h ELSE @[a]]]
       [] e.kind = "handoff" /\ HandoffFence(st, e) ->
            [w EXCEPT !.handoffs = @ \cup {h}]
       [] OTHER -> w

\* The walk over a set of records, least first.
WalkAll(E) ==
  LET least(S) == CHOOSE h \in S : \A g \in S \ {h} : Before(E, h, g)
      after[n \in 0 .. Cardinality(DOMAIN E)] ==
        IF n = 0 THEN [rest |-> DOMAIN E, w |-> WalkStart]
        ELSE LET p == after[n - 1]
                 h == least(p.rest)
             IN [rest |-> p.rest \ {h}, w |-> WalkStep(E, p.w, h)]
  IN after[Cardinality(DOMAIN E)].w

Largest(S) == CHOOSE n \in S : \A m \in S : m <= n

\* What fold_v2 makes of the records S, and what an author needs of it to append.
FoldV2(E, S, rosters) ==
  LET adm == Admitted(E, S, rosters)
      A == [h \in adm |-> E[h]]
      w == WalkAll(A)
  IN [admitted |-> adm,
      approvals |-> Approvals(A),
      issues |-> w.issues,
      effective |-> w.effective,
      handoffs |-> w.handoffs,
      forks |-> Forks(E, AdmitEvent(E, S, rosters)),
      epoch |-> Len(rosters) - 1,
      max_admitted_lamport |-> Largest({0} \cup {E[h].lamport : h \in adm})]

-----------------------------------------------------------------------------
(* What an author reads off the fold before it appends.                     *)

\* A link that takes the tip's own place instead of the one after it.
TipLink(E, out, a) ==
  LET own == {h \in out.admitted : E[h].author = a}
  IN IF own = {} THEN <<1, None>>
     ELSE LET tip == CHOOSE h \in own : \A g \in own : E[g].seq <= E[h].seq
          IN <<E[tip].seq, E[tip].prev>>

\* (next author_seq, prev_own_event_hash)
NextChainLink(E, out, a) ==
  LET own == {h \in out.admitted : E[h].author = a}
  IN IF own = {} THEN <<1, None>>
     ELSE LET tip == CHOOSE h \in own : \A g \in own : E[g].seq <= E[h].seq
          IN <<E[tip].seq + 1, tip>>

Denied(E, out, i) ==
  \E h \in out.approvals : /\ E[h].issue = i /\ E[h].tag = "deny"
                           /\ E[h].ref = out.issues[i].open

UnconsumedApprovals(E, out, i) ==
  IF out.issues[i].status = "absent" \/ Denied(E, out, i) THEN {}
  ELSE {h \in out.approvals : /\ E[h].issue = i /\ E[h].tag = "approve"
                              /\ E[h].ref = out.issues[i].open
                              /\ h \notin DOMAIN out.effective}
=============================================================================
