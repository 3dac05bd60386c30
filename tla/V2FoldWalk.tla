---------------------------- MODULE V2FoldWalk ----------------------------
(***************************************************************************)
(* Phase 2 of fold_v2 (v2/fold.rs): the ordered walk over the admitted     *)
(* records, one record a step.  The loop of the code is a state machine in *)
(* its own right, and everything the v2 tracker believes about an issue is *)
(* the state in which the walk stops.                                      *)
(***************************************************************************)
EXTENDS V2Events

CONSTANT Inputs    \* the admitted sets the fold may be given

ASSUME InputsAreRecords ==
  \A E \in Inputs : DOMAIN E \subseteq Hash /\ \A h \in DOMAIN E : E[h] \in Event

VARIABLES
  admitted,             \* the admitted records: hash -> payload
  ordered,              \* the hashes the walk has still to visit
  issues,               \* folded issues
  effective_consumes,   \* approval hash -> hash of the consume that spent it
  losing_consumes,      \* consumes that did not win, in fold order
  handoffs,             \* recorded handoffs of each issue, in fold order
  rejections            \* phase-2 rejections

vars == <<admitted, ordered, issues, effective_consumes, losing_consumes,
          handoffs, rejections>>

Init ==
  /\ admitted \in Inputs
  /\ ordered = DOMAIN admitted
  /\ issues = [i \in Issue |-> AbsentIssue]
  /\ effective_consumes = [a \in {} |-> None]
  /\ losing_consumes = <<>>
  /\ handoffs = [i \in Issue |-> <<>>]
  /\ rejections = {}

-----------------------------------------------------------------------------
(* One iteration of the walk for each kind of payload.                      *)

WalkTransition(h) ==
  LET e == admitted[h]
      st == issues[e.issue]
  IN /\ e.kind \in TransitionKinds
     /\ \/ /\ TransitionApplies(st, e)
           /\ issues' = [issues EXCEPT ![e.issue] = ApplyTransition(st, h, e)]
           /\ UNCHANGED rejections
        \/ /\ ~TransitionApplies(st, e)
           /\ rejections' = rejections \cup {h}
           /\ UNCHANGED issues
     /\ UNCHANGED <<effective_consumes, losing_consumes, handoffs>>

\* Approvals were collected before the walk.
WalkApproval(h) ==
  /\ admitted[h].kind = "approval"
  /\ UNCHANGED <<issues, effective_consumes, losing_consumes, handoffs, rejections>>

WalkConsume(h) ==
  LET e == admitted[h]
      wins == ConsumeEffective(admitted, issues[e.issue], effective_consumes, e)
  IN /\ e.kind = "consume"
     /\ \/ /\ wins
           /\ effective_consumes' =
                [a \in DOMAIN effective_consumes \cup {e.ref} |->
                   IF a = e.ref THEN h ELSE effective_consumes[a]]
           /\ UNCHANGED losing_consumes
        \/ /\ ~wins
           /\ losing_consumes' = Append(losing_consumes, h)
           /\ UNCHANGED effective_consumes
     /\ UNCHANGED <<issues, handoffs, rejections>>

\* A losing handoff that is dropped without a rejection.
SilentWalkHandoff(h) ==
  LET e == admitted[h]
  IN /\ e.kind = "handoff"
     /\ handoffs' = IF HandoffFence(issues[e.issue], e)
                    THEN [handoffs EXCEPT ![e.issue] = Append(@, h)] ELSE handoffs
     /\ UNCHANGED <<issues, effective_consumes, losing_consumes, rejections>>

WalkHandoff(h) ==
  LET e == admitted[h]
  IN /\ e.kind = "handoff"
     /\ \/ /\ HandoffFence(issues[e.issue], e)
           /\ handoffs' = [handoffs EXCEPT ![e.issue] = Append(@, h)]
           /\ UNCHANGED rejections
        \/ /\ ~HandoffFence(issues[e.issue], e)
           /\ rejections' = rejections \cup {h}
           /\ UNCHANGED handoffs
     /\ UNCHANGED <<issues, effective_consumes, losing_consumes>>

Walk(h) ==
  /\ h \in ordered
  /\ \A g \in ordered \ {h} : Before(admitted, h, g)
  /\ ordered' = ordered \ {h}
  /\ UNCHANGED admitted
  /\ WalkTransition(h) \/ WalkApproval(h) \/ WalkConsume(h) \/ WalkHandoff(h)

Next == \E h \in ordered : Walk(h)

Spec == Init /\ [][Next]_vars

-----------------------------------------------------------------------------
(* What the walk promises.                                                  *)

TypeOK ==
  /\ DOMAIN admitted \subseteq Hash
  /\ \A h \in DOMAIN admitted : admitted[h] \in Event
  /\ ordered \subseteq DOMAIN admitted
  /\ issues \in [Issue -> IssueState]
  /\ DOMAIN effective_consumes \subseteq Hash
  /\ \A a \in DOMAIN effective_consumes : effective_consumes[a] \in Hash
  /\ losing_consumes \in Seq(Hash)
  /\ handoffs \in [Issue -> Seq(Hash)]
  /\ rejections \subseteq Hash

walked == DOMAIN admitted \ ordered
Elements(s) == {s[k] : k \in DOMAIN s}

\* A transition that may come directly after transition p in an issue's life.
Follows(E, p, h) ==
  LET q == E[p]
      e == E[h]
  IN \/ e.kind = "claim" /\ q.kind \in {"open", "release", "requeue"}
     \/ /\ e.kind \in {"release", "block", "complete"}
        /\ q.kind = "claim"
        /\ e.claim = p /\ e.nonce = q.nonce /\ e.author = q.author
     \/ /\ e.kind = "requeue"
        /\ q.kind = "block" /\ q.tag = "awaiting_approval"
        /\ e.ref = p /\ e.nonce = q.nonce

(***************************************************************************)
(* The applied events of an issue read as one exclusive lease after        *)
(* another: the log starts with an Open, a claim comes only when nobody    *)
(* holds the issue, and each claim is ended only by its own claimant naming *)
(* it; nothing follows a completion or a block that is not parked (the     *)
(* fences of apply_transition, check_claim_fence and apply_requeue).       *)
(***************************************************************************)
LeaseLog ==
  \A i \in Issue : \A k \in DOMAIN issues[i].applied :
    LET h == issues[i].applied[k]
    IN /\ h \in walked
       /\ admitted[h].issue = i
       /\ IF k = 1 THEN admitted[h].kind = "open" /\ issues[i].open = h
                   ELSE Follows(admitted, issues[i].applied[k - 1], h)

\* The part of an issue's applied log that precedes record h in fold order.
LogBefore(i, h) ==
  {k \in DOMAIN issues[i].applied : Before(admitted, issues[i].applied[k], h)}

(***************************************************************************)
(* Nothing is refused without cause.  A transition of the walk that was    *)
(* not applied could not have followed the events applied before it: an    *)
(* Open came after another Open, and any other transition came before the  *)
(* Open or does not follow the last applied event.  With LeaseLog this     *)
(* fixes the outcome of the walk, so replicas that admit the same records  *)
(* agree on every winner.                                                  *)
(***************************************************************************)
RejectedForCause ==
  \A h \in walked :
    LET e == admitted[h]
        log == issues[e.issue].applied
        before == LogBefore(e.issue, h)
    IN (e.kind \in TransitionKinds /\ h \notin Elements(log)) =>
         IF e.kind = "open" THEN before # {}
         ELSE \A k \in before :
                (\A j \in before : j <= k) => ~Follows(admitted, log[k], h)

(***************************************************************************)
(* The status the tracker projects is the one the last applied event       *)
(* implies: claimant, nonce and claim of a held issue are those of its     *)
(* last claim, and a parked issue remembers the claim it was parked under. *)
(***************************************************************************)
StatusOf(E, st) ==
  LET last == st.applied[Len(st.applied)]
      e == E[last]
  IN CASE st.status = "absent" -> st = AbsentIssue
       [] st.status = "open" -> st.applied # <<>> /\ e.kind \in {"open", "release", "requeue"}
       [] st.status = "claimed" ->
            /\ st.applied # <<>> /\ e.kind = "claim"
            /\ st.by = e.author /\ st.nonce = e.nonce /\ st.claim = last
       [] st.status = "blocked" ->
            /\ st.applied # <<>> /\ e.kind = "block"
            /\ st.by = e.author /\ st.nonce = e.nonce /\ st.claim = e.claim
            /\ st.event = last /\ st.reason = e.tag
       [] st.status = "done" ->
            st.applied # <<>> /\ e.kind = "complete" /\ st.by = e.author /\ st.event = last

StatusIsLastApplied == \A i \in Issue : StatusOf(admitted, issues[i])

(***************************************************************************)
(* A spent approval was spent by the claimant of an applied claim on the   *)
(* very content it approves, whatever happened to the claim afterwards     *)
(* (consume_effectiveness).                                                *)
(***************************************************************************)
SpentUnderLease ==
  \A a \in DOMAIN effective_consumes :
    LET h == effective_consumes[a]
        e == admitted[h]
        st == issues[e.issue]
    IN /\ h \in walked /\ e.kind = "consume" /\ e.ref = a
       /\ a \in Approvals(admitted)
       /\ admitted[a].tag = "approve" /\ admitted[a].author = e.approver
       /\ admitted[a].issue = e.issue /\ admitted[a].ref = st.open
       /\ e.claim \in Elements(st.applied)
       /\ admitted[e.claim].kind = "claim"
       /\ admitted[e.claim].author = e.author

(***************************************************************************)
(* Every record the walk passed has exactly one outcome: a transition is   *)
(* applied or rejected, a handoff recorded or rejected, a consume spends   *)
(* or is reported as losing.  None is dropped silently or counted twice.   *)
(***************************************************************************)
ExactlyOneOutcome ==
  \A h \in walked :
    LET e == admitted[h]
        spends == e.ref \in DOMAIN effective_consumes /\ effective_consumes[e.ref] = h
        loses == h \in Elements(losing_consumes)
    IN CASE e.kind \in TransitionKinds ->
              (h \in Elements(issues[e.issue].applied)) # (h \in rejections)
         [] e.kind = "handoff" ->
              (h \in Elements(handoffs[e.issue])) # (h \in rejections)
         [] e.kind = "consume" -> spends # loses
         [] OTHER -> h \notin rejections

(***************************************************************************)
(* A recorded handoff belongs to an applied claim of its author on that    *)
(* issue: a claimant that lost the race cannot attach its result.          *)
(***************************************************************************)
HandoffUnderLease ==
  \A i \in Issue : \A h \in Elements(handoffs[i]) :
    LET e == admitted[h]
    IN /\ e.claim \in Elements(issues[i].applied)
       /\ admitted[e.claim].kind = "claim"
       /\ admitted[e.claim].author = e.author

-----------------------------------------------------------------------------
(* The walk implements the abstract ledger of exclusive leases and single   *)
(* spends.                                                                  *)

LeaseOf(st) ==
  [status |-> CASE st.status = "absent" -> "absent"
                [] st.status = "open" -> "free"
                [] st.status = "claimed" -> "held"
                [] st.status = "blocked" /\ st.reason = "awaiting_approval" -> "parked"
                [] OTHER -> "closed",
   claim |-> IF st.status = "claimed" THEN st.claim ELSE None]

leases == [i \in Issue |-> LeaseOf(issues[i])]
grants == [i \in Issue |->
             {h \in Elements(issues[i].applied) : admitted[h].kind = "claim"}]
spends == [a \in DOMAIN effective_consumes |-> admitted[effective_consumes[a]].claim]

Ledger == INSTANCE V2Ledger WITH Claim <- Hash, Approval <- Hash,
                                 lease <- leases, granted <- grants, spent <- spends

\* Every step of the walk is a step of the ledger or changes nothing in it.
ImplementsLedger == Ledger!Spec
=============================================================================
