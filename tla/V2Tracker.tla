----------------------------- MODULE V2Tracker -----------------------------
(***************************************************************************)
(* The v2 tracker on several replicas (v2/tracker.rs, v2/gate.rs and the   *)
(* append side of v2/store.rs).  An operation folds what its replica can   *)
(* see, builds its record from that fold, appends it to the local author's *)
(* own store, and, where the code confirms, folds again.  Between the fold *)
(* and the append anything may happen: records arrive from peers one at a  *)
(* time and in any order, other callers of the same tracker append, and an *)
(* operation can fail or its process die after any of its steps.           *)
(*                                                                         *)
(* A caller is one flow of control that uses an agent's tracker: the       *)
(* orchestrator's loop, or a request of the daemon's API.  The tracker     *)
(* takes no lock around fold and append.                                   *)
(***************************************************************************)
EXTENDS V2Fold

CONSTANTS
  Caller,        \* flows of control
  Owner,         \* the agent whose tracker a caller uses
  Scenarios      \* starting points: the records every replica has seen (preload),
                 \* the operations each caller may start (ops), and a bound on
                 \* the length of each author's chain (maxseq)

ASSUME TrackerAssumption ==
  /\ Owner \in [Caller -> Agent]
  /\ \A s \in Scenarios :
       /\ s.maxseq \in [Agent -> Nat]
       /\ \A h \in DOMAIN s.preload : s.preload[h] \in Event

VARIABLES
  scenario,    \* the starting point of this behaviour
  ev,          \* contents of all records ever appended
  view,        \* the records each agent's x0xd holds
  call,        \* what each caller is doing
  proceeded    \* consumptions confirmed to their caller

vars == <<scenario, ev, view, call, proceeded>>

\* One roster: every agent, from genesis on.
Rosters == <<Agent>>

Idle == [op |-> "idle", queue |-> <<>>, hash |-> None]

Init ==
  /\ scenario \in Scenarios
  /\ ev = scenario.preload
  /\ view = [a \in Agent |-> DOMAIN ev]
  /\ call = [c \in Caller |-> Idle]
  /\ proceeded = {}

-----------------------------------------------------------------------------
(* Folding and building.                                                    *)

Fold(a) == FoldV2(ev, view[a], Rosters)

\* The chain and ordering fields of the record an author builds from a fold.
Build(a, out, kind, issue) ==
  LET link == NextChainLink(ev, out, a)
  IN [kind |-> kind, author |-> a, lamport |-> out.max_admitted_lamport + 1,
      seq |-> link[1], prev |-> link[2], epoch |-> out.epoch, issue |-> issue,
      nonce |-> None, claim |-> None, ref |-> None, approver |-> None, tag |-> None]

\* derive_claim_nonce: a function of author, seq, lamport and issue.
DeriveClaimNonce(e) == 100 * e.author + 10 * e.seq + e.lamport

\* The claim fence of the issue, if this agent holds it.
OwnFence(a, out, i) == out.issues[i].status = "claimed" /\ out.issues[i].by = a

Fenced(e, st) == [e EXCEPT !.nonce = st.nonce, !.claim = st.claim]

Starting(c, op) == call[c] = Idle /\ op \in scenario.ops[c]

Start(c, op, queue) ==
  /\ \A k \in DOMAIN queue : queue[k].seq <= scenario.maxseq[Owner[c]]
  /\ call' = [call EXCEPT ![c] = [op |-> op, queue |-> queue, hash |-> None]]
  /\ UNCHANGED <<scenario, ev, view, proceeded>>

-----------------------------------------------------------------------------
(* The operations: fold, check, build.                                      *)

CreateIssue(c, i) ==
  LET a == Owner[c]
  IN /\ Starting(c, "create")
     /\ \A h \in DOMAIN ev : ev[h].issue # i        \* ids are collision resistant
     /\ Start(c, "create", <<Build(a, Fold(a), "open", i)>>)

Claim(c, i) ==
  LET a == Owner[c]
      out == Fold(a)
      e == Build(a, out, "claim", i)
  IN /\ Starting(c, "claim")
     /\ out.issues[i].status = "open"
     /\ Start(c, "claim", <<[e EXCEPT !.nonce = DeriveClaimNonce(e)]>>)

Release(c, i) ==
  LET a == Owner[c]
      out == Fold(a)
  IN /\ Starting(c, "release")
     /\ OwnFence(a, out, i)
     /\ Start(c, "release", <<Fenced(Build(a, out, "release", i), out.issues[i])>>)

Block(c, i, reason) ==
  LET a == Owner[c]
      out == Fold(a)
      e == Fenced(Build(a, out, "block", i), out.issues[i])
  IN /\ Starting(c, "block")
     /\ OwnFence(a, out, i)
     /\ Start(c, "block", <<[e EXCEPT !.tag = reason]>>)

\* A handoff that completes the issue first and records the handoff after.
CompleteFirst(c, i) ==
  LET a == Owner[c]
      out == Fold(a)
      h == Fenced(Build(a, out, "complete", i), out.issues[i])
      d == Fenced(Build(a, out, "handoff", i), out.issues[i])
  IN /\ Starting(c, "handoff")
     /\ OwnFence(a, out, i)
     /\ Start(c, "handoff", <<h, [d EXCEPT !.lamport = @ + 1, !.seq = @ + 1]>>)

\* A handoff whose Complete takes the same seq as its Handoff.
SameSeqHandoff(c, i) ==
  LET a == Owner[c]
      out == Fold(a)
      h == Fenced(Build(a, out, "handoff", i), out.issues[i])
      d == Fenced(Build(a, out, "complete", i), out.issues[i])
  IN /\ Starting(c, "handoff")
     /\ OwnFence(a, out, i)
     /\ Start(c, "handoff", <<h, [d EXCEPT !.lamport = @ + 1]>>)

\* Two records: the second is built before the first is appended, and linked
\* to it when it is (prev is set by AppendNext).
Handoff(c, i) ==
  LET a == Owner[c]
      out == Fold(a)
      h == Fenced(Build(a, out, "handoff", i), out.issues[i])
      d == Fenced(Build(a, out, "complete", i), out.issues[i])
  IN /\ Starting(c, "handoff")
     /\ OwnFence(a, out, i)
     /\ Start(c, "handoff", <<h, [d EXCEPT !.lamport = @ + 1, !.seq = @ + 1]>>)

\* The local agent is the approver and embeds a signed approval of the block.
RequeueBlocked(c, i) ==
  LET a == Owner[c]
      out == Fold(a)
      st == out.issues[i]
      e == Build(a, out, "requeue", i)
  IN /\ Starting(c, "requeue")
     /\ st.status = "blocked" /\ st.reason = "awaiting_approval"
     /\ Start(c, "requeue", <<[e EXCEPT !.nonce = st.nonce, !.ref = st.event, !.approver = a]>>)

StoreApproval(c, i, verdict) ==
  LET a == Owner[c]
      out == Fold(a)
      e == Build(a, out, "approval", i)
  IN /\ Starting(c, verdict)
     /\ out.issues[i].status # "absent"
     /\ Start(c, verdict, <<[e EXCEPT !.ref = out.issues[i].open, !.tag = verdict]>>)

\* store_consumed and evaluate_and_consume.  The candidate is the first
\* unconsumed approval in event-hash order; hashes being arbitrary, any.
StoreConsumed(c, i) ==
  LET a == Owner[c]
      out == Fold(a)
      e == Fenced(Build(a, out, "consume", i), out.issues[i])
  IN /\ Starting(c, "consume")
     /\ OwnFence(a, out, i)
     /\ \E h \in UnconsumedApprovals(ev, out, i) :
          Start(c, "consume", <<[e EXCEPT !.ref = h, !.approver = ev[h].author]>>)

-----------------------------------------------------------------------------
(* Appending, confirming, failing, replicating.                             *)

\* Records with nothing but fold-derived fields: two callers that build them
\* from one fold build the same bytes, hence the same record.
Repeatable(e) == e.kind \in {"claim", "release", "complete"} \/ e.tag = "awaiting_approval"

\* The content address of payload e.
Address(e) ==
  LET same == {h \in DOMAIN ev : Repeatable(e) /\ ev[h] = e}
      n == Cardinality({h \in DOMAIN ev : ev[h].author = e.author})
  IN IF same # {} THEN CHOOSE h \in same : TRUE ELSE 10 * e.author + n + 1

\* put_once: the record is stored under its content address in the author's
\* own store, which the author's x0xd serves from then on.
PutOnce(a, h, e) ==
  /\ ev' = [x \in DOMAIN ev \cup {h} |-> IF x = h THEN e ELSE ev[x]]
  /\ view' = [view EXCEPT ![a] = @ \cup {h}]

\* Append the next record of the operation, then on to the next record of the
\* operation, to the confirming fold, or back to the caller.
AppendNext(c) ==
  LET a == Owner[c]
      e == Head(call[c].queue)
      h == Address(e)
      rest == Tail(call[c].queue)
  IN /\ call[c].queue # <<>>
     /\ PutOnce(a, h, e)
     /\ call' = [call EXCEPT ![c] =
          IF rest # <<>> THEN [@ EXCEPT !.queue = <<[Head(rest) EXCEPT !.prev = h]>>]
          ELSE IF call[c].op \in {"claim", "consume", "create"}
               THEN [@ EXCEPT !.queue = <<>>, !.hash = h]
          ELSE Idle]
     /\ UNCHANGED <<scenario, proceeded>>

Confirming(c, op) == call[c].op = op /\ call[c].queue = <<>>

Return(c) == call' = [call EXCEPT ![c] = Idle] /\ UNCHANGED <<scenario, ev, view>>

\* Whether it finds its own record or an error, the caller goes on from there:
\* what it may do next is decided by the fence of its next fold.
ConfirmClaim(c) ==
  /\ Confirming(c, "claim") \/ Confirming(c, "create")
  /\ Return(c)
  /\ UNCHANGED proceeded

\* A confirmation that trusts the append and does not fold again.
TrustingConfirm(c) ==
  LET h == call[c].hash
  IN /\ Confirming(c, "consume")
     /\ proceeded' = proceeded \cup {[by |-> c, consume |-> h, approval |-> ev[h].ref,
                                      claim |-> ev[h].claim, saw |-> view[Owner[c]]]}
     /\ Return(c)

ConfirmConsume(c) ==
  LET h == call[c].hash
      out == Fold(Owner[c])
      won == ev[h].ref \in DOMAIN out.effective /\ out.effective[ev[h].ref] = h
  IN /\ Confirming(c, "consume")
     /\ \/ /\ won
           /\ proceeded' = proceeded \cup
                {[by |-> c, consume |-> h, approval |-> ev[h].ref,
                  claim |-> ev[h].claim, saw |-> view[Owner[c]]]}
        \/ ~won /\ UNCHANGED proceeded
     /\ Return(c)

\* An operation ends early: an error of x0xd, a timeout after the write took
\* effect, or the death of the process.  What was appended stays.
Fail(c) ==
  /\ call[c] # Idle
  /\ Return(c)
  /\ UNCHANGED proceeded

\* One record of a peer's store arrives.
Deliver(a, h) ==
  /\ h \in DOMAIN ev \ view[a]
  /\ view' = [view EXCEPT ![a] = @ \cup {h}]
  /\ UNCHANGED <<scenario, ev, call, proceeded>>

Operate(c) ==
  \/ \E i \in Issue :
       \/ CreateIssue(c, i) \/ Claim(c, i) \/ Release(c, i) \/ Handoff(c, i)
       \/ RequeueBlocked(c, i) \/ StoreConsumed(c, i)
       \/ \E reason \in BlockReason : Block(c, i, reason)
       \/ \E verdict \in ApprovalVerdict : StoreApproval(c, i, verdict)
  \/ AppendNext(c) \/ ConfirmClaim(c) \/ ConfirmConsume(c) \/ Fail(c)

Next == (\E c \in Caller : Operate(c)) \/ \E a \in Agent, h \in DOMAIN ev : Deliver(a, h)

Spec == Init /\ [][Next]_vars

-----------------------------------------------------------------------------
(* Properties.                                                              *)

(***************************************************************************)
(* A replica never takes back a record it has admitted: whatever arrives,  *)
(* in whatever order, the admitted set only grows, because an author's     *)
(* chain is extended only from a fold that holds all of it (next_chain_link)*)
(* and lamports are taken from an admitted maximum.                        *)
(***************************************************************************)
AdmittedOnlyGrows ==
  [][\A a \in Agent : Admitted(ev, view[a], Rosters) \subseteq
                      Admitted(ev', view'[a], Rosters)]_vars

(***************************************************************************)
(* No replica ever surfaces fork evidence against an author that follows   *)
(* the protocol: fork evidence is "self-authenticating proof of            *)
(* equivocation" (read_and_fold).                                          *)
(***************************************************************************)
NoForkEvidence == \A a \in Agent : Forks(ev, AdmitEvent(ev, view[a], Rosters)) = {}

(***************************************************************************)
(* On every replica and at every moment of replication, an issue shown as  *)
(* done carries the handoff of the claim that completed it: handoff writes *)
(* the Handoff before the Complete, and the chain admits them in order.    *)
(***************************************************************************)
DoneCarriesHandoff ==
  \A a \in Agent : LET out == Fold(a) IN
    \A i \in Issue : out.issues[i].status = "done" =>
      \E h \in out.handoffs : ev[h].claim = ev[out.issues[i].event].claim

(***************************************************************************)
(* One approval dispatches twice only if the first dispatcher had not yet  *)
(* received the claim the second acted under: the confirming fold leaves   *)
(* no window but that of a record still in flight.                         *)
(***************************************************************************)
DoubleDispatchNeedsUnseenClaim ==
  \A p, q \in proceeded :
    p.approval = q.approval /\ p.consume # q.consume =>
      q.claim \notin p.saw \/ p.claim \notin q.saw

(***************************************************************************)
(* A caller is told to proceed only on a consumption that its own replica  *)
(* still holds effective when all records have arrived, or that lost to an *)
(* earlier claim it had not received.                                      *)
(***************************************************************************)
ProceedIsSpent ==
  LET out == FoldV2(ev, DOMAIN ev, Rosters)
  IN \A p \in proceeded :
       \/ p.approval \in DOMAIN out.effective /\ out.effective[p.approval] = p.consume
       \/ \E h \in DOMAIN ev \ p.saw : ev[h].kind = "claim" /\ Before(ev, h, p.claim)
=============================================================================
