----------------------------- MODULE V2Events -----------------------------
(***************************************************************************)
(* The records of a tracker-integrity v2 list and the per-record rules of  *)
(* the fold's phase 2 (v2/events.rs, v2/fold.rs).                          *)
(*                                                                         *)
(* A record is content addressed: its event hash names it.  The contents   *)
(* of a set of records is therefore a function from hashes to payloads, so *)
(* two records with one hash are one record.  Titles, digests, signatures  *)
(* and encodings are abstracted away: a record here is one that passed     *)
(* envelope verification, and what remains of it is what the fold compares.*)
(***************************************************************************)
EXTENDS Integers, Sequences

CONSTANTS
  Agent,     \* agent ids; the fold compares them as strings, here as numbers
  Hash,      \* event hashes; likewise ordered
  Issue,     \* issue ids
  Nonce,     \* claim nonces
  None       \* the absent value of a field that a kind of record lacks

ASSUME NamesAreOrdered ==
  /\ Agent \subseteq Nat
  /\ Hash \subseteq Nat
  /\ None \notin Agent \cup Hash \cup Nonce

TransitionKinds == {"open", "claim", "release", "block", "complete", "requeue"}
RecordKinds == TransitionKinds \cup {"approval", "consume", "handoff"}

\* What a block or an approval says: BlockReason and ApprovalVerdictV2.
BlockReason == {"awaiting_approval", "other"}
ApprovalVerdict == {"approve", "deny"}

(***************************************************************************)
(* The four chained payloads share the chain and ordering fields; the      *)
(* others are None where a kind lacks them.                                *)
(*   claim     the claim event hash a release, block, complete, handoff or *)
(*             consume is fenced by                                        *)
(*   ref       what the record acts on: the Open event (approval), the     *)
(*             approval (consume), the Block event (requeue)               *)
(*   approver  whom a consume names                                        *)
(*   tag       a block's reason, an approval's verdict                     *)
(***************************************************************************)
Event == [kind: RecordKinds, author: Agent, lamport: Nat, seq: Nat \ {0},
          prev: Hash \cup {None}, epoch: Nat, issue: Issue,
          nonce: Nonce \cup {None}, claim: Hash \cup {None},
          ref: Hash \cup {None}, approver: Agent \cup {None},
          tag: BlockReason \cup ApprovalVerdict \cup {None}]

(***************************************************************************)
(* A folded issue.  "absent" is an id the fold has not opened.  event is   *)
(* the hash that put the issue in its status (the claim, the block, the    *)
(* completion); claim and nonce are those of the held or parked claim.     *)
(***************************************************************************)
IssueState ==
  [status: {"absent", "open", "claimed", "blocked", "done"},
   open: Hash \cup {None}, by: Agent \cup {None}, nonce: Nonce \cup {None},
   claim: Hash \cup {None}, event: Hash \cup {None},
   reason: BlockReason \cup ApprovalVerdict \cup {None}, applied: Seq(Hash)]

AbsentIssue == [status |-> "absent", open |-> None, by |-> None, nonce |-> None,
                claim |-> None, event |-> None, reason |-> None, applied |-> <<>>]

-----------------------------------------------------------------------------
(* Phase 2 order: ascending (lamport, author, event_hash).                  *)

Before(E, g, h) ==
  \/ E[g].lamport < E[h].lamport
  \/ /\ E[g].lamport = E[h].lamport
     /\ \/ E[g].author < E[h].author
        \/ E[g].author = E[h].author /\ g < h

-----------------------------------------------------------------------------
(* Claim fencing and the status changes of apply_transition.                *)

\* A fence that forgets to compare the actor with the claimant.
UnownedClaimFence(st, e) ==
  st.status = "claimed" /\ st.nonce = e.nonce /\ st.claim = e.claim

CheckClaimFence(st, e) ==
  /\ st.status = "claimed"
  /\ st.by = e.author
  /\ st.nonce = e.nonce
  /\ st.claim = e.claim

Opened(h) == [AbsentIssue EXCEPT !.status = "open", !.open = h, !.applied = <<h>>]

\* Back to claimable: nothing of the claim is kept.
ToOpen(st, h) ==
  [st EXCEPT !.status = "open", !.by = None, !.nonce = None, !.claim = None,
             !.event = None, !.reason = None, !.applied = Append(@, h)]

ToClaimed(st, h, e) ==
  [st EXCEPT !.status = "claimed", !.by = e.author, !.nonce = e.nonce,
             !.claim = h, !.event = h, !.applied = Append(@, h)]

\* A block that leaves the event of the claim in place.
ForgetfulBlock(st, h, e) ==
  [st EXCEPT !.status = "blocked", !.reason = e.tag, !.applied = Append(@, h)]

ToBlocked(st, h, e) ==
  [st EXCEPT !.status = "blocked", !.by = e.author, !.nonce = e.nonce,
             !.claim = e.claim, !.event = h, !.reason = e.tag,
             !.applied = Append(@, h)]

ToDone(st, h, e) ==
  [st EXCEPT !.status = "done", !.by = e.author, !.nonce = None, !.claim = None,
             !.event = h, !.applied = Append(@, h)]

\* A requeue that only the parked claimant may make.
OwnRequeueOnly(st, e) ==
  /\ st.status = "blocked" /\ st.reason = "awaiting_approval" /\ st.by = e.author
  /\ e.ref = st.event /\ e.nonce = st.nonce

RequeueAllowed(st, e) ==
  /\ st.status = "blocked"
  /\ st.reason = "awaiting_approval"
  /\ e.ref = st.event
  /\ e.nonce = st.nonce

Claimable(st) == st.status = "open"

\* The transition changes the issue; otherwise it is a phase-2 rejection.
TransitionApplies(st, e) ==
  \/ e.kind = "open" /\ st.status = "absent"
  \/ e.kind = "claim" /\ Claimable(st)
  \/ e.kind \in {"release", "block", "complete"} /\ CheckClaimFence(st, e)
  \/ e.kind = "requeue" /\ RequeueAllowed(st, e)

ApplyTransition(st, h, e) ==
  CASE e.kind = "open" -> Opened(h)
    [] e.kind = "claim" -> ToClaimed(st, h, e)
    [] e.kind \in {"release", "requeue"} -> ToOpen(st, h)
    [] e.kind = "block" -> ToBlocked(st, h, e)
    [] e.kind = "complete" -> ToDone(st, h, e)

-----------------------------------------------------------------------------
(* The approval ledger and the handoff ledger.                              *)

\* The approvals are collected from the whole set before the ordered walk.
Approvals(E) == {h \in DOMAIN E : E[h].kind = "approval"}

\* Effectiveness without the check that the approval is still unspent.
RespendingConsume(E, st, effective, e) ==
  /\ e.ref \in Approvals(E)
  /\ E[e.ref].issue = e.issue
  /\ E[e.ref].author = e.approver
  /\ E[e.ref].tag = "approve"
  /\ E[e.ref].ref = st.open
  /\ CheckClaimFence(st, e)

\* Effectiveness that takes a denial for an approval.
VerdictBlindConsume(E, st, effective, e) ==
  /\ e.ref \in Approvals(E) \ DOMAIN effective
  /\ E[e.ref].issue = e.issue
  /\ E[e.ref].author = e.approver
  /\ E[e.ref].ref = st.open
  /\ CheckClaimFence(st, e)

ConsumeEffective(E, st, effective, e) ==
  /\ e.ref \in Approvals(E)
  /\ E[e.ref].issue = e.issue
  /\ E[e.ref].author = e.approver
  /\ E[e.ref].tag = "approve"
  /\ st.status # "absent"
  /\ E[e.ref].ref = st.open
  /\ CheckClaimFence(st, e)
  /\ e.ref \notin DOMAIN effective

\* A handoff taken from anyone while the issue is claimed.
LooseHandoffFence(st, e) == st.status = "claimed"

HandoffFence(st, e) == CheckClaimFence(st, e)
=============================================================================
