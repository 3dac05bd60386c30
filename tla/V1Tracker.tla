----------------------------- MODULE V1Tracker -----------------------------
(***************************************************************************)
(* The v1 tracker: one task of an x0xd TaskList and its sidecar blobs,     *)
(* used by the daemons and API handlers of several agents.                 *)
(*                                                                         *)
(* A tracker call reads, checks, and then writes with one request after    *)
(* the other, each a step, so what it read may have changed when it        *)
(* writes.  The requests of one listing are a single step: whatever they   *)
(* interleave with, they show the issue as it was at one instant between   *)
(* them.  The keys of different tasks are disjoint, hence one task.  The   *)
(* store is one copy: a lagging replica shows as the time between a call's *)
(* read and its write.                                                     *)
(***************************************************************************)
EXTENDS Naturals, FiniteSets, Sequences

CONSTANTS
  Agent,          \* agents, each with one daemon
  Proc,           \* <<agent, role>>: "loop", "beat", or an API request's name
  ApiOps,         \* what the API requests do
  Policies,       \* signing policies considered: "disabled", "required"
  View,           \* the slates a new issue can get, primary first
  MaxClaims,      \* bound: claims made
  MaxFaults,      \* bound: crashes and failed requests
  None

VARIABLES
  signing,        \* the signing policy, the same for all daemons
  task,           \* x0xd task state: "none" before it is added
  claimBlob,      \* claim-<task>
  handoffBlob,    \* handoff-<task>: the handoff stored last
  shardBlob,      \* shard-<task>: the slate
  provenance,     \* provenance-<task>: the signer
  call,           \* call[p]: the tracker call p is inside
  up,             \* up[a]: the daemon of a runs
  held,           \* held[a]: the claim the daemon of a runs under
  late,           \* PUTs sent by calls that were aborted
  made,           \* claims made
  faults,
  blind,          \* some PUT landed on blobs other than the ones its call read
  hidden          \* some claim was made while the list hid another agent's

store == <<signing, task, claimBlob, handoffBlob, shardBlob, provenance>>
vars == <<store, call, up, held, late, made, faults, blind, hidden>>

ASSUME ProcAssumption ==
  /\ Proc \subseteq Agent \X STRING
  /\ \A a \in Agent : <<a, "loop">> \in Proc /\ <<a, "beat">> \in Proc
ASSUME PoliciesAssumption == Policies \subseteq {"disabled", "required"}

-----------------------------------------------------------------------------
\* Blobs and the issue they describe.

Claim == [by : Agent, n : 1 .. MaxClaims]
Status == {"active", "released", "completed", "blocked"}
Reason == {"awaiting_approval", "retry_exhausted"}
ClaimBlob == [status : Status, claim : Claim, reason : Reason \cup {None}, fresh : BOOLEAN]
Handoff == [by : Agent, via : Proc]    \* what the run, or the API request, handed off

ASSUME BoundsAssumption == MaxClaims \in Nat /\ MaxFaults \in Nat
ASSUME NoneAssumption == None \notin Claim \cup ClaimBlob \cup Handoff \cup (Status \X Claim)

Blob(status, claim, reason) ==
  [status |-> status, claim |-> claim, reason |-> reason, fresh |-> TRUE]

HasStatus(status) == claimBlob # None /\ claimBlob.status = status

\* Blocked wins over a handoff, a handoff over a release, a release over the
\* checkbox state of the task.
IssueState ==
  IF HasStatus("blocked") THEN "blocked"
  ELSE IF handoffBlob # None THEN "review"
  ELSE IF HasStatus("released") THEN "todo"
  ELSE CASE task = "claimed" -> "in_progress"
         [] task = "done" -> "done"
         [] OTHER -> "todo"

ActiveClaim == IF handoffBlob = None /\ HasStatus("active") THEN claimBlob.claim ELSE None

\* The daemon resolves keys with the client that signs for it, which knows the
\* local agent's key and rejects every other signer.
Resolves(a, signer) == signing = "disabled" \/ a = signer

\* An issue as agent a lists it: a claim that does not verify is stripped, an
\* issue whose handoff does not verify is dropped.
Visible(a) == task # "none" /\ (handoffBlob # None => Resolves(a, handoffBlob.by))
Stripped(a) == ActiveClaim # None /\ ~Resolves(a, ActiveClaim.by)
ListedClaim(a) == IF Stripped(a) THEN None ELSE ActiveClaim
ListedState(a) == IF Stripped(a) /\ IssueState = "in_progress" THEN "todo" ELSE IssueState

\* Mutants: the check misses the claim; the check misses the state.
ClaimableInProgress(a) == Visible(a) /\ ListedState(a) \in {"todo", "in_progress"}
ClaimableInAnyState(a) == Visible(a) /\ ListedClaim(a) = None

Claimable(a) == Visible(a) /\ ListedClaim(a) = None /\ ListedState(a) = "todo"

\* What a call's PUT overwrites, heartbeat time aside.
OnRecord == <<IF claimBlob = None THEN None ELSE <<claimBlob.status, claimBlob.claim>>,
              handoffBlob>>

-----------------------------------------------------------------------------
\* Calls.

Idle == [op |-> "none", pc |-> "none", claim |-> None, reason |-> None, basis |-> None]

Goto(p, pc) == call' = [call EXCEPT ![p].pc = pc]
Done(p) == call' = [call EXCEPT ![p] = Idle]

Loop(a) == <<a, "loop">>
Beat(a) == <<a, "beat">>
IsLoop(p) == p[2] = "loop"
IsApi(p) == p[2] \notin {"loop", "beat"}
CanCall(p, op) == p \in Proc /\ call[p] = Idle /\ IsApi(p) /\ op \in ApiOps

Writing(op, pc, c, reason) ==
  [op |-> op, pc |-> pc, claim |-> c, reason |-> reason, basis |-> OnRecord]

\* The status the last PUT of a call gives the claim blob.
Writes(op) ==
  CASE op \in {"claim", "heartbeat"} -> "active"
    [] op = "handoff" -> "completed"
    [] op = "block" -> "blocked"
    [] OTHER -> "released"

LastPut(p) == Blob(Writes(call[p].op), call[p].claim, call[p].reason)

\* Aborting a call cannot recall a PUT it has sent.
Sent(P) == {[blob |-> LastPut(p), basis |-> call[p].basis] : p \in {q \in P : call[q].pc = "put"}}

-----------------------------------------------------------------------------
Init ==
  /\ signing \in Policies
  /\ task = "none"
  /\ claimBlob = None
  /\ handoffBlob = None
  /\ shardBlob = None
  /\ provenance = None
  /\ call = [p \in Proc |-> Idle]
  /\ up = [a \in Agent |-> TRUE]
  /\ held = [a \in Agent |-> None]
  /\ late = {}
  /\ made = 0
  /\ faults = 0
  /\ blind = FALSE
  /\ hidden = FALSE

\* create_issue: add the task, then its shard, then its provenance.
CreateTask(p) ==
  /\ CanCall(p, "create") /\ task = "none"
  /\ task' = "empty"
  /\ call' = [call EXCEPT ![p].op = "create", ![p].pc = "shard"]
  /\ UNCHANGED <<signing, claimBlob, handoffBlob, shardBlob, provenance, up, held, late, made, faults, blind, hidden>>

CreateShard(p) ==
  /\ call[p].pc = "shard"
  /\ \E slate \in View : shardBlob' = slate
  /\ IF signing = "required" THEN Goto(p, "provenance") ELSE Done(p)
  /\ UNCHANGED <<signing, task, claimBlob, handoffBlob, provenance, up, held, late, made, faults, blind, hidden>>

CreateProvenance(p) ==
  /\ call[p].pc = "provenance"
  /\ provenance' = p[1]
  /\ Done(p)
  /\ UNCHANGED <<signing, task, claimBlob, handoffBlob, shardBlob, up, held, late, made, faults, blind, hidden>>

\* A sidecar that cannot be written leaves the task completed.
CreateCleanup(p) ==
  /\ call[p].pc \in {"shard", "provenance"}
  /\ faults < MaxFaults
  /\ faults' = faults + 1
  /\ task' = "done"
  /\ Done(p)
  /\ UNCHANGED <<signing, claimBlob, handoffBlob, shardBlob, provenance, up, held, late, made, blind, hidden>>

-----------------------------------------------------------------------------
\* claim: list and check, PATCH the task, PUT the blob.

ClaimCheck(p) ==
  /\ \/ IsLoop(p) /\ call[p] = Idle /\ up[p[1]] /\ held[p[1]] = None
     \/ CanCall(p, "claim")
  /\ Claimable(p[1])
  /\ made < MaxClaims
  /\ made' = made + 1
  /\ hidden' = (hidden \/ Stripped(p[1]))
  /\ call' = [call EXCEPT ![p] = Writing("claim", "patch", [by |-> p[1], n |-> made + 1], None)]
  /\ UNCHANGED <<store, up, held, late, faults, blind>>

\* Mutant: the claim is not written.
ClaimPatchOnly(p) ==
  /\ call[p].pc = "patch"
  /\ task' = "claimed"
  /\ Done(p)
  /\ UNCHANGED <<signing, claimBlob, handoffBlob, shardBlob, provenance, up, held, late, made, faults, blind, hidden>>

ClaimPatch(p) ==
  /\ call[p].pc = "patch"
  /\ task' = "claimed"
  /\ Goto(p, "put")
  /\ UNCHANGED <<signing, claimBlob, handoffBlob, shardBlob, provenance, up, held, late, made, faults, blind, hidden>>

-----------------------------------------------------------------------------
\* Calls on a claim: check that its owner has the active one, then PUT.

Owns(c) == HasStatus("active") /\ claimBlob.claim.by = c.by

Heartbeat(a) ==
  /\ held[a] # None
  /\ call[Loop(a)] = Idle /\ call[Beat(a)] = Idle
  /\ Owns(held[a])
  /\ call' = [call EXCEPT ![Beat(a)] = Writing("heartbeat", "put", held[a], None)]
  /\ UNCHANGED <<store, up, held, late, made, faults, blind, hidden>>

\* The end of a run aborts the heartbeat and hands off, blocks or releases.
\* A daemon whose claim is no longer its own stops.
EndRun(a) ==
  /\ held[a] # None /\ call[Loop(a)] = Idle
  /\ late' = late \cup Sent({Beat(a)})
  /\ \/ /\ Owns(held[a])
        /\ \E c \in {Writing("release", "put", held[a], None), Writing("handoff", "handoff", held[a], None)}
                    \cup {Writing("block", "put", held[a], reason) : reason \in Reason} :
             call' = [call EXCEPT ![Loop(a)] = c, ![Beat(a)] = Idle]
        /\ UNCHANGED <<up, held>>
     \/ /\ ~Owns(held[a])
        /\ call' = [call EXCEPT ![Beat(a)] = Idle]
        /\ up' = [up EXCEPT ![a] = FALSE]
        /\ held' = [held EXCEPT ![a] = None]
  /\ UNCHANGED <<store, made, faults, blind, hidden>>

\* The API's handoff request hands off whatever claim the issue shows, which
\* the tracker checks against the claim blob alone; only the local agent's
\* handoffs can be signed.
ApiHandoff(p) ==
  /\ CanCall(p, "handoff")
  /\ Visible(p[1]) /\ ListedClaim(p[1]) # None
  /\ Resolves(p[1], ListedClaim(p[1]).by)
  /\ call' = [call EXCEPT ![p] = Writing("handoff", "check", ListedClaim(p[1]), None)]
  /\ UNCHANGED <<store, up, held, late, made, faults, blind, hidden>>

CheckOwner(p) ==
  /\ call[p].pc = "check"
  /\ IF Owns(call[p].claim)
     THEN call' = [call EXCEPT ![p] = Writing("handoff", "handoff", call[p].claim, None)]
     ELSE Done(p)
  /\ UNCHANGED <<store, up, held, late, made, faults, blind, hidden>>

PutHandoff(p) ==
  /\ call[p].pc = "handoff"
  /\ handoffBlob' = [by |-> call[p].claim.by, via |-> p]
  /\ blind' = (blind \/ OnRecord # call[p].basis)
  /\ call' = [call EXCEPT ![p].pc = "complete", ![p].basis[2] = handoffBlob']
  /\ UNCHANGED <<signing, task, claimBlob, shardBlob, provenance, up, held, late, made, faults, hidden>>

CompleteTask(p) ==
  /\ call[p].pc = "complete"
  /\ task' = "done"
  /\ Goto(p, "put")
  /\ UNCHANGED <<signing, claimBlob, handoffBlob, shardBlob, provenance, up, held, late, made, faults, blind, hidden>>

\* Mutant: any claim is requeued.
RequeueAny(p) ==
  /\ CanCall(p, "requeue")
  /\ claimBlob # None
  /\ call' = [call EXCEPT ![p] = Writing("requeue", "put", claimBlob.claim, None)]
  /\ UNCHANGED <<store, up, held, late, made, faults, blind, hidden>>

\* requeue_blocked puts an issue parked for approval back to todo.
Requeue(p) ==
  /\ CanCall(p, "requeue")
  /\ HasStatus("blocked") /\ claimBlob.reason = "awaiting_approval"
  /\ call' = [call EXCEPT ![p] = Writing("requeue", "put", claimBlob.claim, None)]
  /\ UNCHANGED <<store, up, held, late, made, faults, blind, hidden>>

\* The last request of a call.
PutClaim(p) ==
  /\ call[p].pc = "put"
  /\ claimBlob' = LastPut(p)
  /\ blind' = (blind \/ OnRecord # call[p].basis)
  /\ Done(p)
  /\ held' = IF ~IsLoop(p) THEN held
             ELSE [held EXCEPT ![p[1]] = IF call[p].op = "claim" THEN call[p].claim ELSE None]
  /\ UNCHANGED <<signing, task, handoffBlob, shardBlob, provenance, up, late, made, faults, hidden>>

-----------------------------------------------------------------------------
\* Restart.

\* reconcile releases a stale claim of the daemon's own and keeps any other.
\* Its branches for a stale primary and for duplicate claims need a claim with
\* a shard role and two claims of one issue; this tracker writes every claim
\* with the manual role, under one key, so they are never taken.
Restart(a) ==
  /\ ~up[a] /\ call[Loop(a)] = Idle
  /\ up' = [up EXCEPT ![a] = TRUE]
  /\ LET c == IF Visible(a) THEN ListedClaim(a) ELSE None
     IN  call' = IF c # None /\ c.by = a /\ ~claimBlob.fresh
                 THEN [call EXCEPT ![Loop(a)] = Writing("expire", "put", c, None)]
                 ELSE call
  /\ UNCHANGED <<store, held, late, made, faults, blind, hidden>>

-----------------------------------------------------------------------------
\* Faults and time.

LatePut ==
  \E x \in late :
    /\ late' = late \ {x}
    /\ claimBlob' = x.blob
    /\ blind' = (blind \/ OnRecord # x.basis)
    /\ UNCHANGED <<signing, task, handoffBlob, shardBlob, provenance, call, up, held, made, faults, hidden>>

\* A request that fails ends its call.  A daemon that cannot end its run
\* stops; a failed claim, heartbeat or reconciliation is ignored.
RequestFails(p) ==
  /\ call[p].pc \in {"patch", "put", "check", "handoff", "complete"}
  /\ faults < MaxFaults
  /\ faults' = faults + 1
  /\ late' = late \cup Sent({p})
  /\ Done(p)
  /\ IF IsLoop(p) /\ held[p[1]] # None
     THEN up' = [up EXCEPT ![p[1]] = FALSE] /\ held' = [held EXCEPT ![p[1]] = None]
     ELSE UNCHANGED <<up, held>>
  /\ UNCHANGED <<store, made, blind, hidden>>

Crash(a) ==
  /\ up[a] /\ faults < MaxFaults
  /\ faults' = faults + 1
  /\ up' = [up EXCEPT ![a] = FALSE]
  /\ held' = [held EXCEPT ![a] = None]
  /\ late' = late \cup Sent({p \in Proc : p[1] = a})
  /\ call' = [p \in Proc |-> IF p[1] = a THEN Idle ELSE call[p]]
  /\ UNCHANGED <<store, made, blind, hidden>>

Expire ==
  /\ HasStatus("active") /\ claimBlob.fresh
  /\ claimBlob' = [claimBlob EXCEPT !.fresh = FALSE]
  /\ UNCHANGED <<signing, task, handoffBlob, shardBlob, provenance, call, up, held, late, made, faults, blind, hidden>>

Next ==
  \/ \E p \in Proc :
       \/ CreateTask(p) \/ CreateShard(p) \/ CreateProvenance(p) \/ CreateCleanup(p)
       \/ ClaimCheck(p) \/ ClaimPatch(p) \/ PutClaim(p)
       \/ ApiHandoff(p) \/ CheckOwner(p) \/ PutHandoff(p) \/ CompleteTask(p)
       \/ Requeue(p) \/ RequestFails(p)
  \/ \E a \in Agent : Heartbeat(a) \/ EndRun(a) \/ Crash(a) \/ Restart(a)
  \/ LatePut \/ Expire

Spec == Init /\ [][Next]_vars

-----------------------------------------------------------------------------
\* Properties.

TypeOK ==
  /\ task \in {"none", "empty", "claimed", "done"}
  /\ claimBlob \in ClaimBlob \cup {None}
  /\ handoffBlob \in Handoff \cup {None}
  /\ up \in [Agent -> BOOLEAN]
  /\ held \in [Agent -> Claim \cup {None}]
  /\ made \in 0 .. MaxClaims
  /\ \A x \in late : x.blob \in ClaimBlob

\* Two daemons run under a claim of the same issue only after a PUT landed on
\* blobs its call had not read, or a listing hid the live claim of one from
\* the other: the check and the write of claim, heartbeat, release, block,
\* handoff and requeue are separate requests, keys of other agents are not
\* resolved, and nothing else breaks exclusivity.
ExclusiveUnlessRaced ==
  \A a, b \in Agent : a # b /\ held[a] # None /\ held[b] # None => blind \/ hidden

\* Otherwise the claim a daemon runs under is the active one on record, or the
\* issue was handed off over the API meanwhile.
HolderOnRecordUnlessRaced ==
  \A a \in Agent : held[a] # None /\ ~blind /\ ~hidden =>
     (HasStatus("active") /\ claimBlob.claim = held[a]) \/ handoffBlob # None

\* Otherwise a stored handoff is replaced only before its call has completed
\* the claim blob, and only by its own agent's: between the handoff's PUT and
\* the claim's, the ownership check of the run, or of an API request, passes on
\* a claim that is handed off already.  Once the claim is completed the work
\* under review stays the work that was handed off.
HandoffKeptUnlessRaced ==
  [][handoffBlob # None /\ handoffBlob' # handoffBlob =>
       \/ blind' \/ hidden
       \/ HasStatus("active") /\ handoffBlob'.by = handoffBlob.by]_vars

\* An issue that shows in_progress with no claim, which no daemon can claim
\* and no reconciliation releases, is one whose claim call is between its
\* PATCH and its PUT, or was cut there by a fault.
StrandedNeedsFault ==
  /\ task = "claimed" /\ claimBlob = None /\ handoffBlob = None
  /\ \A p \in Proc : call[p].pc # "put"
  => faults > 0
=============================================================================
