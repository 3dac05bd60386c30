---------------------------- MODULE ApprovalGate ----------------------------
(***************************************************************************)
(* Consent-gated dispatch of one issue of a v1 list: the workflow settings *)
(* that are accepted, the dispatch gate a daemon runs each claim through,  *)
(* the approval blob it consumes from, and the API that files verdicts and *)
(* requeues a parked issue.                                                *)
(*                                                                         *)
(* The approval blob is read, extended and written back with separate      *)
(* requests, by the gates and the API requests of every agent.  The issue  *)
(* has one signer, so the binding key of an approval is its content.  The  *)
(* windows inside release, block and handoff are V1Tracker's subject and   *)
(* are single steps here.                                                  *)
(***************************************************************************)
EXTENDS Naturals, FiniteSets

CONSTANTS
  Agent,          \* agents, each with a daemon
  Remote,         \* a signer that is none of them
  Req,            \* <<agent, number>>: requests of that agent's API
  Knows,          \* Knows[a]: the agents whose keys a's resolver vouches for
  Content,        \* contents the issue can have
  Workflows,      \* the workflow files considered
  Trusts,         \* the trust levels considered
  MaxVerdicts,    \* bound: verdicts filed
  MaxFaults,      \* bound: crashes, failed requests and content changes
  None

VARIABLES
  settings,       \* the loaded workflow, the same for all daemons
  signer,         \* whose provenance the issue carries, or None
  trust,          \* the signer's level in the contacts of x0xd
  content,
  status,         \* todo, claimed, awaiting, blocked (for good), review
  holder,         \* who claimed it
  blob,           \* the approval blob
  gate,           \* gate[a]: where a's daemon is with its claim
  api,            \* api[r]: where request r is
  filed,          \* every verdict whose PUT landed
  expired,        \* verdicts older than the approval TTL
  ran,            \* ran[c]: how often content c ran, 2 standing for more
  verdicts, edits, faults,
  blind,          \* some PUT landed on a blob other than the one it extends
  missed,         \* some request filed an approval and found no parked issue
  hidden          \* some claim was written over one that the listing hid

issue == <<signer, trust, content>>
rest == <<expired, verdicts, edits, faults, missed, hidden>>
vars == <<settings, issue, status, holder, blob, gate, api, filed, ran, blind, rest>>

ASSUME ReqAssumption == Req \subseteq Agent \X Nat
ASSUME NoneAssumption == None \notin Agent /\ Content # {}
ASSUME KnowsAssumption == \A a \in Agent : a \in Knows[a] /\ Knows[a] \subseteq Agent \cup {Remote}

-----------------------------------------------------------------------------
\* Workflow settings.

Levels == <<"blocked", "unknown", "known", "trusted">>
Rank(level) == CHOOSE i \in DOMAIN Levels : Levels[i] = level

\* What the security and signing blocks can say; None is an absent key.
RawConfig ==
  [dispatch : {None, "off", "approve", "auto"}, legacy : {None, TRUE, FALSE},
   ack : {None, TRUE, FALSE}, required : {None, "known"}, signing : {None, "disabled", "required"}]

ASSUME WorkflowsAssumption == Workflows \subseteq RawConfig
ASSUME TrustsAssumption == Trusts \subseteq {Levels[i] : i \in DOMAIN Levels}

DispatchPolicy(raw) ==
  CASE raw.dispatch # None -> raw.dispatch
    [] raw.dispatch = None /\ raw.legacy = TRUE -> "approve"
    [] OTHER -> "off"

SigningPolicy(raw) == IF raw.signing = None THEN "disabled" ELSE raw.signing

Accepted(raw) ==
  /\ DispatchPolicy(raw) = "auto" => raw.ack = TRUE
  /\ DispatchPolicy(raw) = "approve" => SigningPolicy(raw) = "required"

Load(raw) ==
  [dispatch |-> DispatchPolicy(raw),
   required |-> IF raw.required = None THEN "trusted" ELSE raw.required,
   signing |-> SigningPolicy(raw)]

-----------------------------------------------------------------------------
\* Verdicts.

Verdict == [n : 1 .. MaxVerdicts, by : Agent, verdict : {"approve", "deny"}, content : Content]
Consumed == [by : Agent, content : Content]
EmptyBlob == [events |-> {}, consumed |-> {}]

\* Mutants of IsValid.
IsValidForAnyContent(e, c, consumed) ==
  e.verdict = "approve" => e \notin expired /\ \A u \in consumed : u.content # e.content

IsValidThoughSpent(e, c, consumed) ==
  e.content = c /\ (e.verdict = "approve" => e \notin expired)

\* Expiry and consumption void approvals, never denials; one consumption voids
\* every approval of its content.
IsValid(e, c, consumed) ==
  /\ e.content = c
  /\ e.verdict = "approve" => e \notin expired /\ \A u \in consumed : u.content # c

\* Mutant: the approval wins.
ApprovalDecisionApproveWins(events) ==
  CASE \E e \in events : e.verdict = "approve" -> "approved"
    [] events = {} -> "pending"
    [] OTHER -> "denied"

ApprovalDecision(events) ==
  CASE \E e \in events : e.verdict = "deny" -> "denied"
    [] events = {} -> "pending"
    [] OTHER -> "approved"

Decision(a, c) ==
  ApprovalDecision({e \in blob.events : e.by \in Knows[a] /\ IsValid(e, c, blob.consumed)})

\* The tracker attaches provenance only if it signs and the signer's key
\* resolves; otherwise the issue is network-sourced and unsigned.
Provenance(a) ==
  IF settings.signing = "required" /\ signer # None /\ signer \in Knows[a] THEN signer ELSE None

TrustedEnough == trust \notin {"blocked", "unknown"} /\ Rank(trust) >= Rank(settings.required)

NetworkGate(a) ==
  CASE Provenance(a) = a -> "run"
    [] Provenance(a) # a /\ settings.dispatch = "off" -> "block"
    [] Provenance(a) = None /\ settings.dispatch # "off" -> "block"
    [] OTHER ->
         IF ~TrustedEnough THEN "block"
         ELSE IF settings.dispatch = "auto" THEN "run" ELSE "load"

-----------------------------------------------------------------------------
Idle == [pc |-> "idle", content |-> None, seen |-> EmptyBlob, reason |-> None, denied |-> FALSE]
NoRequest == [pc |-> "idle", event |-> None, seen |-> EmptyBlob, parked |-> FALSE]

Init ==
  /\ settings \in {Load(raw) : raw \in {r \in Workflows : Accepted(r)}}
  /\ signer \in Agent \cup {Remote, None}
  /\ trust \in Trusts
  /\ content = CHOOSE c \in Content : TRUE
  /\ status = "todo"
  /\ holder = None
  /\ blob = EmptyBlob
  /\ gate = [a \in Agent |-> Idle]
  /\ api = [r \in Req |-> NoRequest]
  /\ filed = {}
  /\ expired = {}
  /\ ran = [c \in Content |-> 0]
  /\ verdicts = 0
  /\ edits = 0
  /\ faults = 0
  /\ blind = FALSE
  /\ missed = FALSE
  /\ hidden = FALSE

GateAt(a, pc) == gate' = [gate EXCEPT ![a].pc = pc]
Park(a, reason) == gate' = [gate EXCEPT ![a].pc = "park", ![a].reason = reason]
Dispatch(c) == ran' = [ran EXCEPT ![c] = IF @ = 2 THEN 2 ELSE @ + 1]
Fault == faults + edits < MaxFaults /\ faults' = faults + 1

\* The loop's end ends the process, requests included.
GoDown(a) ==
  /\ gate' = [gate EXCEPT ![a] = [Idle EXCEPT !.pc = "down"]]
  /\ api' = [r \in Req |-> IF r[1] = a THEN NoRequest ELSE api[r]]

\* A list that requires signatures strips a claim whose signer's key does not
\* resolve, and shows its issue as todo.
Hides(a) == settings.signing = "required" /\ status = "claimed" /\ holder \notin Knows[a]

\* Claim an issue listed as todo: check, then write.
ClaimCheck(a) ==
  /\ gate[a].pc = "idle" /\ (status = "todo" \/ Hides(a))
  /\ GateAt(a, "claim")
  /\ UNCHANGED <<settings, issue, status, holder, blob, api, filed, ran, blind, rest>>

ClaimWrite(a) ==
  /\ gate[a].pc = "claim"
  /\ status' = "claimed" /\ holder' = a
  /\ blind' = (blind \/ (status # "todo" /\ ~Hides(a)))
  /\ hidden' = (hidden \/ Hides(a))
  /\ GateAt(a, "gate")
  /\ UNCHANGED <<settings, issue, blob, api, filed, ran, expired, verdicts, edits, faults, missed>>

\* Fetch the claimed issue and check policy, signature and trust.
Gate(a) ==
  /\ gate[a].pc = "gate"
  /\ gate' = [gate EXCEPT ![a].pc = IF NetworkGate(a) = "block" THEN "park" ELSE NetworkGate(a),
                          ![a].reason = "blocked", ![a].content = content]
  /\ IF NetworkGate(a) = "run" THEN Dispatch(content) ELSE UNCHANGED ran
  /\ UNCHANGED <<settings, issue, status, holder, blob, api, filed, blind, rest>>

\* Every consumption record carries a signature that a can verify.
ConsumedVerify(a) == \A u \in blob.consumed : u.by \in Knows[a]

\* Load the blob and decide.  A consumption record that does not verify
\* blocks, as does a verifier that cannot be reached.
LoadApprovals(a) ==
  /\ gate[a].pc = "load"
  /\ \/ Fault /\ Park(a, "blocked")
     \/ /\ ~ConsumedVerify(a)
        /\ Park(a, "blocked")
        /\ UNCHANGED faults
     \/ /\ ConsumedVerify(a)
        /\ Decision(a, gate[a].content) # "approved"
        /\ Park(a, "awaiting")
        /\ UNCHANGED faults
     \/ /\ ConsumedVerify(a)
        /\ Decision(a, gate[a].content) = "approved"
        /\ gate' = [gate EXCEPT ![a].pc = "consume",
                                ![a].denied = \E e \in filed : /\ e.verdict = "deny" /\ e.by \in Knows[a]
                                                               /\ e.content = gate[a].content]
        /\ UNCHANGED faults
  /\ UNCHANGED <<settings, issue, status, holder, blob, api, filed, ran, blind, expired, verdicts, edits, missed, hidden>>

SignedConsumed(a) == [by |-> a, content |-> gate[a].content]

\* Sign the consumption, read the blob again, and write it back extended: only
\* then run.
ConsumeRead(a) ==
  /\ gate[a].pc = "consume"
  /\ \/ Fault /\ Park(a, "blocked")
     \/ gate' = [gate EXCEPT ![a].pc = "put", ![a].seen = blob] /\ UNCHANGED faults
  /\ UNCHANGED <<settings, issue, status, holder, blob, api, filed, ran, blind, expired, verdicts, edits, missed, hidden>>

ConsumePut(a) ==
  /\ gate[a].pc = "put"
  /\ blob' = [gate[a].seen EXCEPT !.consumed = @ \cup {SignedConsumed(a)}]
  /\ blind' = (blind \/ blob # gate[a].seen)
  /\ gate' = [gate EXCEPT ![a].pc = "run", ![a].seen = EmptyBlob]
  /\ Dispatch(gate[a].content)
  /\ UNCHANGED <<settings, issue, status, holder, api, filed, rest>>

\* Block the claim; a daemon that lost it stops.
Block(a) ==
  /\ gate[a].pc = "park"
  /\ IF holder = a
     THEN /\ status' = gate[a].reason /\ holder' = None
          /\ gate' = [gate EXCEPT ![a] = Idle]
          /\ UNCHANGED api
     ELSE UNCHANGED <<status, holder>> /\ GoDown(a)
  /\ UNCHANGED <<settings, issue, blob, filed, ran, blind, rest>>

\* The run is handed off, fails for good, or is released by a shutdown.
EndRun(a) ==
  /\ gate[a].pc = "run"
  /\ \/ /\ holder = a
        /\ status' \in {"review", "blocked"} /\ holder' = None
        /\ gate' = [gate EXCEPT ![a] = Idle]
        /\ UNCHANGED api
     \/ holder = a /\ status' = "todo" /\ holder' = None /\ GoDown(a)
     \/ holder # a /\ UNCHANGED <<status, holder>> /\ GoDown(a)
  /\ UNCHANGED <<settings, issue, blob, filed, ran, blind, rest>>

-----------------------------------------------------------------------------
\* Filing a verdict.

SignedVerdict(a, v) == [n |-> verdicts + 1, by |-> a, verdict |-> v, content |-> content]

\* Fetch the issue, bind the verdict to its content, sign it.
Submit(r) ==
  /\ api[r].pc = "idle" /\ gate[r[1]].pc # "down"
  /\ Provenance(r[1]) # None
  /\ verdicts < MaxVerdicts /\ verdicts' = verdicts + 1
  /\ \E v \in {"approve", "deny"} :
       /\ api' = [api EXCEPT ![r].pc = "read", ![r].parked = status = "awaiting",
                             ![r].event = SignedVerdict(r[1], v)]
       /\ missed' = (missed \/ (v = "approve" /\ status # "awaiting"))
  /\ UNCHANGED <<settings, issue, status, holder, blob, gate, filed, ran, blind, expired, edits, faults, hidden>>

SubmitRead(r) ==
  /\ api[r].pc = "read"
  /\ api' = [api EXCEPT ![r].pc = "put", ![r].seen = blob]
  /\ UNCHANGED <<settings, issue, status, holder, blob, gate, filed, ran, blind, rest>>

\* Mutant: an approval does not requeue.
SubmitPutOnly(r) ==
  /\ api[r].pc = "put"
  /\ blob' = [api[r].seen EXCEPT !.events = @ \cup {api[r].event}]
  /\ blind' = (blind \/ blob # api[r].seen)
  /\ filed' = filed \cup {api[r].event}
  /\ api' = [api EXCEPT ![r] = NoRequest]
  /\ UNCHANGED <<settings, issue, status, holder, gate, ran, rest>>

SubmitPut(r) ==
  /\ api[r].pc = "put"
  /\ blob' = [api[r].seen EXCEPT !.events = @ \cup {api[r].event}]
  /\ blind' = (blind \/ blob # api[r].seen)
  /\ filed' = filed \cup {api[r].event}
  /\ api' = [api EXCEPT ![r] = IF api[r].event.verdict = "approve" /\ api[r].parked
                               THEN [NoRequest EXCEPT !.pc = "requeue"] ELSE NoRequest]
  /\ UNCHANGED <<settings, issue, status, holder, gate, ran, rest>>

\* Only an issue parked for approval is requeued.
RequeueCheck(r) ==
  /\ api[r].pc = "requeue"
  /\ api' = [api EXCEPT ![r].pc = IF status = "awaiting" THEN "todo" ELSE "idle"]
  /\ missed' = (missed \/ status # "awaiting")
  /\ UNCHANGED <<settings, issue, status, holder, blob, gate, filed, ran, blind, expired, verdicts, edits, faults, hidden>>

RequeueWrite(r) ==
  /\ api[r].pc = "todo"
  /\ status' = "todo" /\ holder' = None
  /\ blind' = (blind \/ status # "awaiting")
  /\ api' = [api EXCEPT ![r] = NoRequest]
  /\ UNCHANGED <<settings, issue, blob, gate, filed, ran, rest>>

-----------------------------------------------------------------------------
\* Time, the issue's author, and faults.

Expire ==
  /\ \E e \in filed \ expired : e.verdict = "approve" /\ expired' = expired \cup {e}
  /\ UNCHANGED <<settings, issue, status, holder, blob, gate, api, filed, ran, blind, verdicts, edits, faults, missed, hidden>>

Edit ==
  /\ faults + edits < MaxFaults /\ edits' = edits + 1
  /\ \E c \in Content \ {content} : content' = c
  /\ UNCHANGED <<settings, signer, trust, status, holder, blob, gate, api, filed, ran, blind, expired, verdicts, faults, missed, hidden>>

RequestFails(r) ==
  /\ api[r].pc # "idle" /\ Fault
  /\ api' = [api EXCEPT ![r] = NoRequest]
  /\ UNCHANGED <<settings, issue, status, holder, blob, gate, filed, ran, blind, expired, verdicts, edits, missed, hidden>>

\* A crash, or a request that fails: the daemon stops and keeps its claim.
Stop(a) ==
  /\ gate[a].pc # "down" /\ Fault
  /\ GoDown(a)
  /\ UNCHANGED <<settings, issue, status, holder, blob, filed, ran, blind, expired, verdicts, edits, missed, hidden>>

\* Reconciliation releases a claim of its own that has gone stale.
Restart(a) ==
  /\ gate[a].pc = "down"
  /\ GateAt(a, "idle")
  /\ \/ UNCHANGED <<status, holder>>
     \/ holder = a /\ status' = "todo" /\ holder' = None
  /\ UNCHANGED <<settings, issue, blob, api, filed, ran, blind, rest>>

GateStep(a) ==
  \/ ClaimCheck(a) \/ ClaimWrite(a) \/ Gate(a) \/ LoadApprovals(a)
  \/ ConsumeRead(a) \/ ConsumePut(a) \/ Block(a) \/ EndRun(a)

ApiStep(r) == SubmitRead(r) \/ SubmitPut(r) \/ RequeueCheck(r) \/ RequeueWrite(r)

Next ==
  \/ \E a \in Agent : GateStep(a) \/ Stop(a) \/ Restart(a)
  \/ \E r \in Req : Submit(r) \/ ApiStep(r) \/ RequestFails(r)
  \/ Expire \/ Edit

Spec == Init /\ [][Next]_vars

\* Running daemons and started requests go on; nobody has to file a verdict,
\* and a daemon that is down need not be started again.
Fairness ==
  /\ \A a \in Agent : WF_vars(GateStep(a))
  /\ \A r \in Req : WF_vars(ApiStep(r))

FairSpec == Spec /\ Fairness

-----------------------------------------------------------------------------
\* Properties.

TypeOK ==
  /\ status \in {"todo", "claimed", "awaiting", "blocked", "review"}
  /\ holder \in Agent \cup {None}
  /\ blob.events \subseteq Verdict /\ blob.consumed \subseteq Consumed
  /\ blob.events \subseteq filed
  /\ \A a \in Agent : gate[a].pc \in {"idle", "claim", "gate", "load", "consume", "put", "park", "run", "down"}
  /\ \A r \in Req : api[r].pc \in {"idle", "read", "put", "requeue", "todo"}

Trusted(a) == Provenance(a) # None /\ TrustedEnough

\* A daemon runs an issue of another signer only if the signer is verified and
\* trusted enough and, unless the workflow says auto, an agent whose key
\* verifies approved exactly the content that runs.
NetworkRunIsConsented ==
  \A a \in Agent : gate[a].pc = "run" /\ Provenance(a) # a =>
     /\ Trusted(a)
     /\ \/ settings.dispatch = "auto"
        \/ \E e \in filed : e.verdict = "approve" /\ e.content = gate[a].content /\ e.by \in Knows[a]

\* A denial of the content that landed before the gate read the blob stops the
\* dispatch, whatever was approved before or after it, unless a racing write
\* of the blob dropped a record.
DenialHoldsUnlessRaced ==
  \A a \in Agent : gate[a].denied => blind

\* Approvals let a content run once, over releases, restarts, expiry and any
\* number of verdicts, unless a write of the claim or approval blob raced or a
\* daemon, which lists the claim of an agent it cannot verify as no claim,
\* claimed the issue from under another's gate.
SpentOnceUnlessRaced ==
  settings.dispatch = "approve" /\ signer \notin Agent =>
    \A c \in Content : ran[c] > 1 => blind \/ hidden

\* At rest, a parked issue whose approval every gate would accept is one whose
\* approval, when filed, found the issue not parked, one a fault cut short (the
\* end of a daemon whose claim another one did not see included), or one that
\* was edited after the approval, parked again, and edited back: nothing but an
\* approval requeues a parked issue.
ParkedThoughApproved ==
  /\ status = "awaiting" /\ \A r \in Req : api[r].pc = "idle"
  /\ \A a \in Agent : Decision(a, content) = "approved"
  => missed \/ faults > 0 \/ blind \/ hidden \/ edits > 1

\* What may stand between an approval and its run.
Excused ==
  \/ blind \/ hidden \/ faults > 0 \/ expired # {} \/ edits > 0
  \/ \E e \in filed : e.verdict = "deny"
  \/ \E a \in Agent : gate[a].pc = "down"

\* The approval an operator gives again for a payload whose first one was spent
\* makes the parked issue run, which docs/symphony/security.md names as the
\* recovery ("approve the payload again (a fresh approval mints a fresh
\* consumption)").  It does not: is_valid refuses an approval when any
\* consumption has its binding key.
ReapprovalRuns ==
  (\E r \in Req : api[r].pc = "requeue" /\ ran[content] = 1) ~> (ran[content] > 1 \/ Excused)
=============================================================================
