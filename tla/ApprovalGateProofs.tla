------------------------- MODULE ApprovalGateProofs -------------------------
(***************************************************************************)
(* For any number of agents, API requests, verdicts, edits and faults: the *)
(* network's work runs only on consent to what it says; and as long as no  *)
(* two writers overlap, a denial holds, an approval runs once, and an      *)
(* approval of a parked issue leaves nothing parked.                       *)
(***************************************************************************)
EXTENDS ApprovalGate, TLAPS

Events == [n: Nat, by: Agent, verdict: {"approve", "deny"}, content: Content]
Blobs == [events: SUBSET Events, consumed: SUBSET Consumed]
GatePc == {"idle", "claim", "gate", "load", "consume", "put", "park", "run", "down"}
ApiPc == {"idle", "read", "put", "requeue", "todo"}
Gates == [pc: GatePc, content: Content \cup {None}, seen: Blobs,
          reason: {None, "blocked", "awaiting"}, denied: BOOLEAN]
Requests == [pc: ApiPc, event: Events \cup {None}, seen: Blobs, parked: BOOLEAN]

Types ==
  /\ content \in Content /\ blob \in Blobs /\ filed \in SUBSET Events /\ verdicts \in Nat
  /\ gate \in [Agent -> Gates] /\ api \in [Req -> Requests]
  /\ ran \in [Content -> 0..2]
  /\ \A r \in Req : api[r].pc \in {"read", "put"} => api[r].event \in Events
  /\ \A a \in Agent : gate[a].pc \in {"load", "consume", "put"} => gate[a].content \in Content

Consents(a, c) == \E e \in filed : e.verdict = "approve" /\ e.content = c /\ e.by \in Knows[a]

\* Whatever is in a blob was filed, and a gate past a check has what it checked.
Consent ==
  /\ blob.events \subseteq filed
  /\ \A a \in Agent : gate[a].seen.events \subseteq filed
  /\ \A r \in Req : api[r].seen.events \subseteq filed
  /\ \A a \in Agent : gate[a].pc \in {"load", "consume", "put"} => Trusted(a)
  /\ \A a \in Agent : gate[a].pc \in {"consume", "put"} => Consents(a, gate[a].content)
  /\ NetworkRunIsConsented

\* Without a blind write no filed verdict is missing from the blob.
Denials == (~blind => filed \subseteq blob.events) /\ DenialHoldsUnlessRaced

\* The agent's daemon is at work under a claim.
Active(a) == gate[a].pc \in {"gate", "load", "consume", "put", "park", "run"}

Raced == blind \/ hidden

\* Without a blind write, or one over a hidden claim, claims exclude each other,
\* and every run of an approved content is on record.
Spending ==
  ~Raced =>
    /\ \A a \in Agent : Active(a) => holder = a /\ status = "claimed"
    /\ settings.dispatch = "approve" /\ signer \notin Agent =>
         /\ \A a \in Agent : gate[a].pc \in {"consume", "put"} =>
              \A u \in blob.consumed : u.content # gate[a].content
         /\ \A c \in Content : ran[c] > 0 => \E u \in blob.consumed : u.content = c
         /\ \A c \in Content : ran[c] < 2

GateInv == Types /\ Consent /\ Denials /\ Spending

-----------------------------------------------------------------------------
(* Types.                                                                   *)

\* The idle gate, the idle request and the empty blob are of their types.
LEMMA InitialTypes ==
  /\ EmptyBlob \in Blobs /\ Idle \in Gates /\ NoRequest \in Requests
  /\ Idle.pc = "idle" /\ Idle.seen = EmptyBlob /\ Idle.denied = FALSE
  /\ NoRequest.pc = "idle" /\ NoRequest.seen = EmptyBlob
  /\ EmptyBlob.events = {} /\ EmptyBlob.consumed = {}
<1>1. EmptyBlob \in Blobs /\ EmptyBlob.events = {} /\ EmptyBlob.consumed = {}
  BY DEF EmptyBlob, Blobs
<1>2. Idle \in Gates /\ Idle.pc = "idle" /\ Idle.seen = EmptyBlob /\ Idle.denied = FALSE
  BY <1>1 DEF Idle, Gates, GatePc
<1>3. NoRequest \in Requests /\ NoRequest.pc = "idle" /\ NoRequest.seen = EmptyBlob
  BY <1>1 DEF NoRequest, Requests, ApiPc
<1>4. QED
  BY <1>1, <1>2, <1>3

\* One gate changes.
LEMMA GateMoves ==
  ASSUME Types, NEW a \in Agent, NEW g \in Gates, gate' = [gate EXCEPT ![a] = g]
  PROVE  /\ gate' \in [Agent -> Gates] /\ gate'[a] = g
         /\ \A b \in Agent \ {a} : gate'[b] = gate[b]
  BY DEF Types

\* One request changes.
LEMMA RequestMoves ==
  ASSUME Types, NEW r \in Req, NEW q \in Requests, api' = [api EXCEPT ![r] = q]
  PROVE  /\ api' \in [Req -> Requests] /\ api'[r] = q
         /\ \A s \in Req \ {r} : api'[s] = api[s]
  BY DEF Types

\* The end of a process.
LEMMA Downs ==
  ASSUME Types, NEW a \in Agent, GoDown(a)
  PROVE  /\ gate' \in [Agent -> Gates] /\ gate'[a] = [Idle EXCEPT !.pc = "down"]
         /\ gate'[a].pc = "down" /\ gate'[a].seen = EmptyBlob /\ gate'[a].denied = FALSE
         /\ \A b \in Agent \ {a} : gate'[b] = gate[b]
         /\ api' \in [Req -> Requests]
         /\ \A r \in Req : api'[r] = api[r] \/ api'[r] = NoRequest
<1>1. [Idle EXCEPT !.pc = "down"] \in Gates
  BY InitialTypes DEF Gates, GatePc
<1>2. /\ [Idle EXCEPT !.pc = "down"].pc = "down"
      /\ [Idle EXCEPT !.pc = "down"].seen = EmptyBlob
      /\ [Idle EXCEPT !.pc = "down"].denied = FALSE
  BY InitialTypes DEF Gates
<1>3. gate' = [gate EXCEPT ![a] = [Idle EXCEPT !.pc = "down"]]
  BY DEF GoDown
<1>4. api' = [r \in Req |-> IF r[1] = a THEN NoRequest ELSE api[r]]
  BY DEF GoDown
<1>5. QED
  BY <1>1, <1>2, <1>3, <1>4, GateMoves, InitialTypes DEF Types

\* What a gate makes of the signer depends on settings, signer and contacts.
LEMMA SameTrust ==
  ASSUME UNCHANGED <<settings, signer, trust>>
  PROVE  \A a \in Agent : Trusted(a)' = Trusted(a) /\ Provenance(a)' = Provenance(a)
  BY DEF Trusted, Provenance, TrustedEnough

\* A gate moves without a write: it takes up a claim that it has not written yet,
\* goes on to a stage that asks for no more than it has shown, or lays off.
LEMMA QuietGate ==
  ASSUME GateInv, Types', NEW a \in Agent,
         \A b \in Agent \ {a} : gate'[b] = gate[b],
         \A r \in Req : api'[r] = api[r] \/ api'[r] = NoRequest,
         UNCHANGED <<settings, signer, trust, blob, filed, ran, blind, hidden>>,
         gate'[a].seen.events \subseteq filed,
         gate'[a].pc \in {"load", "consume", "put"} => Trusted(a),
         gate'[a].pc \in {"consume", "put"} => Consents(a, gate'[a].content),
         gate'[a].pc = "run" => gate[a].pc = "run" /\ gate'[a].content = gate[a].content,
         gate'[a].denied => blind,
         ~Raced => \A b \in Agent : Active(b)' => holder' = b /\ status' = "claimed",
         (settings.dispatch = "approve" /\ signer \notin Agent /\ ~Raced
            /\ gate'[a].pc \in {"consume", "put"}) =>
           \A u \in blob.consumed : u.content # gate'[a].content
  PROVE  GateInv'
<1>1. \A b \in Agent : Trusted(b)' = Trusted(b) /\ Provenance(b)' = Provenance(b)
  BY SameTrust
<1>2. Consent'
  BY <1>1, InitialTypes DEF GateInv, Consent, Consents, NetworkRunIsConsented
<1>3. Denials'
  BY DEF GateInv, Denials, DenialHoldsUnlessRaced
<1>4. Spending'
  BY DEF GateInv, Spending, Raced
<1>5. QED
  BY <1>2, <1>3, <1>4 DEF GateInv

\* Seeing a todo issue: nothing is claimed yet.
LEMMA ClaimCheckKeeps ==
  ASSUME GateInv, NEW a \in Agent, ClaimCheck(a)
  PROVE  GateInv'
<1>1. /\ gate' \in [Agent -> Gates] /\ gate'[a] = [gate[a] EXCEPT !.pc = "claim"]
      /\ gate'[a].pc = "claim" /\ gate'[a].seen = gate[a].seen /\ gate'[a].denied = gate[a].denied
      /\ \A b \in Agent \ {a} : gate'[b] = gate[b]
  BY DEF ClaimCheck, GateAt, GateInv, Types, Gates, GatePc
<1>2. Types'
  BY <1>1 DEF ClaimCheck, GateInv, Types, issue, rest
<1>3. ~Raced => \A b \in Agent : Active(b)' => holder' = b /\ status' = "claimed"
  BY <1>1 DEF ClaimCheck, GateInv, Spending, Active
<1>4. QED
  BY <1>1, <1>2, <1>3, QuietGate DEF ClaimCheck, issue, rest, GateInv, Consent, Denials, DenialHoldsUnlessRaced

\* Deciding on the blob: an approved decision has a filed approval and, with no
\* verdict lost, no denial; and the content is not consumed.
LEMMA LoadKeeps ==
  ASSUME GateInv, NEW a \in Agent, LoadApprovals(a)
  PROVE  GateInv'
<1> DEFINE d == \E e \in filed : /\ e.verdict = "deny" /\ e.by \in Knows[a]
                                 /\ e.content = gate[a].content
<1>1. PICK pc \in {"park", "consume"} :
         /\ gate'[a].pc = pc /\ gate'[a].seen = gate[a].seen /\ gate'[a].content = gate[a].content
         /\ gate' \in [Agent -> Gates]
         /\ \A b \in Agent \ {a} : gate'[b] = gate[b]
         /\ pc = "park" => gate'[a].denied = gate[a].denied
         /\ pc = "consume" =>
              /\ Decision(a, gate[a].content) = "approved"
              /\ gate'[a].denied = d
  <2> HIDE DEF d
  <2>1. d \in BOOLEAN
    BY DEF d
  <2>2. \/ Park(a, "blocked") \/ Park(a, "awaiting")
        \/ /\ Decision(a, gate[a].content) = "approved"
           /\ gate' = [gate EXCEPT ![a].pc = "consume", ![a].denied = d]
    BY DEF LoadApprovals, d
  <2>3. CASE Park(a, "blocked") \/ Park(a, "awaiting")
    <3>1. PICK reason \in {"blocked", "awaiting"} :
            gate' = [gate EXCEPT ![a].pc = "park", ![a].reason = reason]
      BY <2>3 DEF Park
    <3>2. QED
      BY <3>1 DEF GateInv, Types, Gates, GatePc
  <2>4. CASE /\ Decision(a, gate[a].content) = "approved"
             /\ gate' = [gate EXCEPT ![a].pc = "consume", ![a].denied = d]
    BY <2>1, <2>4 DEF GateInv, Types, Gates, GatePc
  <2>5. QED
    BY <2>2, <2>3, <2>4
<1>2. Types'
  BY <1>1 DEF LoadApprovals, GateInv, Types, issue
<1>3. gate[a].pc = "load" /\ gate[a].content \in Content /\ Trusted(a)
  BY DEF LoadApprovals, GateInv, Types, Consent
<1>4. ASSUME pc = "consume"
      PROVE  /\ Consents(a, gate[a].content)
             /\ \A u \in blob.consumed : u.content # gate[a].content
             /\ gate'[a].denied => blind
  <2> DEFINE valid == {e \in blob.events : e.by \in Knows[a]
                                          /\ IsValid(e, gate[a].content, blob.consumed)}
  <2>1. valid # {} /\ \A e \in valid : e.verdict # "deny"
    BY <1>1, <1>4 DEF Decision, ApprovalDecision
  <2>2. PICK e \in valid : e.verdict = "approve" /\ e \in filed
    BY <2>1 DEF GateInv, Types, Consent, Events
  <2>3. Consents(a, gate[a].content) /\ \A u \in blob.consumed : u.content # gate[a].content
    BY <2>2 DEF Consents, IsValid
  <2>4. ASSUME ~blind, NEW x \in filed, x.verdict = "deny", x.by \in Knows[a],
               x.content = gate[a].content
        PROVE  FALSE
    <3>1. x \in blob.events /\ IsValid(x, gate[a].content, blob.consumed)
      BY <2>4 DEF GateInv, Denials, IsValid
    <3>2. QED
      BY <2>1, <2>4, <3>1
  <2>5. d => blind
    BY <2>4 DEF d
  <2>6. QED
    BY <1>1, <1>4, <2>3, <2>5
<1>5. ~Raced => \A b \in Agent : Active(b)' => holder' = b /\ status' = "claimed"
  BY <1>1, <1>3 DEF LoadApprovals, GateInv, Spending, Active
<1>6. gate'[a].denied => blind
  BY <1>1, <1>4 DEF GateInv, Denials, DenialHoldsUnlessRaced
<1>7. UNCHANGED <<settings, signer, trust, blob, filed, ran, blind, hidden, api>>
  BY DEF LoadApprovals, issue
<1>8. QED
  BY <1>1, <1>2, <1>3, <1>4, <1>5, <1>6, <1>7, QuietGate DEF GateInv, Consent

\* Reading the blob again before the consumption is written.
LEMMA ConsumeReadKeeps ==
  ASSUME GateInv, NEW a \in Agent, ConsumeRead(a)
  PROVE  GateInv'
<1>1. PICK pc \in {"park", "put"} :
         /\ gate'[a].pc = pc /\ gate'[a].content = gate[a].content
         /\ gate'[a].seen \in {gate[a].seen, blob} /\ gate'[a].denied = gate[a].denied
         /\ gate' \in [Agent -> Gates]
         /\ \A b \in Agent \ {a} : gate'[b] = gate[b]
  <2>1. Park(a, "blocked") \/ gate' = [gate EXCEPT ![a].pc = "put", ![a].seen = blob]
    BY DEF ConsumeRead
  <2>2. CASE Park(a, "blocked")
    BY <2>2 DEF Park, GateInv, Types, Gates, GatePc
  <2>3. CASE gate' = [gate EXCEPT ![a].pc = "put", ![a].seen = blob]
    BY <2>3 DEF GateInv, Types, Gates, GatePc
  <2>4. QED
    BY <2>1, <2>2, <2>3
<1>2. gate[a].pc = "consume" /\ gate[a].content \in Content
  BY DEF ConsumeRead, GateInv, Types
<1>3. UNCHANGED <<settings, signer, trust, content, status, holder, blob, filed, ran, blind, api,
                  hidden, verdicts>>
  BY DEF ConsumeRead, issue
<1>4. Types'
  BY <1>1, <1>2, <1>3 DEF GateInv, Types
<1>5. ~Raced => \A b \in Agent : Active(b)' => holder' = b /\ status' = "claimed"
  BY <1>1, <1>2, <1>3 DEF GateInv, Spending, Active
<1>6. /\ Trusted(a) /\ Consents(a, gate[a].content) /\ gate'[a].seen.events \subseteq filed
      /\ gate'[a].denied => blind
  BY <1>1, <1>2 DEF GateInv, Consent, Denials, DenialHoldsUnlessRaced
<1>7. gate'[a].pc \in {"consume", "put"} => Consents(a, gate'[a].content)
  BY <1>1, <1>6
<1>8. settings.dispatch = "approve" /\ signer \notin Agent /\ ~Raced =>
        \A u \in blob.consumed : u.content # gate'[a].content
  BY <1>1, <1>2 DEF GateInv, Spending
<1>9. QED
  BY <1>1, <1>3, <1>4, <1>5, <1>6, <1>7, <1>8, QuietGate

\* A claim ends: no other daemon can be at work under it.
LEMMA BlockKeeps ==
  ASSUME GateInv, NEW a \in Agent, Block(a) \/ EndRun(a)
  PROVE  GateInv'
<1>1. Active(a)
  BY DEF Block, EndRun, Active
<1>2. UNCHANGED <<settings, signer, trust, content, blob, filed, ran, blind, hidden, verdicts>>
  BY DEF Block, EndRun, issue, rest
<1>3. /\ gate' \in [Agent -> Gates] /\ gate'[a].pc \in {"idle", "down"}
      /\ gate'[a].seen = EmptyBlob /\ gate'[a].denied = FALSE
      /\ \A b \in Agent \ {a} : gate'[b] = gate[b]
      /\ api' \in [Req -> Requests]
      /\ \A r \in Req : api'[r] = api[r] \/ api'[r] = NoRequest
  <2>1. GoDown(a) \/ (gate' = [gate EXCEPT ![a] = Idle] /\ UNCHANGED api)
    BY DEF Block, EndRun
  <2>2. QED
    BY <2>1, Downs, GateMoves, InitialTypes DEF GateInv, Types
<1>4. Types'
  BY <1>2, <1>3, InitialTypes DEF GateInv, Types
<1>5. ~Raced => \A b \in Agent : Active(b)' => holder' = b /\ status' = "claimed"
  <2>1. ~Raced => \A b \in Agent \ {a} : ~Active(b)
    BY <1>1 DEF GateInv, Spending
  <2>2. ~Active(a)'
    BY <1>3 DEF Active
  <2>3. QED
    BY <1>3, <2>1, <2>2 DEF Active
<1>6. gate'[a].seen.events \subseteq filed /\ ~gate'[a].denied
  BY <1>3, InitialTypes
<1>7. QED
  BY <1>2, <1>3, <1>4, <1>5, <1>6, QuietGate

\* A daemon stops, or starts and releases the stale claim it holds.
LEMMA StopKeeps ==
  ASSUME GateInv, NEW a \in Agent, Stop(a) \/ Restart(a)
  PROVE  GateInv'
<1>1. UNCHANGED <<settings, signer, trust, content, blob, filed, ran, blind, hidden, verdicts>>
  BY DEF Stop, Restart, issue, rest
<1>2. /\ gate' \in [Agent -> Gates] /\ gate'[a].pc \in {"idle", "down"}
      /\ gate'[a].seen.events \subseteq filed /\ (gate'[a].denied => blind)
      /\ \A b \in Agent \ {a} : gate'[b] = gate[b]
      /\ api' \in [Req -> Requests]
      /\ \A r \in Req : api'[r] = api[r] \/ api'[r] = NoRequest
  <2>1. CASE Stop(a)
    BY <2>1, Downs, InitialTypes DEF Stop, GateInv
  <2>2. CASE Restart(a)
    BY <2>2 DEF Restart, GateAt, GateInv, Types, Gates, GatePc, Consent, Denials,
       DenialHoldsUnlessRaced
  <2>3. QED
    BY <2>1, <2>2
<1>3. Types'
  BY <1>1, <1>2, InitialTypes DEF GateInv, Types
<1>4. ~Raced => \A b \in Agent : Active(b)' => holder' = b /\ status' = "claimed"
  <2>1. ~Active(a)' /\ \A b \in Agent \ {a} : Active(b)' = Active(b)
    BY <1>2 DEF Active
  <2>2. UNCHANGED <<status, holder>> \/ holder = a
    BY DEF Stop, Restart
  <2>3. QED
    BY <2>1, <2>2 DEF GateInv, Spending
<1>5. QED
  BY <1>1, <1>2, <1>3, <1>4, QuietGate

\* Writing the claim: over a todo issue nobody is at work, else it is blind or
\* goes over a claim that is hidden.
LEMMA ClaimWriteKeeps ==
  ASSUME GateInv, NEW a \in Agent, ClaimWrite(a)
  PROVE  GateInv'
<1>1. /\ gate' \in [Agent -> Gates] /\ gate'[a].pc = "gate"
      /\ gate'[a].seen = gate[a].seen /\ gate'[a].denied = gate[a].denied
      /\ \A b \in Agent \ {a} : gate'[b] = gate[b]
  BY DEF ClaimWrite, GateAt, GateInv, Types, Gates, GatePc
<1>2. /\ UNCHANGED <<settings, signer, trust, content, blob, api, filed, ran, verdicts>>
      /\ status' = "claimed" /\ holder' = a
      /\ blind => blind'
      /\ ~Raced' => ~Raced /\ status = "todo"
  BY DEF ClaimWrite, Raced, issue
<1>3. \A b \in Agent : Trusted(b)' = Trusted(b) /\ Provenance(b)' = Provenance(b)
  BY <1>2, SameTrust
<1>4. Types'
  BY <1>1, <1>2 DEF GateInv, Types
<1>5. Consent'
  BY <1>1, <1>2, <1>3 DEF GateInv, Consent, Consents, NetworkRunIsConsented
<1>6. Denials'
  BY <1>1, <1>2 DEF GateInv, Denials, DenialHoldsUnlessRaced
<1>7. Spending'
  <2>1. ~Raced' => \A b \in Agent \ {a} : ~Active(b)'
    BY <1>1, <1>2 DEF GateInv, Spending, Active
  <2>2. QED
    BY <1>1, <1>2, <2>1 DEF GateInv, Spending
<1>8. QED
  BY <1>4, <1>5, <1>6, <1>7 DEF GateInv

\* A content's count of runs stays a count.
LEMMA DispatchCounts ==
  ASSUME Types, NEW c \in Content, Dispatch(c)
  PROVE  /\ ran' \in [Content -> 0..2]
         /\ ran[c] = 0 => ran'[c] = 1
         /\ \A d \in Content \ {c} : ran'[d] = ran[d]
<1>1. ran[c] \in {0, 1, 2}
  BY DEF Types
<1>2. (IF ran[c] = 2 THEN 2 ELSE ran[c] + 1) \in 0..2
  BY <1>1
<1>3. QED
  BY <1>1, <1>2 DEF Types, Dispatch

\* What the checks of policy, signature and trust let through.
LEMMA GateVerdict ==
  ASSUME NEW a \in Agent
  PROVE  /\ NetworkGate(a) \in {"run", "block", "load"}
         /\ NetworkGate(a) = "load" => Trusted(a)
         /\ NetworkGate(a) = "run" =>
              Provenance(a) = a \/ (Trusted(a) /\ settings.dispatch = "auto")
         /\ NetworkGate(a) = "run" => settings.dispatch # "approve" \/ signer \in Agent
<1>1. Provenance(a) = a => signer \in Agent
  BY NoneAssumption DEF Provenance
<1>2. CASE Provenance(a) = a
  BY <1>1, <1>2 DEF NetworkGate
<1>3. CASE Provenance(a) # a /\ (settings.dispatch = "off" \/ Provenance(a) = None)
  <2>1. NetworkGate(a) = "block"
    BY <1>3 DEF NetworkGate
  <2>2. QED
    BY <2>1
<1>4. CASE Provenance(a) # a /\ settings.dispatch # "off" /\ Provenance(a) # None
  <2>1. NetworkGate(a) = IF ~TrustedEnough THEN "block"
                         ELSE IF settings.dispatch = "auto" THEN "run" ELSE "load"
    BY <1>4 DEF NetworkGate
  <2>2. QED
    BY <1>4, <2>1 DEF Trusted
<1>5. QED
  BY <1>2, <1>3, <1>4

\* The checks of policy, signature and trust on the fetched issue.
LEMMA GateKeeps ==
  ASSUME GateInv, NEW a \in Agent, Gate(a)
  PROVE  GateInv'
<1> DEFINE v == NetworkGate(a)
<1>1. v \in {"run", "block", "load"}
  BY GateVerdict
<1> HIDE DEF v
<1> DEFINE stage == IF v = "block" THEN "park" ELSE v
           g == [gate[a] EXCEPT !.pc = stage, !.reason = "blocked", !.content = content]
<1>2. stage \in GatePc
  BY <1>1 DEF GatePc
<1> HIDE DEF stage
<1>3. /\ g \in Gates /\ g.pc = stage /\ g.content = content
      /\ g.seen = gate[a].seen /\ g.denied = gate[a].denied
  <2>1. gate[a] \in Gates /\ content \in Content
    BY DEF GateInv, Types
  <2>2. QED
    BY <1>2, <2>1 DEF Gates
<1>4. gate' = [gate EXCEPT ![a] = g]
  BY DEF Gate, v, stage
<1>5. /\ gate' \in [Agent -> Gates]
      /\ gate'[a].pc = (IF v = "block" THEN "park" ELSE v)
      /\ gate'[a].seen = gate[a].seen /\ gate'[a].denied = gate[a].denied
      /\ gate'[a].content = content
      /\ \A b \in Agent \ {a} : gate'[b] = gate[b]
  <2> HIDE DEF g
  <2>1. gate' \in [Agent -> Gates] /\ gate'[a] = g /\ \A b \in Agent \ {a} : gate'[b] = gate[b]
    BY <1>3, <1>4, GateMoves DEF GateInv
  <2>2. QED
    BY <1>3, <2>1 DEF stage
<1>6. /\ UNCHANGED <<settings, signer, trust, content, status, holder, blob, api, filed, blind, hidden, verdicts>>
      /\ gate[a].pc = "gate"
      /\ v = "run" => Dispatch(content)
      /\ v # "run" => UNCHANGED ran
  BY DEF Gate, issue, rest, v
<1>7. \A b \in Agent : Trusted(b)' = Trusted(b) /\ Provenance(b)' = Provenance(b)
  BY <1>6, SameTrust
<1>8. /\ v = "load" => Trusted(a)
      /\ v = "run" => Provenance(a) = a \/ (Trusted(a) /\ settings.dispatch = "auto")
      /\ v = "run" => settings.dispatch # "approve" \/ signer \in Agent
  BY GateVerdict DEF v
<1>9. ran' \in [Content -> 0..2]
  BY <1>6, DispatchCounts DEF GateInv, Types
<1>10. Types'
  BY <1>1, <1>5, <1>6, <1>9 DEF GateInv, Types
<1>11. Consent'
  <2>1. NetworkRunIsConsented'
    BY <1>1, <1>5, <1>6, <1>7, <1>8 DEF GateInv, Consent, NetworkRunIsConsented
  <2>2. QED
    BY <1>1, <1>5, <1>6, <1>7, <1>8, <2>1 DEF GateInv, Consent, Consents
<1>12. Denials'
  BY <1>5, <1>6 DEF GateInv, Denials, DenialHoldsUnlessRaced
<1>13. Spending'
  <2>1. \A b \in Agent : Active(b)' => Active(b)
    BY <1>5, <1>6 DEF Active
  <2>2. settings.dispatch = "approve" /\ signer \notin Agent => UNCHANGED ran
    BY <1>6, <1>8
  <2>3. gate'[a].pc \notin {"consume", "put"}
    BY <1>1, <1>5
  <2>4. QED
    BY <1>5, <1>6, <2>1, <2>2, <2>3 DEF GateInv, Spending, Raced
<1>14. QED
  BY <1>10, <1>11, <1>12, <1>13 DEF GateInv

\* Writing the consumption: the content had none, so this is its first run.
LEMMA ConsumePutKeeps ==
  ASSUME GateInv, NEW a \in Agent, ConsumePut(a)
  PROVE  GateInv'
<1> DEFINE c == gate[a].content
           u == SignedConsumed(a)
<1>1. gate[a].pc = "put" /\ c \in Content /\ gate[a].seen \in Blobs
  BY DEF ConsumePut, GateInv, Types, Gates
<1>2. u \in Consumed /\ u.content = c
  BY <1>1 DEF SignedConsumed, Consumed
<1> HIDE DEF u
<1>3. /\ gate' \in [Agent -> Gates] /\ gate'[a].pc = "run" /\ gate'[a].seen = EmptyBlob
      /\ gate'[a].content = c /\ gate'[a].denied = gate[a].denied
      /\ \A b \in Agent \ {a} : gate'[b] = gate[b]
  BY InitialTypes DEF ConsumePut, GateInv, Types, Gates, GatePc
<1>4. /\ blob' \in Blobs /\ blob'.events = gate[a].seen.events
      /\ blob'.consumed = gate[a].seen.consumed \cup {u}
  BY <1>1, <1>2 DEF ConsumePut, Blobs, u
<1>5. /\ UNCHANGED <<settings, signer, trust, content, status, holder, api, filed, verdicts>>
      /\ blind => blind'
      /\ ~blind' => ~blind /\ blob = gate[a].seen
      /\ ~Raced' => ~Raced /\ ~blind'
  BY DEF ConsumePut, issue, rest, Raced
<1>6. /\ ran' \in [Content -> 0..2]
      /\ ran[c] = 0 => ran'[c] = 1
      /\ \A d \in Content \ {c} : ran'[d] = ran[d]
  BY <1>1, DispatchCounts DEF ConsumePut, GateInv
<1>7. \A b \in Agent : Trusted(b)' = Trusted(b) /\ Provenance(b)' = Provenance(b)
  BY <1>5, SameTrust
<1>8. Types'
  <2>1. \A b \in Agent : gate'[b].pc \in {"load", "consume", "put"} => gate'[b].content \in Content
    BY <1>3 DEF GateInv, Types
  <2>2. content' \in Content /\ filed' \in SUBSET Events /\ verdicts' \in Nat
        /\ api' \in [Req -> Requests]
        /\ \A r \in Req : api'[r].pc \in {"read", "put"} => api'[r].event \in Events
    BY <1>5 DEF GateInv, Types
  <2>3. gate' \in [Agent -> Gates] /\ blob' \in Blobs /\ ran' \in [Content -> 0..2]
    BY <1>3, <1>4, <1>6
  <2>4. QED
    BY <2>1, <2>2, <2>3 DEF Types
<1>9. Consent'
  <2>1. Trusted(a) /\ Consents(a, c) /\ gate[a].seen.events \subseteq filed
    BY <1>1 DEF GateInv, Consent
  <2>2. NetworkRunIsConsented'
    BY <1>3, <1>5, <1>7, <2>1 DEF GateInv, Consent, Consents, NetworkRunIsConsented
  <2>3. QED
    BY <1>3, <1>4, <1>5, <1>7, <2>1, <2>2, InitialTypes DEF GateInv, Consent, Consents
<1>10. Denials'
  BY <1>3, <1>4, <1>5 DEF GateInv, Denials, DenialHoldsUnlessRaced
<1>11. ASSUME ~Raced'
       PROVE  /\ \A b \in Agent : Active(b)' => holder' = b /\ status' = "claimed"
              /\ \A b \in Agent : gate'[b].pc \notin {"consume", "put"}
  <2>1. Active(a) /\ \A b \in Agent \ {a} : ~Active(b)
    BY <1>1, <1>5, <1>11 DEF GateInv, Spending, Active
  <2>2. QED
    BY <1>3, <1>5, <1>11, <2>1 DEF GateInv, Spending, Active
<1>12. ASSUME ~Raced', settings.dispatch = "approve", signer \notin Agent
       PROVE  \A d \in Content : /\ ran'[d] > 0 => \E w \in blob'.consumed : w.content = d
                                 /\ ran'[d] < 2
  <2>1. blob'.consumed = blob.consumed \cup {u}
    BY <1>4, <1>5, <1>12
  <2>2. ran[c] \in 0..2 /\ ~(ran[c] > 0)
    BY <1>1, <1>5, <1>12 DEF GateInv, Types, Spending
  <2>3. ran'[c] = 1
    BY <1>6, <2>2
  <2>4. \A d \in Content : /\ ran[d] > 0 => \E w \in blob.consumed : w.content = d
                           /\ ran[d] < 2
    BY <1>5, <1>12 DEF GateInv, Spending
  <2> HIDE DEF c
  <2>5. TAKE d \in Content
  <2>6. CASE d = c
    BY <1>2, <2>1, <2>3, <2>6
  <2>7. CASE d # c
    BY <1>6, <2>1, <2>4, <2>7
  <2>8. QED
    BY <2>6, <2>7
<1>13. Spending'
  BY <1>5, <1>11, <1>12 DEF Spending
<1>14. QED
  BY <1>8, <1>9, <1>10, <1>13 DEF GateInv

-----------------------------------------------------------------------------
(* The API and the world.                                                   *)

\* A step that neither moves a gate nor writes the blob, and takes no claim away
\* unless it is blind.
LEMMA QuietRequest ==
  ASSUME GateInv, Types',
         UNCHANGED <<settings, signer, trust, blob, gate, filed, ran>>,
         blind => blind', UNCHANGED hidden,
         ~blind' => UNCHANGED <<status, holder>> \/ status # "claimed",
         \A r \in Req : api'[r].seen.events \subseteq filed
  PROVE  GateInv'
<1>1. \A b \in Agent : Trusted(b)' = Trusted(b) /\ Provenance(b)' = Provenance(b)
  BY SameTrust
<1>2. Consent'
  BY <1>1 DEF GateInv, Consent, Consents, NetworkRunIsConsented
<1>3. Denials'
  BY DEF GateInv, Denials, DenialHoldsUnlessRaced
<1>4. \A b \in Agent : Active(b)' = Active(b)
  BY DEF Active
<1>5. Spending'
  BY <1>4 DEF GateInv, Spending, Raced
<1>6. QED
  BY <1>2, <1>3, <1>5 DEF GateInv

\* A request takes a verdict.
LEMMA SubmitKeeps ==
  ASSUME GateInv, NEW r \in Req, Submit(r)
  PROVE  GateInv'
<1>1. r[1] \in Agent
  BY ReqAssumption
<1>2. PICK v \in {"approve", "deny"} :
         api' = [api EXCEPT ![r].pc = "read", ![r].parked = status = "awaiting",
                            ![r].event = SignedVerdict(r[1], v)]
  BY DEF Submit
<1>3. SignedVerdict(r[1], v) \in Events
  <2>1. content \in Content /\ verdicts + 1 \in Nat
    BY DEF GateInv, Types
  <2>2. QED
    BY <1>1, <2>1, Zenon DEF SignedVerdict, Events
<1> DEFINE parked == status = "awaiting"
<1>4. parked \in BOOLEAN
  OBVIOUS
<1>5. /\ api' \in [Req -> Requests] /\ api'[r].event \in Events /\ api'[r].seen = api[r].seen
      /\ \A q \in Req \ {r} : api'[q] = api[q]
  <2> HIDE DEF parked
  <2>1. api' = [api EXCEPT ![r].pc = "read", ![r].parked = parked,
                           ![r].event = SignedVerdict(r[1], v)]
    BY <1>2 DEF parked
  <2>2. PICK k : k = [api[r] EXCEPT !.pc = "read", !.parked = parked,
                                    !.event = SignedVerdict(r[1], v)]
    OBVIOUS
  <2>3. api \in [Req -> Requests] /\ api[r] \in Requests
    BY DEF GateInv, Types
  <2>4. k \in Requests /\ k.event \in Events /\ k.seen = api[r].seen
    BY <1>3, <1>4, <2>2, <2>3 DEF Requests, ApiPc
  <2>5. api' = [api EXCEPT ![r] = k]
    BY <2>1, <2>2, <2>3
  <2>6. QED
    BY <2>3, <2>4, <2>5
<1>6. UNCHANGED <<settings, signer, trust, content, status, holder, blob, gate, filed, ran, blind, hidden>>
      /\ verdicts' = verdicts + 1
  BY DEF Submit, issue
<1>7. Types'
  BY <1>5, <1>6 DEF GateInv, Types
<1>8. QED
  BY <1>5, <1>6, <1>7, QuietRequest DEF GateInv, Consent

\* A request reads the blob.
LEMMA SubmitReadKeeps ==
  ASSUME GateInv, NEW r \in Req, SubmitRead(r)
  PROVE  GateInv'
<1>1. /\ api' \in [Req -> Requests] /\ api'[r].event = api[r].event /\ api'[r].seen = blob
      /\ \A q \in Req \ {r} : api'[q] = api[q]
  BY DEF SubmitRead, GateInv, Types, Requests, ApiPc
<1>2. UNCHANGED <<settings, signer, trust, content, status, holder, blob, gate, filed, ran, blind,
                  hidden, verdicts>>
      /\ api[r].pc = "read"
  BY DEF SubmitRead, issue, rest
<1>3. Types'
  BY <1>1, <1>2 DEF GateInv, Types
<1>4. QED
  BY <1>1, <1>2, <1>3, QuietRequest DEF GateInv, Consent

\* A request writes the blob extended by its verdict.
LEMMA SubmitPutKeeps ==
  ASSUME GateInv, NEW r \in Req, SubmitPut(r)
  PROVE  GateInv'
<1>1. api[r].pc = "put" /\ api[r].event \in Events /\ api[r].seen \in Blobs
  BY DEF SubmitPut, GateInv, Types, Requests
<1>2. PICK q \in {NoRequest, [NoRequest EXCEPT !.pc = "requeue"]} : api' = [api EXCEPT ![r] = q]
  BY DEF SubmitPut
<1>3. q \in Requests /\ q.pc \notin {"read", "put"} /\ q.seen = EmptyBlob
  BY InitialTypes DEF Requests, ApiPc
<1>4. /\ api' \in [Req -> Requests] /\ api'[r] = q
      /\ \A s \in Req \ {r} : api'[s] = api[s]
  BY <1>2, <1>3, RequestMoves DEF GateInv
<1>5. /\ blob' \in Blobs /\ blob'.events = api[r].seen.events \cup {api[r].event}
      /\ blob'.consumed = api[r].seen.consumed
  BY <1>1 DEF SubmitPut, Blobs
<1>6. /\ UNCHANGED <<settings, signer, trust, content, status, holder, gate, ran, verdicts, hidden>>
      /\ filed' = filed \cup {api[r].event}
      /\ blind => blind'
      /\ ~blind' => ~blind /\ blob = api[r].seen
  BY DEF SubmitPut, issue, rest
<1>7. \A b \in Agent : Trusted(b)' = Trusted(b) /\ Provenance(b)' = Provenance(b)
  BY <1>6, SameTrust
<1>8. Types'
  <2>1. filed' \in SUBSET Events
    BY <1>1, <1>6 DEF GateInv, Types
  <2>2. \A s \in Req : api'[s].pc \in {"read", "put"} => api'[s].event \in Events
    BY <1>3, <1>4 DEF GateInv, Types
  <2>3. QED
    BY <1>4, <1>5, <1>6, <2>1, <2>2 DEF GateInv, Types
<1>9. Consent'
  <2>1. blob'.events \subseteq filed'
    BY <1>5, <1>6 DEF GateInv, Consent
  <2>2. \A s \in Req : api'[s].seen.events \subseteq filed'
    BY <1>3, <1>4, <1>6, InitialTypes DEF GateInv, Consent
  <2>3. NetworkRunIsConsented'
    BY <1>6, <1>7 DEF GateInv, Consent, NetworkRunIsConsented
  <2>4. \A a \in Agent : gate'[a].pc \in {"consume", "put"} => Consents(a, gate[a].content)'
    BY <1>6 DEF GateInv, Consent, Consents
  <2>5. QED
    BY <1>6, <1>7, <2>1, <2>2, <2>3, <2>4 DEF GateInv, Consent
<1>10. Denials'
  BY <1>5, <1>6 DEF GateInv, Denials, DenialHoldsUnlessRaced
<1>11. Spending'
  <2>1. \A b \in Agent : Active(b)' = Active(b)
    BY <1>6 DEF Active
  <2>2. ~blind' => blob'.consumed = blob.consumed
    BY <1>5, <1>6
  <2>3. QED
    BY <1>6, <2>1, <2>2 DEF GateInv, Spending, Raced
<1>12. QED
  BY <1>8, <1>9, <1>10, <1>11 DEF GateInv

\* A request looks whether the issue is still parked.
LEMMA RequeueCheckKeeps ==
  ASSUME GateInv, NEW r \in Req, RequeueCheck(r)
  PROVE  GateInv'
<1>1. PICK pc \in {"todo", "idle"} : api' = [api EXCEPT ![r].pc = pc]
  BY DEF RequeueCheck
<1>2. /\ api' \in [Req -> Requests] /\ api'[r].pc = pc /\ api'[r].seen = api[r].seen
      /\ \A q \in Req \ {r} : api'[q] = api[q]
  BY <1>1 DEF GateInv, Types, Requests, ApiPc
<1>3. UNCHANGED <<settings, signer, trust, content, status, holder, blob, gate, filed, ran, blind,
                  hidden, verdicts>>
  BY DEF RequeueCheck, issue
<1>4. Types'
  BY <1>2, <1>3 DEF GateInv, Types
<1>5. QED
  BY <1>2, <1>3, <1>4, QuietRequest DEF GateInv, Consent

\* A request that ends, having requeued the issue or having failed.
LEMMA RequestEnds ==
  ASSUME GateInv, NEW r \in Req, RequeueWrite(r) \/ RequestFails(r)
  PROVE  GateInv'
<1>1. /\ api' \in [Req -> Requests] /\ api'[r] = NoRequest
      /\ \A q \in Req \ {r} : api'[q] = api[q]
  BY InitialTypes, RequestMoves DEF RequeueWrite, RequestFails, GateInv
<1>2. /\ UNCHANGED <<settings, signer, trust, content, blob, gate, filed, ran, verdicts, hidden>>
      /\ blind => blind'
      /\ ~blind' => UNCHANGED <<status, holder>> \/ status # "claimed"
  <2>1. CASE RequeueWrite(r)
    <3>1. ~blind' => ~blind /\ status = "awaiting"
      BY <2>1 DEF RequeueWrite
    <3>2. (blind => blind') /\ "awaiting" # "claimed"
      BY <2>1 DEF RequeueWrite
    <3>3. UNCHANGED <<settings, signer, trust, content, blob, gate, filed, ran, verdicts, hidden>>
      BY <2>1 DEF RequeueWrite, issue, rest
    <3>4. QED
      BY <3>1, <3>2, <3>3
  <2>2. CASE RequestFails(r)
    BY <2>2 DEF RequestFails, issue
  <2>3. QED
    BY <2>1, <2>2
<1>3. Types'
  BY <1>1, <1>2, InitialTypes DEF GateInv, Types
<1>4. QED
  BY <1>1, <1>2, <1>3, InitialTypes, QuietRequest DEF GateInv, Consent

\* Approvals expire and the author changes the issue's content.
LEMMA WorldKeeps ==
  ASSUME GateInv, Expire \/ Edit
  PROVE  GateInv'
<1>1. UNCHANGED <<settings, signer, trust, status, holder, blob, gate, api, filed, ran, blind, hidden, verdicts>>
  BY DEF Expire, Edit, issue
<1>2. content' \in Content
  BY DEF Expire, Edit, issue, GateInv, Types
<1>3. Types'
  BY <1>1, <1>2 DEF GateInv, Types
<1>4. QED
  BY <1>1, <1>3, QuietRequest DEF GateInv, Consent

-----------------------------------------------------------------------------
(* The theorems.                                                            *)

\* The invariant holds at the start.
LEMMA InitGate == Init => GateInv
<1> SUFFICES ASSUME Init PROVE GateInv
  OBVIOUS
<1>1. content \in Content
  BY NoneAssumption DEF Init
<1>2. /\ \A a \in Agent : gate[a] = Idle
      /\ \A r \in Req : api[r] = NoRequest
      /\ \A c \in Content : ran[c] = 0
      /\ blob = EmptyBlob /\ filed = {} /\ verdicts = 0
      /\ gate \in [Agent -> Gates] /\ api \in [Req -> Requests] /\ ran \in [Content -> 0..2]
  BY InitialTypes DEF Init
<1>3. Types
  BY <1>1, <1>2, InitialTypes DEF Types
<1>4. Consent
  BY <1>2, InitialTypes DEF Consent, NetworkRunIsConsented
<1>5. Denials
  BY <1>2, InitialTypes DEF Denials, DenialHoldsUnlessRaced
<1>6. Spending
  BY <1>2, InitialTypes DEF Spending, Active
<1>7. QED
  BY <1>3, <1>4, <1>5, <1>6 DEF GateInv

\* Every step preserves the invariant.
LEMMA NextGate == GateInv /\ [Next]_vars => GateInv'
<1> SUFFICES ASSUME GateInv, [Next]_vars PROVE GateInv'
  OBVIOUS
<1>1. CASE \E a \in Agent : GateStep(a) \/ Stop(a) \/ Restart(a)
  <2>1. PICK a \in Agent : GateStep(a) \/ Stop(a) \/ Restart(a)
    BY <1>1
  <2>2. CASE ClaimCheck(a) \/ ClaimWrite(a) \/ Gate(a) \/ LoadApprovals(a)
    BY <2>2, ClaimCheckKeeps, ClaimWriteKeeps, GateKeeps, LoadKeeps
  <2>3. CASE ConsumeRead(a) \/ ConsumePut(a) \/ Block(a) \/ EndRun(a) \/ Restart(a) \/ Stop(a)
    BY <2>3, ConsumeReadKeeps, ConsumePutKeeps, BlockKeeps, StopKeeps
  <2>4. QED
    BY <2>1, <2>2, <2>3 DEF GateStep
<1>2. CASE \E r \in Req : Submit(r) \/ ApiStep(r) \/ RequestFails(r)
  BY <1>2, SubmitKeeps, SubmitReadKeeps, SubmitPutKeeps, RequeueCheckKeeps, RequestEnds DEF ApiStep
<1>3. CASE Expire \/ Edit
  BY <1>3, WorldKeeps, SMTT(30)
<1>4. CASE UNCHANGED vars
  <2>1. UNCHANGED <<settings, signer, trust, content, status, holder, blob, gate, api, filed, ran,
                    blind, hidden, verdicts>>
    BY <1>4 DEF vars, issue, rest
  <2>2. Types'
    BY <2>1 DEF GateInv, Types
  <2>3. QED
    BY <2>1, <2>2, QuietRequest DEF GateInv, Consent
<1>5. QED
  BY <1>1, <1>2, <1>3, <1>4 DEF Next

\* Every behaviour of the gates and the API keeps the invariant: what blobs and
\* gates hold was filed, nothing filed is lost and claims exclude each other
\* until a write lands on something its writer has not read or lists as absent.
THEOREM GateInvHolds == Spec => []GateInv
BY InitGate, NextGate, PTL DEF Spec

\* The gate of `dispatch_gate` and `evaluate_network_gate` never lets through the
\* work of another signer without a verified, trusted signature and consent.
THEOREM Consented == Spec => []NetworkRunIsConsented
<1>1. GateInv => NetworkRunIsConsented
  BY DEF GateInv, Consent
<1>2. QED
  BY <1>1, GateInvHolds, PTL

\* A denial that landed before the approvals were loaded is honoured unless some
\* PUT of the blob or the claim overwrote what its writer had not read.
THEOREM DenialHolds == Spec => []DenialHoldsUnlessRaced
<1>1. GateInv => DenialHoldsUnlessRaced
  BY DEF GateInv, Denials
<1>2. QED
  BY <1>1, GateInvHolds, PTL

\* A content that needs approval runs once, whatever is approved, expires,
\* crashes or is requeued, unless such a PUT happened or a daemon's listing hid
\* the live claim of an agent whose key it cannot resolve.
THEOREM SpentOnce == Spec => []SpentOnceUnlessRaced
<1>1. GateInv => SpentOnceUnlessRaced
  BY DEF GateInv, Types, Spending, Raced, SpentOnceUnlessRaced
<1>2. QED
  BY <1>1, GateInvHolds, PTL

-----------------------------------------------------------------------------
(***************************************************************************)
(* No approved issue stays parked.  A gate that parks an issue found no    *)
(* approval to run it on; an approval that lands later was asked for while *)
(* the issue was parked, so its request goes on to requeue it.             *)
(***************************************************************************)
Calm == ~missed /\ faults = 0 /\ ~Raced /\ edits <= 1

\* A request whose approval is signed and not yet written.
Approving(r) == api[r].pc \in {"read", "put"} /\ api[r].event.verdict = "approve"
Requeuing == \E r \in Req : api[r].pc \in {"requeue", "todo"}
Undecided(a) == Decision(a, content) # "approved"

\* The approvals, written or on their way, are bound to what the issue says now,
\* or to something else.
BoundHere ==
  /\ \A e \in blob.events : e.verdict = "approve" => e.content = content
  /\ \A r \in Req : Approving(r) => api[r].event.content = content

BoundElsewhere ==
  /\ \A e \in blob.events : e.verdict = "approve" => e.content # content
  /\ \A r \in Req : Approving(r) => api[r].event.content # content

Asked == \A r \in Req : Approving(r) => api[r].parked

Unedited == edits = 0 =>
  BoundHere /\ \A a \in Agent : gate[a].pc = "load" => gate[a].content = content

\* A gate that decides on a content the issue no longer has is the only news.
Outdated ==
  \A a \in Agent : gate[a].pc = "load" /\ gate[a].content # content => BoundElsewhere

Parking ==
  \A a \in Agent : gate[a].pc = "park" /\ gate[a].reason = "awaiting" => Requeuing \/ Undecided(a)

Parked == status = "awaiting" => Requeuing \/ \E a \in Agent : Undecided(a)

ParkInv ==
  /\ faults \in Nat /\ edits \in Nat
  /\ Calm => Asked /\ Unedited /\ Outdated /\ Parking /\ Parked

\* A gate that finds no approval of a content does not take it for approved.
LEMMA NothingToDecideOn ==
  ASSUME NEW a, NEW c, \A e \in blob.events : e.verdict = "approve" => e.content # c,
         Types
  PROVE  Decision(a, c) # "approved"
<1> DEFINE valid == {e \in blob.events : e.by \in Knows[a] /\ IsValid(e, c, blob.consumed)}
<1>1. \A e \in valid : e.verdict = "deny"
  BY DEF IsValid, Types, Blobs, Events
<1>2. Decision(a, c) = ApprovalDecision(valid)
  BY DEF Decision
<1> HIDE DEF valid
<1>3. QED
  BY <1>1, <1>2 DEF ApprovalDecision

\* What is not approved stays so while no approval becomes valid and no denial
\* is lost.
LEMMA StaysUndecided ==
  ASSUME NEW a, NEW c, Types, Types', Decision(a, c) # "approved",
         \A e \in blob'.events : e.verdict = "approve" /\ IsValid(e, c, blob.consumed)' =>
                                 e \in blob.events /\ IsValid(e, c, blob.consumed),
         \A e \in blob.events : e.verdict = "deny" => e \in blob'.events
  PROVE  Decision(a, c)' # "approved"
<1> DEFINE valid == {e \in blob.events : e.by \in Knows[a] /\ IsValid(e, c, blob.consumed)}
           after == {e \in blob'.events : e.by \in Knows[a] /\ IsValid(e, c, blob.consumed)'}
<1>1. \A e \in blob.events \cup blob'.events : e.verdict \in {"approve", "deny"}
  BY DEF Types, Blobs, Events
<1>2. Decision(a, c) = ApprovalDecision(valid) /\ Decision(a, c)' = ApprovalDecision(after)
  BY DEF Decision, ApprovalDecision
<1>3. (\E e \in valid : e.verdict = "deny") \/ valid = {}
  BY <1>2 DEF ApprovalDecision
<1>4. CASE \E e \in valid : e.verdict = "deny"
  <2>1. PICK e \in valid : e.verdict = "deny"
    BY <1>4
  <2>2. e \in after
    BY <2>1 DEF IsValid
  <2>3. QED
    BY <1>2, <2>1, <2>2 DEF ApprovalDecision
<1>5. CASE valid = {}
  <2>1. \A e \in after : e.verdict = "deny"
    BY <1>1, <1>5
  <2> HIDE DEF after
  <2>2. QED
    BY <1>2, <2>1 DEF ApprovalDecision
<1>6. QED
  BY <1>3, <1>4, <1>5

\* The same decision, about the same issue, on the same verdicts.
LEMMA SameDecision ==
  ASSUME UNCHANGED <<blob, expired, content>>
  PROVE  \A a \in Agent : Undecided(a)' <=> Undecided(a)
  BY DEF Undecided, Decision, ApprovalDecision, IsValid

\* A disturbance is never undone.
LEMMA CalmBefore ==
  ASSUME ParkInv, Next, Calm'
  PROVE  Calm /\ faults' = faults
<1> DEFINE Kept == (missed => missed') /\ edits' = edits /\ faults' \in {faults, faults + 1}
<1>1. ASSUME NEW a \in Agent, GateStep(a) \/ Stop(a) \/ Restart(a)
      PROVE  (Raced => Raced') /\ Kept
  <2>1. CASE ClaimCheck(a) \/ Gate(a) \/ Block(a) \/ EndRun(a) \/ Restart(a)
    <3>1. UNCHANGED <<blind, rest>>
      BY <2>1, Zenon DEF ClaimCheck, Gate, Block, EndRun, Restart
    <3>2. QED
      BY <3>1 DEF rest, Raced
  <2>2. CASE LoadApprovals(a) \/ ConsumeRead(a) \/ Stop(a)
    <3>1. UNCHANGED <<blind, hidden, missed, edits>>
      BY <2>2 DEF LoadApprovals, ConsumeRead, Stop
    <3>2. faults' \in {faults, faults + 1}
      BY <2>2 DEF LoadApprovals, ConsumeRead, Stop, Fault
    <3>3. QED
      BY <3>1, <3>2 DEF Raced
  <2>3. CASE ClaimWrite(a) \/ ConsumePut(a)
    <3>1. UNCHANGED <<missed, edits, faults>>
      BY <2>3, Zenon DEF ClaimWrite, ConsumePut, rest
    <3>2. \E b : blind' = (blind \/ b)
      BY <2>3, Zenon DEF ClaimWrite, ConsumePut
    <3>3. UNCHANGED hidden \/ hidden' = (hidden \/ Hides(a))
      BY <2>3, Zenon DEF ClaimWrite, ConsumePut, rest
    <3>4. Raced => Raced'
      BY <3>2, <3>3, Zenon DEF Raced
    <3>5. QED
      BY <3>1, <3>4
  <2>4. QED
    BY <1>1, <2>1, <2>2, <2>3 DEF GateStep
<1>2. ASSUME NEW r \in Req, Submit(r) \/ ApiStep(r) \/ RequestFails(r)
      PROVE  (Raced => Raced') /\ Kept
  <2>1. CASE Submit(r) \/ RequeueCheck(r)
    <3>1. UNCHANGED <<blind, hidden, edits, faults>>
      BY <2>1 DEF Submit, RequeueCheck
    <3>2. PICK v : missed' = (missed \/ (v = "approve" /\ status # "awaiting"))
      BY <2>1, Zenon DEF Submit, RequeueCheck
    <3>3. missed => missed'
      BY <3>2
    <3>4. QED
      BY <3>1, <3>3 DEF Raced
  <2>2. CASE SubmitRead(r) \/ SubmitPut(r) \/ RequeueWrite(r)
    <3>1. UNCHANGED rest
      BY <2>2 DEF SubmitRead, SubmitPut, RequeueWrite
    <3>2. blind => blind'
      BY <2>2 DEF SubmitRead, SubmitPut, RequeueWrite
    <3>3. QED
      BY <3>1, <3>2 DEF rest, Raced
  <2>3. CASE RequestFails(r)
    BY <2>3 DEF RequestFails, Fault, Raced
  <2>4. QED
    BY <1>2, <2>1, <2>2, <2>3 DEF ApiStep
<1>3. CASE Expire \/ Edit
  <2>1. UNCHANGED <<blind, hidden, missed, faults>> /\ edits' \in {edits, edits + 1}
    BY <1>3 DEF Expire, Edit
  <2>2. QED
    BY <2>1 DEF Calm, ParkInv, Raced
<1>4. QED
  BY <1>1, <1>2, <1>3 DEF Next, Calm, ParkInv

Settled == Asked /\ Unedited /\ Outdated /\ Parking /\ Parked

\* A step of a gate that leaves verdicts, requests and content alone.
LEMMA GateSettles ==
  ASSUME Settled, NEW a \in Agent,
         UNCHANGED <<blob, expired, content, api, edits>>,
         \A b \in Agent \ {a} : gate'[b] = gate[b],
         gate'[a].pc = "load" =>
           \/ gate'[a].content = content
           \/ gate[a].pc = "load" /\ gate'[a].content = gate[a].content,
         gate'[a].pc = "park" /\ gate'[a].reason = "awaiting" => Undecided(a),
         status' = "awaiting" =>
           \/ status = "awaiting"
           \/ gate[a].pc = "park" /\ gate[a].reason = "awaiting"
  PROVE  Settled'
<1>1. /\ \A b \in Agent : Undecided(b)' <=> Undecided(b)
      /\ Requeuing' <=> Requeuing
      /\ BoundHere' <=> BoundHere
      /\ BoundElsewhere' <=> BoundElsewhere
  BY SameDecision DEF Requeuing, BoundHere, BoundElsewhere, Approving
<1>2. Asked'
  BY DEF Settled, Asked, Approving
<1>3. Unedited'
  BY <1>1 DEF Settled, Unedited
<1>4. Outdated'
  BY <1>1 DEF Settled, Outdated
<1>5. Parking'
  BY <1>1 DEF Settled, Parking
<1>6. Parked'
  BY <1>1 DEF Settled, Parking, Parked
<1>7. QED
  BY <1>2, <1>3, <1>4, <1>5, <1>6 DEF Settled

\* While the issue is not claimed no gate is at work on it.
LEMMA NobodyAtWork ==
  ASSUME GateInv, ~Raced, status # "claimed"
  PROVE  \A a \in Agent : ~Active(a)
  BY DEF GateInv, Spending

\* The gates' own steps.
LEMMA GateStepSettles ==
  ASSUME GateInv, Calm, Calm', Settled, NEW a \in Agent,
         ClaimCheck(a) \/ ClaimWrite(a) \/ Gate(a) \/ LoadApprovals(a) \/ ConsumeRead(a)
           \/ Block(a) \/ Restart(a)
  PROVE  Settled'
<1>0. gate \in [Agent -> Gates] /\ gate[a] \in Gates
  BY DEF GateInv, Types
<1>1. CASE ClaimCheck(a) \/ ClaimWrite(a) \/ Restart(a)
  <2>1. PICK pc \in {"claim", "gate", "idle"} : gate' = [gate EXCEPT ![a].pc = pc]
    BY <1>1, Zenon DEF ClaimCheck, ClaimWrite, Restart, GateAt
  <2>2. /\ gate'[a].pc = pc
        /\ \A b \in Agent \ {a} : gate'[b] = gate[b]
    BY <1>0, <2>1 DEF Gates
  <2>3. UNCHANGED <<blob, expired, content, api, edits>>
    BY <1>1, ZenonT(40) DEF ClaimCheck, ClaimWrite, Restart, issue, rest
  <2>4. status' = "awaiting" => status = "awaiting"
    BY <1>1, Zenon DEF ClaimCheck, ClaimWrite, Restart
  <2>5. QED
    BY <2>2, <2>3, <2>4, GateSettles
<1>2. CASE Gate(a)
  <2>1. /\ gate'[a].reason = "blocked" /\ gate'[a].content = content
        /\ \A b \in Agent \ {a} : gate'[b] = gate[b]
    BY <1>0, <1>2 DEF Gate, Gates
  <2>2. UNCHANGED <<blob, expired, content, api, edits, status>>
    BY <1>2 DEF Gate, issue, rest
  <2>3. QED
    BY <2>1, <2>2, GateSettles
<1>3. CASE LoadApprovals(a)
  <2>1. /\ gate[a].pc = "load" /\ faults' = faults
        /\ UNCHANGED <<blob, expired, content, api, edits, status>>
    BY <1>3 DEF LoadApprovals, issue, Calm
  <2>2. ASSUME NEW reason \in {"blocked", "awaiting"}, Park(a, reason),
               reason = "awaiting" => Decision(a, gate[a].content) # "approved"
        PROVE  Settled'
    <3>1. /\ gate'[a].pc = "park" /\ gate'[a].reason = reason
          /\ \A b \in Agent \ {a} : gate'[b] = gate[b]
      BY <1>0, <2>2 DEF Park, Gates
    <3>2. ASSUME reason = "awaiting" PROVE Undecided(a)
      <4>1. CASE gate[a].content = content
        BY <2>2, <3>2, <4>1 DEF Undecided
      <4>2. CASE gate[a].content # content
        <5>1. \A e \in blob.events : e.verdict = "approve" => e.content # content
          BY <2>1, <4>2 DEF Settled, Outdated, BoundElsewhere
        <5>2. PICK c : c = content
          OBVIOUS
        <5>3. Decision(a, c) # "approved"
          BY <5>1, <5>2, NothingToDecideOn DEF GateInv
        <5>4. QED
          BY <5>2, <5>3 DEF Undecided
      <4>3. QED
        BY <4>1, <4>2
    <3>3. QED
      BY <2>1, <3>1, <3>2, GateSettles
  <2>3. ASSUME NEW d, gate' = [gate EXCEPT ![a].pc = "consume", ![a].denied = d]
        PROVE  Settled'
    <3>1. gate'[a].pc = "consume" /\ \A b \in Agent \ {a} : gate'[b] = gate[b]
      BY <1>0, <2>3 DEF Gates
    <3>2. QED
      BY <2>1, <3>1, GateSettles
  <2>4. QED
    BY <1>3, <2>2, <2>3, Zenon DEF LoadApprovals
<1>4. CASE ConsumeRead(a)
  <2>1. UNCHANGED <<blob, expired, content, api, edits, status>>
    BY <1>4, SMTT(30) DEF ConsumeRead, issue
  <2>2. CASE Park(a, "blocked")
    <3>1. gate'[a].reason = "blocked" /\ \A b \in Agent \ {a} : gate'[b] = gate[b]
      BY <1>0, <2>2 DEF Park, Gates
    <3>2. gate'[a].pc = "park"
      BY <1>0, <2>2, SMTT(30) DEF Park, Gates
    <3>3. QED
      BY <2>1, <3>1, <3>2, GateSettles
  <2>3. CASE gate' = [gate EXCEPT ![a].pc = "put", ![a].seen = blob]
    <3>1. gate'[a].pc = "put" /\ \A b \in Agent \ {a} : gate'[b] = gate[b]
      BY <1>0, <2>3 DEF Gates
    <3>2. QED
      BY <2>1, <3>1, GateSettles
  <2>4. QED
    BY <1>4, <2>2, <2>3, Zenon DEF ConsumeRead
<1>5. CASE Block(a)
  <2>1. holder = a
    BY <1>5 DEF Block, Active, GateInv, Spending, Calm
  <2>2. /\ gate[a].pc = "park" /\ status' = gate[a].reason /\ gate' = [gate EXCEPT ![a] = Idle]
        /\ UNCHANGED <<blob, expired, content, api, edits>>
    BY <1>5, <2>1, SMTT(30) DEF Block, issue, rest
  <2>3. gate'[a].pc = "idle" /\ \A b \in Agent \ {a} : gate'[b] = gate[b]
    BY <1>0, <2>2, InitialTypes
  <2>4. QED
    BY <2>2, <2>3, GateSettles
<1>6. QED
  BY <1>1, <1>2, <1>3, <1>4, <1>5

\* The end of a run, with the daemon or without it.
LEMMA EndRunSettles ==
  ASSUME GateInv, Calm, Settled, NEW a \in Agent, EndRun(a)
  PROVE  Settled'
<1>1. gate[a].pc = "run" /\ holder = a
  BY DEF EndRun, Active, GateInv, Spending, Calm
<1>2. UNCHANGED <<blob, expired, content, edits>>
  BY DEF EndRun, issue, rest
<1>3. /\ status' \in {"review", "blocked", "todo"}
      /\ (gate' = [gate EXCEPT ![a] = Idle] /\ UNCHANGED api) \/ GoDown(a)
  BY <1>1 DEF EndRun
<1>4. /\ gate'[a].pc \in {"idle", "down"}
      /\ \A b \in Agent \ {a} : gate'[b] = gate[b]
      /\ \A r \in Req : api'[r] = api[r] \/ api'[r] = NoRequest
  BY <1>3, InitialTypes, GateMoves, Downs DEF GateInv
<1>5. \A b \in Agent : gate'[b].pc \notin {"load", "park"}
  BY <1>1, <1>4 DEF GateInv, Spending, Active, Calm
<1>6. Asked' /\ Unedited'
  BY <1>2, <1>4, <1>5, InitialTypes DEF Settled, Asked, Unedited, BoundHere, Approving
<1>7. QED
  BY <1>3, <1>5, <1>6 DEF Settled, Outdated, Parking, Parked

\* A gate records that it spends an approval.
LEMMA ConsumePutSettles ==
  ASSUME GateInv, GateInv', Calm, Calm', Settled, NEW a \in Agent, ConsumePut(a)
  PROVE  Settled'
<1>1. /\ UNCHANGED <<expired, content, edits, status, api>>
      /\ blob = gate[a].seen /\ gate[a].seen \in Blobs
  BY DEF ConsumePut, issue, rest, Calm, Raced, GateInv, Types, Gates
<1>2. blob'.events = blob.events /\ blob.consumed \subseteq blob'.consumed
  BY <1>1 DEF ConsumePut, Blobs
<1>3. gate'[a].pc = "run" /\ \A b \in Agent \ {a} : gate'[b] = gate[b]
  BY DEF ConsumePut, GateInv, Types, Gates
<1>4. \A e, c : IsValid(e, c, blob.consumed)' => IsValid(e, c, blob.consumed)
  BY <1>1, <1>2 DEF IsValid
<1>5. PICK c : c = content
  OBVIOUS
<1>6. ASSUME NEW b \in Agent, Undecided(b) PROVE Undecided(b)'
  <2>1. Decision(b, c) # "approved"
    BY <1>5, <1>6 DEF Undecided
  <2>2. Decision(b, c)' # "approved"
    BY <1>2, <1>4, <2>1, StaysUndecided DEF GateInv
  <2>3. content' = c
    BY <1>1, <1>5, SMTT(30)
  <2>4. QED
    BY <2>2, <2>3 DEF Undecided, Decision, ApprovalDecision, IsValid
<1>7. /\ Requeuing' <=> Requeuing
      /\ BoundHere' <=> BoundHere
      /\ BoundElsewhere' <=> BoundElsewhere
      /\ Asked' <=> Asked
  <2>1. Requeuing' <=> Requeuing
    BY <1>1, <1>2 DEF Requeuing
  <2>2. BoundHere' <=> BoundHere
    BY <1>1, <1>2 DEF BoundHere, Approving
  <2>3. BoundElsewhere' <=> BoundElsewhere
    BY <1>1, <1>2 DEF BoundElsewhere, Approving
  <2>4. Asked' <=> Asked
    BY <1>1, <1>2 DEF Asked, Approving
  <2>5. QED
    BY <2>1, <2>2, <2>3, <2>4
<1>8. Unedited' /\ Outdated'
  BY <1>1, <1>3, <1>7 DEF Settled, Unedited, Outdated
<1>9. Parking' /\ Parked'
  BY <1>1, <1>3, <1>6, <1>7 DEF Settled, Parking, Parked
<1>10. QED
  BY <1>7, <1>8, <1>9 DEF Settled

\* A step of a request that leaves verdicts and gates alone: it takes an approval
\* of a parked issue, goes on with the one it has, or goes on to requeue.
LEMMA RequestSettles ==
  ASSUME Settled, NEW r \in Req,
         UNCHANGED <<blob, expired, content, gate, edits, status>>,
         \A q \in Req \ {r} : api'[q] = api[q],
         Requeuing => Requeuing',
         Approving(r)' =>
           \/ Approving(r) /\ api'[r].event = api[r].event /\ api'[r].parked = api[r].parked
           \/ /\ api'[r].event.content = content /\ api'[r].parked
              /\ \A a \in Agent : gate[a].pc # "load"
  PROVE  Settled'
<1>1. \A a \in Agent : Undecided(a)' <=> Undecided(a)
  BY SameDecision
<1>2. \A q \in Req \ {r} : Approving(q)' <=> Approving(q)
  BY DEF Approving
<1>3. Asked'
  BY <1>2 DEF Settled, Asked
<1>4. BoundHere => BoundHere'
  BY <1>2 DEF BoundHere
<1>5. Unedited'
  BY <1>4 DEF Settled, Unedited
<1>6. Outdated'
  <2> SUFFICES ASSUME NEW a \in Agent, gate'[a].pc = "load", gate'[a].content # content'
               PROVE  BoundElsewhere'
    BY DEF Outdated
  <2>1. BoundElsewhere
    BY DEF Settled, Outdated
  <2>2. QED
    BY <1>2, <2>1 DEF BoundElsewhere
<1>7. Parking' /\ Parked'
  BY <1>1 DEF Settled, Parking, Parked
<1>8. QED
  BY <1>3, <1>5, <1>6, <1>7 DEF Settled

\* A request is taken, reads the blob, and looks at the issue again.
LEMMA RequestStepSettles ==
  ASSUME GateInv, Calm, Calm', Settled, NEW r \in Req,
         Submit(r) \/ SubmitRead(r) \/ RequeueCheck(r)
  PROVE  Settled'
<1>0. api \in [Req -> Requests] /\ api[r] \in Requests
  BY SMTT(30) DEF GateInv, Types
<1>1. CASE Submit(r)
  <2>1. PICK v \in {"approve", "deny"} :
           /\ api' = [api EXCEPT ![r].pc = "read", ![r].parked = status = "awaiting",
                                 ![r].event = SignedVerdict(r[1], v)]
           /\ missed' = (missed \/ (v = "approve" /\ status # "awaiting"))
    BY <1>1 DEF Submit
  <2>2. SignedVerdict(r[1], v).verdict = v /\ SignedVerdict(r[1], v).content = content
    BY DEF SignedVerdict
  <2>3. v = "approve" => status = "awaiting"
    BY <2>1 DEF Calm
  <2> DEFINE parked == status = "awaiting"
  <2>4. /\ api'[r].event = SignedVerdict(r[1], v) /\ api'[r].parked = parked
        /\ \A q \in Req \ {r} : api'[q] = api[q]
    <3> HIDE DEF parked
    <3>1. PICK e : e = SignedVerdict(r[1], v)
      OBVIOUS
    <3>2. api' = [api EXCEPT ![r].pc = "read", ![r].parked = parked, ![r].event = e]
      BY <2>1, <3>1 DEF parked
    <3>3. PICK k : k = [api[r] EXCEPT !.pc = "read", !.parked = parked, !.event = e]
      OBVIOUS
    <3>4. k.event = e /\ k.parked = parked
      BY <1>0, <3>3 DEF Requests
    <3>5. api' = [api EXCEPT ![r] = k]
      BY <1>0, <3>2, <3>3
    <3>6. QED
      BY <1>0, <3>1, <3>4, <3>5
  <2>5. UNCHANGED <<blob, expired, content, gate, edits, status>> /\ api[r].pc = "idle"
    BY <1>1 DEF Submit, issue
  <2>6. Requeuing => Requeuing'
    BY <2>4, <2>5 DEF Requeuing
  <2>7. v = "approve" => parked /\ \A a \in Agent : gate[a].pc # "load"
    BY <2>3, NobodyAtWork DEF Active, Calm
  <2>8. Approving(r)' => v = "approve"
    BY <2>2, <2>4 DEF Approving
  <2> HIDE DEF parked
  <2>9. QED
    BY <2>2, <2>4, <2>5, <2>6, <2>7, <2>8, RequestSettles
<1>2. CASE SubmitRead(r)
  <2>1. /\ api'[r].event = api[r].event /\ api'[r].parked = api[r].parked
        /\ \A q \in Req \ {r} : api'[q] = api[q]
    BY <1>0, <1>2 DEF SubmitRead, Requests
  <2>2. UNCHANGED <<blob, expired, content, gate, edits, status>> /\ api[r].pc = "read"
    BY <1>2 DEF SubmitRead, issue, rest
  <2>3. Requeuing => Requeuing'
    BY <2>1, <2>2 DEF Requeuing
  <2>4. Approving(r)' => Approving(r)
    BY <2>1, <2>2 DEF Approving
  <2>5. QED
    BY <2>1, <2>2, <2>3, <2>4, RequestSettles
<1>3. CASE RequeueCheck(r)
  <2>1. status = "awaiting"
    BY <1>3 DEF RequeueCheck, Calm
  <2>2. api'[r].pc = "todo" /\ \A q \in Req \ {r} : api'[q] = api[q]
    BY <1>0, <1>3, <2>1 DEF RequeueCheck, Requests
  <2>3. UNCHANGED <<blob, expired, content, gate, edits, status>>
    BY <1>3 DEF RequeueCheck, issue
  <2>4. Requeuing' /\ ~Approving(r)'
    BY <2>2 DEF Requeuing, Approving
  <2>5. QED
    BY <2>2, <2>3, <2>4, RequestSettles
<1>4. QED
  BY <1>1, <1>2, <1>3

\* A verdict lands: an approval goes on to requeue, a denial decides against.
LEMMA SubmitPutSettles ==
  ASSUME GateInv, GateInv', Calm, Calm', Settled, NEW r \in Req, SubmitPut(r)
  PROVE  Settled'
<1> DEFINE e == api[r].event
<1>1. /\ UNCHANGED <<expired, content, edits, status, gate>>
      /\ blob = api[r].seen /\ api[r].pc = "put" /\ e \in Events /\ blob \in Blobs
  BY DEF SubmitPut, issue, rest, Calm, Raced, GateInv, Types
<1>2. blob'.events = blob.events \cup {e} /\ blob'.consumed = blob.consumed
  BY <1>1 DEF SubmitPut, Blobs
<1>3. PICK q \in {NoRequest, [NoRequest EXCEPT !.pc = "requeue"]} :
         /\ api' = [api EXCEPT ![r] = q]
         /\ e.verdict = "approve" /\ api[r].parked => q = [NoRequest EXCEPT !.pc = "requeue"]
  BY DEF SubmitPut
<1>4. /\ q \in Requests /\ q.pc \notin {"read", "put"}
      /\ e.verdict = "approve" /\ api[r].parked => q.pc = "requeue"
  BY <1>3, InitialTypes DEF Requests, ApiPc
<1>5. api'[r] = q /\ \A s \in Req \ {r} : api'[s] = api[s]
  BY <1>3, <1>4, RequestMoves DEF GateInv
<1>6. Approving(r) <=> e.verdict = "approve"
  BY <1>1 DEF Approving
<1>7. Requeuing => Requeuing'
  BY <1>1, <1>5 DEF Requeuing
<1>8. e.verdict = "approve" => Requeuing'
  BY <1>4, <1>5, <1>6 DEF Settled, Asked, Requeuing
<1>9. \A s \in Req : Approving(s)' => Approving(s) /\ api'[s] = api[s]
  BY <1>4, <1>5 DEF Approving
<1>10. Asked'
  BY <1>9 DEF Settled, Asked
<1>11. (BoundHere => BoundHere') /\ (BoundElsewhere => BoundElsewhere')
  BY <1>1, <1>2, <1>6, <1>9 DEF BoundHere, BoundElsewhere
<1>12. Unedited' /\ Outdated'
  BY <1>1, <1>11 DEF Settled, Unedited, Outdated
<1>13. PICK c : c = content
  OBVIOUS
<1>14. ASSUME NEW b \in Agent, Undecided(b), e.verdict # "approve" PROVE Undecided(b)'
  <2>1. Decision(b, c) # "approved"
    BY <1>13, <1>14 DEF Undecided
  <2>2. \A x : IsValid(x, c, blob.consumed)' <=> IsValid(x, c, blob.consumed)
    BY <1>1, <1>2 DEF IsValid
  <2>3. Decision(b, c)' # "approved"
    BY <1>2, <1>14, <2>1, <2>2, StaysUndecided DEF GateInv
  <2>4. content' = c
    BY <1>1, <1>13
  <2>5. QED
    BY <2>3, <2>4 DEF Undecided, Decision, ApprovalDecision, IsValid
<1>15. Parking' /\ Parked'
  BY <1>1, <1>7, <1>8, <1>14 DEF Settled, Parking, Parked
<1>16. QED
  BY <1>10, <1>12, <1>15 DEF Settled

\* The issue is requeued.
LEMMA RequeueWriteSettles ==
  ASSUME GateInv, Calm, Calm', Settled, NEW r \in Req, RequeueWrite(r)
  PROVE  Settled'
<1>1. /\ UNCHANGED <<blob, content, edits, gate>>
      /\ status = "awaiting" /\ status' = "todo"
  BY DEF RequeueWrite, issue, rest, Calm, Raced
<1>2. api'[r] = NoRequest /\ \A s \in Req \ {r} : api'[s] = api[s]
  BY InitialTypes, RequestMoves DEF RequeueWrite, GateInv
<1>3. \A s \in Req : Approving(s)' => Approving(s) /\ api'[s] = api[s]
  BY <1>2, InitialTypes DEF Approving
<1>4. \A a \in Agent : gate'[a].pc \notin {"load", "park"}
  BY <1>1, NobodyAtWork, SMTT(30) DEF Active, Calm
<1>5. Asked' /\ Unedited'
  BY <1>1, <1>3, <1>4 DEF Settled, Asked, Unedited, BoundHere
<1>6. QED
  BY <1>1, <1>4, <1>5 DEF Settled, Outdated, Parking, Parked

\* An approval expires.
LEMMA ExpireSettles ==
  ASSUME GateInv, GateInv', Settled, Expire
  PROVE  Settled'
<1>1. UNCHANGED <<blob, content, edits, gate, status, api>> /\ expired \subseteq expired'
  BY DEF Expire, issue
<1>2. PICK c : c = content
  OBVIOUS
<1>3. ASSUME NEW b \in Agent, Undecided(b) PROVE Undecided(b)'
  <2>1. Decision(b, c) # "approved"
    BY <1>2, <1>3 DEF Undecided
  <2>2. \A x : IsValid(x, c, blob.consumed)' => IsValid(x, c, blob.consumed)
    BY <1>1 DEF IsValid
  <2>3. Decision(b, c)' # "approved"
    BY <1>1, <2>1, <2>2, StaysUndecided DEF GateInv
  <2>4. content' = c
    BY <1>1, <1>2
  <2>5. QED
    BY <2>3, <2>4 DEF Undecided, Decision, ApprovalDecision, IsValid
<1>4. Asked' /\ Unedited' /\ Outdated'
  BY <1>1 DEF Settled, Asked, Unedited, Outdated, BoundHere, BoundElsewhere, Approving
<1>5. Parking' /\ Parked'
  BY <1>1, <1>3 DEF Settled, Parking, Parked, Requeuing
<1>6. QED
  BY <1>4, <1>5 DEF Settled

\* The author edits the issue for the first time: no approval is bound to what
\* it says now.
LEMMA EditSettles ==
  ASSUME GateInv, GateInv', Calm', edits \in Nat, Settled, Edit
  PROVE  Settled'
<1>1. /\ UNCHANGED <<blob, expired, gate, status, api>>
      /\ content' # content /\ edits = 0 /\ edits' = 1
  BY DEF Edit, Calm
<1>2. BoundHere /\ \A a \in Agent : gate[a].pc = "load" => gate[a].content = content
  BY <1>1 DEF Settled, Unedited
<1>3. BoundElsewhere'
  BY <1>1, <1>2 DEF BoundHere, BoundElsewhere, Approving
<1>4. PICK c : c = content'
  OBVIOUS
<1>5. \A b \in Agent : Undecided(b)'
  <2> SUFFICES ASSUME NEW b \in Agent PROVE Undecided(b)'
    OBVIOUS
  <2>1. \A e \in blob.events : e.verdict = "approve" => e.content # c
    BY <1>1, <1>3, <1>4 DEF BoundElsewhere
  <2>2. Decision(b, c) # "approved"
    BY <2>1, NothingToDecideOn DEF GateInv
  <2>3. QED
    BY <1>1, <1>4, <2>2 DEF Undecided, Decision, ApprovalDecision, IsValid
<1>6. Asked'
  BY <1>1 DEF Settled, Asked, Approving
<1>7. Unedited' /\ Outdated'
  BY <1>1, <1>3 DEF Unedited, Outdated
<1>8. Parking' /\ Parked'
  BY <1>1, <1>5 DEF Settled, Parking, Parked, Requeuing
<1>9. QED
  BY <1>6, <1>7, <1>8 DEF Settled

\* ParkInv is inductive relative to GateInv.
LEMMA NextPark == GateInv /\ GateInv' /\ ParkInv /\ [Next]_vars => ParkInv'
<1> SUFFICES ASSUME GateInv, GateInv', ParkInv, [Next]_vars PROVE ParkInv'
  OBVIOUS
<1>1. CASE UNCHANGED vars
  BY <1>1, SameDecision DEF vars, rest, issue, ParkInv, Calm, Raced, Asked, Unedited, Outdated, Parking, Parked,
     BoundHere, BoundElsewhere, Approving, Requeuing
<1>2. CASE Next
  <2>1. faults' \in Nat /\ edits' \in Nat
    <3>1. faults \in Nat /\ edits \in Nat
      BY DEF ParkInv
    <3>2. ASSUME NEW a \in Agent, GateStep(a) \/ Stop(a) \/ Restart(a)
          PROVE  faults' \in {faults, faults + 1} /\ edits' = edits
      BY <3>2, ZenonT(40) DEF GateStep, Stop, ClaimCheck, ClaimWrite, Gate, LoadApprovals, ConsumeRead,
         ConsumePut, Block, EndRun, Restart, rest, Fault
    <3>3. ASSUME NEW r \in Req, Submit(r) \/ ApiStep(r) \/ RequestFails(r)
          PROVE  faults' \in {faults, faults + 1} /\ edits' = edits
      BY <3>3, ZenonT(40) DEF ApiStep, Submit, SubmitRead, SubmitPut, RequeueCheck, RequeueWrite,
         RequestFails, rest, Fault
    <3>4. QED
      BY <1>2, <3>1, <3>2, <3>3 DEF Next, Expire, Edit
  <2> SUFFICES ASSUME Calm' PROVE Settled'
    BY <2>1 DEF ParkInv, Settled
  <2>2. Calm /\ faults' = faults /\ faults \in Nat /\ edits \in Nat
    BY <1>2, CalmBefore DEF ParkInv
  <2>3. Settled
    BY <2>2 DEF ParkInv, Settled
  <2>4. ASSUME NEW a \in Agent, GateStep(a) \/ Stop(a) \/ Restart(a) PROVE Settled'
    <3>1. ~Fault
      BY <2>2 DEF Fault
    <3>2. ~Stop(a)
      BY <3>1, Zenon DEF Stop
    <3>3. QED
      BY <2>2, <2>3, <2>4, <3>2, GateStepSettles, EndRunSettles, ConsumePutSettles, Zenon DEF GateStep
  <2>5. ASSUME NEW r \in Req, Submit(r) \/ ApiStep(r) \/ RequestFails(r) PROVE Settled'
    <3>1. ~Fault
      BY <2>2 DEF Fault
    <3>2. ~RequestFails(r)
      BY <3>1, Zenon DEF RequestFails
    <3>3. QED
      BY <2>2, <2>3, <2>5, <3>2, RequestStepSettles, SubmitPutSettles, RequeueWriteSettles DEF ApiStep
  <2>6. QED
    BY <1>2, <2>2, <2>3, <2>4, <2>5, ExpireSettles, EditSettles DEF Next
<1>3. QED
  BY <1>1, <1>2

\* At the start nothing is parked or asked for.
LEMMA InitPark == Init => ParkInv
<1> SUFFICES ASSUME Init PROVE ParkInv
  OBVIOUS
<1>1. faults = 0 /\ edits = 0 /\ status = "todo" /\ blob = EmptyBlob
  BY DEF Init
<1>2. (\A a \in Agent : gate[a].pc = "idle") /\ \A r \in Req : api[r].pc = "idle"
  BY InitialTypes DEF Init
<1>3. QED
  BY <1>1, <1>2, InitialTypes DEF ParkInv, Asked, Unedited, Outdated, Parking, Parked, BoundHere, Approving

\* An issue that every gate would run on the approvals filed for it is not left
\* parked, for any number of daemons, requests and verdicts, unless its approval
\* was filed while it was not parked, a write of a blob raced, a hidden claim was
\* claimed over, a step failed, or the issue was edited and edited back.
THEOREM ApprovedIsNotParked == Spec => []ParkedThoughApproved
<1>1. GateInv /\ ParkInv => ParkedThoughApproved
  <2> SUFFICES ASSUME ParkInv, Calm, status = "awaiting", \A r \in Req : api[r].pc = "idle",
                      \A a \in Agent : Decision(a, content) = "approved"
               PROVE  FALSE
    BY DEF ParkedThoughApproved, Calm, Raced, ParkInv
  <2>1. Requeuing \/ \E a \in Agent : Undecided(a)
    BY DEF ParkInv, Parked
  <2>2. QED
    BY <2>1 DEF Requeuing, Undecided
<1>2. QED
  BY <1>1, InitPark, NextPark, GateInvHolds, PTL DEF Spec
=============================================================================
