-------------------------- MODULE V1TrackerProofs --------------------------
(***************************************************************************)
(* For any number of agents, API requests, claims and faults: as long as   *)
(* every PUT lands on the blobs its call has read and no listing hides a   *)
(* live claim, one daemon at most runs under a claim, the claim on record  *)
(* is its own, and the handoff of a completed claim stays.                 *)
(***************************************************************************)
EXTENDS V1Tracker, TLAPS

Bases == ({None} \cup (Status \X Claim)) \X (Handoff \cup {None})
Ops == {"none", "create", "claim", "handoff", "heartbeat", "release", "block", "expire", "requeue"}
Pcs == {"none", "shard", "provenance", "patch", "check", "handoff", "complete", "put"}
Calls == [op: Ops, pc: Pcs, claim: Claim \cup {None}, reason: Reason \cup {None},
          basis: Bases \cup {None}]
Lates == [blob: ClaimBlob, basis: Bases]

Types ==
  /\ claimBlob \in ClaimBlob \cup {None} /\ handoffBlob \in Handoff \cup {None}
  /\ up \in [Agent -> BOOLEAN] /\ held \in [Agent -> Claim \cup {None}]
  /\ call \in [Proc -> Calls] /\ late \in SUBSET Lates
  /\ made \in 0 .. MaxClaims

\* Where a call can be, and what it has in hand.
CallOK(p, k) ==
  /\ \/ k.op = "none" /\ k.pc = "none"
     \/ k.op = "create" /\ k.pc \in {"shard", "provenance"}
     \/ k.op = "claim" /\ k.pc \in {"patch", "put"}
     \/ k.op = "handoff" /\ k.pc \in {"check", "handoff", "complete", "put"}
     \/ k.op \in {"heartbeat", "release", "block", "expire", "requeue"} /\ k.pc = "put"
  /\ k.op \notin {"none", "create"} => k.claim \in Claim /\ k.basis \in Bases /\ k.claim.n <= made
  /\ k.op \in {"release", "block", "expire"} => IsLoop(p)
  /\ k.pc = "check" => ~IsLoop(p)
  /\ k.op \in {"claim", "release", "block", "expire"} => k.claim.by = p[1]

\* The loop of a daemon that is down, or of one with a run, is not claiming.
LoopOK(a) ==
  /\ call[Loop(a)].op # "none" => up[a]
  /\ held[a] # None =>
       /\ up[a] /\ call[Loop(a)].op \notin {"claim", "expire"}
       /\ held[a].by = a /\ held[a].n <= made

Static ==
  /\ Types
  /\ \A p \in Proc : CallOK(p, call[p])
  /\ \A a \in Agent : LoopOK(a)
  /\ \A x \in late : x.blob.claim.n <= made
  /\ claimBlob # None => claimBlob.claim.n <= made

\* What a basis says: no claim is active, or one of c's agent is on record.
Unclaimed(b) == b[2] = None /\ (b[1] # None => b[1][1] # "active")
Known(c, b) == b[1] # None /\ b[1][2].by = c.by /\ (b[2] # None => b[2].by = c.by)

\* What a call has checked before it writes.
Checked(k) ==
  /\ k.op = "claim" => Unclaimed(k.basis)
  /\ k.op \in {"handoff", "heartbeat", "release", "block", "expire", "requeue"} =>
       Known(k.claim, k.basis)
  /\ (k.op \in {"heartbeat", "release", "block", "expire"} /\ k.basis[2] = None) =>
       k.basis[1] = <<"active", k.claim>>
  /\ k.op = "requeue" => k.basis[1][1] # "active"
  /\ (k.op = "handoff" /\ k.pc = "handoff") => k.basis[1][1] = "active"
  /\ (k.op = "handoff" /\ k.pc \in {"complete", "put"}) => handoffBlob # None

\* Nobody runs, or is about to run, under claim c.
Retired(c) ==
  \A a \in Agent : held[a] # c /\ (call[Loop(a)].op = "claim" => call[Loop(a)].claim # c)

\* A PUT of an aborted call does no harm where its basis is still on record.
LateOK(x) ==
  \/ x.blob.status = "active" /\ Unclaimed(x.basis)
  \/ /\ Known(x.blob.claim, x.basis)
     /\ \/ x.basis[2] # None
        \/ handoffBlob # None
        \/ x.basis[1][1] # "active"
        \/ /\ x.basis[1] = <<"active", x.blob.claim>>
           /\ x.blob.status = "active" \/ Retired(x.blob.claim)

HandoffOfClaim == handoffBlob # None => claimBlob # None /\ claimBlob.claim.by = handoffBlob.by

Raced == blind \/ hidden

Exclusion ==
  ~Raced => /\ \A p \in Proc : Checked(call[p])
            /\ \A x \in late : LateOK(x)
            /\ HandoffOfClaim

TrackerInv == Static /\ Exclusion /\ ExclusiveUnlessRaced /\ HolderOnRecordUnlessRaced

-----------------------------------------------------------------------------
(* Records.                                                                 *)

\* A PUT that is not blind finds on record what its basis says.
LEMMA OnBasis ==
  ASSUME Types, NEW b \in Bases, OnRecord = b
  PROVE  /\ handoffBlob = b[2]
         /\ b[1] = None => claimBlob = None
         /\ b[1] # None => /\ claimBlob \in ClaimBlob
                           /\ b[1][1] = claimBlob.status /\ b[1][2] = claimBlob.claim
<1>1. b[1] = (IF claimBlob = None THEN None ELSE <<claimBlob.status, claimBlob.claim>>)
      /\ handoffBlob = b[2]
  BY DEF OnRecord
<1>2. CASE claimBlob = None
  BY <1>1, <1>2
<1>3. CASE claimBlob # None
  <2>1. claimBlob \in ClaimBlob
    BY <1>3 DEF Types
  <2>2. b[1] = <<claimBlob.status, claimBlob.claim>>
    BY <1>1, <1>3
  <2>3. b[1] \in Status \X Claim
    BY <2>1, <2>2 DEF ClaimBlob
  <2>4. QED
    BY <1>1, <2>1, <2>2, <2>3, NoneAssumption
<1>4. QED
  BY <1>2, <1>3

\* What a call sees when it checks.
LEMMA Sees ==
  ASSUME Types
  PROVE  /\ OnRecord \in Bases /\ OnRecord[2] = handoffBlob
         /\ claimBlob = None => OnRecord[1] = None
         /\ claimBlob # None => /\ OnRecord[1] # None
                                /\ OnRecord[1] = <<claimBlob.status, claimBlob.claim>>
                                /\ OnRecord[1][1] = claimBlob.status
                                /\ OnRecord[1][2] = claimBlob.claim
<1>1. CASE claimBlob = None
  BY <1>1 DEF OnRecord, Bases, Types
<1>2. CASE claimBlob # None
  <2>1. claimBlob.status \in Status /\ claimBlob.claim \in Claim
    BY <1>2 DEF Types, ClaimBlob
  <2>2. <<claimBlob.status, claimBlob.claim>> \in Status \X Claim
    BY <2>1
  <2>3. OnRecord = <<<<claimBlob.status, claimBlob.claim>>, handoffBlob>>
    BY <1>2 DEF OnRecord
  <2>4. QED
    BY <1>2, <2>2, <2>3, NoneAssumption DEF Bases, Types
<1>3. QED
  BY <1>1, <1>2

\* A daemon's loop and heartbeat are two calls of its agent.
LEMMA Loops ==
  /\ \A a \in Agent : /\ Loop(a) \in Proc /\ Loop(a)[1] = a /\ IsLoop(Loop(a))
                      /\ Beat(a) \in Proc /\ Beat(a)[1] = a /\ ~IsLoop(Beat(a))
  /\ \A p \in Proc : p[1] \in Agent /\ (IsLoop(p) => p = Loop(p[1]))
<1>1. \A a \in Agent : /\ Loop(a) \in Proc /\ Loop(a)[1] = a /\ IsLoop(Loop(a))
                       /\ Beat(a) \in Proc /\ Beat(a)[1] = a /\ ~IsLoop(Beat(a))
  BY ProcAssumption DEF Loop, Beat, IsLoop
<1>2. ASSUME NEW p \in Proc
      PROVE  p[1] \in Agent /\ (IsLoop(p) => p = Loop(p[1]))
  <2>1. p \in Agent \X STRING
    BY ProcAssumption
  <2>2. p[1] \in Agent /\ p = <<p[1], p[2]>>
    BY <2>1
  <2>3. QED
    BY <2>2 DEF Loop, IsLoop
<1>3. QED
  BY <1>1, <1>2

\* The call that is none.
LEMMA IdleCall ==
  /\ Idle \in Calls /\ Idle.op = "none" /\ Idle.pc = "none" /\ Checked(Idle)
  /\ \A p \in Proc : CallOK(p, Idle)
  BY DEF Idle, Calls, Ops, Pcs, CallOK, Checked

\* A call that a step leaves alone stays where a call can be.
LEMMA SameCall ==
  ASSUME TrackerInv, UNCHANGED made, NEW q \in Proc, call'[q] = call[q]
  PROVE  CallOK(q, call[q])'
<1>1. CallOK(q, call[q])
  BY Zenon DEF TrackerInv, Static
<1>2. QED
  BY <1>1, Zenon DEF CallOK

\* The number of claims is within its bound.
LEMMA Bounded ==
  ASSUME Types
  PROVE  made \in 0 .. MaxClaims /\ made \in Nat /\ made <= made /\ up \in [Agent -> BOOLEAN]
  BY BoundsAssumption DEF Types

\* What the last PUT of a call makes of the claim blob.
LEMMA Puts ==
  ASSUME Static, NEW p \in Proc, call[p].pc = "put"
  PROVE  /\ call[p].claim \in Claim /\ call[p].basis \in Bases /\ call[p].claim.n <= made
         /\ LastPut(p) \in ClaimBlob
         /\ LastPut(p).claim = call[p].claim /\ LastPut(p).status = Writes(call[p].op)
         /\ call[p].op \in {"claim", "heartbeat"} => LastPut(p).status = "active"
         /\ call[p].op \in {"claim", "handoff", "heartbeat", "release", "block", "expire", "requeue"}
<1>1. /\ call[p].op \in {"claim", "handoff", "heartbeat", "release", "block", "expire", "requeue"}
      /\ call[p].claim \in Claim /\ call[p].basis \in Bases /\ call[p].claim.n <= made
  BY DEF Static, CallOK
<1>2. call[p].reason \in Reason \cup {None}
  BY DEF Static, Types, Calls
<1>3. /\ Writes(call[p].op) \in Status
      /\ call[p].op \in {"claim", "heartbeat"} => Writes(call[p].op) = "active"
  BY <1>1 DEF Writes, Status
<1>4. QED
  BY <1>1, <1>2, <1>3 DEF LastPut, Blob, ClaimBlob

-----------------------------------------------------------------------------
(* Calls move, begin and end.                                               *)

\* One call moves on, and neither a blob nor a run changes.
LEMMA CallMoves ==
  ASSUME TrackerInv, NEW p \in Proc, NEW k \in Calls, call' = [call EXCEPT ![p] = k],
         UNCHANGED <<claimBlob, handoffBlob, held, late, blind>>,
         made' \in 0 .. MaxClaims, made <= made', hidden => hidden',
         up' \in [Agent -> BOOLEAN], \A a \in Agent : up[a] => up'[a],
         CallOK(p, k)', ~Raced' => Checked(k)',
         (IsLoop(p) /\ k.op # "none") => up'[p[1]],
         (IsLoop(p) /\ k.op \in {"claim", "expire"}) => held[p[1]] = None,
         k.op = "claim" => (call[p].op = "claim" /\ call[p].claim = k.claim) \/ k.claim.n > made
  PROVE  TrackerInv'
<1>1. /\ call' \in [Proc -> Calls] /\ call'[p] = k
      /\ \A q \in Proc \ {p} : call'[q] = call[q]
  BY DEF TrackerInv, Static, Types
<1>2. made \in Nat /\ made' \in Nat
  BY BoundsAssumption DEF TrackerInv, Static, Types
<1>3. Types'
  BY <1>1 DEF TrackerInv, Static, Types
<1>4. \A q \in Proc : CallOK(q, call[q])'
  <2>1. ASSUME NEW q \in Proc \ {p}
        PROVE  CallOK(q, call[q])'
    <3>1. CallOK(q, call[q]) /\ call'[q] = call[q]
      BY <1>1 DEF TrackerInv, Static
    <3>2. call[q].claim \in Claim => call[q].claim.n \in Nat
      BY BoundsAssumption DEF Claim
    <3>3. QED
      BY <1>2, <3>1, <3>2 DEF CallOK
  <2>2. QED
    BY <1>1, <2>1
<1>5. \A a \in Agent : LoopOK(a)'
  <2>1. ASSUME NEW a \in Agent
        PROVE  LoopOK(a)'
    <3>1. held[a] # None => held[a].n \in Nat
      BY BoundsAssumption DEF TrackerInv, Static, Types, Claim
    <3>2. LoopOK(a)
      BY DEF TrackerInv, Static
    <3>3. CASE p = Loop(a)
      BY <1>1, <1>2, <3>1, <3>2, <3>3, Loops DEF LoopOK
    <3>4. CASE p # Loop(a)
      BY <1>1, <1>2, <3>1, <3>2, <3>4, Loops DEF LoopOK
    <3>5. QED
      BY <3>3, <3>4
  <2>2. QED
    BY <2>1
<1>6. \A x \in late : x.blob.claim.n \in Nat /\ x.blob.claim.n <= made
  BY BoundsAssumption DEF TrackerInv, Static, Types, Lates, ClaimBlob, Claim
<1>7. Static'
  <2>1. claimBlob # None => claimBlob.claim.n \in Nat /\ claimBlob.claim.n <= made
    BY BoundsAssumption DEF TrackerInv, Static, Types, ClaimBlob, Claim
  <2>2. QED
    BY <1>2, <1>3, <1>4, <1>5, <1>6, <2>1 DEF Static
<1>8. ASSUME ~Raced'
      PROVE  /\ \A q \in Proc : Checked(call[q])'
             /\ \A x \in late' : LateOK(x)'
             /\ HandoffOfClaim'
  <2>1. ~Raced
    BY <1>8 DEF Raced
  <2>2. \A q \in Proc : Checked(call[q])'
    BY <1>1, <1>8, <2>1 DEF TrackerInv, Exclusion, Checked
  <2>3. ASSUME NEW x \in late
        PROVE  LateOK(x)'
    <3>1. LateOK(x)
      BY <2>1 DEF TrackerInv, Exclusion
    <3>2. Retired(x.blob.claim) => Retired(x.blob.claim)'
      BY <1>1, <1>2, <1>6, Loops DEF Retired
    <3>3. QED
      BY <3>1, <3>2 DEF LateOK
  <2>4. HandoffOfClaim'
    BY <2>1 DEF TrackerInv, Exclusion, HandoffOfClaim
  <2>5. QED
    BY <2>2, <2>3, <2>4
<1>9. ExclusiveUnlessRaced' /\ HolderOnRecordUnlessRaced'
  BY DEF TrackerInv, ExclusiveUnlessRaced, HolderOnRecordUnlessRaced, HasStatus
<1>10. QED
  BY <1>7, <1>8, <1>9 DEF TrackerInv, Exclusion

\* A call that is aborted with its PUT on the way.
LEMMA SentIsLate ==
  ASSUME TrackerInv, ~Raced, NEW p \in Proc, call[p].pc = "put",
         UNCHANGED handoffBlob,
         \A a \in Agent : held'[a] \in {held[a], None},
         \A q \in Proc : call'[q] = call[q] \/ call'[q].op # "claim",
         IsLoop(p) => held'[p[1]] = None /\ call'[p].op = "none",
         NEW x, x = [blob |-> LastPut(p), basis |-> call[p].basis]
  PROVE  LateOK(x)'
<1> DEFINE c == call[p].claim
           b == call[p].basis
<1>1. /\ x.blob.claim = c /\ x.basis = b /\ c \in Claim /\ b \in Bases
      /\ call[p].op \in {"claim", "handoff", "heartbeat", "release", "block", "expire", "requeue"}
      /\ call[p].op \in {"claim", "heartbeat"} => x.blob.status = "active"
  BY Puts DEF TrackerInv
<1>2. Checked(call[p]) /\ CallOK(p, call[p])
  BY DEF TrackerInv, Static, Exclusion
<1>3. CASE call[p].op = "claim"
  BY <1>1, <1>2, <1>3 DEF Checked, LateOK, Unclaimed
<1>4. CASE call[p].op = "heartbeat"
  BY <1>1, <1>2, <1>4 DEF Checked, LateOK, Known
<1>5. CASE call[p].op \in {"handoff", "requeue"}
  BY <1>1, <1>2, <1>5 DEF Checked, LateOK, Known
<1>6. CASE call[p].op \in {"release", "block", "expire"}
  <2>1. IsLoop(p) /\ c.by = p[1] /\ p = Loop(p[1]) /\ p[1] \in Agent
    BY <1>2, <1>6, Loops DEF CallOK
  <2>2. ASSUME NEW a \in Agent
        PROVE  held'[a] # c /\ (call'[Loop(a)].op = "claim" => call'[Loop(a)].claim # c)
    <3>1. CASE a = p[1]
      BY <1>1, <2>1, <3>1, NoneAssumption
    <3>2. CASE a # p[1]
      <4>1. held[a] # None => held[a].by = a
        BY DEF TrackerInv, Static, LoopOK
      <4>2. call[Loop(a)].op = "claim" => call[Loop(a)].claim.by = a
        BY Loops DEF TrackerInv, Static, CallOK
      <4>3. c # None /\ c.by # a
        BY <1>1, <2>1, <3>2, NoneAssumption
      <4>4. held'[a] # c
        BY <4>1, <4>3, Zenon
      <4>5. Loop(a) \in Proc
        BY Loops, Zenon
      <4>6. QED
        BY <4>2, <4>3, <4>4, <4>5, Zenon
    <3>3. QED
      BY <3>1, <3>2
  <2>3. Retired(x.blob.claim)'
    BY <1>1, <2>2 DEF Retired
  <2>4. QED
    BY <1>1, <1>2, <1>6, <2>3 DEF Checked, LateOK, Known
<1>7. QED
  BY <1>1, <1>3, <1>4, <1>5, <1>6

\* Calls end with what they have sent, runs end, and one call may begin.
LEMMA CallsEnd ==
  ASSUME TrackerInv, NEW P \in SUBSET Proc, late' = late \cup Sent(P),
         UNCHANGED <<claimBlob, handoffBlob, blind, hidden, made>>,
         call' \in [Proc -> Calls], held' \in [Agent -> Claim \cup {None}],
         up' \in [Agent -> BOOLEAN],
         \A a \in Agent : held'[a] \in {held[a], None},
         \A q \in Proc : \/ call'[q] \in {call[q], Idle}
                         \/ /\ CallOK(q, call'[q]) /\ (~Raced => Checked(call'[q]))
                            /\ call'[q].op # "claim",
         \A a \in Agent : LoopOK(a)',
         \A p \in P : IsLoop(p) => held'[p[1]] = None /\ call'[p].op = "none"
  PROVE  TrackerInv'
<1>1. ASSUME NEW x \in Sent(P)
      PROVE  \E p \in P : call[p].pc = "put" /\ x = [blob |-> LastPut(p), basis |-> call[p].basis]
  BY DEF Sent
<1>2. \A x \in Sent(P) : x \in Lates /\ x.blob.claim.n <= made
  <2>1. ASSUME NEW x \in Sent(P)
        PROVE  x \in Lates /\ x.blob.claim.n <= made
    <3>1. PICK p \in P : call[p].pc = "put" /\ x = [blob |-> LastPut(p), basis |-> call[p].basis]
      BY <1>1
    <3>2. LastPut(p) \in ClaimBlob /\ call[p].basis \in Bases /\ LastPut(p).claim.n <= made
      BY <3>1, Puts DEF TrackerInv
    <3>3. QED
      BY <3>1, <3>2 DEF Lates
  <2>2. QED
    BY <2>1
<1>3. Types'
  BY <1>2 DEF TrackerInv, Static, Types
<1>4. \A q \in Proc : call'[q] = call[q] \/ call'[q].op # "claim"
  BY IdleCall
<1>5. ASSUME NEW q \in Proc
      PROVE  CallOK(q, call[q])' /\ (~Raced => Checked(call[q])')
  <2>1. CallOK(q, call'[q]) /\ (~Raced => Checked(call'[q]))
    BY IdleCall DEF TrackerInv, Static, Exclusion
  <2>2. QED
    BY <2>1 DEF CallOK, Checked
<1>6. Static'
  BY <1>2, <1>3, <1>5 DEF TrackerInv, Static
<1>7. ASSUME ~Raced, NEW x \in late'
      PROVE  LateOK(x)'
  <2>1. CASE x \in late
    <3>1. LateOK(x)
      BY <1>7, <2>1 DEF TrackerInv, Exclusion
    <3>2. x.blob.claim \in Claim
      BY <2>1 DEF TrackerInv, Static, Types, Lates, ClaimBlob
    <3>3. Retired(x.blob.claim) => Retired(x.blob.claim)'
      <4>1. SUFFICES ASSUME Retired(x.blob.claim), NEW a \in Agent
                     PROVE  /\ held'[a] # x.blob.claim
                            /\ call'[Loop(a)].op = "claim" => call'[Loop(a)].claim # x.blob.claim
        BY DEF Retired
      <4>2. held'[a] # x.blob.claim
        BY <3>2, <4>1, NoneAssumption DEF Retired
      <4>3. Loop(a) \in Proc
        BY Loops
      <4>4. QED
        BY <1>4, <4>1, <4>2, <4>3 DEF Retired
    <3>4. QED
      BY <3>1, <3>3 DEF LateOK
  <2>2. CASE x \in Sent(P)
    <3>1. PICK p \in P : call[p].pc = "put" /\ x = [blob |-> LastPut(p), basis |-> call[p].basis]
      BY <1>1, <2>2
    <3>2. QED
      BY <1>4, <1>7, <3>1, SentIsLate
  <2>3. QED
    BY <1>7, <2>1, <2>2
<1>8. Exclusion'
  BY <1>5, <1>7 DEF TrackerInv, Exclusion, Raced, HandoffOfClaim
<1>9. ExclusiveUnlessRaced' /\ HolderOnRecordUnlessRaced'
  BY DEF TrackerInv, ExclusiveUnlessRaced, HolderOnRecordUnlessRaced, HasStatus
<1>10. QED
  BY <1>6, <1>8, <1>9 DEF TrackerInv

-----------------------------------------------------------------------------
(* Writes of the claim blob.                                                *)

\* Where no claim is active and nothing handed off, no daemon has a run.
LEMMA NobodyHolds ==
  ASSUME TrackerInv, ~Raced, NEW b \in Bases, OnRecord = b, b[2] = None,
         b[1] = None \/ b[1][1] # "active"
  PROVE  \A a \in Agent : held[a] = None
<1>1. handoffBlob = None /\ ~HasStatus("active")
  BY OnBasis DEF TrackerInv, Static, HasStatus
<1>2. QED
  BY <1>1 DEF TrackerInv, HolderOnRecordUnlessRaced, Raced

\* A write on what it has read that knows a claim keeps a handoff its agent's.
LEMMA SameOwner ==
  ASSUME TrackerInv, ~Raced, NEW b \in Bases, OnRecord = b, NEW c \in Claim,
         Unclaimed(b) \/ Known(c, b),
         claimBlob' \in ClaimBlob, claimBlob'.claim = c, UNCHANGED handoffBlob
  PROVE  HandoffOfClaim'
<1>1. claimBlob' # None
  BY NoneAssumption
<1>2. HandoffOfClaim
  BY DEF TrackerInv, Exclusion
<1>3. QED
  BY <1>1, <1>2, OnBasis DEF TrackerInv, Static, HandoffOfClaim, Unclaimed, Known

\* The last PUT of a call: with its basis on record a claim finds no run, a
\* heartbeat repeats the claim on record, and what ends a claim ends its run.
LEMMA PutClaimKeeps ==
  ASSUME TrackerInv, NEW p \in Proc, PutClaim(p)
  PROVE  TrackerInv'
<1>1. PICK c, b, w, op : c = call[p].claim /\ b = call[p].basis /\ w = Writes(op) /\ op = call[p].op
  OBVIOUS
<1>2. /\ c \in Claim /\ b \in Bases /\ c.n <= made
      /\ claimBlob' \in ClaimBlob /\ claimBlob'.claim = c /\ claimBlob'.status = w
      /\ op \in {"claim", "heartbeat"} => w = "active"
      /\ op \in {"claim", "handoff", "heartbeat", "release", "block", "expire", "requeue"}
  BY <1>1, Puts DEF PutClaim, TrackerInv
<1>3. /\ call' \in [Proc -> Calls] /\ call'[p] = Idle
      /\ \A q \in Proc \ {p} : call'[q] = call[q]
  BY IdleCall DEF PutClaim, Done, TrackerInv, Static, Types
<1>4. /\ UNCHANGED <<handoffBlob, up, late, made, hidden>>
      /\ blind => blind'
      /\ ~Raced' => ~Raced /\ OnRecord = b
  BY <1>1 DEF PutClaim, Raced
<1>5. CallOK(p, call[p]) /\ p[1] \in Agent /\ (IsLoop(p) => p = Loop(p[1]))
  BY Loops DEF TrackerInv, Static
<1>6. /\ held' \in [Agent -> Claim \cup {None}]
      /\ ~IsLoop(p) => UNCHANGED held
      /\ (IsLoop(p) /\ op = "claim") => held'[p[1]] = c
      /\ (IsLoop(p) /\ op # "claim") => held'[p[1]] = None
      /\ \A a \in Agent \ {p[1]} : held'[a] = held[a]
  BY <1>1, <1>2, <1>5 DEF PutClaim, TrackerInv, Static, Types
<1>7. Types'
  BY <1>2, <1>3, <1>4, <1>6 DEF TrackerInv, Static, Types
<1>8. ASSUME NEW a \in Agent
      PROVE  LoopOK(a)'
  <2>1. LoopOK(a)
    BY DEF TrackerInv, Static
  <2>2. CASE p = Loop(a)
    <3>1. p[1] = a /\ IsLoop(p) /\ call'[Loop(a)].op = "none"
      BY <1>3, <2>2, IdleCall, Loops
    <3>2. op = "claim" => c.by = a /\ up[a]
      BY <1>1, <1>5, <2>1, <2>2, <3>1 DEF CallOK, LoopOK
    <3>3. QED
      BY <1>2, <1>4, <1>6, <3>1, <3>2 DEF LoopOK
  <2>3. CASE p # Loop(a)
    <3>1. held'[a] = held[a] /\ call'[Loop(a)] = call[Loop(a)]
      BY <1>3, <1>5, <1>6, <2>3, Loops
    <3>2. QED
      BY <1>4, <2>1, <3>1 DEF LoopOK
  <2>4. QED
    BY <2>2, <2>3
<1>9. Static'
  <2>1. \A q \in Proc : CallOK(q, call[q])'
    <3>1. CallOK(p, call[p])'
      BY <1>3, IdleCall, Zenon DEF CallOK
    <3>2. ASSUME NEW q \in Proc \ {p} PROVE CallOK(q, call[q])'
      BY <1>3, <1>4, SameCall, Zenon
    <3>3. QED
      BY <3>1, <3>2, Zenon
  <2>2. QED
    BY <1>2, <1>4, <1>7, <1>8, <2>1 DEF TrackerInv, Static
<1>10. ASSUME ~Raced'
       PROVE  /\ \A a, d \in Agent : a # d => held'[a] = None \/ held'[d] = None
              /\ \A a \in Agent : held'[a] # None =>
                   (HasStatus("active") /\ claimBlob.claim = held[a])' \/ handoffBlob # None
              /\ HandoffOfClaim'
  <2>1. ~Raced /\ OnRecord = b /\ Checked(call[p])
    BY <1>4, <1>10 DEF TrackerInv, Exclusion
  <2>2. claimBlob' # None
    BY <1>2, NoneAssumption
  <2>3. HandoffOfClaim'
    BY <1>1, <1>2, <1>4, <2>1, SameOwner DEF Checked
  <2>4. CASE op = "claim"
    <3>1. \A a \in Agent : held[a] = None
      BY <1>1, <1>2, <2>1, <2>4, NobodyHolds DEF Checked, Unclaimed
    <3>2. \A a \in Agent : held'[a] # None => a = p[1] /\ held'[a] = c
      BY <1>6, <2>4, <3>1
    <3>3. QED
      BY <1>2, <2>2, <2>3, <2>4, <3>2 DEF HasStatus
  <2>5. CASE op # "claim"
    <3>1. \A a \in Agent : held'[a] \in {held[a], None}
      BY <1>6, <2>5
    <3>2. \A a, d \in Agent : a # d => held'[a] = None \/ held'[d] = None
      BY <2>1, <3>1 DEF TrackerInv, ExclusiveUnlessRaced, Raced
    <3>3. ASSUME NEW a \in Agent, held'[a] # None, handoffBlob = None
          PROVE  claimBlob'.status = "active" /\ claimBlob'.claim = held'[a]
      <4>1. held[a] = held'[a] /\ b[2] = None
        BY <1>2, <2>1, <3>1, <3>3, OnBasis DEF TrackerInv, Static
      <4>2. HasStatus("active") /\ claimBlob.claim = held[a] /\ held[a].by = a
        BY <2>1, <3>3, <4>1 DEF TrackerInv, HolderOnRecordUnlessRaced, Raced, Static, LoopOK
      <4>3. op # "handoff"
        BY <1>1, <1>2, <1>5, <2>1, <3>3 DEF Checked, CallOK, PutClaim
      <4>4. op # "requeue"
        BY <1>1, <1>2, <2>1, <4>2, OnBasis DEF Checked, Known, HasStatus, TrackerInv, Static
      <4>5. b[1] = <<"active", c>>
        BY <1>1, <1>2, <2>1, <2>5, <4>1, <4>3, <4>4 DEF Checked
      <4>6. b[1] # None /\ c = claimBlob.claim
        BY <1>2, <2>1, <4>5, NoneAssumption, OnBasis, <4>2 DEF HasStatus, TrackerInv, Static
      <4>7. op \notin {"release", "block", "expire"}
        <5>1. op \in {"release", "block", "expire"} => IsLoop(p) /\ c.by = p[1]
          BY <1>1, <1>5, Zenon DEF CallOK
        <5>2. QED
          BY <1>6, <2>5, <3>3, <4>1, <4>2, <4>6, <5>1, Zenon
      <4>8. QED
        BY <1>2, <2>5, <4>1, <4>2, <4>3, <4>4, <4>6, <4>7
    <3>4. QED
      BY <2>2, <2>3, <3>2, <3>3 DEF HasStatus
  <2>6. QED
    BY <2>4, <2>5
<1>11. ASSUME ~Raced', NEW x \in late
       PROVE  LateOK(x)'
  <2>1. LateOK(x)
    BY <1>4, <1>11 DEF TrackerInv, Exclusion
  <2>2. x.blob.claim \in Claim
    BY DEF TrackerInv, Static, Types, Lates, ClaimBlob
  <2>3. Retired(x.blob.claim) => Retired(x.blob.claim)'
    <3>1. SUFFICES ASSUME Retired(x.blob.claim), NEW a \in Agent
                   PROVE  /\ held'[a] # x.blob.claim
                          /\ call'[Loop(a)].op = "claim" => call'[Loop(a)].claim # x.blob.claim
      BY DEF Retired
    <3>2. CASE p = Loop(a)
      <4>1. p[1] = a /\ IsLoop(p) /\ call'[Loop(a)].op = "none"
        BY <1>3, <3>2, IdleCall, Loops, Zenon
      <4>2. op = "claim" => c # x.blob.claim
        BY <1>1, <3>1, <3>2, Zenon DEF Retired
      <4>3. None # x.blob.claim
        BY <2>2, NoneAssumption
      <4>4. QED
        BY <1>6, <4>1, <4>2, <4>3, Zenon
    <3>3. CASE p # Loop(a)
      BY <1>3, <1>5, <1>6, <3>1, <3>3, Loops DEF Retired
    <3>4. QED
      BY <3>2, <3>3
  <2>4. QED
    BY <1>4, <2>1, <2>3 DEF LateOK
<1>12. Exclusion'
  BY <1>3, <1>4, <1>10, <1>11, IdleCall DEF TrackerInv, Exclusion, Checked
<1>13. ExclusiveUnlessRaced' /\ HolderOnRecordUnlessRaced'
  BY <1>4, <1>10 DEF ExclusiveUnlessRaced, HolderOnRecordUnlessRaced, Raced
<1>14. QED
  BY <1>9, <1>12, <1>13 DEF TrackerInv

\* A PUT that arrives after its call was aborted.
LEMMA LatePutKeeps ==
  ASSUME TrackerInv, LatePut
  PROVE  TrackerInv'
<1>1. PICK x \in late :
         /\ late' = late \ {x} /\ claimBlob' = x.blob
         /\ blind' = (blind \/ OnRecord # x.basis)
         /\ UNCHANGED <<handoffBlob, call, up, held, made, hidden>>
  BY DEF LatePut
<1>2. x.blob \in ClaimBlob /\ x.blob.claim \in Claim /\ x.basis \in Bases
  BY DEF TrackerInv, Static, Types, Lates, ClaimBlob
<1>3. Static'
  <2>1. Types'
    BY <1>1, <1>2 DEF TrackerInv, Static, Types
  <2>2. (\A q \in Proc : CallOK(q, call[q])') /\ \A a \in Agent : LoopOK(a)'
    BY <1>1 DEF TrackerInv, Static, CallOK, LoopOK
  <2>3. QED
    BY <1>1, <2>1, <2>2 DEF TrackerInv, Static
<1>4. ~Raced' => ~Raced /\ OnRecord = x.basis /\ LateOK(x)
  BY <1>1 DEF Raced, TrackerInv, Exclusion
<1>5. ASSUME ~Raced'
      PROVE  /\ HandoffOfClaim'
             /\ \A a \in Agent : held[a] # None =>
                  (x.blob.status = "active" /\ x.blob.claim = held[a]) \/ handoffBlob # None
  <2>1. HandoffOfClaim'
    BY <1>1, <1>2, <1>4, <1>5, SameOwner DEF LateOK
  <2>2. ASSUME NEW a \in Agent, held[a] # None, handoffBlob = None
        PROVE  x.blob.status = "active" /\ x.blob.claim = held[a]
    <3>1. x.basis[2] = None
      BY <1>2, <1>4, <1>5, <2>2, OnBasis DEF TrackerInv, Static
    <3>2. ~(x.basis[1] = None \/ x.basis[1][1] # "active")
      BY <1>2, <1>4, <1>5, <2>2, <3>1, NobodyHolds
    <3>3. /\ x.basis[1] = <<"active", x.blob.claim>>
          /\ x.blob.status = "active" \/ Retired(x.blob.claim)
      BY <1>4, <1>5, <2>2, <3>1, <3>2 DEF LateOK, Unclaimed
    <3>4. claimBlob.claim = held[a]
      BY <1>4, <1>5, <2>2 DEF TrackerInv, HolderOnRecordUnlessRaced, Raced
    <3>5. x.blob.claim = claimBlob.claim
      <4>1. x.basis[1][2] = claimBlob.claim
        BY <1>2, <1>4, <1>5, <3>2, OnBasis DEF TrackerInv, Static
      <4>2. QED
        BY <3>3, <4>1
    <3>6. QED
      BY <3>3, <3>4, <3>5 DEF Retired
  <2>3. QED
    BY <2>1, <2>2
<1>6. Exclusion'
  <2>1. ASSUME ~Raced', NEW y \in late'
        PROVE  LateOK(y)'
    BY <1>1, <1>4, <2>1 DEF TrackerInv, Exclusion, LateOK, Retired
  <2>2. QED
    BY <1>1, <1>4, <1>5, <2>1 DEF TrackerInv, Exclusion, Checked
<1>7. HolderOnRecordUnlessRaced'
  <2>1. claimBlob' # None
    BY <1>1, <1>2, NoneAssumption
  <2>2. QED
    BY <1>1, <1>5, <2>1 DEF HolderOnRecordUnlessRaced, HasStatus, Raced
<1>8. ExclusiveUnlessRaced'
  BY <1>1 DEF TrackerInv, ExclusiveUnlessRaced
<1>9. QED
  BY <1>3, <1>6, <1>7, <1>8 DEF TrackerInv

\* How a handoff may be replaced.
ReplacedInTime == Raced' \/ (HasStatus("active") /\ handoffBlob'.by = handoffBlob.by)

\* The handoff is stored: with its basis on record, that of the claim there.
LEMMA PutHandoffKeeps ==
  ASSUME TrackerInv, NEW p \in Proc, PutHandoff(p)
  PROVE  /\ TrackerInv'
         /\ handoffBlob # None => ReplacedInTime
<1>1. PICK c, b, h : c = call[p].claim /\ b = call[p].basis /\ h = [by |-> c.by, via |-> p]
  OBVIOUS
<1>2. call[p].op = "handoff" /\ c \in Claim /\ b \in Bases /\ h \in Handoff /\ h.by = c.by
  <2>1. call[p].op = "handoff" /\ c \in Claim /\ b \in Bases
    BY <1>1 DEF PutHandoff, TrackerInv, Static, CallOK
  <2>2. QED
    BY <1>1, <2>1 DEF Claim, Handoff
<1>3. /\ UNCHANGED <<claimBlob, up, held, late, made, hidden>>
      /\ handoffBlob' = h
      /\ blind => blind'
      /\ ~Raced' => ~Raced /\ OnRecord = b
  BY <1>1 DEF PutHandoff, Raced
<1> DEFINE n == <<b[1], h>>
<1>4. n \in Bases /\ n[1] = b[1] /\ n[2] = h
  BY <1>2 DEF Bases
<1>5. /\ call' \in [Proc -> Calls] /\ call'[p].op = "handoff" /\ call'[p].pc = "complete"
      /\ call'[p].claim = c /\ call'[p].basis = n
      /\ \A q \in Proc \ {p} : call'[q] = call[q]
  <2>1. call' = [call EXCEPT ![p].pc = "complete", ![p].basis = [b EXCEPT ![2] = h]]
    BY <1>1 DEF PutHandoff
  <2>2. [b EXCEPT ![2] = h] = n
    BY <1>2 DEF Bases
  <2> HIDE DEF n
  <2>3. call' = [call EXCEPT ![p].pc = "complete", ![p].basis = n]
    BY <2>1, <2>2
  <2>4. PICK k : k = [call[p] EXCEPT !.pc = "complete", !.basis = n]
    OBVIOUS
  <2>5. call \in [Proc -> Calls] /\ call[p] \in Calls
    BY DEF TrackerInv, Static, Types
  <2>6. k \in Calls /\ k.op = "handoff" /\ k.pc = "complete" /\ k.claim = c /\ k.basis = n
    BY <1>1, <1>2, <1>4, <2>4, <2>5 DEF Calls, Pcs
  <2>7. call' = [call EXCEPT ![p] = k]
    BY <2>3, <2>4, <2>5
  <2>8. QED
    BY <2>5, <2>6, <2>7
<1> HIDE DEF n
<1>6. Static'
  <2>1. Types'
    BY <1>2, <1>3, <1>5 DEF TrackerInv, Static, Types
  <2>2. CallOK(p, call[p])' /\ \A q \in Proc \ {p} : CallOK(q, call[q])'
    <3>1. c.n <= made
      BY <1>1, <1>2, Zenon DEF TrackerInv, Static, CallOK
    <3>2. CallOK(p, call[p])'
      BY <1>2, <1>3, <1>4, <1>5, <3>1, Zenon DEF CallOK
    <3>3. QED
      BY <1>3, <1>5, <3>2, SameCall, Zenon
  <2>3. ASSUME NEW a \in Agent
        PROVE  LoopOK(a)'
    <3>1. Loop(a) \in Proc /\ LoopOK(a)
      BY Loops DEF TrackerInv, Static
    <3>2. CASE Loop(a) = p
      <4>1. /\ up[a] /\ call'[Loop(a)].op = "handoff"
            /\ held[a] # None => held[a].by = a /\ held[a].n <= made
        BY <1>2, <1>5, <3>1, <3>2 DEF LoopOK
      <4>2. QED
        BY <1>3, <4>1 DEF LoopOK
    <3>3. CASE Loop(a) # p
      <4>1. call'[Loop(a)] = call[Loop(a)]
        BY <1>5, <3>1, <3>3
      <4>2. QED
        BY <1>3, <3>1, <4>1 DEF LoopOK
    <3>4. QED
      BY <3>2, <3>3
  <2>4. QED
    BY <1>3, <2>1, <2>2, <2>3 DEF TrackerInv, Static
<1>7. handoffBlob' # None
  BY <1>2, <1>3, NoneAssumption
<1>8. ASSUME ~Raced'
      PROVE  /\ b[1] # None /\ claimBlob # None /\ claimBlob.claim.by = c.by
             /\ handoffBlob # None => handoffBlob.by = c.by
             /\ b[1][2].by = c.by /\ HasStatus("active")
  <2>1. ~Raced /\ OnRecord = b /\ Known(c, b) /\ b[1][1] = "active"
    BY <1>1, <1>2, <1>3, <1>8 DEF TrackerInv, Exclusion, Checked, PutHandoff
  <2>2. QED
    BY <1>2, <2>1, OnBasis, NoneAssumption DEF Known, TrackerInv, Static, HasStatus
<1>9. Exclusion'
  <2>1. ASSUME ~Raced', NEW q \in Proc
        PROVE  Checked(call[q])'
    <3>1. CASE q = p
      BY <1>2, <1>4, <1>5, <1>7, <1>8, <2>1, <3>1 DEF Checked, Known
    <3>2. CASE q # p
      BY <1>3, <1>5, <1>7, <2>1, <3>2 DEF TrackerInv, Exclusion, Checked
    <3>3. QED
      BY <3>1, <3>2
  <2>2. ASSUME ~Raced', NEW x \in late'
        PROVE  LateOK(x)'
    BY <1>3, <1>7, <2>2 DEF TrackerInv, Exclusion, LateOK
  <2>3. ~Raced' => HandoffOfClaim'
    BY <1>2, <1>3, <1>8 DEF HandoffOfClaim
  <2>4. QED
    BY <2>1, <2>2, <2>3 DEF Exclusion
<1>10. ExclusiveUnlessRaced' /\ HolderOnRecordUnlessRaced'
  BY <1>3, <1>7 DEF TrackerInv, ExclusiveUnlessRaced, HolderOnRecordUnlessRaced
<1>11. handoffBlob # None => ReplacedInTime
  BY <1>2, <1>3, <1>8 DEF ReplacedInTime
<1>12. QED
  BY <1>6, <1>9, <1>10, <1>11 DEF TrackerInv

\* A claim on record goes stale.
LEMMA ExpireKeeps ==
  ASSUME TrackerInv, Expire
  PROVE  TrackerInv'
<1>1. /\ claimBlob \in ClaimBlob /\ claimBlob' \in ClaimBlob
      /\ claimBlob'.status = claimBlob.status /\ claimBlob'.claim = claimBlob.claim
  BY DEF Expire, HasStatus, TrackerInv, Static, Types, ClaimBlob
<1>2. UNCHANGED <<handoffBlob, call, up, held, late, made, blind, hidden>>
  BY DEF Expire
<1>3. Static'
  <2>1. Types'
    BY <1>1, <1>2 DEF TrackerInv, Static, Types
  <2>2. (\A q \in Proc : CallOK(q, call[q])') /\ \A a \in Agent : LoopOK(a)'
    BY <1>2 DEF TrackerInv, Static, CallOK, LoopOK
  <2>3. claimBlob.claim.n <= made
    BY <1>1, NoneAssumption DEF TrackerInv, Static
  <2>4. QED
    BY <1>1, <1>2, <2>1, <2>2, <2>3 DEF TrackerInv, Static
<1>4. claimBlob # None /\ claimBlob' # None
  BY <1>1, NoneAssumption
<1>5. Exclusion'
  BY <1>1, <1>2, <1>4 DEF TrackerInv, Exclusion, Raced, Checked, LateOK, Retired, HandoffOfClaim
<1>6. ExclusiveUnlessRaced' /\ HolderOnRecordUnlessRaced'
  BY <1>1, <1>2, <1>4 DEF TrackerInv, ExclusiveUnlessRaced, HolderOnRecordUnlessRaced, HasStatus
<1>7. QED
  BY <1>3, <1>5, <1>6 DEF TrackerInv

-----------------------------------------------------------------------------
(* The checks that begin a call.                                            *)

Begun(k, op, pc, c) ==
  k \in Calls /\ k.op = op /\ k.pc = pc /\ k.claim = c /\ k.basis = OnRecord

\* A call that begins is of its type and has what it checked on record.
LEMMA Begins ==
  ASSUME Types, NEW op \in Ops, NEW pc \in Pcs, NEW c \in Claim, NEW r \in Reason \cup {None}
  PROVE  Begun(Writing(op, pc, c, r), op, pc, c)
  BY Sees DEF Begun, Writing, Calls

\* An owner's call: with no race its claim is the one on record, or its agent
\* has handed off.
LEMMA OwnerChecks ==
  ASSUME TrackerInv, ~Raced, NEW a \in Agent, held[a] # None, Owns(held[a])
  PROVE  /\ Known(held[a], OnRecord)
         /\ OnRecord[1][1] = "active"
         /\ OnRecord[2] = None => OnRecord[1] = <<"active", held[a]>>
<1>1. claimBlob # None /\ claimBlob.status = "active" /\ claimBlob.claim.by = held[a].by
  BY DEF Owns, HasStatus
<1>2. /\ OnRecord[2] = handoffBlob /\ OnRecord[1] # None
      /\ OnRecord[1] = <<claimBlob.status, claimBlob.claim>> /\ OnRecord[1][2] = claimBlob.claim
  BY <1>1, Sees DEF TrackerInv, Static
<1>3. handoffBlob # None => handoffBlob.by = held[a].by
  BY <1>1 DEF TrackerInv, Exclusion, HandoffOfClaim
<1>4. handoffBlob = None => claimBlob.claim = held[a]
  BY DEF TrackerInv, HolderOnRecordUnlessRaced, Raced
<1>5. QED
  BY <1>1, <1>2, <1>3, <1>4 DEF Known

\* create_issue touches no claim.
LEMMA CreateSteps ==
  ASSUME TrackerInv, NEW p \in Proc,
         CreateTask(p) \/ CreateShard(p) \/ CreateProvenance(p) \/ CreateCleanup(p)
  PROVE  TrackerInv'
<1>1. UNCHANGED <<claimBlob, handoffBlob, up, held, late, made, blind, hidden>>
  BY DEF CreateTask, CreateShard, CreateProvenance, CreateCleanup
<1>2. call[p] \in Calls /\ CallOK(p, call[p]) /\ made \in 0 .. MaxClaims /\ made <= made
      /\ up \in [Agent -> BOOLEAN]
  BY BoundsAssumption DEF TrackerInv, Static, Types
<1>3. CASE call' = [call EXCEPT ![p] = Idle]
  <2>1. CallOK(p, Idle)' /\ Checked(Idle)'
    BY IdleCall DEF CallOK, Checked
  <2>2. QED
    BY <1>1, <1>2, <1>3, <2>1, CallMoves, IdleCall
<1>4. CASE CreateTask(p)
  <2> DEFINE k == [Idle EXCEPT !.op = "create", !.pc = "shard"]
  <2>1. call' = [call EXCEPT ![p] = k] /\ ~IsLoop(p)
    BY <1>4 DEF CreateTask, CanCall, IsApi, IsLoop
  <2>2. k \in Calls /\ k.op = "create" /\ k.pc = "shard"
    BY IdleCall DEF Calls, Ops, Pcs
  <2> HIDE DEF k
  <2>3. CallOK(p, k)' /\ Checked(k)'
    BY <2>2 DEF CallOK, Checked, k
  <2>4. QED
    BY <1>1, <1>2, <2>1, <2>2, <2>3, CallMoves
<1>5. CASE CreateShard(p) /\ call' = [call EXCEPT ![p].pc = "provenance"]
  <2>1. call[p].op = "create"
    BY <1>2, <1>5 DEF CreateShard, CallOK
  <2>2. PICK k : k = [call[p] EXCEPT !.pc = "provenance"]
    OBVIOUS
  <2>3. k \in Calls /\ k.op = "create" /\ k.pc = "provenance"
    BY <1>2, <2>1, <2>2 DEF Calls, Pcs
  <2>4. call' = [call EXCEPT ![p] = k]
    BY <1>5, <2>2
  <2>5. CallOK(p, k)' /\ Checked(k)'
    BY <2>3 DEF CallOK, Checked
  <2>6. IsLoop(p) => up[p[1]]
    BY <2>1, Loops DEF TrackerInv, Static, LoopOK
  <2>7. QED
    BY <1>1, <1>2, <2>3, <2>4, <2>5, <2>6, CallMoves
<1>6. QED
  BY <1>3, <1>4, <1>5 DEF CreateShard, CreateProvenance, CreateCleanup, Done, Goto

\* A claim call has listed the issue as claimable: no claim is on record unless
\* the listing hid it.
LEMMA ClaimCheckKeeps ==
  ASSUME TrackerInv, NEW p \in Proc, ClaimCheck(p)
  PROVE  TrackerInv'
<1>1. /\ UNCHANGED <<claimBlob, handoffBlob, up, held, late, blind>>
      /\ made < MaxClaims /\ made' = made + 1 /\ (hidden => hidden')
      /\ ~Raced' => ~Stripped(p[1])
  BY DEF ClaimCheck, store, Raced
<1>2. p[1] \in Agent /\ made \in Nat /\ made' \in 0 .. MaxClaims /\ made <= made'
      /\ Types /\ up \in [Agent -> BOOLEAN]
  <2>1. Types
    BY DEF TrackerInv, Static
  <2>2. made \in Nat /\ up \in [Agent -> BOOLEAN]
    BY <2>1, Bounded
  <2>3. made' \in 0 .. MaxClaims /\ made <= made'
    BY <1>1, <2>2, BoundsAssumption
  <2>4. QED
    BY <2>1, <2>2, <2>3, Loops
<1>3. PICK c : c \in Claim /\ c = [by |-> p[1], n |-> made + 1] /\ c.by = p[1] /\ c.n = made + 1
  <2>1. PICK c : c = [by |-> p[1], n |-> made + 1]
    OBVIOUS
  <2>2. made + 1 \in 1 .. MaxClaims
    BY <1>1, <1>2, BoundsAssumption
  <2>3. c \in Claim /\ c.by = p[1] /\ c.n = made + 1
    BY <1>2, <2>1, <2>2 DEF Claim
  <2>4. QED
    BY <2>1, <2>3
<1>4. PICK k : /\ k \in Calls /\ k = Writing("claim", "patch", c, None)
               /\ k.op = "claim" /\ k.pc = "patch" /\ k.claim = c /\ k.basis = OnRecord
  <2>1. "claim" \in Ops /\ "patch" \in Pcs /\ c \in Claim /\ None \in Reason \cup {None}
    BY <1>3 DEF Ops, Pcs
  <2>2. Begun(Writing("claim", "patch", c, None), "claim", "patch", c)
    BY <1>2, <2>1, Begins, Zenon
  <2>3. QED
    BY <2>2, Zenon DEF Begun
<1>5. call' = [call EXCEPT ![p] = k]
  BY <1>3, <1>4 DEF ClaimCheck
<1>6. k.basis \in Bases
  BY <1>2, <1>4, Sees
<1>7. CallOK(p, k)'
  <2>1. k.claim \in Claim /\ k.claim.by = p[1] /\ k.claim.n <= made'
    BY <1>1, <1>2, <1>3, <1>4
  <2>2. QED
    BY <1>4, <1>6, <2>1, Zenon DEF CallOK
<1>8. ASSUME ~Raced'
      PROVE  Unclaimed(k.basis)
  <2>1. ActiveClaim = None
    BY <1>1, <1>8 DEF ClaimCheck, Claimable, ListedClaim
  <2>2. handoffBlob = None
    <3>1. IssueState = "todo"
      BY <1>1, <1>8 DEF ClaimCheck, Claimable, ListedState
    <3>2. QED
      BY <3>1 DEF IssueState
  <2>3. claimBlob # None => claimBlob.status # "active"
    <3>1. claimBlob # None => claimBlob.claim # None
      BY <1>2, NoneAssumption DEF Types, ClaimBlob
    <3>2. QED
      BY <2>1, <2>2, <3>1 DEF ActiveClaim, HasStatus
  <2>4. QED
    BY <1>2, <1>4, <2>2, <2>3, Sees DEF Unclaimed
<1>9. ~Raced' => Checked(k)'
  BY <1>4, <1>8 DEF Checked, Unclaimed
<1>10. IsLoop(p) => up[p[1]] /\ held[p[1]] = None
  BY DEF ClaimCheck, CanCall, IsApi, IsLoop
<1>11. k.claim.n > made
  BY <1>2, <1>3, <1>4
<1>12. QED
  BY <1>1, <1>2, <1>4, <1>5, <1>7, <1>9, <1>10, <1>11, CallMoves

\* The PATCH of a claim, and the one of a handoff.
LEMMA PatchKeeps ==
  ASSUME TrackerInv, NEW p \in Proc, ClaimPatch(p) \/ CompleteTask(p)
  PROVE  TrackerInv'
<1>1. /\ UNCHANGED <<claimBlob, handoffBlob, up, held, late, made, blind, hidden>>
      /\ call[p].pc \in {"patch", "complete"}
      /\ call' = [call EXCEPT ![p].pc = "put"]
  BY DEF ClaimPatch, CompleteTask, Goto
<1>2. call[p] \in Calls /\ CallOK(p, call[p]) /\ made \in 0 .. MaxClaims /\ made <= made
      /\ up \in [Agent -> BOOLEAN]
  <2>1. Types /\ CallOK(p, call[p])
    BY Zenon DEF TrackerInv, Static
  <2>2. call[p] \in Calls
    BY <2>1 DEF Types
  <2>3. QED
    BY <2>1, <2>2, Bounded, Zenon
<1>3. PICK k : /\ k \in Calls /\ k = [call[p] EXCEPT !.pc = "put"]
               /\ k.op = call[p].op /\ k.pc = "put" /\ k.claim = call[p].claim
               /\ k.basis = call[p].basis
  <2>1. PICK k : k = [call[p] EXCEPT !.pc = "put"]
    OBVIOUS
  <2>2. /\ k \in Calls /\ k.op = call[p].op /\ k.pc = "put" /\ k.claim = call[p].claim
        /\ k.basis = call[p].basis
    BY <1>2, <2>1 DEF Calls, Pcs
  <2>3. QED
    BY <2>1, <2>2
<1>4. call' = [call EXCEPT ![p] = k]
  BY <1>1, <1>3
<1>5. call[p].op \in {"claim", "handoff"} /\ CallOK(p, k)'
  BY <1>1, <1>2, <1>3 DEF CallOK
<1>6. ~Raced => Checked(k)'
  <2>1. ~Raced => Checked(call[p])
    BY DEF TrackerInv, Exclusion
  <2>2. QED
    BY <1>1, <1>2, <1>3, <1>5, <2>1 DEF Checked, CallOK
<1>7. IsLoop(p) => /\ up[p[1]]
                   /\ k.op \in {"claim", "expire"} => held[p[1]] = None
  BY <1>3, <1>5, Loops DEF TrackerInv, Static, LoopOK
<1>8. ~Raced' => ~Raced
  BY <1>1 DEF Raced
<1>9. QED
  BY <1>1, <1>2, <1>3, <1>4, <1>5, <1>6, <1>7, <1>8, CallMoves

\* The calls of the heartbeat, of the API on a claim, and of the requeue.
LEMMA CheckKeeps ==
  ASSUME TrackerInv, NEW p \in Proc, NEW c \in Claim, NEW op \in {"heartbeat", "handoff", "requeue"},
         NEW pc \in {"put", "check", "handoff"}, pc = "put" <=> op # "handoff",
         call' = [call EXCEPT ![p] = Writing(op, pc, c, None)], ~IsLoop(p), c.n <= made,
         UNCHANGED <<claimBlob, handoffBlob, up, held, late, made, blind, hidden>>,
         ~Raced => Known(c, OnRecord),
         (~Raced /\ op = "heartbeat" /\ OnRecord[2] = None) => OnRecord[1] = <<"active", c>>,
         op = "requeue" => OnRecord[1][1] # "active",
         (~Raced /\ pc = "handoff") => OnRecord[1][1] = "active"
  PROVE  TrackerInv'
<1>1. Types /\ made \in 0 .. MaxClaims /\ made <= made /\ up \in [Agent -> BOOLEAN]
  <2>1. Types
    BY DEF TrackerInv, Static
  <2>2. QED
    BY <2>1, Bounded
<1>2. PICK k \in Calls : /\ k = Writing(op, pc, c, None)
                         /\ k.op = op /\ k.pc = pc /\ k.claim = c /\ k.basis = OnRecord
  <2>1. op \in Ops /\ pc \in Pcs
    BY DEF Ops, Pcs
  <2>2. None \in Reason \cup {None}
    BY Zenon
  <2>3. Begun(Writing(op, pc, c, None), op, pc, c)
    BY <1>1, <2>1, <2>2, Begins, Zenon
  <2>4. QED
    BY <2>3, Zenon DEF Begun
<1>3. OnRecord \in Bases
  BY <1>1, Sees
<1>4. CallOK(p, k)'
  BY <1>2, <1>3 DEF CallOK
<1>5. ~Raced' => Checked(k)'
  BY <1>2 DEF Checked, Raced
<1>6. QED
  BY <1>1, <1>2, <1>4, <1>5, CallMoves

\* The heartbeat checks that its run's agent has the active claim.
LEMMA HeartbeatKeeps ==
  ASSUME TrackerInv, NEW a \in Agent, Heartbeat(a)
  PROVE  TrackerInv'
<1>1. PICK c : c = held[a]
  OBVIOUS
<1>2. c \in Claim /\ c.n <= made /\ held[a] # None
  BY <1>1 DEF Heartbeat, TrackerInv, Static, Types, LoopOK
<1>3. ~Raced => Known(c, OnRecord) /\ (OnRecord[2] = None => OnRecord[1] = <<"active", c>>)
  BY <1>1, OwnerChecks DEF Heartbeat
<1>4. /\ call' = [call EXCEPT ![Beat(a)] = Writing("heartbeat", "put", c, None)]
      /\ UNCHANGED <<claimBlob, handoffBlob, up, held, late, made, blind, hidden>>
  BY <1>1 DEF Heartbeat, store
<1>5. Beat(a) \in Proc /\ ~IsLoop(Beat(a))
  BY Loops
<1>6. QED
  BY <1>2, <1>3, <1>4, <1>5, CheckKeeps

\* The API reads the claim that the issue shows.
LEMMA ApiHandoffKeeps ==
  ASSUME TrackerInv, NEW p \in Proc, ApiHandoff(p)
  PROVE  TrackerInv'
<1>1. PICK c : c = claimBlob.claim
  OBVIOUS
<1>2. claimBlob # None /\ handoffBlob = None /\ ListedClaim(p[1]) = c
  BY <1>1 DEF ApiHandoff, ListedClaim, ActiveClaim, HasStatus
<1>3. c \in Claim
  BY <1>1, <1>2 DEF TrackerInv, Static, Types, ClaimBlob
<1>4. /\ call' = [call EXCEPT ![p] = Writing("handoff", "check", c, None)] /\ ~IsLoop(p)
      /\ UNCHANGED <<claimBlob, handoffBlob, up, held, late, made, blind, hidden>>
  BY <1>2 DEF ApiHandoff, store, CanCall, IsApi, IsLoop
<1>5. Known(c, OnRecord)
  BY <1>1, <1>2, Sees DEF Known, TrackerInv, Static
<1>6. c.n <= made
  BY <1>1, <1>2 DEF TrackerInv, Static
<1>7. QED
  BY <1>3, <1>4, <1>5, <1>6, CheckKeeps

\* The tracker finds a claim of its agent on record, or rejects the handoff.
LEMMA CheckOwnerKeeps ==
  ASSUME TrackerInv, NEW p \in Proc, CheckOwner(p)
  PROVE  TrackerInv'
<1>1. PICK c : c = call[p].claim
  OBVIOUS
<1>2. c \in Claim /\ c.n <= made /\ ~IsLoop(p) /\ Types
  BY <1>1 DEF CheckOwner, TrackerInv, Static, CallOK
<1>3. UNCHANGED <<claimBlob, handoffBlob, up, held, late, made, blind, hidden>>
  BY DEF CheckOwner, store
<1>4. CASE Owns(c)
  <2>1. claimBlob # None /\ claimBlob.status = "active" /\ claimBlob.claim.by = c.by
    BY <1>4 DEF Owns, HasStatus
  <2>2. ~Raced /\ handoffBlob # None => handoffBlob.by = c.by
    BY <2>1 DEF TrackerInv, Exclusion, HandoffOfClaim
  <2>3. (~Raced => Known(c, OnRecord)) /\ OnRecord[1][1] = "active"
    BY <1>2, <2>1, <2>2, Sees DEF Known
  <2>4. call' = [call EXCEPT ![p] = Writing("handoff", "handoff", c, None)]
    BY <1>1, <1>4 DEF CheckOwner
  <2>5. QED
    BY <1>2, <1>3, <2>3, <2>4, CheckKeeps
<1>5. CASE ~Owns(c)
  <2>1. call' = [call EXCEPT ![p] = Idle]
    BY <1>1, <1>5 DEF CheckOwner, Done
  <2>2. CallOK(p, Idle)' /\ Checked(Idle)'
    BY IdleCall DEF CallOK, Checked
  <2>3. QED
    BY <1>2, <1>3, <2>1, <2>2, Bounded, CallMoves, IdleCall
<1>6. QED
  BY <1>4, <1>5

\* The API puts an issue that waits for approval back.
LEMMA RequeueKeeps ==
  ASSUME TrackerInv, NEW p \in Proc, Requeue(p)
  PROVE  TrackerInv'
<1>1. PICK c : c = claimBlob.claim
  OBVIOUS
<1>2. claimBlob # None /\ claimBlob.status # "active"
  BY DEF Requeue, HasStatus
<1>3. c \in Claim /\ c.n <= made
  BY <1>1, <1>2 DEF TrackerInv, Static, Types, ClaimBlob
<1>4. /\ call' = [call EXCEPT ![p] = Writing("requeue", "put", c, None)] /\ ~IsLoop(p)
      /\ UNCHANGED <<claimBlob, handoffBlob, up, held, late, made, blind, hidden>>
  BY <1>1 DEF Requeue, store, CanCall, IsApi, IsLoop
<1>5. ~Raced /\ handoffBlob # None => handoffBlob.by = c.by
  BY <1>1, <1>2 DEF TrackerInv, Exclusion, HandoffOfClaim
<1>6. (~Raced => Known(c, OnRecord)) /\ OnRecord[1][1] # "active"
  BY <1>1, <1>2, <1>5, Sees DEF Known, TrackerInv, Static
<1>7. QED
  BY <1>3, <1>4, <1>6, CheckKeeps

\* The end of a run aborts the heartbeat and begins the call that ends the claim,
\* or stops the daemon.
LEMMA EndRunKeeps ==
  ASSUME TrackerInv, NEW a \in Agent, EndRun(a)
  PROVE  TrackerInv'
<1>1. /\ Loop(a) \in Proc /\ Beat(a) \in Proc /\ Loop(a) # Beat(a) /\ IsLoop(Loop(a))
      /\ ~IsLoop(Beat(a)) /\ Loop(a)[1] = a
  BY Loops
<1>2. /\ held[a] # None /\ call[Loop(a)] = Idle /\ late' = late \cup Sent({Beat(a)})
      /\ UNCHANGED <<claimBlob, handoffBlob, made, blind, hidden>>
      /\ LoopOK(a) /\ Types
  BY DEF EndRun, store, TrackerInv, Static
<1>3. \A d \in Agent \ {a} : Loop(d) \in Proc \ {Loop(a), Beat(a)}
  BY <1>1, Loops
<1>4. CASE Owns(held[a])
  <2>1. PICK k : /\ k \in {Writing("release", "put", held[a], None),
                           Writing("handoff", "handoff", held[a], None)}
                          \cup {Writing("block", "put", held[a], reason) : reason \in Reason}
                 /\ call' = [call EXCEPT ![Loop(a)] = k, ![Beat(a)] = Idle]
                 /\ UNCHANGED <<up, held>>
    BY <1>4 DEF EndRun
  <2>2. PICK op, pc, r : /\ k = Writing(op, pc, held[a], r)
                         /\ op \in {"release", "handoff", "block"}
                         /\ pc = IF op = "handoff" THEN "handoff" ELSE "put"
                         /\ r \in Reason \cup {None}
    BY <2>1
  <2>3. PICK c : c = held[a] /\ c \in Claim /\ c.n <= made /\ c.by = a
    BY <1>2 DEF Types, LoopOK
  <2>4. op \in Ops /\ pc \in Pcs
    BY <2>2 DEF Ops, Pcs
  <2>5. k \in Calls /\ k.op = op /\ k.pc = pc /\ k.claim = c /\ k.basis = OnRecord
    <3>1. Begun(Writing(op, pc, c, r), op, pc, c)
      BY <1>2, <2>2, <2>3, <2>4, Begins, Zenon
    <3>2. k = Writing(op, pc, c, r)
      BY <2>2, <2>3, Zenon
    <3>3. QED
      BY <3>1, <3>2, Zenon DEF Begun
  <2>6. OnRecord \in Bases
    BY <1>2, Sees
  <2>7. CallOK(Loop(a), k)
    BY <1>1, <2>2, <2>3, <2>5, <2>6 DEF CallOK
  <2>8. ~Raced => Checked(k)
    <3>1. ~Raced => /\ Known(c, OnRecord) /\ OnRecord[1][1] = "active"
                    /\ OnRecord[2] = None => OnRecord[1] = <<"active", c>>
      BY <1>2, <1>4, <2>3, OwnerChecks
    <3>2. QED
      BY <2>2, <2>5, <3>1 DEF Checked
  <2>9. /\ call' \in [Proc -> Calls] /\ call'[Loop(a)] = k /\ call'[Beat(a)] = Idle
        /\ \A q \in Proc \ {Loop(a), Beat(a)} : call'[q] = call[q]
    BY <1>1, <1>2, <2>1, <2>5, IdleCall DEF Types
  <2>10. ASSUME NEW d \in Agent
         PROVE  LoopOK(d)'
    <3>1. CASE d = a
      BY <1>2, <2>1, <2>2, <2>5, <2>9, <3>1 DEF LoopOK
    <3>2. CASE d # a
      <4>1. Loop(d) \in Proc \ {Loop(a), Beat(a)} /\ LoopOK(d)
        BY <1>3, <3>2 DEF TrackerInv, Static
      <4>2. call'[Loop(d)] = call[Loop(d)]
        BY <2>9, <4>1
      <4>3. QED
        BY <1>2, <2>1, <4>1, <4>2 DEF LoopOK
    <3>3. QED
      BY <3>1, <3>2
  <2>11. \A q \in Proc : \/ call'[q] \in {call[q], Idle}
                         \/ /\ CallOK(q, call'[q]) /\ (~Raced => Checked(call'[q]))
                            /\ call'[q].op # "claim"
    BY <2>2, <2>5, <2>7, <2>8, <2>9
  <2>12. \A d \in Agent : held'[d] \in {held[d], None}
    BY <2>1
  <2>13. held' \in [Agent -> Claim \cup {None}] /\ up' \in [Agent -> BOOLEAN]
    BY <1>2, <2>1 DEF Types
  <2>14. {Beat(a)} \in SUBSET Proc /\ \A q \in {Beat(a)} : ~IsLoop(q)
    BY <1>1
  <2>15. QED
    BY <1>2, <2>9, <2>10, <2>11, <2>12, <2>13, <2>14, CallsEnd
<1>5. CASE ~Owns(held[a])
  <2>1. /\ call' = [call EXCEPT ![Beat(a)] = Idle] /\ up' = [up EXCEPT ![a] = FALSE]
        /\ held' = [held EXCEPT ![a] = None]
    BY <1>5 DEF EndRun
  <2>2. /\ call' \in [Proc -> Calls] /\ \A q \in Proc : call'[q] \in {call[q], Idle}
        /\ call'[Loop(a)] = Idle /\ \A q \in Proc \ {Beat(a)} : call'[q] = call[q]
    BY <1>1, <1>2, <2>1, IdleCall DEF Types
  <2>3. /\ held' \in [Agent -> Claim \cup {None}] /\ up' \in [Agent -> BOOLEAN]
        /\ \A d \in Agent : held'[d] \in {held[d], None}
        /\ held'[a] = None /\ \A d \in Agent \ {a} : held'[d] = held[d] /\ up'[d] = up[d]
    BY <1>2, <2>1 DEF Types
  <2>4. ASSUME NEW d \in Agent
        PROVE  LoopOK(d)'
    <3>1. CASE d = a
      BY <2>2, <2>3, <3>1, IdleCall DEF LoopOK
    <3>2. CASE d # a
      <4>1. Loop(d) \in Proc \ {Loop(a), Beat(a)} /\ LoopOK(d)
        BY <1>3, <3>2 DEF TrackerInv, Static
      <4>2. call'[Loop(d)] = call[Loop(d)] /\ held'[d] = held[d] /\ up'[d] = up[d]
        BY <2>2, <2>3, <3>2, <4>1
      <4>3. QED
        BY <1>2, <4>1, <4>2 DEF LoopOK
    <3>3. QED
      BY <3>1, <3>2
  <2>5. {Beat(a)} \in SUBSET Proc /\ \A q \in {Beat(a)} : ~IsLoop(q)
    BY <1>1
  <2>6. QED
    BY <1>2, <2>2, <2>3, <2>4, <2>5, CallsEnd
<1>6. QED
  BY <1>4, <1>5

\* A request fails: its call ends, and with it the run it was to end.
LEMMA RequestFailsKeeps ==
  ASSUME TrackerInv, NEW p \in Proc, RequestFails(p)
  PROVE  TrackerInv'
<1>1. /\ Types /\ p[1] \in Agent /\ late' = late \cup Sent({p}) /\ call' = [call EXCEPT ![p] = Idle]
      /\ UNCHANGED <<claimBlob, handoffBlob, made, blind, hidden>>
  BY Loops DEF RequestFails, Done, store, TrackerInv, Static
<1>2. /\ call' \in [Proc -> Calls] /\ call'[p] = Idle
      /\ \A q \in Proc \ {p} : call'[q] = call[q]
  BY <1>1, IdleCall DEF Types
<1>3. /\ held' \in [Agent -> Claim \cup {None}] /\ up' \in [Agent -> BOOLEAN]
      /\ \A d \in Agent : held'[d] \in {held[d], None}
      /\ IsLoop(p) => held'[p[1]] = None
      /\ ~IsLoop(p) => UNCHANGED <<up, held>>
      /\ \A d \in Agent \ {p[1]} : held'[d] = held[d] /\ up'[d] = up[d]
  <2>1. CASE IsLoop(p) /\ held[p[1]] # None
    BY <1>1, <2>1 DEF RequestFails, Types
  <2>2. CASE ~(IsLoop(p) /\ held[p[1]] # None)
    BY <1>1, <2>2 DEF RequestFails, Types
  <2>3. QED
    BY <2>1, <2>2
<1>4. ASSUME NEW d \in Agent
      PROVE  LoopOK(d)'
  <2>1. LoopOK(d)
    BY DEF TrackerInv, Static
  <2>2. CASE p = Loop(d)
    <3>1. held'[d] = None /\ call'[Loop(d)].op = "none"
      BY <1>2, <1>3, <2>2, IdleCall, Loops
    <3>2. QED
      BY <3>1 DEF LoopOK
  <2>3. CASE p # Loop(d)
    <3>1. call'[Loop(d)] = call[Loop(d)] /\ held'[d] = held[d] /\ up'[d] = up[d]
      BY <1>2, <1>3, <2>3, Loops
    <3>2. QED
      BY <1>1, <2>1, <3>1 DEF LoopOK
  <2>4. QED
    BY <2>2, <2>3
<1>5. /\ {p} \in SUBSET Proc
      /\ \A q \in {p} : IsLoop(q) => held'[q[1]] = None /\ call'[q].op = "none"
  BY <1>2, <1>3, IdleCall
<1>6. QED
  BY <1>1, <1>2, <1>3, <1>4, <1>5, CallsEnd

\* A daemon crashes: its run and all its calls end.
LEMMA CrashKeeps ==
  ASSUME TrackerInv, NEW a \in Agent, Crash(a)
  PROVE  TrackerInv'
<1> DEFINE P == {p \in Proc : p[1] = a}
<1>1. /\ Types /\ late' = late \cup Sent(P)
      /\ call' = [p \in Proc |-> IF p[1] = a THEN Idle ELSE call[p]]
      /\ up' = [up EXCEPT ![a] = FALSE] /\ held' = [held EXCEPT ![a] = None]
      /\ UNCHANGED <<claimBlob, handoffBlob, made, blind, hidden>>
  BY DEF Crash, store, TrackerInv, Static
<1>2. /\ call' \in [Proc -> Calls]
      /\ \A q \in Proc : call'[q] \in {call[q], Idle}
      /\ \A q \in Proc : q[1] = a => call'[q] = Idle
      /\ \A q \in Proc : q[1] # a => call'[q] = call[q]
  BY <1>1, IdleCall DEF Types
<1>3. /\ held' \in [Agent -> Claim \cup {None}] /\ up' \in [Agent -> BOOLEAN]
      /\ held'[a] = None
      /\ \A d \in Agent : held'[d] \in {held[d], None}
      /\ \A d \in Agent \ {a} : held'[d] = held[d] /\ up'[d] = up[d]
  BY <1>1 DEF Types
<1>4. ASSUME NEW d \in Agent
      PROVE  LoopOK(d)'
  <2>1. Loop(d) \in Proc /\ Loop(d)[1] = d /\ LoopOK(d)
    BY Loops DEF TrackerInv, Static
  <2>2. CASE d = a
    BY <1>2, <1>3, <2>1, <2>2, IdleCall DEF LoopOK
  <2>3. CASE d # a
    BY <1>1, <1>2, <1>3, <2>1, <2>3 DEF LoopOK
  <2>4. QED
    BY <2>2, <2>3
<1>5. /\ P \in SUBSET Proc
      /\ \A q \in P : IsLoop(q) => held'[q[1]] = None /\ call'[q].op = "none"
  BY <1>2, <1>3, IdleCall
<1> HIDE DEF P
<1>6. QED
  BY <1>1, <1>2, <1>3, <1>4, <1>5, CallsEnd

\* A daemon starts, and begins the release of a stale claim of its own.
LEMMA RestartKeeps ==
  ASSUME TrackerInv, NEW a \in Agent, Restart(a)
  PROVE  TrackerInv'
<1>1. /\ Types /\ made \in 0 .. MaxClaims /\ made <= made
      /\ UNCHANGED <<claimBlob, handoffBlob, held, late, made, blind, hidden>>
      /\ up' = [up EXCEPT ![a] = TRUE] /\ ~up[a] /\ call[Loop(a)] = Idle
  <2>1. Types
    BY DEF TrackerInv, Static
  <2>2. QED
    BY <2>1, Bounded DEF Restart, store
<1>2. up' \in [Agent -> BOOLEAN] /\ up'[a] /\ \A d \in Agent : up[d] => up'[d]
  BY <1>1 DEF Types
<1>3. /\ Loop(a) \in Proc /\ IsLoop(Loop(a)) /\ Loop(a)[1] = a /\ held[a] = None
  BY <1>1, Loops DEF TrackerInv, Static, LoopOK
<1>4. CASE call' = call
  <2>1. call' = [call EXCEPT ![Loop(a)] = Idle]
    BY <1>1, <1>3, <1>4 DEF Types
  <2>2. CallOK(Loop(a), Idle)' /\ Checked(Idle)'
    BY <1>3, IdleCall DEF CallOK, Checked
  <2>3. QED
    BY <1>1, <1>2, <1>3, <2>1, <2>2, IdleCall, CallMoves
<1>5. CASE call' # call
  <2> DEFINE listed == IF Visible(a) THEN ListedClaim(a) ELSE None
  <2>1. PICK c : c = claimBlob.claim
    OBVIOUS
  <2>2. /\ listed # None /\ listed.by = a
        /\ call' = [call EXCEPT ![Loop(a)] = Writing("expire", "put", listed, None)]
    BY <1>5 DEF Restart
  <2>3. claimBlob # None /\ claimBlob.status = "active" /\ handoffBlob = None /\ listed = c
    BY <2>1, <2>2 DEF ListedClaim, ActiveClaim, HasStatus
  <2>4. c \in Claim /\ c.n <= made /\ c.by = a
    BY <1>1, <2>1, <2>2, <2>3 DEF Types, ClaimBlob, TrackerInv, Static
  <2>5. PICK k : k = Writing("expire", "put", c, None)
    OBVIOUS
  <2>6. "expire" \in Ops /\ "put" \in Pcs
    BY DEF Ops, Pcs
  <2>7. k \in Calls /\ k.op = "expire" /\ k.pc = "put" /\ k.claim = c /\ k.basis = OnRecord
    <3>1. None \in Reason \cup {None}
      BY Zenon
    <3>2. Begun(Writing("expire", "put", c, None), "expire", "put", c)
      BY <1>1, <2>4, <2>6, <3>1, Begins, Zenon
    <3>3. QED
      BY <2>5, <3>2, Zenon DEF Begun
  <2>8. /\ OnRecord \in Bases /\ OnRecord[1] = <<"active", c>> /\ OnRecord[1] # None
        /\ OnRecord[1][2] = c /\ OnRecord[2] = None
    BY <1>1, <2>1, <2>3, Sees
  <2>9. CallOK(Loop(a), k)'
    BY <1>1, <1>3, <2>4, <2>7, <2>8 DEF CallOK
  <2>10. Checked(k)'
    BY <2>7, <2>8 DEF Checked, Known
  <2>11. call' = [call EXCEPT ![Loop(a)] = k]
    BY <2>2, <2>3, <2>5
  <2>12. QED
    BY <1>1, <1>2, <1>3, <2>7, <2>9, <2>10, <2>11, CallMoves
<1>6. QED
  BY <1>4, <1>5

-----------------------------------------------------------------------------
(* The theorems.                                                            *)

\* Nothing is on record and no call runs when the daemons start.
LEMMA InitTracker == Init => TrackerInv
<1> SUFFICES ASSUME Init
             PROVE  TrackerInv
  OBVIOUS
<1>1. Types
  BY IdleCall, BoundsAssumption DEF Init, Types
<1>2. \A p \in Proc : call[p] = Idle /\ CallOK(p, call[p]) /\ Checked(call[p])
  BY IdleCall DEF Init
<1>3. \A a \in Agent : held[a] = None /\ LoopOK(a)
  <2>1. \A a \in Agent : held[a] = None /\ call[Loop(a)].op = "none"
    BY <1>2, IdleCall, Loops DEF Init
  <2>2. QED
    BY <2>1 DEF LoopOK
<1>4. Static
  BY <1>1, <1>2, <1>3 DEF Static, Init
<1>5. Exclusion
  BY <1>2 DEF Exclusion, HandoffOfClaim, Init
<1>6. QED
  BY <1>3, <1>4, <1>5 DEF TrackerInv, ExclusiveUnlessRaced, HolderOnRecordUnlessRaced

\* Every step keeps the invariant, and a stored handoff unless replaced in time.
LEMMA NextTracker ==
  ASSUME TrackerInv, [Next]_vars
  PROVE  /\ TrackerInv'
         /\ (handoffBlob # None /\ handoffBlob' # handoffBlob) => ReplacedInTime
<1>1. CASE UNCHANGED vars
  <2>1. UNCHANGED <<claimBlob, handoffBlob, call, up, held, late, made, blind, hidden>>
    BY <1>1 DEF vars, store
  <2>2. UNCHANGED <<Types, Raced, HandoffOfClaim>>
    BY <2>1 DEF Types, Raced, HandoffOfClaim
  <2>3. Static'
    BY <2>1, <2>2 DEF TrackerInv, Static, CallOK, LoopOK
  <2>4. Exclusion'
    BY <2>1, <2>2 DEF TrackerInv, Exclusion, Checked, LateOK, Retired
  <2>5. ExclusiveUnlessRaced' /\ HolderOnRecordUnlessRaced'
    BY <2>1 DEF TrackerInv, ExclusiveUnlessRaced, HolderOnRecordUnlessRaced, HasStatus
  <2>6. QED
    BY <2>1, <2>3, <2>4, <2>5 DEF TrackerInv
<1>2. ASSUME NEW p \in Proc, PutHandoff(p)
      PROVE  TrackerInv' /\ (handoffBlob # None => ReplacedInTime)
  BY <1>2, PutHandoffKeeps
<1>3. ASSUME NEW p \in Proc,
             \/ CreateTask(p) \/ CreateShard(p) \/ CreateProvenance(p) \/ CreateCleanup(p)
             \/ ClaimCheck(p) \/ ClaimPatch(p) \/ PutClaim(p)
             \/ ApiHandoff(p) \/ CheckOwner(p) \/ CompleteTask(p)
             \/ Requeue(p) \/ RequestFails(p)
      PROVE  TrackerInv' /\ UNCHANGED handoffBlob
  <2>1. TrackerInv'
    BY <1>3, CreateSteps, ClaimCheckKeeps, PatchKeeps, PutClaimKeeps, ApiHandoffKeeps,
       CheckOwnerKeeps, RequeueKeeps, RequestFailsKeeps
  <2>2. UNCHANGED handoffBlob
    BY <1>3 DEF CreateTask, CreateShard, CreateProvenance, CreateCleanup, ClaimCheck, ClaimPatch,
                PutClaim, ApiHandoff, CheckOwner, CompleteTask, Requeue, RequestFails, store
  <2>3. QED
    BY <2>1, <2>2
<1>4. ASSUME NEW a \in Agent, Heartbeat(a) \/ EndRun(a) \/ Crash(a) \/ Restart(a)
      PROVE  TrackerInv' /\ UNCHANGED handoffBlob
  <2>1. TrackerInv'
    BY <1>4, HeartbeatKeeps, EndRunKeeps, CrashKeeps, RestartKeeps
  <2>2. UNCHANGED handoffBlob
    BY <1>4 DEF Heartbeat, EndRun, Crash, Restart, store
  <2>3. QED
    BY <2>1, <2>2
<1>5. ASSUME LatePut \/ Expire
      PROVE  TrackerInv' /\ UNCHANGED handoffBlob
  <2>1. TrackerInv'
    BY <1>5, LatePutKeeps, ExpireKeeps
  <2>2. UNCHANGED handoffBlob
    BY <1>5 DEF LatePut, Expire
  <2>3. QED
    BY <2>1, <2>2
<1>6. QED
  BY <1>1, <1>2, <1>3, <1>4, <1>5 DEF Next

\* The invariant the other theorems rest on: what a call has checked before it
\* writes stays true of its basis, in every interleaving of the daemons' loops
\* and heartbeats, API requests, late PUTs, failed requests, crashes and restarts.
THEOREM TrackerInvHolds == Spec => []TrackerInv
<1>1. QED
  BY InitTracker, NextTracker, PTL DEF Spec

\* One daemon at most runs under a claim of the issue unless a PUT landed
\* on blobs its call had not read or a listing hid a live claim.
THEOREM Exclusive == Spec => []ExclusiveUnlessRaced
<1>1. TrackerInv => ExclusiveUnlessRaced
  BY DEF TrackerInv
<1>2. QED
  BY <1>1, TrackerInvHolds, PTL

\* Unless such a race happened, a running daemon's claim is the active claim on
\* record, or the issue was handed off over the API.
THEOREM HolderOnRecord == Spec => []HolderOnRecordUnlessRaced
<1>1. TrackerInv => HolderOnRecordUnlessRaced
  BY DEF TrackerInv
<1>2. QED
  BY <1>1, TrackerInvHolds, PTL

\* Unless such a race happened, a stored handoff is replaced only by its own
\* agent's and only while the claim it ends is still active on record.
THEOREM HandoffKept == Spec => HandoffKeptUnlessRaced
<1> DEFINE Kept == handoffBlob # None /\ handoffBlob' # handoffBlob =>
                     \/ blind' \/ hidden
                     \/ HasStatus("active") /\ handoffBlob'.by = handoffBlob.by
<1>1. TrackerInv /\ [Next]_vars => Kept
  <2> SUFFICES ASSUME TrackerInv, [Next]_vars, handoffBlob # None, handoffBlob' # handoffBlob
               PROVE  blind' \/ hidden \/ (HasStatus("active") /\ handoffBlob'.by = handoffBlob.by)
    OBVIOUS
  <2>1. ReplacedInTime
    BY NextTracker
  <2>2. PICK p \in Proc : PutHandoff(p)
    BY DEF Next, vars, store, CreateTask, CreateShard, CreateProvenance, CreateCleanup, ClaimCheck,
           ClaimPatch, PutClaim, ApiHandoff, CheckOwner, CompleteTask, Requeue, RequestFails, Heartbeat, EndRun,
           Crash, Restart, LatePut, Expire
  <2>3. hidden' = hidden
    BY <2>2 DEF PutHandoff
  <2>4. QED
    BY <2>1, <2>3 DEF Raced, ReplacedInTime
<1>2. TrackerInv /\ [Next]_vars => [Kept]_vars
  BY <1>1
<1>3. QED
  BY <1>2, TrackerInvHolds, PTL DEF Spec, HandoffKeptUnlessRaced

-----------------------------------------------------------------------------
\* A run was started by a PUT, and a task marked claimed before there is a
\* claim on record has a PUT under way or met a fault.
StrandInv ==
  /\ faults \in Nat
  /\ \A a \in Agent : held[a] # None => claimBlob # None
  /\ (task = "claimed" /\ claimBlob = None) => faults > 0 \/ \E p \in Proc : call[p].pc = "put"

\* Every step keeps that.
LEMMA NextStrand ==
  ASSUME TrackerInv, StrandInv, [Next]_vars
  PROVE  StrandInv'
<1>1. CASE UNCHANGED vars
  BY <1>1 DEF vars, store, StrandInv
<1>2. ASSUME claimBlob' # None, faults' = faults
      PROVE  StrandInv'
  BY <1>2 DEF StrandInv
<1>3. ASSUME faults' = faults + 1, UNCHANGED claimBlob, \A a \in Agent : held'[a] \in {held[a], None}
      PROVE  StrandInv'
  BY <1>3 DEF StrandInv
<1>4. ASSUME UNCHANGED <<claimBlob, held, faults>>, NEW p \in Proc, call[p].pc # "put",
             \A q \in Proc \ {p} : call'[q] = call[q],
             task' = "claimed" => task = "claimed" \/ call'[p].pc = "put"
      PROVE  StrandInv'
  BY <1>4 DEF StrandInv
<1>5. call \in [Proc -> Calls] /\ Static
  BY DEF TrackerInv, Static, Types
<1>6. ASSUME NEW p \in Proc, CreateTask(p) \/ CreateShard(p) \/ CreateProvenance(p)
      PROVE  StrandInv'
  <2>1. /\ UNCHANGED <<claimBlob, held, faults>> /\ call[p].pc # "put"
        /\ task' = "claimed" => task = "claimed"
    BY <1>6, IdleCall DEF CreateTask, CreateShard, CreateProvenance, CanCall
  <2>2. \A q \in Proc \ {p} : call'[q] = call[q]
    BY <1>5, <1>6 DEF CreateTask, CreateShard, CreateProvenance, Goto, Done
  <2>3. QED
    BY <1>4, <2>1, <2>2
<1>7. ASSUME NEW p \in Proc, ClaimCheck(p) \/ ClaimPatch(p)
      PROVE  StrandInv'
  <2>1. /\ UNCHANGED <<claimBlob, held, faults>> /\ call[p].pc # "put"
        /\ \A q \in Proc \ {p} : call'[q] = call[q]
    BY <1>5, <1>7, IdleCall DEF ClaimCheck, ClaimPatch, CanCall, Goto, store
  <2>2. task' = task \/ call'[p].pc = "put"
    BY <1>5, <1>7 DEF ClaimCheck, ClaimPatch, Goto, store, Calls
  <2>3. QED
    BY <1>4, <2>1, <2>2
<1>8. ASSUME NEW p \in Proc, ApiHandoff(p) \/ CheckOwner(p) \/ Requeue(p) \/ PutHandoff(p) \/ CompleteTask(p)
      PROVE  StrandInv'
  <2>1. /\ UNCHANGED <<claimBlob, held, faults>> /\ call[p].pc # "put"
        /\ task' = "claimed" => task = "claimed"
    BY <1>8, IdleCall DEF ApiHandoff, CheckOwner, Requeue, PutHandoff, CompleteTask, CanCall, store
  <2>2. \A q \in Proc \ {p} : call'[q] = call[q]
    BY <1>5, <1>8 DEF ApiHandoff, CheckOwner, Requeue, PutHandoff, CompleteTask, Goto, Done
  <2>3. QED
    BY <1>4, <2>1, <2>2
<1>9. ASSUME NEW p \in Proc, PutClaim(p)
      PROVE  StrandInv'
  <2>1. LastPut(p) \in ClaimBlob
    BY <1>5, <1>9, Puts DEF PutClaim
  <2>2. QED
    BY <1>2, <1>9, <2>1, NoneAssumption DEF PutClaim
<1>10. ASSUME NEW p \in Proc, CreateCleanup(p) \/ RequestFails(p)
       PROVE  StrandInv'
  <2>1. faults' = faults + 1 /\ UNCHANGED claimBlob
    BY <1>10 DEF CreateCleanup, RequestFails, store
  <2>2. \A a \in Agent : held'[a] \in {held[a], None}
    BY <1>5, <1>10 DEF CreateCleanup, RequestFails, Static, Types
  <2>3. QED
    BY <1>3, <2>1, <2>2
<1>11. ASSUME NEW a \in Agent, Crash(a)
       PROVE  StrandInv'
  BY <1>3, <1>5, <1>11 DEF Crash, store, Static, Types
<1>12. ASSUME NEW a \in Agent, Heartbeat(a) \/ EndRun(a)
       PROVE  StrandInv'
  BY <1>2, <1>12 DEF Heartbeat, EndRun, store, StrandInv
<1>13. ASSUME NEW a \in Agent, Restart(a)
       PROVE  StrandInv'
  <2>1. Loop(a) \in Proc /\ call[Loop(a)].pc # "put"
    BY <1>13, IdleCall, Loops DEF Restart
  <2>2. \A q \in Proc \ {Loop(a)} : call'[q] = call[q]
    BY <1>5, <1>13 DEF Restart
  <2>3. QED
    BY <1>4, <1>13, <2>1, <2>2 DEF Restart, store
<1>14. ASSUME LatePut
       PROVE  StrandInv'
  <2>1. PICK x \in late : claimBlob' = x.blob /\ UNCHANGED faults
    BY <1>14 DEF LatePut
  <2>2. x.blob \in ClaimBlob
    BY <1>5 DEF Static, Types, Lates
  <2>3. QED
    BY <1>2, <2>1, <2>2, NoneAssumption
<1>15. ASSUME Expire
       PROVE  StrandInv'
  <2>1. claimBlob' \in ClaimBlob
    BY <1>5, <1>15 DEF Expire, HasStatus, Static, Types, ClaimBlob
  <2>2. QED
    BY <1>2, <1>15, <2>1, NoneAssumption DEF Expire
<1>16. QED
  BY <1>1, <1>6, <1>7, <1>8, <1>9, <1>10, <1>11, <1>12, <1>13, <1>14, <1>15 DEF Next

\* An issue is stranded in_progress with no claim only by a fault between the
\* PATCH and the PUT of a claim call.
THEOREM Stranded == Spec => []StrandedNeedsFault
<1>1. Init => StrandInv
  BY DEF Init, StrandInv
<1>2. StrandInv => StrandedNeedsFault
  BY DEF StrandInv, StrandedNeedsFault
<1>3. QED
  BY <1>1, <1>2, NextStrand, TrackerInvHolds, PTL DEF Spec
=============================================================================
