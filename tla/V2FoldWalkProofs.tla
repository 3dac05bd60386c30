------------------------- MODULE V2FoldWalkProofs -------------------------
(***************************************************************************)
(* Proofs about the walk of the fold, for every set of admitted records.   *)
(***************************************************************************)
EXTENDS V2FoldWalk, TLAPS

\* Appending keeps the old entries and adds one at the end.
LEMMA AppendFacts ==
  ASSUME NEW S, NEW s \in Seq(S), NEW x \in S
  PROVE  /\ Append(s, x) \in Seq(S)
         /\ Len(Append(s, x)) = Len(s) + 1
         /\ DOMAIN Append(s, x) = 1 .. Len(s) + 1
         /\ DOMAIN s = 1 .. Len(s)
         /\ Len(s) \in Nat
         /\ \A k \in 1 .. Len(s) : Append(s, x)[k] = s[k]
         /\ Append(s, x)[Len(s) + 1] = x
         /\ Elements(Append(s, x)) = Elements(s) \cup {x}
<1>1. /\ Append(s, x) \in Seq(S)
      /\ Len(Append(s, x)) = Len(s) + 1
      /\ DOMAIN Append(s, x) = 1 .. Len(s) + 1
      /\ DOMAIN s = 1 .. Len(s)
      /\ Len(s) \in Nat
  OBVIOUS
<1>2. /\ \A k \in 1 .. Len(s) : Append(s, x)[k] = s[k]
      /\ Append(s, x)[Len(s) + 1] = x
  OBVIOUS
<1>3. Elements(Append(s, x)) = Elements(s) \cup {x}
  BY <1>1, <1>2 DEF Elements
<1> QED
  BY <1>1, <1>2, <1>3

\* The same for the elements alone.
LEMMA AppendedElements ==
  ASSUME NEW S, NEW s \in Seq(S), NEW x \in S
  PROVE  Elements(Append(s, x)) = Elements(s) \cup {x}
  BY AppendFacts

\* The new entry and the one before it.
LEMMA AppendAfter ==
  ASSUME NEW S, NEW s \in Seq(S), NEW x \in S, NEW k, k = Len(s) + 1
  PROVE  /\ Append(s, x)[k] = x
         /\ k # 1 => s # <<>> /\ Append(s, x)[k - 1] = s[Len(s)]
         /\ k = 1 => s = <<>>
<1>1. Len(s) \in Nat
  OBVIOUS
<1>2. Append(s, x)[k] = x
  BY AppendFacts
<1>3. ASSUME k # 1 PROVE s # <<>> /\ Append(s, x)[k - 1] = s[Len(s)]
  <2>1. Len(s) \in 1 .. Len(s) /\ k - 1 = Len(s)
    BY <1>1, <1>3
  <2>2. Append(s, x)[Len(s)] = s[Len(s)]
    BY <2>1, AppendFacts
  <2>3. s # <<>>
    BY <1>1, <2>1
  <2>4. QED
    BY <2>1, <2>2, <2>3
<1>4. k = 1 => s = <<>>
  BY <1>1
<1>5. QED
  BY <1>2, <1>3, <1>4

\* The old entries keep their places, and there is one more.
LEMMA AppendEntries ==
  ASSUME NEW S, NEW s \in Seq(S), NEW x \in S, NEW k \in DOMAIN Append(s, x)
  PROVE  /\ k \in DOMAIN s \/ k = Len(s) + 1
         /\ k \in DOMAIN s => /\ s # <<>> /\ Append(s, x)[k] = s[k]
                              /\ k # 1 => Append(s, x)[k - 1] = s[k - 1]
<1>1. k \in 1 .. Len(s) + 1 /\ DOMAIN s = 1 .. Len(s) /\ Len(s) \in Nat
  BY AppendFacts
<1>2. k \in DOMAIN s \/ k = Len(s) + 1
  BY <1>1
<1>3. ASSUME k \in DOMAIN s
      PROVE  /\ s # <<>> /\ Append(s, x)[k] = s[k]
             /\ k # 1 => Append(s, x)[k - 1] = s[k - 1]
  <2>1. k \in 1 .. Len(s) /\ (k # 1 => k - 1 \in 1 .. Len(s))
    BY <1>1, <1>3
  <2>2. Append(s, x)[k] = s[k] /\ (k # 1 => Append(s, x)[k - 1] = s[k - 1])
    BY <2>1, AppendFacts
  <2>3. s # <<>>
    BY <1>1, <2>1
  <2> QED
    BY <2>2, <2>3
<1> QED
  BY <1>2, <1>3

\* Each status change keeps the shape of a folded issue.
LEMMA ApplyTransitionType ==
  ASSUME NEW st \in IssueState, NEW h \in Hash, NEW e \in Event,
         e.kind \in TransitionKinds
  PROVE  ApplyTransition(st, h, e) \in IssueState
<1>0. <<h>> \in Seq(Hash)
  OBVIOUS
<1>1. Opened(h) \in IssueState
  BY <1>0 DEF Opened, AbsentIssue, IssueState
<1>2. Append(st.applied, h) \in Seq(Hash)
  BY AppendFacts DEF IssueState
<1>3. ToOpen(st, h) \in IssueState
  BY <1>2 DEF ToOpen, IssueState
<1>4. ToClaimed(st, h, e) \in IssueState
  BY <1>2 DEF ToClaimed, IssueState, Event
<1>5. ToBlocked(st, h, e) \in IssueState
  BY <1>2 DEF ToBlocked, IssueState, Event
<1>6. ToDone(st, h, e) \in IssueState
  BY <1>2 DEF ToDone, IssueState, Event
<1> QED
  BY <1>1, <1>3, <1>4, <1>5, <1>6 DEF ApplyTransition, TransitionKinds

\* A visited record is one of the admitted records.
LEMMA VisitedIsRecord ==
  ASSUME TypeOK, NEW h \in ordered
  PROVE  h \in Hash /\ h \in DOMAIN admitted /\ admitted[h] \in Event
BY DEF TypeOK

\* Type correctness of the walk.
THEOREM TypeCorrect == Spec => []TypeOK
<1>1. Init => TypeOK
  <2> SUFFICES ASSUME Init PROVE TypeOK
    OBVIOUS
  <2>1. AbsentIssue \in IssueState
    BY DEF AbsentIssue, IssueState
  <2> QED
    BY <2>1, InputsAreRecords DEF Init, TypeOK
<1>2. TypeOK /\ [Next]_vars => TypeOK'
  <2> SUFFICES ASSUME TypeOK, [Next]_vars PROVE TypeOK'
    OBVIOUS
  <2>1. CASE UNCHANGED vars
    BY <2>1 DEF vars, TypeOK
  <2>2. CASE Next
    <3> PICK h \in ordered : Walk(h)
      BY <2>2 DEF Next
    <3>0. h \in Hash /\ admitted[h] \in Event /\ admitted' = admitted
          /\ ordered' \subseteq DOMAIN admitted
      BY VisitedIsRecord DEF Walk, TypeOK
    <3>1. CASE WalkTransition(h)
      BY <3>0, <3>1, ApplyTransitionType DEF WalkTransition, TypeOK, Event
    <3>2. CASE WalkApproval(h)
      BY <3>0, <3>2 DEF WalkApproval, TypeOK
    <3>3. CASE WalkConsume(h)
      <4>1. CASE losing_consumes' = Append(losing_consumes, h) /\ UNCHANGED effective_consumes
        BY <3>0, <3>3, <4>1 DEF WalkConsume, TypeOK
      <4>2. CASE /\ ConsumeEffective(admitted, issues[admitted[h].issue], effective_consumes, admitted[h])
                 /\ effective_consumes' =
                      [a \in DOMAIN effective_consumes \cup {admitted[h].ref} |->
                         IF a = admitted[h].ref THEN h ELSE effective_consumes[a]]
                 /\ UNCHANGED losing_consumes
        <5>1. admitted[h].ref \in Hash
          BY <4>2 DEF ConsumeEffective, Approvals, TypeOK
        <5> QED
          BY <3>0, <3>3, <4>2, <5>1 DEF WalkConsume, TypeOK
      <4> QED
        BY <3>3, <4>1, <4>2 DEF WalkConsume
    <3>4. CASE WalkHandoff(h)
      <4>1. Append(handoffs[admitted[h].issue], h) \in Seq(Hash)
        BY <3>0, AppendFacts DEF TypeOK, Event
      <4> QED
        BY <3>0, <3>4, <4>1 DEF WalkHandoff, TypeOK, Event
    <3> QED
      BY <3>1, <3>2, <3>3, <3>4 DEF Walk
  <2> QED
    BY <2>1, <2>2
<1> QED
  BY <1>1, <1>2, PTL DEF Spec

-----------------------------------------------------------------------------
(***************************************************************************)
(* The lease invariant.  LeaseLog is not inductive alone: that the next    *)
(* event may follow the last applied one is known only because the status  *)
(* the fence looks at is the one the last applied event implies.           *)
(***************************************************************************)
LeaseInv == TypeOK /\ LeaseLog /\ StatusIsLastApplied

\* An applied transition is appended to the log, and follows its last event.
LEMMA AppliedIsAppended ==
  ASSUME LeaseInv, NEW h \in ordered, admitted[h].kind \in TransitionKinds,
         TransitionApplies(issues[admitted[h].issue], admitted[h])
  PROVE  LET st == issues[admitted[h].issue]
             new == ApplyTransition(st, h, admitted[h])
         IN /\ new.applied = Append(st.applied, h)
            /\ st.applied = <<>> => admitted[h].kind = "open" /\ new.open = h
            /\ st.applied # <<>> => /\ Follows(admitted, st.applied[Len(st.applied)], h)
                                   /\ new.open = st.open
<1> DEFINE e == admitted[h]
           st == issues[e.issue]
           new == ApplyTransition(st, h, e)
<1>1. e \in Event /\ h \in Hash /\ st \in IssueState /\ StatusOf(admitted, st)
  BY VisitedIsRecord DEF LeaseInv, TypeOK, Event, StatusIsLastApplied
<1>2. CASE e.kind = "open"
  <2>1. st = AbsentIssue
    BY <1>1, <1>2, Zenon DEF TransitionApplies, StatusOf
  <2>2. new = Opened(h)
    BY <1>2 DEF ApplyTransition
  <2>3. st.applied = <<>>
    BY <2>1 DEF AbsentIssue
  <2>4. Opened(h).applied = <<h>>
    BY DEF AbsentIssue, Opened
  <2>5. Opened(h).open = h
    BY DEF AbsentIssue, Opened
  <2>6. Append(<<>>, h) = <<h>>
    BY SMTT(30)
  <2> QED
    BY <1>2, <2>2, <2>3, <2>4, <2>5, <2>6
<1>3. CASE e.kind = "claim"
  <2>1. st.status = "open"
    BY <1>3 DEF TransitionApplies, Claimable
  <2>2. new = ToClaimed(st, h, e)
    BY <1>3 DEF ApplyTransition
  <2>3. st.applied # <<>> /\ Follows(admitted, st.applied[Len(st.applied)], h)
    BY <1>1, <1>3, <2>1 DEF StatusOf, Follows
  <2> QED
    BY <1>1, <2>2, <2>3 DEF ToClaimed, IssueState
<1>4. CASE e.kind \in {"release", "block", "complete"}
  <2>1. CheckClaimFence(st, e)
    BY <1>4 DEF TransitionApplies
  <2>2. st.applied # <<>> /\ Follows(admitted, st.applied[Len(st.applied)], h)
    BY <1>1, <1>4, <2>1, Zenon DEF StatusOf, Follows, CheckClaimFence
  <2>3. new \in {ToOpen(st, h), ToBlocked(st, h, e), ToDone(st, h, e)}
    BY <1>4, SMTT(30) DEF ApplyTransition
  <2> QED
    BY <1>1, <2>2, <2>3, Zenon DEF ToOpen, ToBlocked, ToDone, IssueState
<1>5. CASE e.kind = "requeue"
  <2>1. RequeueAllowed(st, e)
    BY <1>5 DEF TransitionApplies
  <2>2. st.applied # <<>> /\ Follows(admitted, st.applied[Len(st.applied)], h)
    BY <1>1, <1>5, <2>1, Zenon DEF StatusOf, Follows, RequeueAllowed
  <2>3. new = ToOpen(st, h)
    BY <1>5 DEF ApplyTransition
  <2> QED
    BY <1>1, <2>2, <2>3 DEF ToOpen, IssueState
<1> QED
  BY <1>2, <1>3, <1>4, <1>5, Zenon DEF TransitionKinds

\* The status after an applied transition is the one that transition implies.
LEMMA AppliedSetsStatus ==
  ASSUME LeaseInv, NEW h \in ordered, admitted[h].kind \in TransitionKinds,
         TransitionApplies(issues[admitted[h].issue], admitted[h])
  PROVE  StatusOf(admitted, ApplyTransition(issues[admitted[h].issue], h, admitted[h]))
<1> DEFINE e == admitted[h]
           st == issues[e.issue]
           new == ApplyTransition(st, h, e)
<1>1. e \in Event /\ h \in Hash /\ st \in IssueState /\ st.applied \in Seq(Hash)
  BY VisitedIsRecord DEF LeaseInv, TypeOK, Event, IssueState
<1>2. /\ new.applied = Append(st.applied, h)
      /\ new.applied # <<>>
      /\ new.applied[Len(new.applied)] = h
  <2>1. new.applied = Append(st.applied, h)
    BY <1>1, AppliedIsAppended, Zenon
  <2> HIDE DEF new, st
  <2>2. QED
    BY <1>1, <2>1, AppendFacts
<1>3. CASE e.kind = "open"
  BY <1>2, <1>3 DEF ApplyTransition, Opened, AbsentIssue, StatusOf
<1>4. CASE e.kind = "claim"
  BY <1>1, <1>2, <1>4, Zenon DEF ApplyTransition, ToClaimed, IssueState, StatusOf
<1>5. CASE e.kind \in {"release", "requeue"}
  BY <1>1, <1>2, <1>5, Zenon DEF ApplyTransition, ToOpen, IssueState, StatusOf
<1>6. CASE e.kind = "block"
  BY <1>1, <1>2, <1>6, Zenon DEF ApplyTransition, ToBlocked, IssueState, StatusOf
<1>7. CASE e.kind = "complete"
  BY <1>1, <1>2, <1>7, Zenon DEF ApplyTransition, ToDone, IssueState, StatusOf
<1> QED
  BY <1>3, <1>4, <1>5, <1>6, <1>7 DEF TransitionKinds

\* The lease invariant is inductive.
LEMMA LeaseStep == LeaseInv /\ TypeOK' /\ [Next]_vars => LeaseInv'
<1> SUFFICES ASSUME LeaseInv, TypeOK', [Next]_vars
             PROVE  LeaseLog' /\ StatusIsLastApplied'
  BY DEF LeaseInv
<1>1. CASE UNCHANGED vars
  BY <1>1 DEF vars, LeaseInv, LeaseLog, StatusIsLastApplied, walked
<1>2. CASE Next
  <2> PICK h \in ordered : Walk(h)
    BY <1>2 DEF Next
  <2> DEFINE e == admitted[h]
             st == issues[e.issue]
             new == ApplyTransition(st, h, e)
  <2>0. /\ h \in Hash /\ e \in Event /\ admitted' = admitted
        /\ h \in walked' /\ walked \subseteq walked'
    BY VisitedIsRecord DEF Walk, TypeOK, LeaseInv, walked
  <2>1. CASE WalkTransition(h) /\ TransitionApplies(st, e)
    <3>1. /\ e.kind \in TransitionKinds
          /\ issues' = [issues EXCEPT ![e.issue] = new]
          /\ issues'[e.issue] = new
          /\ \A i \in Issue \ {e.issue} : issues'[i] = issues[i]
      BY <2>0, <2>1, SMTT(30) DEF WalkTransition, LeaseInv, TypeOK, Event
    <3>2. /\ new.applied = Append(st.applied, h)
          /\ st.applied = <<>> => e.kind = "open" /\ new.open = h
          /\ st.applied # <<>> => /\ Follows(admitted, st.applied[Len(st.applied)], h)
                                 /\ new.open = st.open
      BY <2>1, <3>1, AppliedIsAppended
    <3>3. st.applied \in Seq(Hash) /\ e.issue \in Issue
      BY <2>0 DEF LeaseInv, TypeOK, IssueState, Event
    <3>4. StatusIsLastApplied'
      <4>1. StatusOf(admitted, new)
        BY <2>1, <3>1, AppliedSetsStatus
      <4> QED
        BY <2>0, <3>1, <4>1 DEF StatusIsLastApplied, LeaseInv
    <3>5. LeaseLog'
      <4> SUFFICES ASSUME NEW i \in Issue, NEW k \in DOMAIN issues'[i].applied
                   PROVE  LET g == issues'[i].applied[k]
                          IN /\ g \in walked'
                             /\ admitted[g].issue = i
                             /\ IF k = 1 THEN admitted[g].kind = "open" /\ issues'[i].open = g
                                         ELSE Follows(admitted, issues'[i].applied[k - 1], g)
        BY <2>0 DEF LeaseLog
      <4>1. CASE i # e.issue
        BY <2>0, <3>1, <4>1 DEF LeaseInv, LeaseLog
      <4>2. CASE i = e.issue
        <5> DEFINE log == st.applied
        <5>0. /\ issues'[i].applied = Append(log, h)
              /\ log = <<>> => e.kind = "open" /\ issues'[i].open = h
              /\ log # <<>> => /\ Follows(admitted, log[Len(log)], h)
                               /\ issues'[i].open = st.open
          BY <3>1, <3>2, <4>2, Zenon
        <5>1. \A j \in DOMAIN log :
                /\ log[j] \in walked
                /\ admitted[log[j]].issue = i
                /\ IF j = 1 THEN admitted[log[j]].kind = "open" /\ st.open = log[j]
                            ELSE Follows(admitted, log[j - 1], log[j])
          BY <4>2, ZenonT(60) DEF LeaseInv, LeaseLog
        <5> HIDE DEF st, log, new
        <5>2. log \in Seq(Hash) /\ h \in Hash /\ k \in DOMAIN Append(log, h)
          BY <2>0, <3>3, <5>0 DEF log
        <5>3. CASE k \in DOMAIN log
          <6>1. /\ log # <<>> /\ Append(log, h)[k] = log[k]
                /\ k # 1 => Append(log, h)[k - 1] = log[k - 1]
            BY <5>2, <5>3, AppendEntries
          <6> QED
            BY <2>0, <5>0, <5>1, <5>3, <6>1
        <5>4. CASE k = Len(log) + 1
          <6>1. /\ Append(log, h)[k] = h
                /\ k # 1 => log # <<>> /\ Append(log, h)[k - 1] = log[Len(log)]
                /\ k = 1 => log = <<>>
            BY <5>2, <5>4, AppendAfter
          <6> QED
            BY <2>0, <4>2, <5>0, <6>1, Zenon
        <5> QED
          BY <5>2, <5>3, <5>4, AppendEntries
      <4> QED
        BY <4>1, <4>2
    <3> QED
      BY <3>4, <3>5
  <2>2. CASE UNCHANGED issues
    BY <2>0, <2>2 DEF LeaseInv, LeaseLog, StatusIsLastApplied
  <2> QED
    BY <2>1, <2>2 DEF Walk, WalkTransition, WalkApproval, WalkConsume, WalkHandoff
<1> QED
  BY <1>1, <1>2

\* The walk starts with no lease (fold_v2 before its ordered walk).
LEMMA LeaseInit == Init => LeaseInv
<1> SUFFICES ASSUME Init PROVE LeaseInv
  OBVIOUS
<1>1. AbsentIssue \in IssueState /\ AbsentIssue.applied = <<>>
      /\ AbsentIssue.status = "absent"
  BY DEF AbsentIssue, IssueState
<1>2. TypeOK
  BY <1>1, InputsAreRecords DEF Init, TypeOK
<1>3. LeaseLog
  BY <1>1 DEF Init, LeaseLog
<1>4. StatusIsLastApplied
  BY <1>1 DEF Init, StatusIsLastApplied, StatusOf
<1> QED
  BY <1>2, <1>3, <1>4 DEF LeaseInv

\* Type, lease log and projected status hold together throughout the walk.
LEMMA LeaseInvariant == Spec => []LeaseInv
BY LeaseInit, LeaseStep, TypeCorrect, PTL DEF Spec

\* The applied events of every issue read as one exclusive lease after another.
THEOREM LeaseLogHolds == Spec => []LeaseLog
BY LeaseInvariant, PTL DEF LeaseInv

\* The projected status is always the one the last applied event implies.
THEOREM StatusHolds == Spec => []StatusIsLastApplied
BY LeaseInvariant, PTL DEF LeaseInv

-----------------------------------------------------------------------------
(***************************************************************************)
(* Spends and handoffs stay tied to an applied claim because the applied   *)
(* log only grows and the content an issue was opened with never changes.  *)
(***************************************************************************)
LogGrows(i) ==
  /\ Elements(issues[i].applied) \subseteq Elements(issues'[i].applied)
  /\ issues[i].applied # <<>> => issues'[i].open = issues[i].open

\* A step of the walk only ever extends the applied log of an issue and never
\* changes which Open it stands on.
LEMMA WalkGrowsLog ==
  ASSUME LeaseInv, NEW h \in ordered, Walk(h), NEW i \in Issue
  PROVE  LogGrows(i)
<1> DEFINE e == admitted[h]
           st == issues[e.issue]
<1>0. h \in Hash /\ e \in Event
  BY VisitedIsRecord DEF LeaseInv
<1>1. CASE UNCHANGED issues
  BY <1>1 DEF LogGrows
<1>2. CASE WalkTransition(h) /\ TransitionApplies(st, e)
  <2>1. /\ e.kind \in TransitionKinds
        /\ issues'[e.issue] = ApplyTransition(st, h, e)
        /\ i # e.issue => issues'[i] = issues[i]
    BY <1>0, <1>2 DEF WalkTransition, LeaseInv, TypeOK, Event
  <2>2. /\ issues'[e.issue].applied = Append(st.applied, h)
        /\ st.applied # <<>> => issues'[e.issue].open = st.open
    BY <1>2, <2>1, AppliedIsAppended
  <2>3. st.applied \in Seq(Hash)
    BY <1>0 DEF LeaseInv, TypeOK, IssueState, Event
  <2>4. Elements(st.applied) \subseteq Elements(Append(st.applied, h))
    BY <1>0, <2>3, AppendFacts
  <2> QED
    BY <2>1, <2>2, <2>4 DEF LogGrows
<1> QED
  BY <1>1, <1>2 DEF Walk, WalkTransition, WalkApproval, WalkConsume, WalkHandoff

\* A record fenced by the claim in force names a claim of the applied log.
LEMMA FenceNamesApplied ==
  ASSUME LeaseInv, NEW i \in Issue, NEW e, CheckClaimFence(issues[i], e)
  PROVE  /\ e.claim \in Elements(issues[i].applied)
         /\ admitted[e.claim].kind = "claim"
         /\ admitted[e.claim].author = e.author
         /\ issues[i].applied # <<>>
<1> DEFINE log == issues[i].applied
<1>1. log \in Seq(Hash) /\ StatusOf(admitted, issues[i])
  BY DEF LeaseInv, TypeOK, IssueState, StatusIsLastApplied
<1>2. /\ log # <<>>
      /\ e.claim = log[Len(log)]
      /\ admitted[e.claim].kind = "claim"
      /\ admitted[e.claim].author = e.author
  BY <1>1 DEF StatusOf, CheckClaimFence
<1>3. Len(log) \in DOMAIN log
  BY <1>1, <1>2
<1> QED
  BY <1>2, <1>3 DEF Elements

\* No step of the walk invalidates a recorded spend (consume_effectiveness).
LEMMA SpentStep == LeaseInv /\ SpentUnderLease /\ [Next]_vars => SpentUnderLease'
<1> SUFFICES ASSUME LeaseInv, SpentUnderLease, [Next]_vars PROVE SpentUnderLease'
  OBVIOUS
<1>1. CASE UNCHANGED vars
  BY <1>1 DEF vars, SpentUnderLease, walked
<1>2. CASE Next
  <2> PICK h \in ordered : Walk(h)
    BY <1>2 DEF Next
  <2> DEFINE e == admitted[h]
  <2>0. /\ h \in Hash /\ e \in Event /\ admitted' = admitted
        /\ h \in walked' /\ walked \subseteq walked'
    BY VisitedIsRecord DEF Walk, TypeOK, LeaseInv, walked
  <2>1. \A i \in Issue : LogGrows(i)
    BY WalkGrowsLog
  <2> SUFFICES ASSUME NEW a \in DOMAIN effective_consumes'
               PROVE  LET g == effective_consumes'[a]
                          c == admitted[g]
                          st == issues'[c.issue]
                      IN /\ g \in walked' /\ c.kind = "consume" /\ c.ref = a
                         /\ a \in Approvals(admitted)
                         /\ admitted[a].tag = "approve" /\ admitted[a].author = c.approver
                         /\ admitted[a].issue = c.issue /\ admitted[a].ref = st.open
                         /\ c.claim \in Elements(st.applied)
                         /\ admitted[c.claim].kind = "claim"
                         /\ admitted[c.claim].author = c.author
    BY <2>0 DEF SpentUnderLease
  <2>2. CASE a \in DOMAIN effective_consumes /\ effective_consumes'[a] = effective_consumes[a]
    <3> DEFINE g == effective_consumes[a]
               c == admitted[g]
    <3>1. /\ g \in walked /\ c.kind = "consume" /\ c.ref = a
          /\ a \in Approvals(admitted)
          /\ admitted[a].tag = "approve" /\ admitted[a].author = c.approver
          /\ admitted[a].issue = c.issue /\ admitted[a].ref = issues[c.issue].open
          /\ c.claim \in Elements(issues[c.issue].applied)
          /\ admitted[c.claim].kind = "claim"
          /\ admitted[c.claim].author = c.author
      BY <2>2 DEF SpentUnderLease
    <3>2. c.issue \in Issue
      <4>1. g \in DOMAIN admitted
        BY <3>1 DEF walked
      <4>2. c \in Event
        BY <4>1 DEF LeaseInv, TypeOK
      <4> QED
        BY <4>2 DEF Event
    <3>3. issues[c.issue].applied # <<>>
      BY <3>1 DEF Elements
    <3> QED
      BY <2>0, <2>1, <2>2, <3>1, <3>2, <3>3 DEF LogGrows
  <2>3. CASE ~(a \in DOMAIN effective_consumes /\ effective_consumes'[a] = effective_consumes[a])
    <3>1. /\ WalkConsume(h)
          /\ ConsumeEffective(admitted, issues[e.issue], effective_consumes, e)
          /\ a = e.ref /\ effective_consumes'[a] = h
      BY <2>3 DEF Walk, WalkTransition, WalkApproval, WalkConsume, WalkHandoff
    <3>2. e.issue \in Issue /\ issues' = issues /\ e.kind = "consume"
      BY <2>0, <3>1 DEF Event, WalkConsume
    <3>3. /\ e.claim \in Elements(issues[e.issue].applied)
          /\ admitted[e.claim].kind = "claim"
          /\ admitted[e.claim].author = e.author
      BY <3>1, <3>2, FenceNamesApplied DEF ConsumeEffective
    <3> QED
      BY <2>0, <3>1, <3>2, <3>3 DEF ConsumeEffective
  <2> QED
    BY <2>2, <2>3
<1> QED
  BY <1>1, <1>2

(***************************************************************************)
(* An approval is only ever spent by the claimant of an applied claim, on  *)
(* the content it approves, whatever records the fold is given.            *)
(***************************************************************************)
THEOREM SpentHolds == Spec => []SpentUnderLease
<1>1. Init => SpentUnderLease
  BY DEF Init, SpentUnderLease
<1> QED
  BY <1>1, SpentStep, LeaseInvariant, PTL DEF Spec

\* No step of the walk detaches a recorded handoff from its claim.
LEMMA HandoffStep == LeaseInv /\ HandoffUnderLease /\ [Next]_vars => HandoffUnderLease'
<1> SUFFICES ASSUME LeaseInv, HandoffUnderLease, [Next]_vars PROVE HandoffUnderLease'
  OBVIOUS
<1>1. CASE UNCHANGED vars
  BY <1>1 DEF vars, HandoffUnderLease
<1>2. CASE Next
  <2> PICK h \in ordered : Walk(h)
    BY <1>2 DEF Next
  <2> DEFINE e == admitted[h]
  <2>0. h \in Hash /\ e \in Event /\ admitted' = admitted
    BY VisitedIsRecord DEF Walk, LeaseInv
  <2>1. \A i \in Issue : LogGrows(i)
    BY WalkGrowsLog
  <2> SUFFICES ASSUME NEW i \in Issue, NEW g \in Elements(handoffs'[i])
               PROVE  /\ admitted[g].claim \in Elements(issues'[i].applied)
                      /\ admitted[admitted[g].claim].kind = "claim"
                      /\ admitted[admitted[g].claim].author = admitted[g].author
    BY <2>0 DEF HandoffUnderLease
  <2>2. CASE g \in Elements(handoffs[i])
    BY <2>1, <2>2 DEF HandoffUnderLease, LogGrows
  <2>3. CASE g \notin Elements(handoffs[i])
    <3>1. /\ WalkHandoff(h) /\ HandoffFence(issues[e.issue], e)
          /\ handoffs' = [handoffs EXCEPT ![e.issue] = Append(@, h)]
      BY <2>3 DEF Walk, WalkTransition, WalkApproval, WalkConsume, WalkHandoff
    <3>2. i = e.issue /\ handoffs'[i] = Append(handoffs[i], h)
      BY <2>0, <2>3, <3>1 DEF LeaseInv, TypeOK
    <3>3. g = h
      BY <2>0, <2>3, <3>2, AppendFacts DEF LeaseInv, TypeOK
    <3> QED
      BY <3>1, <3>2, <3>3, FenceNamesApplied DEF HandoffFence, WalkHandoff
  <2> QED
    BY <2>2, <2>3
<1> QED
  BY <1>1, <1>2

\* A recorded handoff always belongs to an applied claim of its author.
THEOREM HandoffHolds == Spec => []HandoffUnderLease
<1>1. Init => HandoffUnderLease
  BY DEF Init, HandoffUnderLease, Elements
<1> QED
  BY <1>1, HandoffStep, LeaseInvariant, PTL DEF Spec

-----------------------------------------------------------------------------
(***************************************************************************)
(* Nothing refused without cause, and one outcome for every record.  Both  *)
(* need to know that the walk goes in fold order: a record it has passed   *)
(* comes before every record still to come, so what was applied before a   *)
(* record when the walk met it is what precedes that record for good.      *)
(***************************************************************************)
InOrder == \A g \in walked, h \in ordered : Before(admitted, g, h)

\* A record is reported on only after the walk has passed it.
ReportsPassed ==
  /\ rejections \subseteq walked
  /\ Elements(losing_consumes) \subseteq walked
  /\ \A i \in Issue : Elements(handoffs[i]) \subseteq walked

\* Of two records at most one comes first in the fold order (lamport, author,
\* event hash).
LEMMA BeforeAsymmetric ==
  ASSUME TypeOK, NEW g \in DOMAIN admitted, NEW h \in DOMAIN admitted,
         Before(admitted, g, h)
  PROVE  ~Before(admitted, h, g)
<1>1. ASSUME NEW x \in DOMAIN admitted
      PROVE  x \in Nat /\ admitted[x].lamport \in Nat /\ admitted[x].author \in Nat
  <2>1. x \in Hash /\ admitted[x] \in Event
    BY DEF TypeOK
  <2>2. admitted[x].lamport \in Nat /\ admitted[x].author \in Agent
    BY <2>1 DEF Event
  <2> QED
    BY <2>1, <2>2, NamesAreOrdered
<1> QED
  BY <1>1 DEF Before

\* What one visit does to the two halves of the record set.
LEMMA VisitPasses ==
  ASSUME TypeOK, NEW h \in ordered, Walk(h)
  PROVE  /\ h \notin walked
         /\ walked' = walked \cup {h}
         /\ ordered' = ordered \ {h}
         /\ admitted' = admitted
         /\ walked \subseteq DOMAIN admitted
BY DEF Walk, TypeOK, walked

\* The walk keeps to the fold order (the sort of fold_v2 before the walk).
LEMMA InOrderStep == TypeOK /\ InOrder /\ [Next]_vars => InOrder'
<1> SUFFICES ASSUME TypeOK, InOrder, [Next]_vars PROVE InOrder'
  OBVIOUS
<1>1. CASE UNCHANGED vars
  BY <1>1 DEF vars, InOrder, walked
<1>2. CASE Next
  <2> PICK h \in ordered : Walk(h)
    BY <1>2 DEF Next
  <2>1. \A g \in ordered \ {h} : Before(admitted, h, g)
    BY DEF Walk
  <2> QED
    BY <2>1, VisitPasses DEF InOrder
<1> QED
  BY <1>1, <1>2

\* A transition that may follow the last applied event is never refused: the
\* converse of AppliedIsAppended.
LEMMA FollowsApplies ==
  ASSUME LeaseInv, NEW h \in ordered, admitted[h].kind \in TransitionKinds,
         LET log == issues[admitted[h].issue].applied
         IN /\ admitted[h].kind # "open"
            /\ log # <<>>
            /\ Follows(admitted, log[Len(log)], h)
  PROVE  TransitionApplies(issues[admitted[h].issue], admitted[h])
<1> DEFINE e == admitted[h]
           st == issues[e.issue]
           p == st.applied[Len(st.applied)]
<1>1. st \in IssueState /\ StatusOf(admitted, st) /\ st.applied # <<>>
  BY VisitedIsRecord DEF LeaseInv, TypeOK, Event, StatusIsLastApplied
<1>2. st.status # "absent"
  <2>1. st.status = "absent" => st = AbsentIssue
    BY <1>1, Zenon DEF StatusOf
  <2>2. AbsentIssue.applied = <<>>
    BY DEF AbsentIssue
  <2> QED
    BY <1>1, <2>1, <2>2
<1>3. st.status \in {"open", "claimed", "blocked", "done"}
  BY <1>1, <1>2 DEF IssueState
<1>4. /\ st.status = "open" => admitted[p].kind \in {"open", "release", "requeue"}
      /\ st.status = "claimed" =>
           /\ admitted[p].kind = "claim" /\ st.by = admitted[p].author
           /\ st.nonce = admitted[p].nonce /\ st.claim = p
      /\ st.status = "blocked" =>
           /\ admitted[p].kind = "block" /\ st.nonce = admitted[p].nonce
           /\ st.event = p /\ st.reason = admitted[p].tag
      /\ st.status = "done" => admitted[p].kind = "complete"
  <2>1. CASE st.status = "open"
    BY <1>1, <2>1, Zenon DEF StatusOf
  <2>2. CASE st.status = "claimed"
    BY <1>1, <2>2, Zenon DEF StatusOf
  <2>3. CASE st.status = "blocked"
    BY <1>1, <2>3, Zenon DEF StatusOf
  <2>4. CASE st.status = "done"
    BY <1>1, <2>4, Zenon DEF StatusOf
  <2> QED
    BY <2>1, <2>2, <2>3, <2>4
<1>5. Follows(admitted, p, h) /\ e.kind # "open"
  OBVIOUS
<1> HIDE DEF e, st, p
<1>6. TransitionApplies(st, e)
  <2>1. CASE e.kind = "claim"
    BY <1>3, <1>4, <1>5, <2>1 DEF Follows, TransitionApplies, Claimable, e
  <2>2. CASE e.kind \in {"release", "block", "complete"}
    <3>1. /\ admitted[p].kind = "claim"
          /\ e.claim = p /\ e.nonce = admitted[p].nonce /\ e.author = admitted[p].author
      BY <1>5, <2>2 DEF Follows, e
    <3>2. st.status = "claimed"
      BY <1>3, <1>4, <3>1
    <3> QED
      BY <1>4, <2>2, <3>1, <3>2 DEF TransitionApplies, CheckClaimFence
  <2>3. CASE e.kind = "requeue"
    BY <1>3, <1>4, <1>5, <2>3, ZenonT(60) DEF Follows, TransitionApplies, RequeueAllowed, e
  <2> QED
    BY <1>5, <2>1, <2>2, <2>3 DEF TransitionKinds, e
<1> QED
  BY <1>6 DEF e, st

\* What a visit does to the applied log of the record's issue, and to others'.
LEMMA VisitLog ==
  ASSUME LeaseInv, NEW h \in ordered, Walk(h)
  PROVE  LET e == admitted[h]
             applies == e.kind \in TransitionKinds /\ TransitionApplies(issues[e.issue], e)
         IN /\ \A i \in Issue \ {e.issue} : issues'[i] = issues[i]
            /\ ~applies => issues' = issues
            /\ applies => issues'[e.issue].applied = Append(issues[e.issue].applied, h)
            /\ e.kind \in TransitionKinds =>
                 /\ rejections' = IF applies THEN rejections ELSE rejections \cup {h}
                 /\ UNCHANGED <<effective_consumes, losing_consumes, handoffs>>
<1> DEFINE e == admitted[h]
           st == issues[e.issue]
           applies == e.kind \in TransitionKinds /\ TransitionApplies(st, e)
<1>0. h \in Hash /\ e \in Event /\ e.issue \in Issue
  BY VisitedIsRecord DEF LeaseInv, Event
<1>1. CASE e.kind \in TransitionKinds
  <2>1. WalkTransition(h)
    BY <1>1 DEF Walk, WalkTransition, WalkApproval, WalkConsume, WalkHandoff, TransitionKinds
  <2>2. CASE TransitionApplies(st, e)
    <3>1. /\ issues' = [issues EXCEPT ![e.issue] = ApplyTransition(st, h, e)]
          /\ rejections' = rejections
          /\ UNCHANGED <<effective_consumes, losing_consumes, handoffs>>
      BY <2>1, <2>2 DEF WalkTransition
    <3>2. issues \in [Issue -> IssueState]
      BY DEF LeaseInv, TypeOK
    <3>3. /\ issues'[e.issue] = ApplyTransition(st, h, e)
          /\ \A i \in Issue \ {e.issue} : issues'[i] = issues[i]
      BY <1>0, <3>1, <3>2
    <3>4. ApplyTransition(st, h, e).applied = Append(st.applied, h)
      BY <1>1, <2>2, AppliedIsAppended
    <3> QED
      BY <1>1, <2>2, <3>1, <3>3, <3>4
  <2>3. CASE ~TransitionApplies(st, e)
    BY <1>1, <2>1, <2>3 DEF WalkTransition
  <2> QED
    BY <2>2, <2>3
<1>2. CASE e.kind \notin TransitionKinds
  <2>1. issues' = issues
    BY <1>2 DEF Walk, WalkTransition, WalkApproval, WalkConsume, WalkHandoff
  <2> QED
    BY <1>2, <2>1
<1> QED
  BY <1>1, <1>2

\* The applied events of a record's issue that precede it do not change once
\* the walk has passed the record.
LEMMA LogBeforeFixed ==
  ASSUME LeaseInv, InOrder, NEW h \in ordered, Walk(h), NEW g \in walked, NEW i \in Issue
  PROVE  /\ LogBefore(i, g)' = LogBefore(i, g)
         /\ \A k \in LogBefore(i, g) : issues'[i].applied[k] = issues[i].applied[k]
         /\ Elements(issues[i].applied) \subseteq Elements(issues'[i].applied)
         /\ g \in Elements(issues'[i].applied) => g \in Elements(issues[i].applied)
<1> DEFINE log == issues[i].applied
<1>1. /\ log \in Seq(Hash) /\ h \in Hash /\ admitted' = admitted
      /\ g # h /\ g \in DOMAIN admitted /\ h \in DOMAIN admitted
  BY VisitedIsRecord, VisitPasses DEF LeaseInv, TypeOK, IssueState
<1>2. ~Before(admitted, h, g)
  BY <1>1, BeforeAsymmetric DEF InOrder, LeaseInv
<1>3. issues'[i].applied = log \/ issues'[i].applied = Append(log, h)
  BY VisitLog
<1>4. CASE issues'[i].applied = log
  BY <1>1, <1>4 DEF LogBefore
<1>5. CASE issues'[i].applied = Append(log, h)
  <2> HIDE DEF log
  <2>1. /\ DOMAIN Append(log, h) = 1 .. Len(log) + 1 /\ DOMAIN log = 1 .. Len(log)
        /\ Len(log) \in Nat
        /\ \A k \in 1 .. Len(log) : Append(log, h)[k] = log[k]
        /\ Append(log, h)[Len(log) + 1] = h
        /\ Elements(Append(log, h)) = Elements(log) \cup {h}
    BY <1>1, AppendFacts
  <2>2. {k \in DOMAIN Append(log, h) : Before(admitted, Append(log, h)[k], g)}
          = {k \in DOMAIN log : Before(admitted, log[k], g)}
    <3>1. ASSUME NEW k \in DOMAIN Append(log, h), Before(admitted, Append(log, h)[k], g)
          PROVE  k \in DOMAIN log
      <4>1. k # Len(log) + 1
        BY <1>2, <2>1, <3>1
      <4> QED
        BY <2>1, <4>1
    <3>2. \A k \in DOMAIN log : k \in DOMAIN Append(log, h) /\ Append(log, h)[k] = log[k]
      BY <2>1
    <3> QED
      BY <3>1, <3>2
  <2>3. /\ LogBefore(i, g)' = {k \in DOMAIN Append(log, h) : Before(admitted, Append(log, h)[k], g)}
        /\ LogBefore(i, g) = {k \in DOMAIN log : Before(admitted, log[k], g)}
    BY <1>1, <1>5 DEF LogBefore, log
  <2>4. LogBefore(i, g)' = LogBefore(i, g)
    BY <2>2, <2>3
  <2>5. \A k \in LogBefore(i, g) : Append(log, h)[k] = log[k]
    BY <2>1, <2>3
  <2>6. g \in Elements(Append(log, h)) => g \in Elements(log)
    BY <1>1, <2>1
  <2>7. Elements(log) \subseteq Elements(Append(log, h))
    BY <2>1
  <2> QED
    BY <1>5, <2>4, <2>5, <2>6, <2>7, Zenon DEF log
<1> QED
  BY <1>3, <1>4, <1>5

\* Every applied event of an issue precedes a record the walk has still to meet.
LEMMA WholeLogBefore ==
  ASSUME LeaseInv, InOrder, NEW h \in ordered, NEW i \in Issue
  PROVE  LogBefore(i, h) = DOMAIN issues[i].applied
BY DEF LogBefore, InOrder, LeaseInv, LeaseLog

\* No step of the walk refuses a record without cause, or takes the cause away.
LEMMA RejectedStep ==
  LeaseInv /\ InOrder /\ RejectedForCause /\ [Next]_vars => RejectedForCause'
<1> SUFFICES ASSUME LeaseInv, InOrder, RejectedForCause, [Next]_vars PROVE RejectedForCause'
  OBVIOUS
<1>1. CASE UNCHANGED vars
  BY <1>1 DEF vars, RejectedForCause, LogBefore, walked
<1>2. CASE Next
  <2> PICK h \in ordered : Walk(h)
    BY <1>2 DEF Next
  <2>0. /\ h \in Hash /\ admitted[h] \in Event /\ admitted' = admitted
        /\ walked' = walked \cup {h} /\ walked \subseteq DOMAIN admitted
    BY VisitedIsRecord, VisitPasses DEF LeaseInv
  <2> SUFFICES ASSUME NEW g \in walked',
                      admitted[g].kind \in TransitionKinds,
                      g \notin Elements(issues'[admitted[g].issue].applied)
               PROVE  LET e == admitted[g]
                          before == LogBefore(e.issue, g)'
                      IN IF e.kind = "open" THEN before # {}
                         ELSE \A k \in before :
                                (\A j \in before : j <= k) =>
                                  ~Follows(admitted, issues'[e.issue].applied[k], g)
    BY <2>0 DEF RejectedForCause
  <2>a. admitted[g].issue \in Issue
    BY <2>0 DEF LeaseInv, TypeOK, Event
  <2> PICK i \in Issue : i = admitted[g].issue
    BY <2>a
  <2> DEFINE e == admitted[g]
             log == issues[i].applied
  <2>1. e \in Event /\ log \in Seq(Hash)
    BY <2>0 DEF LeaseInv, TypeOK, Event, IssueState
  <2>b. LogBefore(admitted[g].issue, g)' = LogBefore(i, g)'
    BY <2>0
  <2>2. CASE g \in walked
    <3>1. /\ LogBefore(i, g)' = LogBefore(i, g)
          /\ \A k \in LogBefore(i, g) : issues'[i].applied[k] = log[k]
          /\ g \notin Elements(log)
      BY <2>1, <2>2, LogBeforeFixed
    <3>2. IF e.kind = "open" THEN LogBefore(i, g) # {}
          ELSE \A k \in LogBefore(i, g) :
                 (\A j \in LogBefore(i, g) : j <= k) => ~Follows(admitted, log[k], g)
      BY <2>2, <3>1, Zenon DEF RejectedForCause
    <3> QED
      BY <2>b, <3>1, <3>2, Zenon
  <2>3. CASE g = h
    <3>1. ~TransitionApplies(issues[i], e)
      <4>1. TransitionApplies(issues[i], e) => issues'[i].applied = Append(log, h)
        BY <2>3, VisitLog
      <4>2. h \in Elements(Append(log, h))
        BY <2>0, <2>1, AppendFacts
      <4> QED
        BY <2>3, <4>1, <4>2
    <3>2. issues' = issues
      BY <2>3, <3>1, VisitLog
    <3>3. LogBefore(i, g)' = DOMAIN log
      <4>1. LogBefore(i, g)' = LogBefore(i, g)
        BY <2>0, <3>2 DEF LogBefore
      <4> QED
        BY <2>1, <2>3, <4>1, WholeLogBefore
    <3>4. CASE e.kind = "open"
      <4>1. issues[i].status # "absent"
        BY <3>1, <3>4 DEF TransitionApplies
      <4>2. log # <<>>
        BY <2>1, <4>1, Zenon DEF LeaseInv, StatusIsLastApplied, StatusOf, TypeOK, IssueState
      <4>3. 1 \in DOMAIN log
        BY <2>1, <4>2
      <4> QED
        BY <2>b, <3>3, <3>4, <4>3
    <3>5. CASE e.kind # "open"
      <4> SUFFICES ASSUME NEW k \in DOMAIN log, \A j \in DOMAIN log : j <= k
                   PROVE  ~Follows(admitted, log[k], g)
        BY <2>b, <3>2, <3>3, <3>5, Zenon
      <4>1. k = Len(log) /\ log # <<>>
        <5>1. DOMAIN log = 1 .. Len(log) /\ Len(log) \in Nat /\ Len(log) \in DOMAIN log
          BY <2>1
        <5> QED
          BY <5>1
      <4> QED
        BY <2>3, <3>1, <3>5, <4>1, FollowsApplies
    <3> QED
      BY <3>4, <3>5
  <2> QED
    BY <2>0, <2>2, <2>3
<1> QED
  BY <1>1, <1>2

\* Nothing has been passed before the walk.
LEMMA NothingPassed == Init => walked = {}
BY DEF Init, walked

\* The walk keeps to the fold order throughout.
LEMMA InOrderHolds == Spec => []InOrder
<1>1. Init => InOrder
  BY NothingPassed DEF InOrder
<1> QED
  BY <1>1, InOrderStep, TypeCorrect, PTL DEF Spec

(***************************************************************************)
(* Nothing is refused without cause: a transition that the walk did not    *)
(* apply could not have followed the events applied before it.  With       *)
(* LeaseLogHolds this fixes every winner, whatever records the fold is     *)
(* given.                                                                  *)
(***************************************************************************)
THEOREM RejectedHolds == Spec => []RejectedForCause
<1>1. Init => RejectedForCause
  BY NothingPassed DEF RejectedForCause
<1> QED
  BY <1>1, RejectedStep, LeaseInvariant, InOrderHolds, PTL DEF Spec

\* Which of the walk's reports a record appears in.
Applied(h) == h \in Elements(issues[admitted[h].issue].applied)
Handed(h) == h \in Elements(handoffs[admitted[h].issue])
Spends(h) == /\ admitted[h].ref \in DOMAIN effective_consumes
             /\ effective_consumes[admitted[h].ref] = h
Loses(h) == h \in Elements(losing_consumes)
Rejected(h) == h \in rejections

\* A visit to one record changes no report about another that was passed
\* before.
LEMMA ReportsKept ==
  ASSUME LeaseInv, InOrder, SpentUnderLease, NEW h \in ordered, Walk(h), NEW g \in walked
  PROVE  /\ Applied(g)' <=> Applied(g)
         /\ Handed(g)' <=> Handed(g)
         /\ Spends(g)' <=> Spends(g)
         /\ Loses(g)' <=> Loses(g)
         /\ Rejected(g)' <=> Rejected(g)
<1>0. /\ h \in Hash /\ admitted[h] \in Event /\ admitted[h].issue \in Issue
      /\ admitted' = admitted /\ g # h /\ admitted[g].issue \in Issue
  BY VisitedIsRecord, VisitPasses DEF LeaseInv, TypeOK, Event
<1> PICK i \in Issue : i = admitted[g].issue
  BY <1>0
<1>1. Applied(g)' <=> Applied(g)
  <2>1. /\ Elements(issues[i].applied) \subseteq Elements(issues'[i].applied)
        /\ g \in Elements(issues'[i].applied) => g \in Elements(issues[i].applied)
    BY LogBeforeFixed
  <2> QED
    BY <1>0, <2>1 DEF Applied
<1>2. Rejected(g)' <=> Rejected(g)
  BY <1>0 DEF Rejected, Walk, WalkTransition, WalkApproval, WalkConsume, WalkHandoff
<1>3. Loses(g)' <=> Loses(g)
  <2>1. losing_consumes' = losing_consumes \/ losing_consumes' = Append(losing_consumes, h)
    BY DEF Walk, WalkTransition, WalkApproval, WalkConsume, WalkHandoff
  <2>2. losing_consumes \in Seq(Hash)
    BY DEF LeaseInv, TypeOK
  <2>3. Elements(Append(losing_consumes, h)) = Elements(losing_consumes) \cup {h}
    BY <1>0, <2>2, AppendFacts
  <2> QED
    BY <1>0, <2>1, <2>3 DEF Loses
<1>4. Handed(g)' <=> Handed(g)
  <2>1. \/ handoffs' = handoffs
        \/ handoffs' = [handoffs EXCEPT ![admitted[h].issue] = Append(@, h)]
    BY DEF Walk, WalkTransition, WalkApproval, WalkConsume, WalkHandoff
  <2>2. handoffs \in [Issue -> Seq(Hash)] /\ handoffs[i] \in Seq(Hash)
    BY DEF LeaseInv, TypeOK
  <2>3. handoffs'[i] = handoffs[i] \/ handoffs'[i] = Append(handoffs[i], h)
    BY <1>0, <2>1, <2>2
  <2>4. Elements(Append(handoffs[i], h)) = Elements(handoffs[i]) \cup {h}
    BY <1>0, <2>2, AppendFacts
  <2> QED
    BY <1>0, <2>3, <2>4 DEF Handed
<1>5. Spends(g)' <=> Spends(g)
  <2> DEFINE r == admitted[g].ref
  <2>1. CASE UNCHANGED effective_consumes
    BY <1>0, <2>1 DEF Spends
  <2>2. CASE ~UNCHANGED effective_consumes
    <3>1. WalkConsume(h)
      BY <2>2 DEF Walk, WalkTransition, WalkApproval, WalkHandoff
    <3>2. /\ admitted[h].ref \notin DOMAIN effective_consumes
          /\ effective_consumes' =
               [a \in DOMAIN effective_consumes \cup {admitted[h].ref} |->
                  IF a = admitted[h].ref THEN h ELSE effective_consumes[a]]
      BY <2>2, <3>1 DEF WalkConsume, ConsumeEffective
    <3> QED
      BY <1>0, <3>2 DEF Spends
  <2> QED
    BY <2>1, <2>2
<1> QED
  BY <1>1, <1>2, <1>3, <1>4, <1>5

\* The report a visit makes about the record it visits, which nothing had
\* mentioned before.
LEMMA ReportMade ==
  ASSUME LeaseInv, SpentUnderLease, ReportsPassed, NEW h \in ordered, Walk(h)
  PROVE  /\ admitted[h].kind \in TransitionKinds => (Applied(h)' <=> ~Rejected(h)')
         /\ admitted[h].kind = "handoff" => (Handed(h)' <=> ~Rejected(h)')
         /\ admitted[h].kind = "consume" => (Spends(h)' <=> ~Loses(h)')
         /\ admitted[h].kind = "approval" => ~Rejected(h)'
<1> DEFINE e == admitted[h]
<1>0. /\ h \in Hash /\ e \in Event /\ e.issue \in Issue /\ admitted' = admitted
      /\ h \notin walked
  BY VisitedIsRecord, VisitPasses DEF LeaseInv, Event
<1> PICK i \in Issue : i = admitted[h].issue
  BY <1>0
<1>1. /\ h \notin Elements(issues[i].applied) /\ h \notin rejections
      /\ h \notin Elements(handoffs[i]) /\ h \notin Elements(losing_consumes)
      /\ \A a \in DOMAIN effective_consumes : effective_consumes[a] # h
  <2>1. h \notin Elements(issues[i].applied)
    BY <1>0 DEF LeaseInv, LeaseLog, Elements
  <2>2. /\ h \notin rejections
        /\ h \notin Elements(handoffs[i]) /\ h \notin Elements(losing_consumes)
    BY <1>0 DEF ReportsPassed
  <2>3. \A a \in DOMAIN effective_consumes : effective_consumes[a] # h
    BY <1>0 DEF SpentUnderLease
  <2> QED
    BY <2>1, <2>2, <2>3
<1>2. CASE e.kind \in TransitionKinds
  <2>1. CASE TransitionApplies(issues[i], e)
    <3>1. issues'[i].applied = Append(issues[i].applied, h) /\ rejections' = rejections
      BY <1>2, <2>1, VisitLog
    <3>2. h \in Elements(Append(issues[i].applied, h))
      BY <1>0, AppendFacts DEF LeaseInv, TypeOK, IssueState
    <3> QED
      BY <1>0, <1>1, <1>2, <3>1, <3>2 DEF Applied, Rejected, TransitionKinds
  <2>2. CASE ~TransitionApplies(issues[i], e)
    <3>1. issues' = issues /\ rejections' = rejections \cup {h}
      BY <1>2, <2>2, VisitLog
    <3> QED
      BY <1>0, <1>1, <1>2, <3>1 DEF Applied, Rejected, TransitionKinds
  <2> QED
    BY <2>1, <2>2
<1>3. CASE e.kind = "handoff"
  <2>0. WalkHandoff(h)
    BY <1>3 DEF Walk, WalkTransition, WalkApproval, WalkConsume, TransitionKinds
  <2>1. CASE HandoffFence(issues[i], e)
    <3>1. handoffs' = [handoffs EXCEPT ![i] = Append(@, h)] /\ rejections' = rejections
      BY <2>0, <2>1 DEF WalkHandoff
    <3>2. handoffs \in [Issue -> Seq(Hash)] /\ handoffs[i] \in Seq(Hash)
      BY DEF LeaseInv, TypeOK
    <3>3. handoffs'[i] = Append(handoffs[i], h)
      BY <3>1, <3>2
    <3>4. h \in Elements(Append(handoffs[i], h))
      BY <1>0, <3>2, AppendFacts
    <3> QED
      BY <1>0, <1>1, <1>3, <3>1, <3>3, <3>4 DEF Handed, Rejected, TransitionKinds
  <2>2. CASE ~HandoffFence(issues[i], e)
    <3>1. handoffs' = handoffs /\ rejections' = rejections \cup {h}
      BY <2>0, <2>2 DEF WalkHandoff
    <3> QED
      BY <1>0, <1>1, <1>3, <3>1 DEF Handed, Rejected, TransitionKinds
  <2> QED
    BY <2>1, <2>2
<1>4. CASE e.kind = "consume"
  <2> DEFINE wins == ConsumeEffective(admitted, issues[e.issue], effective_consumes, e)
  <2>0. WalkConsume(h)
    BY <1>4 DEF Walk, WalkTransition, WalkApproval, WalkHandoff, TransitionKinds
  <2>1. CASE wins
    <3>1. /\ losing_consumes' = losing_consumes
          /\ effective_consumes' = [a \in DOMAIN effective_consumes \cup {e.ref} |->
                                      IF a = e.ref THEN h ELSE effective_consumes[a]]
      BY <2>0, <2>1 DEF WalkConsume
    <3> QED
      BY <1>0, <1>1, <1>4, <3>1 DEF Spends, Loses, TransitionKinds
  <2>2. CASE ~wins
    <3>1. /\ losing_consumes' = Append(losing_consumes, h)
          /\ effective_consumes' = effective_consumes
      BY <2>0, <2>2 DEF WalkConsume
    <3>2. h \in Elements(Append(losing_consumes, h))
      BY <1>0, AppendFacts DEF LeaseInv, TypeOK
    <3> QED
      BY <1>0, <1>1, <1>4, <3>1, <3>2 DEF Spends, Loses, TransitionKinds
  <2> QED
    BY <2>1, <2>2
<1>5. CASE e.kind = "approval"
  <2>1. rejections' = rejections
    BY <1>5 DEF Walk, WalkTransition, WalkApproval, WalkConsume, WalkHandoff, TransitionKinds
  <2> QED
    BY <1>1, <1>5, <2>1 DEF Rejected, TransitionKinds
<1> QED
  BY <1>0, <1>2, <1>3, <1>4, <1>5 DEF Event, RecordKinds

\* Only the visited record is added to a report.
LEMMA ReportsPassedStep == LeaseInv /\ ReportsPassed /\ [Next]_vars => ReportsPassed'
<1> SUFFICES ASSUME LeaseInv, ReportsPassed, [Next]_vars PROVE ReportsPassed'
  OBVIOUS
<1>1. CASE UNCHANGED vars
  BY <1>1 DEF vars, ReportsPassed, walked
<1>2. CASE Next
  <2> PICK h \in ordered : Walk(h)
    BY <1>2 DEF Next
  <2>0. /\ h \in Hash /\ admitted[h] \in Event /\ walked' = walked \cup {h}
        /\ losing_consumes \in Seq(Hash) /\ handoffs \in [Issue -> Seq(Hash)]
    BY VisitedIsRecord, VisitPasses DEF LeaseInv, TypeOK
  <2>1. rejections' \subseteq walked'
    BY <2>0 DEF ReportsPassed, Walk, WalkTransition, WalkApproval, WalkConsume, WalkHandoff
  <2>2. Elements(losing_consumes') \subseteq walked'
    <3>1. losing_consumes' = losing_consumes \/ losing_consumes' = Append(losing_consumes, h)
      BY DEF Walk, WalkTransition, WalkApproval, WalkConsume, WalkHandoff
    <3>2. Elements(Append(losing_consumes, h)) = Elements(losing_consumes) \cup {h}
      BY <2>0, AppendFacts
    <3> QED
      BY <2>0, <3>1, <3>2 DEF ReportsPassed
  <2>3. ASSUME NEW i \in Issue PROVE Elements(handoffs'[i]) \subseteq walked'
    <3>1. \/ handoffs' = handoffs
          \/ handoffs' = [handoffs EXCEPT ![admitted[h].issue] = Append(@, h)]
      BY DEF Walk, WalkTransition, WalkApproval, WalkConsume, WalkHandoff
    <3>2. handoffs'[i] = handoffs[i] \/ handoffs'[i] = Append(handoffs[i], h)
      BY <2>0, <3>1
    <3>3. Elements(Append(handoffs[i], h)) = Elements(handoffs[i]) \cup {h}
      <4>1. handoffs[i] \in Seq(Hash) /\ h \in Hash
        BY <2>0
      <4> QED
        BY <4>1, AppendedElements
    <3> QED
      BY <2>0, <3>2, <3>3 DEF ReportsPassed
  <2> QED
    BY <2>1, <2>2, <2>3 DEF ReportsPassed
<1> QED
  BY <1>1, <1>2

\* ExactlyOneOutcome, in terms of the reports.
OneReport(h) ==
  /\ admitted[h].kind \in TransitionKinds => (Applied(h) <=> ~Rejected(h))
  /\ admitted[h].kind = "handoff" => (Handed(h) <=> ~Rejected(h))
  /\ admitted[h].kind = "consume" => (Spends(h) <=> ~Loses(h))
  /\ admitted[h].kind = "approval" => ~Rejected(h)

\* Every record the walk has passed has exactly one report.
OneReportEach == \A h \in walked : OneReport(h)

\* A visit leaves every passed record with exactly one report.
LEMMA OneReportStep ==
  LeaseInv /\ InOrder /\ SpentUnderLease /\ ReportsPassed /\ OneReportEach /\ [Next]_vars
    => OneReportEach'
<1> SUFFICES ASSUME LeaseInv, InOrder, SpentUnderLease, ReportsPassed, OneReportEach, [Next]_vars
             PROVE  OneReportEach'
  OBVIOUS
<1>1. CASE UNCHANGED vars
  BY <1>1 DEF vars, OneReportEach, OneReport, Applied, Handed, Spends, Loses, Rejected, walked
<1>2. CASE Next
  <2> PICK h \in ordered : Walk(h)
    BY <1>2 DEF Next
  <2>0. admitted' = admitted /\ walked' = walked \cup {h}
    BY VisitPasses DEF LeaseInv
  <2>1. ASSUME NEW g \in walked PROVE OneReport(g)'
    BY <2>0, <2>1, ReportsKept DEF OneReportEach, OneReport
  <2>2. OneReport(h)'
    BY <2>0, ReportMade DEF OneReport
  <2> QED
    BY <2>0, <2>1, <2>2 DEF OneReportEach
<1> QED
  BY <1>1, <1>2

\* One report each is exactly one outcome.
LEMMA OneReportIsOneOutcome == TypeOK /\ OneReportEach => ExactlyOneOutcome
<1> SUFFICES ASSUME TypeOK, OneReportEach, NEW h \in walked
             PROVE  CASE admitted[h].kind \in TransitionKinds -> Applied(h) # Rejected(h)
                      [] admitted[h].kind = "handoff" -> Handed(h) # Rejected(h)
                      [] admitted[h].kind = "consume" -> Spends(h) # Loses(h)
                      [] OTHER -> ~Rejected(h)
  BY Zenon DEF ExactlyOneOutcome, Applied, Rejected, Handed, Spends, Loses
<1>1. admitted[h].kind \in RecordKinds
  BY DEF walked, TypeOK, Event
<1>2. OneReport(h)
  BY DEF OneReportEach
<1>3. CASE admitted[h].kind \in TransitionKinds
  BY <1>2, <1>3 DEF OneReport, TransitionKinds
<1>4. CASE admitted[h].kind = "handoff"
  BY <1>2, <1>4 DEF OneReport, TransitionKinds
<1>5. CASE admitted[h].kind = "consume"
  BY <1>2, <1>5 DEF OneReport, TransitionKinds
<1>6. CASE admitted[h].kind = "approval"
  BY <1>2, <1>6 DEF OneReport, TransitionKinds
<1> QED
  BY <1>1, <1>3, <1>4, <1>5, <1>6 DEF RecordKinds

(***************************************************************************)
(* No record the walk passes is dropped silently or counted twice: a       *)
(* transition is applied or rejected, a handoff recorded or rejected, a    *)
(* consume spends or is reported as losing, and never both.                *)
(***************************************************************************)
THEOREM OneOutcomeHolds == Spec => []ExactlyOneOutcome
<1>1. Init => ReportsPassed /\ OneReportEach
  BY NothingPassed DEF Init, ReportsPassed, OneReportEach, Elements
<1>2. Spec => []ReportsPassed
  BY <1>1, ReportsPassedStep, LeaseInvariant, PTL DEF Spec
<1>3. Spec => []OneReportEach
  BY <1>1, <1>2, OneReportStep, LeaseInvariant, InOrderHolds, SpentHolds, PTL DEF Spec
<1> QED
  BY <1>3, TypeCorrect, OneReportIsOneOutcome, PTL

-----------------------------------------------------------------------------
(***************************************************************************)
(* The walk implements the abstract ledger.  An applied transition is the  *)
(* ledger's Create, Grant, End or Unpark, an effective consume its Spend,  *)
(* and every other visit changes nothing the ledger sees.                  *)
(***************************************************************************)

\* The lease an applied transition leaves, and the one it found.
LEMMA AppliedLease ==
  ASSUME LeaseInv, NEW h \in ordered, admitted[h].kind \in TransitionKinds,
         TransitionApplies(issues[admitted[h].issue], admitted[h])
  PROVE  LET e == admitted[h]
             old == LeaseOf(issues[e.issue])
             new == LeaseOf(ApplyTransition(issues[e.issue], h, e))
         IN \/ /\ old.status = "absent" /\ new = Ledger!Idle("free") /\ e.kind # "claim"
            \/ /\ old.status = "free" /\ new = [status |-> "held", claim |-> h]
               /\ e.kind = "claim"
            \/ /\ old.status = "held" /\ e.kind # "claim"
               /\ new \in {Ledger!Idle(x) : x \in {"free", "parked", "closed"}}
            \/ /\ old.status = "parked" /\ new = Ledger!Idle("free") /\ e.kind # "claim"
<1> DEFINE e == admitted[h]
           st == issues[e.issue]
           new == ApplyTransition(st, h, e)
<1>1. st \in IssueState
  BY VisitedIsRecord DEF LeaseInv, TypeOK, Event
<1>2. CASE e.kind = "open"
  BY <1>2, ZenonT(60) DEF TransitionApplies, ApplyTransition, Opened, AbsentIssue, LeaseOf, Ledger!Idle
<1>3. CASE e.kind = "claim"
  BY <1>1, <1>3 DEF TransitionApplies, Claimable, ApplyTransition, ToClaimed, IssueState, LeaseOf
<1>4. CASE e.kind \in {"release", "block", "complete"}
  <2>1. LeaseOf(st).status = "held"
    BY <1>4 DEF TransitionApplies, CheckClaimFence, LeaseOf
  <2>2. CASE e.kind = "release"
    BY <1>1, <2>1, <2>2, Zenon DEF ApplyTransition, ToOpen, IssueState, LeaseOf, Ledger!Idle
  <2>3. CASE e.kind = "block"
    BY <1>1, <2>1, <2>3, Zenon DEF ApplyTransition, ToBlocked, IssueState, LeaseOf, Ledger!Idle
  <2>4. CASE e.kind = "complete"
    BY <1>1, <2>1, <2>4, Zenon DEF ApplyTransition, ToDone, IssueState, LeaseOf, Ledger!Idle
  <2> QED
    BY <1>4, <2>2, <2>3, <2>4
<1>5. CASE e.kind = "requeue"
  BY <1>1, <1>5, Zenon DEF TransitionApplies, RequeueAllowed, ApplyTransition, ToOpen, IssueState,
                    LeaseOf, Ledger!Idle
<1> QED
  BY <1>2, <1>3, <1>4, <1>5, ZenonT(60) DEF TransitionKinds

\* Before the walk the mapped ledger is empty.
LEMMA LedgerInit == Init => Ledger!Init
<1> SUFFICES ASSUME Init PROVE Ledger!Init
  OBVIOUS
<1>1. leases = [i \in Issue |-> Ledger!Idle("absent")]
  BY DEF Init, leases, LeaseOf, AbsentIssue, Ledger!Idle
<1>2. AbsentIssue.applied = <<>>
  BY DEF AbsentIssue
<1>3. grants = [i \in Issue |-> {}]
  BY <1>2 DEF Init, grants, Elements
<1>4. spends = [a \in {} |-> None]
  BY DEF Init, spends
<1> QED
  BY <1>1, <1>3, <1>4 DEF Ledger!Init

\* Every step of the walk maps to one step of the ledger, or to none.
LEMMA LedgerStep == LeaseInv /\ [Next]_vars => [Ledger!Next]_(Ledger!ledger)
<1> SUFFICES ASSUME LeaseInv, [Next]_vars
             PROVE  Ledger!Next \/ UNCHANGED <<leases, grants, spends>>
  BY DEF Ledger!ledger
<1>1. CASE UNCHANGED vars
  BY <1>1 DEF vars, leases, grants, spends
<1>2. CASE Next
  <2> PICK h \in ordered : Walk(h)
    BY <1>2 DEF Next
  <2> DEFINE e == admitted[h]
             i == e.issue
             st == issues[i]
  <2>0. h \in Hash /\ e \in Event /\ i \in Issue /\ admitted' = admitted
    BY VisitedIsRecord DEF Walk, LeaseInv, Event
  <2>1. CASE WalkTransition(h) /\ TransitionApplies(st, e)
    <3> DEFINE new == ApplyTransition(st, h, e)
    <3>1. /\ e.kind \in TransitionKinds
          /\ issues' = [issues EXCEPT ![i] = new]
          /\ issues'[i] = new
          /\ \A j \in Issue \ {i} : issues'[j] = issues[j]
          /\ effective_consumes' = effective_consumes
      <4>1. issues \in [Issue -> IssueState]
        BY DEF LeaseInv, TypeOK
      <4>2. /\ e.kind \in TransitionKinds /\ issues' = [issues EXCEPT ![i] = new]
            /\ effective_consumes' = effective_consumes
        BY <2>1 DEF WalkTransition
      <4> QED
        BY <2>0, <4>1, <4>2
    <3>2. new.applied = Append(st.applied, h)
      BY <2>1, <3>1, AppliedIsAppended, ZenonT(60)
    <3>3. Elements(new.applied) = Elements(st.applied) \cup {h}
      <4>1. st.applied \in Seq(Hash) /\ h \in Hash
        <5>1. st \in IssueState /\ h \in Hash
          BY <2>0 DEF LeaseInv, TypeOK
        <5> HIDE DEF st
        <5> QED
          BY <5>1 DEF IssueState
      <4> QED
        BY <3>2, <4>1, AppendedElements
    <3>4. spends' = spends
      BY <2>0, <3>1 DEF spends
    <3>5. leases' = [leases EXCEPT ![i] = LeaseOf(new)]
      <4> HIDE DEF new
      <4>1. leases' = [j \in Issue |-> LeaseOf(issues'[j])]
        BY DEF leases
      <4>2. \A j \in Issue : leases'[j] = IF j = i THEN LeaseOf(new) ELSE leases[j]
        BY <3>1, <4>1 DEF leases
      <4> QED
        BY <4>1, <4>2, Zenon DEF leases
    <3>6. leases[i] = LeaseOf(st)
      BY <2>0 DEF leases
    <3>7. CASE e.kind = "claim"
      <4>1. grants' = [grants EXCEPT ![i] = @ \cup {h}]
        BY <2>0, <3>1, <3>3, <3>7, ZenonT(60) DEF grants
      <4>2. \A j \in Issue : h \notin grants[j]
        BY DEF grants, Elements, LeaseInv, LeaseLog, walked
      <4>3. leases[i].status = "free" /\ LeaseOf(new) = [status |-> "held", claim |-> h]
        BY <2>1, <3>1, <3>6, <3>7, AppliedLease
      <4>4. Ledger!Grant(i, h)
        BY <3>4, <3>5, <4>1, <4>2, <4>3 DEF Ledger!Grant
      <4> QED
        BY <2>0, <4>4 DEF Ledger!Next
    <3>8. CASE e.kind # "claim"
      <4>1. grants' = grants
        BY <2>0, <3>1, <3>3, <3>8 DEF grants
      <4>2. \/ leases[i].status = "absent" /\ LeaseOf(new) = Ledger!Idle("free")
            \/ /\ leases[i].status = "held"
               /\ LeaseOf(new) \in {Ledger!Idle(x) : x \in {"free", "parked", "closed"}}
            \/ leases[i].status = "parked" /\ LeaseOf(new) = Ledger!Idle("free")
        BY <2>1, <3>1, <3>6, <3>8, AppliedLease
      <4>3. Ledger!Create(i) \/ Ledger!End(i) \/ Ledger!Unpark(i)
        BY <3>4, <3>5, <4>1, <4>2, ZenonT(60) DEF Ledger!Create, Ledger!End, Ledger!Unpark
      <4> QED
        BY <2>0, <4>3 DEF Ledger!Next
    <3> QED
      BY <3>7, <3>8
  <2>2. CASE WalkConsume(h) /\ ConsumeEffective(admitted, st, effective_consumes, e)
    <3>1. /\ issues' = issues
          /\ effective_consumes' =
               [a \in DOMAIN effective_consumes \cup {e.ref} |->
                  IF a = e.ref THEN h ELSE effective_consumes[a]]
      BY <2>2 DEF WalkConsume
    <3>2. leases' = leases /\ grants' = grants
      BY <2>0, <3>1 DEF leases, grants
    <3>3. /\ e.ref \in Hash /\ e.ref \notin DOMAIN effective_consumes
          /\ st.status = "claimed" /\ st.claim = e.claim
      BY <2>2 DEF ConsumeEffective, CheckClaimFence, Approvals, LeaseInv, TypeOK
    <3>4. leases[i].status = "held" /\ leases[i].claim = e.claim
      BY <2>0, <3>3 DEF leases, LeaseOf
    <3>5. DOMAIN spends = DOMAIN effective_consumes
      BY DEF spends
    <3>6. spends' = [a \in DOMAIN spends \cup {e.ref} |->
                       IF a = e.ref THEN leases[i].claim ELSE spends[a]]
      <4>1. spends' = [a \in DOMAIN effective_consumes' |-> admitted[effective_consumes'[a]].claim]
        BY <2>0 DEF spends
      <4>2. DOMAIN effective_consumes' = DOMAIN spends \cup {e.ref}
        BY <3>1, <3>5
      <4>3. admitted[effective_consumes'[e.ref]].claim = leases[i].claim
        BY <3>1, <3>4
      <4>4. \A a \in DOMAIN spends \ {e.ref} :
              admitted[effective_consumes'[a]].claim = spends[a]
        BY <3>1, <3>5 DEF spends
      <4> QED
        BY <4>1, <4>2, <4>3, <4>4
    <3>7. Ledger!Spend(i, e.ref)
      BY <3>2, <3>3, <3>4, <3>5, <3>6 DEF Ledger!Spend
    <3> QED
      BY <2>0, <3>3, <3>7 DEF Ledger!Next
  <2>3. CASE UNCHANGED <<issues, effective_consumes>>
    BY <2>0, <2>3 DEF leases, grants, spends
  <2> QED
    BY <2>1, <2>2, <2>3 DEF Walk, WalkTransition, WalkApproval, WalkConsume, WalkHandoff
<1> QED
  BY <1>1, <1>2

(***************************************************************************)
(* The fold refines the ledger: exclusive leases, claims granted once,     *)
(* approvals spent once and only under a held claim, for every admitted    *)
(* set of records.                                                         *)
(***************************************************************************)
THEOREM WalkImplementsLedger == Spec => ImplementsLedger
<1>1. Spec => Ledger!Init /\ [][Ledger!Next]_(Ledger!ledger)
  BY LedgerInit, LedgerStep, LeaseInvariant, PTL DEF Spec
<1> QED
  BY <1>1 DEF ImplementsLedger, Ledger!Spec
=============================================================================
