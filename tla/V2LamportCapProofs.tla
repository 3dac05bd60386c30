------------------------ MODULE V2LamportCapProofs ------------------------
(***************************************************************************)
(* The lamport cap returns the greatest self-sustaining set of records,    *)
(* for every skew and every chained input.                                 *)
(***************************************************************************)
EXTENDS V2LamportCap, TLAPS

\* The records this pass looked at and did not mark.
kept == (survivors \ ahead) \ marked

(***************************************************************************)
(* The state of a pass, as the loop body relies on it.                     *)
(***************************************************************************)
PassInv ==
  /\ \A v \in survivors \ ahead, r \in ahead : chained[v].lamport <= chained[r].lamport
  /\ \A h \in kept : chained[h].lamport <= running_max
  /\ running_max = 0 \/ \E g \in kept : chained[g].lamport = running_max
  /\ \A h \in kept : WithinReach(kept, h)

TruncationInv ==
  /\ marked \cap ahead = {}
  /\ \A h \in marked : /\ chained[h].author \in DOMAIN truncate_from
                       /\ truncate_from[chained[h].author] <= chained[h].seq
  /\ \A a \in DOMAIN truncate_from :
       \E m \in marked : chained[m].author = a /\ chained[m].seq = truncate_from[a]

PrefixInv ==
  \A h \in survivors, g \in DOMAIN chained :
    chained[g].author = chained[h].author /\ chained[g].seq < chained[h].seq => g \in survivors

DoneInv == done => ahead = {} /\ marked = {}

SustainedInv ==
  \A T \in SUBSET DOMAIN chained :
    SelfSustaining(T) => T \subseteq survivors /\ T \cap marked = {}

CapInv == TypeOK /\ PassInv /\ TruncationInv /\ PrefixInv /\ DoneInv /\ SustainedInv

-----------------------------------------------------------------------------

\* The cap starts with every chained record surviving.
LEMMA InitCap == Init => CapInv
<1> SUFFICES ASSUME Init PROVE CapInv
  OBVIOUS
<1>1. TypeOK
  <2>1. /\ DOMAIN chained \subseteq Hash
        /\ \A h \in DOMAIN chained : chained[h] \in Event
        /\ OneRecordPerSeq(chained)
    <3>1. chained \in Inputs
      BY DEF Init
    <3> QED
      BY <3>1, CapAssumption DEF OneRecordPerSeq
  <2> QED
    BY <2>1 DEF Init, TypeOK
<1>2. PassInv
  BY DEF Init, PassInv, kept
<1>3. TruncationInv /\ PrefixInv /\ DoneInv /\ SustainedInv
  BY DEF Init, TruncationInv, PrefixInv, DoneInv, SustainedInv
<1> QED
  BY <1>1, <1>2, <1>3 DEF CapInv

\* More records never put one out of reach.
LEMMA ReachMonotone ==
  ASSUME NEW S, NEW T, S \subseteq T, NEW h, WithinReach(S, h)
  PROVE  WithinReach(T, h)
BY DEF WithinReach

\* The next record in fold order has the least lamport of those ahead.
LEMMA NextIsLeast ==
  ASSUME TypeOK, NEW h \in ahead, \A g \in ahead \ {h} : Before(chained, h, g),
         NEW g \in ahead
  PROVE  chained[h].lamport <= chained[g].lamport
<1>1. chained[h].lamport \in Nat /\ chained[g].lamport \in Nat
  BY DEF TypeOK, Event
<1> QED
  BY <1>1 DEF Before

\* Visiting a record beyond the horizon marks it, and no self-sustaining set
\* loses a member by that.
LEMMA VisitFar ==
  ASSUME CapInv, NEW h \in ahead, Visit(h), chained[h].lamport > running_max + Skew
  PROVE  CapInv'
<1> DEFINE e == chained[h]
           from == IF e.author \in DOMAIN truncate_from /\ truncate_from[e.author] < e.seq
                   THEN truncate_from[e.author] ELSE e.seq
<1>0. /\ TypeOK /\ Skew \in Nat /\ h \in survivors /\ h \in DOMAIN chained /\ e \in Event
      /\ e.author \in Agent /\ e.seq \in Nat /\ e.lamport \in Nat /\ running_max \in Nat
      /\ \A g \in DOMAIN chained : chained[g].lamport \in Nat /\ chained[g].seq \in Nat
  BY CapAssumption DEF CapInv, TypeOK, Event
<1>1. /\ ahead' = ahead \ {h} /\ marked' = marked \cup {h} /\ running_max' = running_max
      /\ truncate_from' = [a \in DOMAIN truncate_from \cup {e.author} |->
                             IF a = e.author THEN from ELSE truncate_from[a]]
      /\ UNCHANGED <<chained, survivors, rejections, done>>
  BY <1>0 DEF Visit
<1>2. TypeOK'
  BY <1>0, <1>1 DEF TypeOK
<1>3. PassInv'
  <2>1. kept' = kept
    BY <1>1 DEF kept
  <2>2. \A v \in (survivors \ ahead)', r \in ahead' : chained[v].lamport <= chained[r].lamport
    BY <1>0, <1>1, NextIsLeast DEF CapInv, PassInv, Visit
  <2> QED
    BY <1>1, <2>1, <2>2 DEF CapInv, PassInv, WithinReach
<1>4. TruncationInv'
  <2>1. from \in Nat /\ from <= e.seq
    BY <1>0 DEF TypeOK
  <2>2. \A m \in marked' : /\ chained[m].author \in DOMAIN truncate_from'
                           /\ truncate_from'[chained[m].author] <= chained[m].seq
    <3> SUFFICES ASSUME NEW m \in marked'
                 PROVE  /\ chained[m].author \in DOMAIN truncate_from'
                        /\ truncate_from'[chained[m].author] <= chained[m].seq
      OBVIOUS
    <3>1. CASE m = h
      BY <1>1, <2>1, <3>1
    <3>2. CASE m \in marked
      <4>1. /\ chained[m].author \in DOMAIN truncate_from
            /\ truncate_from[chained[m].author] <= chained[m].seq
            /\ truncate_from[chained[m].author] \in Nat /\ chained[m].seq \in Nat
        BY <1>0, <3>2 DEF CapInv, TruncationInv, TypeOK
      <4>2. chained[m].author = e.author => from <= truncate_from[e.author]
        BY <1>0, <4>1
      <4> QED
        BY <1>0, <1>1, <2>1, <4>1, <4>2
    <3> QED
      BY <1>1, <3>1, <3>2
  <2>3. \A a \in DOMAIN truncate_from' :
          \E m \in marked' : chained[m].author = a /\ chained[m].seq = truncate_from'[a]
    <3> SUFFICES ASSUME NEW a \in DOMAIN truncate_from'
                 PROVE  \E m \in marked' : chained[m].author = a /\ chained[m].seq = truncate_from'[a]
      OBVIOUS
    <3>1. CASE a = e.author /\ from = e.seq
      BY <1>1, <3>1
    <3>2. CASE a \in DOMAIN truncate_from /\ truncate_from'[a] = truncate_from[a]
      BY <1>1, <3>2 DEF CapInv, TruncationInv
    <3> QED
      BY <1>1, <3>1, <3>2
  <2>4. (marked \cap ahead = {})'
    BY <1>1 DEF CapInv, TruncationInv
  <2>5. UNCHANGED chained
    BY <1>1
  <2> QED
    BY <2>2, <2>3, <2>4, <2>5, Zenon DEF TruncationInv
<1>5. PrefixInv' /\ DoneInv'
  BY <1>1 DEF CapInv, PrefixInv, DoneInv
<1>6. SustainedInv'
  <2>1. ASSUME NEW T \in SUBSET DOMAIN chained, SelfSustaining(T)
        PROVE  h \notin T
    <3> SUFFICES ASSUME h \in T PROVE FALSE
      OBVIOUS
    <3>1. T \subseteq survivors /\ T \cap marked = {} /\ WithinReach(T, h)
      BY <2>1 DEF CapInv, SustainedInv, SelfSustaining
    <3>2. ~(e.lamport <= Skew)
      BY <1>0
    <3>3. PICK g \in T : chained[g].lamport < e.lamport /\ e.lamport <= chained[g].lamport + Skew
      BY <3>1, <3>2 DEF WithinReach
    <3>4. chained[g].lamport \in Nat
      BY <1>0
    <3>5. g \notin ahead
      BY <1>0, <3>3, <3>4, NextIsLeast DEF Visit
    <3>6. g \in kept
      BY <3>1, <3>5 DEF kept
    <3>7. chained[g].lamport <= running_max
      BY <3>6 DEF CapInv, PassInv
    <3> QED
      BY <1>0, <3>3, <3>4, <3>7
  <2>2. \A T : SelfSustaining(T)' <=> SelfSustaining(T)
    BY <1>1 DEF SelfSustaining, WithinReach
  <2> QED
    BY <1>1, <2>1, <2>2 DEF CapInv, SustainedInv
<1> QED
  BY <1>2, <1>3, <1>4, <1>5, <1>6 DEF CapInv

\* Visiting a record within the horizon may raise the running maximum, to the
\* lamport of a record that the pass admitted.
LEMMA VisitNear ==
  ASSUME CapInv, NEW h \in ahead, Visit(h), chained[h].lamport <= running_max + Skew
  PROVE  CapInv'
<1> DEFINE e == chained[h]
<1>0. /\ TypeOK /\ Skew \in Nat /\ h \in survivors /\ h \in DOMAIN chained
      /\ e.lamport \in Nat /\ running_max \in Nat
      /\ \A g \in DOMAIN chained : chained[g].lamport \in Nat
  BY CapAssumption DEF CapInv, TypeOK, Event
<1>1. /\ ahead' = ahead \ {h} /\ marked' = marked /\ truncate_from' = truncate_from
      /\ running_max' = IF e.lamport > running_max THEN e.lamport ELSE running_max
      /\ UNCHANGED <<chained, survivors, rejections, done>>
  BY <1>0 DEF Visit
<1>2. TypeOK'
  BY <1>0, <1>1 DEF TypeOK
<1>3. TruncationInv' /\ PrefixInv' /\ DoneInv'
  BY <1>1 DEF CapInv, TruncationInv, PrefixInv, DoneInv
<1>4. SustainedInv'
  <2>1. \A T : SelfSustaining(T)' <=> SelfSustaining(T)
    BY <1>1 DEF SelfSustaining, WithinReach
  <2> QED
    BY <1>1, <2>1 DEF CapInv, SustainedInv
<1>5. PassInv'
  <2>1. kept' = kept \cup {h}
    BY <1>0, <1>1 DEF kept, CapInv, TruncationInv
  <2>2. kept \subseteq survivors \ ahead /\ kept \subseteq DOMAIN chained
    BY <1>0 DEF kept, TypeOK
  <2>3. \A v \in (survivors \ ahead)', r \in ahead' : chained[v].lamport <= chained[r].lamport
    BY <1>0, <1>1, NextIsLeast DEF CapInv, PassInv, Visit
  <2>4. \A g \in kept' : chained[g].lamport <= running_max'
    BY <1>0, <1>1, <2>1, <2>2 DEF CapInv, PassInv
  <2>5. running_max' = 0 \/ \E g \in kept' : chained[g].lamport = running_max'
    BY <1>0, <1>1, <2>1 DEF CapInv, PassInv
  <2>6. WithinReach(kept, h)
    <3>1. CASE running_max = 0
      BY <1>0, <3>1 DEF WithinReach
    <3>2. ASSUME NEW g \in kept, chained[g].lamport = running_max
          PROVE  WithinReach(kept, h)
      <4>1. chained[g].lamport <= e.lamport
        BY <2>2, <3>2 DEF CapInv, PassInv
      <4>2. CASE chained[g].lamport < e.lamport
        BY <3>2, <4>2 DEF WithinReach
      <4>3. CASE chained[g].lamport = e.lamport
        <5>1. WithinReach(kept, g)
          BY <3>2 DEF CapInv, PassInv
        <5> QED
          BY <4>3, <5>1 DEF WithinReach
      <4> QED
        BY <1>0, <2>2, <3>2, <4>1, <4>2, <4>3
    <3> QED
      BY <3>1, <3>2 DEF CapInv, PassInv
  <2>7. \A g \in kept' : WithinReach(kept', g)
    BY <2>1, <2>6, ReachMonotone DEF CapInv, PassInv
  <2>8. \A g \in kept' : WithinReach(kept, g)'
    BY <1>1, <2>7 DEF WithinReach
  <2> QED
    BY <1>1, <2>3, <2>4, <2>5, <2>8 DEF PassInv
<1> QED
  BY <1>2, <1>3, <1>4, <1>5 DEF CapInv

\* The loop body's end: remove what was marked or truncated and start over.
LEMMA EndPassKeeps == ASSUME CapInv, EndPass PROVE CapInv'
<1>0. /\ TypeOK /\ ahead = {} /\ chained' = chained
      /\ \A g \in DOMAIN chained : chained[g].seq \in Nat /\ chained[g].author \in Agent
  BY DEF CapInv, EndPass, TypeOK, Event
<1>1. CASE DOMAIN truncate_from = {}
  <2>1. marked = {}
    BY <1>1 DEF CapInv, TruncationInv
  <2>2. /\ done' = TRUE
        /\ UNCHANGED <<survivors, ahead, running_max, truncate_from, marked, rejections>>
    BY <1>1 DEF EndPass
  <2>3. TypeOK' /\ TruncationInv' /\ PrefixInv' /\ DoneInv'
    BY <1>0, <2>1, <2>2 DEF CapInv, TypeOK, TruncationInv, PrefixInv, DoneInv
  <2>4. PassInv' /\ SustainedInv'
    BY <1>0, <2>2 DEF CapInv, PassInv, SustainedInv, kept, WithinReach, SelfSustaining
  <2> QED
    BY <2>3, <2>4 DEF CapInv
<1>2. CASE DOMAIN truncate_from # {}
  <2> DEFINE out == {h \in survivors : h \in marked \/ Truncated(h)}
  <2>1. /\ survivors' = survivors \ out /\ rejections' = rejections \cup out
        /\ ahead' = survivors \ out /\ running_max' = 0 /\ marked' = {}
        /\ truncate_from' = [a \in {} |-> 0] /\ done' = done /\ ~done
    BY <1>2 DEF EndPass, StartPass
  <2>2. TypeOK'
    BY <1>0, <2>1 DEF TypeOK
  <2>3. PassInv' /\ TruncationInv' /\ DoneInv'
    BY <1>0, <2>1 DEF PassInv, TruncationInv, DoneInv, kept
  <2>4. PrefixInv'
    <3> SUFFICES ASSUME NEW h \in survivors', NEW g \in DOMAIN chained,
                        chained[g].author = chained[h].author, chained[g].seq < chained[h].seq,
                        g \notin survivors'
                 PROVE  FALSE
      BY <1>0 DEF PrefixInv
    <3>1. h \in survivors /\ h \notin out /\ g \in survivors
      BY <2>1 DEF CapInv, PrefixInv
    <3>2. g \in out /\ h \in DOMAIN chained
      BY <1>0, <2>1, <3>1 DEF TypeOK
    <3>3. /\ chained[g].author \in DOMAIN truncate_from
          /\ truncate_from[chained[g].author] <= chained[g].seq
          /\ truncate_from[chained[g].author] \in Nat
      BY <1>0, <3>2 DEF CapInv, TruncationInv, Truncated, TypeOK
    <3>4. Truncated(h)
      BY <1>0, <3>2, <3>3 DEF Truncated
    <3> QED
      BY <3>1, <3>4
  <2>5. SustainedInv'
    <3>1. ASSUME NEW T \in SUBSET DOMAIN chained, SelfSustaining(T), NEW h \in T
          PROVE  h \notin out
      <4>1. T \subseteq survivors /\ T \cap marked = {}
        BY <3>1 DEF CapInv, SustainedInv
      <4> SUFFICES ASSUME Truncated(h) PROVE FALSE
        BY <4>1
      <4>2. PICK m \in marked : /\ chained[m].author = chained[h].author
                                /\ chained[m].seq = truncate_from[chained[h].author]
        BY DEF Truncated, CapInv, TruncationInv
      <4>3. m \in DOMAIN chained /\ h \in DOMAIN chained /\ chained[m].seq <= chained[h].seq
        BY <1>0, <4>2 DEF Truncated, TypeOK
      <4>4. CASE chained[m].seq < chained[h].seq
        BY <3>1, <4>1, <4>2, <4>3, <4>4 DEF SelfSustaining
      <4>5. CASE chained[m].seq = chained[h].seq
        BY <1>0, <4>1, <4>2, <4>3, <4>5 DEF TypeOK, OneRecordPerSeq
      <4> QED
        BY <1>0, <4>3, <4>4, <4>5
    <3>2. \A T : SelfSustaining(T)' <=> SelfSustaining(T)
      BY <1>0 DEF SelfSustaining, WithinReach
    <3> QED
      BY <1>0, <2>1, <3>1, <3>2 DEF CapInv, SustainedInv
  <2> QED
    BY <2>2, <2>3, <2>4, <2>5 DEF CapInv
<1> QED
  BY <1>1, <1>2

\* The inductive invariant of the cap holds throughout.
LEMMA CapInvariant == Spec => []CapInv
<1>1. CapInv /\ [Next]_vars => CapInv'
  <2> SUFFICES ASSUME CapInv, [Next]_vars PROVE CapInv'
    OBVIOUS
  <2>1. ASSUME NEW h \in ahead, Visit(h) PROVE CapInv'
    <3>1. chained[h].lamport \in Nat /\ running_max + Skew \in Nat
      BY CapAssumption DEF CapInv, TypeOK, Event
    <3> QED
      BY <2>1, <3>1, VisitFar, VisitNear
  <2>2. CASE UNCHANGED vars
    BY <2>2 DEF vars, CapInv, TypeOK, PassInv, TruncationInv, PrefixInv, DoneInv, SustainedInv,
                kept, WithinReach, SelfSustaining
  <2> QED
    BY <2>1, <2>2, EndPassKeeps DEF Next
<1> QED
  BY <1>1, InitCap, PTL DEF Spec

\* Type correctness of the cap.
THEOREM CapTypeCorrect == Spec => []TypeOK
BY CapInvariant, PTL DEF CapInv

(***************************************************************************)
(* What the cap returns is self-sustaining: only records that survive      *)
(* widened the horizon.                                                    *)
(***************************************************************************)
THEOREM CapSound == Spec => []OnlySurvivorsWidenTheHorizon
<1>1. CapInv => OnlySurvivorsWidenTheHorizon
  <2> SUFFICES ASSUME CapInv, done PROVE SelfSustaining(survivors)
    BY DEF OnlySurvivorsWidenTheHorizon
  <2>1. kept = survivors
    BY DEF CapInv, DoneInv, kept
  <2> QED
    BY <2>1 DEF CapInv, PassInv, PrefixInv, SelfSustaining
<1> QED
  BY <1>1, CapInvariant, PTL

(***************************************************************************)
(* The cap rejects nothing that a self-sustaining set of records holds, so *)
(* its result is the greatest such set.                                    *)
(***************************************************************************)
THEOREM CapComplete == Spec => []NoSustainedRecordIsRejected
<1>1. CapInv => NoSustainedRecordIsRejected
  BY DEF CapInv, SustainedInv, NoSustainedRecordIsRejected
<1> QED
  BY <1>1, CapInvariant, PTL
=============================================================================
