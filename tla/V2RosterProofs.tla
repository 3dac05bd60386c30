--------------------------- MODULE V2RosterProofs ---------------------------
(***************************************************************************)
(* For any number of agents, rosters, updates, epochs, crashes and lost    *)
(* joins, and records that arrive in any order: as long as the creator     *)
(* publishes one update per epoch, all daemons serve the same chain of     *)
(* rosters as far as each knows it, and what a daemon has served it keeps. *)
(***************************************************************************)
EXTENDS V2Roster, SequenceTheorems, WellFoundedInduction, TLAPS

-----------------------------------------------------------------------------
(* Sequences and bounded sets of numbers.                                   *)

\* A bounded set of numbers has a greatest one.
LEMMA Greatest ==
  ASSUME NEW T \in SUBSET Nat, T # {}, NEW k \in Nat, \A n \in T : n <= k
  PROVE  \E n \in T : \A m \in T : m <= n
<1> DEFINE R == OpToRel(<, Nat)
           U == {k - n : n \in T}
<1>1. U \subseteq Nat /\ U # {}
  <2>1. \A n \in T : k - n \in Nat
    OBVIOUS
  <2>2. PICK n : n \in T
    OBVIOUS
  <2>3. k - n \in U
    BY <2>2
  <2>4. QED
    BY <2>1, <2>3
<1>2. PICK u \in U : \A v \in U : <<v, u>> \notin R
  <2> HIDE DEF U, R
  <2>1. IsWellFoundedOn(R, Nat)
    BY NatLessThanWellFounded DEF R
  <2>2. QED
    BY <1>1, <2>1, WFMin
<1>3. PICK n \in T : u = k - n
  OBVIOUS
<1>4. ASSUME NEW m \in T PROVE m <= n
  <2>1. k - m \in U /\ k - m \in Nat /\ u \in Nat
    BY <1>1
  <2>2. <<k - m, u>> \notin R
    BY <1>2, <2>1
  <2>3. ~(k - m < u)
    BY <2>1, <2>2 DEF OpToRel
  <2>4. QED
    BY <1>3, <2>3
<1>5. QED
  BY <1>4

\* A prefix of a sequence.
LEMMA Prefix ==
  ASSUME NEW S, NEW s \in Seq(S), NEW n \in 0 .. Len(s)
  PROVE  /\ SubSeq(s, 1, n) \in Seq(S) /\ Len(SubSeq(s, 1, n)) = n
         /\ \A i \in 1 .. n : SubSeq(s, 1, n)[i] = s[i]
  BY SubSeqProperties

\* A prefix of a prefix is a prefix.
LEMMA PrefixOfPrefix ==
  ASSUME NEW S, NEW s \in Seq(S), NEW n \in 0 .. Len(s), NEW m \in 0 .. n
  PROVE  SubSeq(SubSeq(s, 1, n), 1, m) = SubSeq(s, 1, m)
<1>1. /\ SubSeq(s, 1, n) \in Seq(S) /\ Len(SubSeq(s, 1, n)) = n
      /\ \A i \in 1 .. n : SubSeq(s, 1, n)[i] = s[i]
  BY Prefix
<1>2. PICK p \in Seq(S) : p = SubSeq(s, 1, n)
  BY <1>1
<1>3. /\ SubSeq(p, 1, m) \in Seq(S) /\ Len(SubSeq(p, 1, m)) = m
      /\ \A i \in 1 .. m : SubSeq(p, 1, m)[i] = p[i]
  BY <1>1, <1>2, Prefix
<1>4. /\ SubSeq(s, 1, m) \in Seq(S) /\ Len(SubSeq(s, 1, m)) = m
      /\ \A i \in 1 .. m : SubSeq(s, 1, m)[i] = s[i]
  BY Prefix
<1>5. QED
  BY <1>1, <1>2, <1>3, <1>4, SeqEqual

\* What an update commits to.
LEMMA Appended ==
  ASSUME NEW S, NEW s \in Seq(S), NEW e \in S
  PROVE  /\ Append(s, e) \in Seq(S) /\ Len(Append(s, e)) = Len(s) + 1
         /\ Front(Append(s, e)) = s
         /\ \A n \in 1 .. Len(s) : SubSeq(Append(s, e), 1, n) = SubSeq(s, 1, n)
<1>1. /\ Append(s, e) \in Seq(S) /\ Len(Append(s, e)) = Len(s) + 1
      /\ \A i \in 1 .. Len(s) : Append(s, e)[i] = s[i]
  BY AppendProperties
<1>2. PICK t \in Seq(S) : t = Append(s, e)
  BY <1>1
<1>3. ASSUME NEW n \in 0 .. Len(s) PROVE SubSeq(t, 1, n) = SubSeq(s, 1, n)
  <2>1. /\ SubSeq(t, 1, n) \in Seq(S) /\ Len(SubSeq(t, 1, n)) = n
        /\ \A i \in 1 .. n : SubSeq(t, 1, n)[i] = t[i]
    BY <1>1, <1>2, Prefix
  <2>2. /\ SubSeq(s, 1, n) \in Seq(S) /\ Len(SubSeq(s, 1, n)) = n
        /\ \A i \in 1 .. n : SubSeq(s, 1, n)[i] = s[i]
    BY Prefix
  <2>3. QED
    BY <1>1, <1>2, <2>1, <2>2, SeqEqual
<1>4. SubSeq(t, 1, Len(t) - 1) = SubSeq(s, 1, Len(s))
  BY <1>1, <1>2, <1>3
<1>5. SubSeq(s, 1, Len(s)) = s
  BY SubSeqFull
<1>6. QED
  BY <1>1, <1>2, <1>3, <1>4, <1>5 DEF Front

-----------------------------------------------------------------------------
(* The chain a reader builds.                                               *)

Chain == Seq(SUBSET Agent)

\* Every roster the walk has passed is among the records.
LEMMA ReachedPrefixes ==
  ASSUME NEW C \in SUBSET Chain, NEW c \in C, Reached(C, c), NEW n \in 1 .. Len(c)
  PROVE  SubSeq(c, 1, n) \in C
<1>1. Len(c) \in Nat
  BY DEF Chain
<1>2. CASE n = 1
  BY <1>2 DEF Reached
<1>3. CASE n # 1
  <2>1. n - 1 \in 1 .. Len(c) - 1 /\ (n - 1) + 1 = n
    BY <1>1, <1>3
  <2>2. Linked(C, SubSeq(c, 1, n - 1)) = {SubSeq(c, 1, n)}
    BY <2>1 DEF Reached
  <2>3. QED
    BY <2>2 DEF Linked
<1>4. QED
  BY <1>2, <1>3

\* The walk goes on over the one update that links.
LEMMA ReachedOn ==
  ASSUME NEW C \in SUBSET Chain, NEW c \in C, Len(c) >= 1, Reached(C, c),
         NEW d \in C, Linked(C, c) = {d}
  PROVE  Reached(C, d) /\ Len(d) = Len(c) + 1
<1>1. Len(d) = Len(c) + 1 /\ SubSeq(d, 1, Len(d) - 1) = c /\ c \in Chain /\ d \in Chain
  BY DEF Linked, Front
<1>2. Len(c) \in Nat /\ Len(d) \in Nat
  BY <1>1 DEF Chain
<1>3. SubSeq(d, 1, Len(c)) = c /\ SubSeq(d, 1, Len(d)) = d
  <2>1. SubSeq(d, 1, Len(d)) = d
    BY <1>1, SubSeqFull DEF Chain
  <2>2. Len(d) - 1 = Len(c)
    BY <1>1, <1>2
  <2>3. QED
    BY <1>1, <2>1, <2>2
<1>4. ASSUME NEW n \in 1 .. Len(c) PROVE SubSeq(d, 1, n) = SubSeq(c, 1, n)
  <2>1. SubSeq(SubSeq(d, 1, Len(c)), 1, n) = SubSeq(d, 1, n)
    BY <1>1, <1>2, PrefixOfPrefix DEF Chain
  <2>2. QED
    BY <1>3, <2>1
<1>5. SubSeq(d, 1, 1) \in C
  <2>1. 1 \in 1 .. Len(c)
    BY <1>2
  <2>2. SubSeq(d, 1, 1) = SubSeq(c, 1, 1)
    BY <1>4, <2>1
  <2>3. QED
    BY <2>2 DEF Reached
<1>6. ASSUME NEW n \in 1 .. Len(d) - 1
      PROVE  Linked(C, SubSeq(d, 1, n)) = {SubSeq(d, 1, n + 1)}
  <2>1. CASE n = Len(c)
    BY <1>1, <1>3, <2>1
  <2>2. CASE n # Len(c)
    <3>1. n \in 1 .. Len(c) - 1 /\ n \in 1 .. Len(c) /\ n + 1 \in 1 .. Len(c)
      <4>1. PICK k \in Nat : k = Len(c)
        BY <1>2
      <4>2. n \in 1 .. k /\ n # k
        <5>1. Len(d) = k + 1
          BY <1>1, <4>1
        <5>2. n \in 1 .. (k + 1) - 1
          BY <5>1
        <5>3. (k + 1) - 1 = k
          OBVIOUS
        <5>4. QED
          BY <2>2, <4>1, <5>2, <5>3
      <4>3. n \in 1 .. k - 1 /\ n + 1 \in 1 .. k
        BY <4>2
      <4>4. QED
        BY <4>1, <4>2, <4>3
    <3>2. Linked(C, SubSeq(c, 1, n)) = {SubSeq(c, 1, n + 1)}
      BY <3>1 DEF Reached
    <3>3. SubSeq(d, 1, n) = SubSeq(c, 1, n) /\ SubSeq(d, 1, n + 1) = SubSeq(c, 1, n + 1)
      BY <1>4, <3>1
    <3>4. QED
      BY <3>2, <3>3
  <2>3. QED
    BY <2>1, <2>2
<1>7. QED
  BY <1>1, <1>5, <1>6 DEF Reached

\* With a genesis and a bound on the epochs the walk ends: RosterChain is where.
LEMMA ChainEnds ==
  ASSUME NEW C \in SUBSET Chain, NEW k \in Nat, \A c \in C : Len(c) \in 1 .. k, Genesis(C) # {}
  PROVE  LET r == RosterChain(C)
         IN  r \in C /\ Reached(C, r) /\ \A d \in C : Linked(C, r) # {d}
<1> DEFINE Ends(c) == Reached(C, c) /\ \A d \in C : Linked(C, c) # {d}
           T == {Len(c) : c \in {d \in C : Reached(C, d)}}
<1>1. PICK g \in C : Len(g) = 1
  BY DEF Genesis
<1>2. Reached(C, g)
  <2>1. SubSeq(g, 1, 1) = g
    BY <1>1, SubSeqFull DEF Chain
  <2>2. 1 .. Len(g) - 1 = {}
    BY <1>1
  <2>3. QED
    BY <2>1, <2>2 DEF Reached
<1>3. T \in SUBSET Nat /\ 1 \in T /\ \A n \in T : n <= k
  BY <1>1, <1>2
<1>4. PICK n \in T : \A m \in T : m <= n
  <2> HIDE DEF T
  <2>1. QED
    BY <1>3, Greatest
<1>5. PICK c \in C : Reached(C, c) /\ Len(c) = n
  OBVIOUS
<1>6. ASSUME NEW d \in C, Linked(C, c) = {d} PROVE FALSE
  <2>1. Reached(C, d) /\ Len(d) = Len(c) + 1
    BY <1>5, <1>6, ReachedOn
  <2>2. Len(d) \in T
    BY <2>1
  <2>3. QED
    BY <1>3, <1>4, <1>5, <2>1, <2>2
<1>7. Ends(c)
  BY <1>5, <1>6
<1>8. RosterChain(C) = CHOOSE x \in C : Ends(x)
  BY DEF RosterChain
<1> HIDE DEF Ends
<1>9. RosterChain(C) \in C /\ Ends(RosterChain(C))
  BY <1>7, <1>8
<1>10. QED
  BY <1>9 DEF Ends

-----------------------------------------------------------------------------
(* The creator's store.                                                     *)

\* What the creator has published is closed under predecessors and, unless it
\* has forked, one line; the others hold a part of it.
Published ==
  /\ chains \in [Agent -> SUBSET Chain]
  /\ \A c \in chains[Creator] : Len(c) \in 1 .. MaxEpoch + 1
  /\ \A c \in chains[Creator] : \A n \in 1 .. Len(c) : SubSeq(c, 1, n) \in chains[Creator]
  /\ \A a \in Agent : chains[a] \subseteq chains[Creator]
  /\ ~Forked => \A c, d \in chains[Creator] : Len(c) = Len(d) => c = d

\* A record is added that commits to what is there.
LEMMA PutKeeps ==
  ASSUME Published, NEW e \in Chain, PutOnce(e), Len(e) \in 1 .. MaxEpoch + 1,
         \A n \in 1 .. Len(e) - 1 : SubSeq(e, 1, n) \in chains[Creator],
         Len(e) = 1 => chains[Creator] = {}
  PROVE  Published'
<1>1. /\ chains'[Creator] = chains[Creator] \cup {e}
      /\ \A a \in Agent \ {Creator} : chains'[a] = chains[a]
      /\ chains' \in [Agent -> SUBSET Chain]
  BY RosterAssumption DEF PutOnce, Published
<1>2. \A c \in chains'[Creator] : Len(c) \in 1 .. MaxEpoch + 1
  BY <1>1 DEF Published
<1>3. ASSUME NEW c \in chains'[Creator], NEW n \in 1 .. Len(c)
      PROVE  SubSeq(c, 1, n) \in chains'[Creator]
  <2>1. CASE c \in chains[Creator]
    BY <1>1, <2>1 DEF Published
  <2>2. CASE c = e /\ n = Len(e)
    <3>1. SubSeq(e, 1, Len(e)) = e
      BY SubSeqFull DEF Chain
    <3>2. QED
      BY <1>1, <2>2, <3>1
  <2>3. CASE c = e /\ n # Len(e)
    <3>1. n \in 1 .. Len(e) - 1
      BY <2>3 DEF Chain
    <3>2. QED
      BY <1>1, <2>3, <3>1
  <2>4. QED
    BY <1>1, <2>1, <2>2, <2>3
<1>4. ASSUME ~Forked', NEW d \in chains[Creator], Len(d) = Len(e) PROVE d = e
  <2>1. Len(e) > 1 /\ Len(e) - 1 \in 1 .. Len(e) - 1 /\ Len(d) - 1 \in 1 .. Len(d)
    BY <1>4
  <2>2. Front(e) \in chains[Creator] /\ Front(d) \in chains[Creator]
    BY <2>1 DEF Front, Published
  <2>3. Len(Front(e)) = Len(e) - 1 /\ Len(Front(d)) = Len(d) - 1
    <3>1. d \in Chain
      BY RosterAssumption DEF Published
    <3>2. ASSUME NEW s \in Chain, Len(s) > 1 PROVE Len(Front(s)) = Len(s) - 1
      <4>1. Len(s) \in Nat /\ Len(s) - 1 \in 0 .. Len(s)
        BY <3>2 DEF Chain
      <4>2. QED
        BY <4>1, Prefix DEF Front, Chain
    <3>3. QED
      BY <1>4, <2>1, <3>1, <3>2
  <2>4. ~Forked
    BY <1>1, <1>4 DEF Forked
  <2>5. Front(e) = Front(d)
    BY <1>4, <2>2, <2>3, <2>4 DEF Published
  <2>6. QED
    BY <1>1, <1>4, <2>1, <2>5 DEF Forked
<1>5. ASSUME ~Forked' PROVE \A c, d \in chains'[Creator] : Len(c) = Len(d) => c = d
  <2>1. ~Forked
    BY <1>1, <1>5 DEF Forked
  <2>2. QED
    BY <1>1, <1>4, <1>5, <2>1 DEF Published
<1>6. \A a \in Agent : chains'[a] \subseteq chains'[Creator]
  BY <1>1 DEF Published
<1>7. QED
  BY <1>1, <1>2, <1>3, <1>5, <1>6 DEF Published

\* The first record is a genesis, the daemon's or the operator's.
LEMMA GenesisKeeps ==
  ASSUME Published, NEW r \in SUBSET Agent, Genesis(chains[Creator]) = {}, PutOnce(<<r>>)
  PROVE  Published'
<1>1. chains[Creator] = {}
  <2> SUFFICES ASSUME NEW c \in chains[Creator] PROVE FALSE
    OBVIOUS
  <2>1. c \in Chain /\ Len(c) >= 1 /\ SubSeq(c, 1, 1) \in chains[Creator]
    BY RosterAssumption DEF Published
  <2>2. Len(SubSeq(c, 1, 1)) = 1
    BY <2>1, Prefix DEF Chain
  <2>3. QED
    BY <2>1, <2>2 DEF Genesis
<1>2. <<r>> \in Chain /\ Len(<<r>>) = 1 /\ MaxEpoch \in Nat
  BY RosterAssumption DEF Chain
<1>3. Len(<<r>>) \in 1 .. MaxEpoch + 1 /\ 1 .. Len(<<r>>) - 1 = {}
  BY <1>2
<1>4. QED
  BY <1>1, <1>2, <1>3, PutKeeps

\* An update of any earlier record.
LEMMA UpdateKeeps ==
  ASSUME Published, NEW r \in SUBSET Agent, NEW b \in chains[Creator], Len(b) <= MaxEpoch,
         PutOnce(Append(b, r))
  PROVE  Published'
<1>1. b \in Chain /\ Len(b) \in 1 .. MaxEpoch + 1 /\ MaxEpoch \in Nat
  BY RosterAssumption DEF Published
<1>2. /\ Append(b, r) \in Chain /\ Len(Append(b, r)) = Len(b) + 1
      /\ \A n \in 1 .. Len(b) : SubSeq(Append(b, r), 1, n) = SubSeq(b, 1, n)
  BY <1>1, Appended DEF Chain
<1>3. Len(Append(b, r)) \in 1 .. MaxEpoch + 1 /\ Len(Append(b, r)) # 1
  BY <1>1, <1>2
<1>4. Len(Append(b, r)) - 1 = Len(b)
  BY <1>1, <1>2
<1>5. \A n \in 1 .. Len(b) : SubSeq(Append(b, r), 1, n) \in chains[Creator]
  BY <1>2 DEF Published
<1>6. QED
  BY <1>2, <1>3, <1>4, <1>5, PutKeeps

\* A record of the creator's store arrives.
LEMMA DeliverKeeps ==
  ASSUME Published, NEW a \in Agent, Deliver(a)
  PROVE  Published' /\ \A b \in Agent : chains[b] \subseteq chains'[b]
<1>1. CASE UNCHANGED chains
  BY <1>1 DEF Published, Forked
<1>2. CASE \E c \in chains[Creator] \ chains[a] : chains' = [chains EXCEPT ![a] = @ \cup {c}]
  <2>1. PICK c \in chains[Creator] \ chains[a] : chains' = [chains EXCEPT ![a] = @ \cup {c}]
    BY <1>2
  <2>2. /\ chains' \in [Agent -> SUBSET Chain] /\ chains'[a] = chains[a] \cup {c}
        /\ \A b \in Agent \ {a} : chains'[b] = chains[b]
    BY <2>1, RosterAssumption DEF Published
  <2>3. a # Creator /\ chains'[Creator] = chains[Creator]
    BY <2>1, <2>2, RosterAssumption
  <2>4. QED
    BY <2>1, <2>2, <2>3 DEF Published, Forked
<1>3. QED
  BY <1>1, <1>2 DEF Deliver

\* Every step keeps what is published in line, and nobody loses a record.
LEMMA PublishedStep ==
  ASSUME Published, [Next]_vars
  PROVE  Published' /\ \A b \in Agent : chains[b] \subseteq chains'[b]
<1>1. ASSUME NEW e, PutOnce(e) PROVE \A b \in Agent : chains[b] \subseteq chains'[b]
  BY <1>1, RosterAssumption DEF PutOnce, Published
<1>2. CASE UNCHANGED chains
  BY <1>2 DEF Published, Forked
<1>3. CASE PublishGenesis
  <2>1. CASE UNCHANGED chains
    BY <2>1, <1>2
  <2>2. CASE Genesis(chains[Creator]) = {} /\ PutOnce(<<{Creator}>>)
    BY <1>1, <2>2, GenesisKeeps, RosterAssumption
  <2>3. QED
    BY <1>3, <2>1, <2>2 DEF PublishGenesis
<1>4. CASE \E r \in FirstRosters : OperatorGenesis(r)
  <2>1. PICK r \in FirstRosters : Genesis(chains[Creator]) = {} /\ PutOnce(<<r>>)
    BY <1>4 DEF OperatorGenesis
  <2>2. QED
    BY <1>1, <2>1, GenesisKeeps, RosterAssumption
<1>5. CASE \E r \in Rosters : PublishRosterUpdate(r)
  <2>1. PICK r \in Rosters, b \in chains[Creator] : Len(b) <= MaxEpoch /\ PutOnce(Append(b, r))
    BY <1>5 DEF PublishRosterUpdate
  <2>2. QED
    BY <1>1, <2>1, UpdateKeeps, RosterAssumption
<1>6. CASE \E a \in Agent : Deliver(a)
  BY <1>6, DeliverKeeps
<1>7. ASSUME NEW a \in Agent,
             Start(a) \/ CheckGenesis \/ JoinCreator(a) \/ FoldView(a) \/ AppendEvent(a) \/ Crash(a)
      PROVE  UNCHANGED chains
  BY <1>7 DEF Start, CheckGenesis, JoinCreator, FoldView, AppendEvent, Crash
<1>8. QED
  BY <1>2, <1>3, <1>4, <1>5, <1>6, <1>7 DEF Next, DaemonStep, vars

-----------------------------------------------------------------------------
(* What a daemon serves.                                                    *)

Stamped == [owner: Agent, epoch: Int]

\* A served view rests on records that the daemon holds.
Served ==
  /\ listed \in [Agent -> SUBSET Agent] /\ events \in [Agent -> SUBSET Stamped]
  /\ view \in [Agent -> [rosters: Chain, events: SUBSET Stamped]]
  /\ \A a \in Agent : \A n \in 1 .. Len(view[a].rosters) : SubSeq(view[a].rosters, 1, n) \in chains[a]
  /\ \A a \in Agent : \A r \in view[a].events :
       r \in events[a] /\ r.owner \in Streams(a) /\ Admit(r, view[a].rosters)

\* The fold's rosters are published ones.
LEMMA FoldedChain ==
  ASSUME Published, NEW a \in Agent, Genesis(chains[a]) # {}
  PROVE  LET r == Fold(a).rosters
         IN  /\ r \in chains[a] /\ r \in Chain /\ Len(r) \in 1 .. MaxEpoch + 1
             /\ Reached(chains[a], r) /\ \A d \in chains[a] : Linked(chains[a], r) # {d}
<1>1. PICK C \in SUBSET Chain : C = chains[a]
  BY DEF Published
<1>2. \A c \in C : Len(c) \in 1 .. MaxEpoch + 1
  BY <1>1 DEF Published
<1>3. MaxEpoch + 1 \in Nat
  BY RosterAssumption
<1>4. PICK r : r = RosterChain(C)
  OBVIOUS
<1>5. r \in C /\ Reached(C, r) /\ \A d \in C : Linked(C, r) # {d}
  BY <1>1, <1>2, <1>3, <1>4, ChainEnds
<1>6. Fold(a).rosters = r
  BY <1>1, <1>4 DEF Fold
<1>7. QED
  BY <1>1, <1>2, <1>5, <1>6

\* A pass of fold_view serves what it folded, or leaves the view as it was.
LEMMA FoldViewServes ==
  ASSUME NEW a \in Agent, FoldView(a)
  PROVE  /\ UNCHANGED <<chains, events>>
         /\ \/ UNCHANGED view
            \/ Genesis(chains[a]) # {} /\ view' = [view EXCEPT ![a] = Fold(a)]
<1>1. CASE ReadFails(a) \/ FoldRefuses(a)
  BY <1>1 DEF FoldView, Refuse
<1>2. CASE ~(ReadFails(a) \/ FoldRefuses(a))
  <2>1. Genesis(chains[a]) # {}
    BY <1>2 DEF FoldRefuses
  <2>2. PICK out : out = Fold(a)
    OBVIOUS
  <2>3. \/ \E new, in : AfterJoin(a, out, new, in)
        \/ \E in : Refuse(a, in)
    BY <1>2, <2>2 DEF FoldView, JoinNewMembers, AnchorFails
  <2>4. UNCHANGED view \/ view' = [view EXCEPT ![a] = out]
    BY <2>3 DEF AfterJoin, Serve, Refuse
  <2>5. QED
    BY <2>1, <2>2, <2>4 DEF FoldView
<1>3. QED
  BY <1>1, <1>2

\* x0xd never drops a store from its list.
LEMMA ListedGrows ==
  ASSUME Published, Served, [Next]_vars
  PROVE  /\ listed' \in [Agent -> SUBSET Agent]
         /\ \A b \in Agent : listed[b] \subseteq listed'[b]
<1>1. ASSUME NEW a \in Agent, NEW new \in SUBSET Agent,
             listed' = [listed EXCEPT ![a] = @ \cup new]
      PROVE  /\ listed' \in [Agent -> SUBSET Agent]
             /\ \A b \in Agent : listed[b] \subseteq listed'[b]
  BY <1>1 DEF Served
<1>2. ASSUME NEW a \in Agent, NEW o \in Agent, Join(a, o)
      PROVE  \E new \in SUBSET Agent : listed' = [listed EXCEPT ![a] = @ \cup new]
  BY <1>2 DEF Join
<1>3. ASSUME NEW a \in Agent, FoldView(a)
      PROVE  UNCHANGED listed \/ \E new \in SUBSET Agent : listed' = [listed EXCEPT ![a] = @ \cup new]
  <2>1. PICK out : out = Fold(a)
    OBVIOUS
  <2>2. PICK can : can = Joinable(a, out)
    OBVIOUS
  <2>3. ASSUME Genesis(chains[a]) # {} PROVE can \subseteq Agent
    <3>1. out.rosters \in Chain /\ Len(out.rosters) \in 1 .. MaxEpoch + 1
      BY <2>1, <2>3, FoldedChain
    <3>2. out.rosters[1] \subseteq Agent /\ out.rosters[Len(out.rosters)] \subseteq Agent
      BY <3>1 DEF Chain
    <3>3. QED
      BY <2>2, <3>2 DEF Joinable, Named, Last
  <2>4. CASE Genesis(chains[a]) # {} /\ JoinNewMembers(a, out, can)
    BY <2>3, <2>4 DEF JoinNewMembers
  <2>5. CASE Genesis(chains[a]) # {} /\ AnchorFails(a, can)
    <3>1. PICK o \in can, new \in SUBSET can : listed' = [listed EXCEPT ![a] = @ \cup new \cup {o}]
      BY <2>5 DEF AnchorFails
    <3>2. listed' = [listed EXCEPT ![a] = @ \cup (new \cup {o})] /\ new \cup {o} \in SUBSET Agent
      BY <2>3, <2>5, <3>1
    <3>3. QED
      BY <3>2
  <2>6. QED
    BY <1>3, <2>1, <2>2, <2>4, <2>5 DEF FoldView, FoldRefuses
<1>4. ASSUME NEW a \in Agent, Start(a) \/ JoinCreator(a)
      PROVE  UNCHANGED listed \/ \E o \in Agent : Join(a, o)
  BY <1>4, RosterAssumption DEF Start, JoinCreator
<1>5. CASE \E r \in FirstRosters : OperatorGenesis(r)
  BY <1>1, <1>2, <1>5, RosterAssumption DEF OperatorGenesis
<1>6. ASSUME NEW a \in Agent,
             CheckGenesis \/ PublishGenesis \/ AppendEvent(a) \/ Deliver(a) \/ Crash(a)
      PROVE  UNCHANGED listed
  BY <1>6 DEF CheckGenesis, PublishGenesis, AppendEvent, Deliver, Crash
<1>7. CASE UNCHANGED listed
  BY <1>7 DEF Served
<1>8. CASE \E r \in Rosters : PublishRosterUpdate(r)
  BY <1>7, <1>8 DEF PublishRosterUpdate
<1>9. QED
  BY <1>1, <1>2, <1>3, <1>4, <1>5, <1>6, <1>7, <1>8 DEF Next, DaemonStep, vars

\* No record of an author is lost.
LEMMA EventsGrow ==
  ASSUME Served, [Next]_vars
  PROVE  /\ events' \in [Agent -> SUBSET Stamped]
         /\ \A b \in Agent : events[b] \subseteq events'[b]
<1>1. ASSUME NEW a \in Agent, NEW r \in Stamped, events' = [events EXCEPT ![a] = @ \cup {r}]
      PROVE  /\ events' \in [Agent -> SUBSET Stamped]
             /\ \A b \in Agent : events[b] \subseteq events'[b]
  BY <1>1 DEF Served
<1>2. ASSUME NEW a \in Agent, AppendEvent(a)
      PROVE  \E r \in Stamped : events' = [events EXCEPT ![a] = @ \cup {r}]
  <2>1. Len(view[a].rosters) - 1 \in Int
    BY DEF Served, Chain
  <2>2. [owner |-> a, epoch |-> Len(view[a].rosters) - 1] \in Stamped
    BY <2>1 DEF Stamped
  <2>3. QED
    BY <1>2, <2>2 DEF AppendEvent
<1>3. ASSUME NEW a \in Agent, Deliver(a)
      PROVE  UNCHANGED events \/ \E r \in Stamped : events' = [events EXCEPT ![a] = @ \cup {r}]
  BY <1>3 DEF Deliver, Served
<1>4. CASE UNCHANGED events
  BY <1>4 DEF Served
<1>5. ASSUME NEW a \in Agent,
             Start(a) \/ CheckGenesis \/ PublishGenesis \/ JoinCreator(a) \/ FoldView(a) \/ Crash(a)
      PROVE  UNCHANGED events
  BY <1>5 DEF Start, CheckGenesis, PublishGenesis, JoinCreator, FoldView, Crash
<1>6. CASE (\E r \in FirstRosters : OperatorGenesis(r)) \/ \E r \in Rosters : PublishRosterUpdate(r)
  BY <1>4, <1>6 DEF OperatorGenesis, PublishRosterUpdate
<1>7. QED
  BY <1>1, <1>2, <1>3, <1>4, <1>5, <1>6 DEF Next, DaemonStep, vars

\* Only a pass of fold_view changes a view.
LEMMA ViewSteps ==
  ASSUME [Next]_vars
  PROVE  \/ UNCHANGED view
         \/ \E a \in Agent : Genesis(chains[a]) # {} /\ view' = [view EXCEPT ![a] = Fold(a)]
<1>1. ASSUME NEW a \in Agent,
             Start(a) \/ CheckGenesis \/ PublishGenesis \/ JoinCreator(a) \/ AppendEvent(a)
               \/ Deliver(a) \/ Crash(a)
      PROVE  UNCHANGED view
  BY <1>1 DEF Start, CheckGenesis, PublishGenesis, JoinCreator, AppendEvent, Deliver, Crash, daemon
<1>2. ASSUME (\E r \in FirstRosters : OperatorGenesis(r)) \/ \E r \in Rosters : PublishRosterUpdate(r)
      PROVE  UNCHANGED view
  BY <1>2 DEF OperatorGenesis, PublishRosterUpdate, daemon
<1>3. QED
  BY <1>1, <1>2, FoldViewServes DEF Next, DaemonStep, vars

\* Every step keeps what is served founded on what is held.
LEMMA ServedStep ==
  ASSUME Published, Served, [Next]_vars
  PROVE  Served'
<1>1. /\ listed' \in [Agent -> SUBSET Agent] /\ events' \in [Agent -> SUBSET Stamped]
      /\ \A b \in Agent : /\ chains[b] \subseteq chains'[b]
                          /\ listed[b] \subseteq listed'[b] /\ events[b] \subseteq events'[b]
  BY PublishedStep, ListedGrows, EventsGrow
<1>2. \A b \in Agent : Streams(b) \subseteq Streams(b)'
  BY <1>1 DEF Streams, Members
<1>3. CASE UNCHANGED view
  <2>1. \A a \in Agent : \A r \in view'[a].events : Admit(r, view[a].rosters)'
    BY <1>3 DEF Served, Admit
  <2>2. QED
    BY <1>1, <1>2, <1>3, <2>1 DEF Served
<1>4. CASE \E a \in Agent : Genesis(chains[a]) # {} /\ view' = [view EXCEPT ![a] = Fold(a)]
  <2>1. PICK a \in Agent : Genesis(chains[a]) # {} /\ view' = [view EXCEPT ![a] = Fold(a)]
    BY <1>4
  <2>2. PICK v : v = Fold(a)
    OBVIOUS
  <2>3. v.rosters \in chains[a] /\ v.rosters \in Chain /\ Reached(chains[a], v.rosters)
    BY <2>1, <2>2, FoldedChain
  <2>4. \A n \in 1 .. Len(v.rosters) : SubSeq(v.rosters, 1, n) \in chains[a]
    BY <2>3, ReachedPrefixes DEF Published
  <2>5. /\ v \in [rosters: Chain, events: SUBSET Stamped]
        /\ \A r \in v.events : r \in events[a] /\ r.owner \in Streams(a) /\ Admit(r, v.rosters)
    BY <2>2, <2>3 DEF Fold, Served
  <2>6. /\ view' \in [Agent -> [rosters: Chain, events: SUBSET Stamped]] /\ view'[a] = v
        /\ \A b \in Agent \ {a} : view'[b] = view[b]
    BY <2>1, <2>2, <2>5 DEF Served
  <2>7. ASSUME NEW b \in Agent, NEW n \in 1 .. Len(view'[b].rosters)
        PROVE  SubSeq(view'[b].rosters, 1, n) \in chains'[b]
    BY <1>1, <2>4, <2>6 DEF Served
  <2>8. ASSUME NEW b \in Agent, NEW r \in view'[b].events
        PROVE  r \in events'[b] /\ r.owner \in Streams(b)' /\ Admit(r, view[b].rosters)'
    <3>1. CASE b = a
      BY <1>1, <1>2, <2>5, <2>6, <3>1 DEF Admit
    <3>2. CASE b # a
      BY <1>1, <1>2, <2>6, <3>2 DEF Served, Admit
    <3>3. QED
      BY <3>1, <3>2
  <2>9. QED
    BY <1>1, <2>6, <2>7, <2>8 DEF Served
<1>5. QED
  BY <1>3, <1>4, ViewSteps

-----------------------------------------------------------------------------
(* The theorems.                                                            *)

RosterInv == Published /\ Served

\* At the start nothing is published and nothing served.
LEMMA InitRoster == Init => RosterInv
<1> SUFFICES ASSUME Init PROVE RosterInv
  OBVIOUS
<1>1. \A a \in Agent : chains[a] = {} /\ view[a] = NoView
  BY DEF Init
<1>2. chains \in [Agent -> SUBSET Chain] /\ chains[Creator] = {}
  BY <1>1, RosterAssumption DEF Init
<1>3. Published
  BY <1>1, <1>2 DEF Published
<1>4. /\ NoView \in [rosters: Chain, events: SUBSET Stamped]
      /\ NoView.events = {} /\ Len(NoView.rosters) = 0
  BY DEF NoView, Chain
<1>5. /\ listed \in [Agent -> SUBSET Agent] /\ events \in [Agent -> SUBSET Stamped]
      /\ view \in [Agent -> [rosters: Chain, events: SUBSET Stamped]]
  BY <1>4 DEF Init
<1>6. Served
  BY <1>1, <1>4, <1>5 DEF Served
<1>7. QED
  BY <1>3, <1>6 DEF RosterInv

\* What is published stays in line and what is served stays founded on it, in
\* every reachable state (publish_genesis, publish_roster_update, fold_view).
THEOREM RosterInvHolds == Spec => []RosterInv
<1>1. RosterInv /\ [Next]_vars => RosterInv'
  BY PublishedStep, ServedStep DEF RosterInv
<1>2. QED
  BY <1>1, InitRoster, PTL DEF Spec

\* On one line of updates the shorter of two chains is a prefix of the longer.
LEMMA Comparable ==
  ASSUME Published, ~Forked, NEW c \in Chain, NEW d \in Chain,
         c = <<>> \/ c \in chains[Creator], d = <<>> \/ d \in chains[Creator], Len(c) <= Len(d)
  PROVE  IsPrefix(c, d)
<1>1. Len(c) \in Nat /\ Len(d) \in Nat /\ SubSeq(c, 1, Len(c)) = c
  BY SubSeqFull DEF Chain
<1>2. CASE c = <<>>
  <2>1. Len(c) = 0
    BY <1>2
  <2>2. SubSeq(d, 1, 0) = <<>>
    BY SubSeqEmpty
  <2>3. QED
    BY <1>1, <1>2, <2>1, <2>2 DEF IsPrefix
<1>3. CASE c # <<>>
  <2>1. Len(c) \in 1 .. Len(d) /\ d \in chains[Creator]
    BY <1>1, <1>3 DEF Published
  <2>2. SubSeq(d, 1, Len(c)) \in chains[Creator]
    BY <2>1 DEF Published
  <2>3. Len(SubSeq(d, 1, Len(c))) = Len(c)
    BY <1>1, <2>1, Prefix DEF Chain
  <2>4. SubSeq(d, 1, Len(c)) = c
    BY <1>3, <2>2, <2>3 DEF Published
  <2>5. QED
    BY <1>1, <2>4 DEF IsPrefix
<1>4. QED
  BY <1>2, <1>3

\* A served chain is a published one.
LEMMA ServedChain ==
  ASSUME RosterInv, NEW a \in Agent
  PROVE  /\ view[a].rosters \in Chain /\ Len(view[a].rosters) \in Nat
         /\ view[a].rosters = <<>> \/ view[a].rosters \in chains[Creator]
<1>1. PICK s : s = view[a].rosters
  OBVIOUS
<1>2. s \in Chain /\ Len(s) \in Nat /\ SubSeq(s, 1, Len(s)) = s
  <2>1. s \in Chain
    BY <1>1 DEF RosterInv, Served
  <2>2. QED
    BY <2>1, SubSeqFull DEF Chain
<1>3. CASE s # <<>>
  <2>1. Len(s) \in 1 .. Len(s)
    BY <1>2, <1>3 DEF Chain
  <2>2. SubSeq(s, 1, Len(s)) \in chains[a]
    BY <1>1, <2>1 DEF RosterInv, Served
  <2>3. QED
    BY <1>1, <1>2, <2>2 DEF RosterInv, Published
<1>4. QED
  BY <1>1, <1>2, <1>3

\* Any two daemons' chains of rosters agree as far as both reach, for every
\* number of daemons and updates, whatever each has received and in whatever
\* order, unless the creator forked the chain (build_roster_chain).
THEOREM RostersNeverDisagree == Spec => []RostersAgree
<1>1. RosterInv => RostersAgree
  <2> SUFFICES ASSUME RosterInv, ~Forked, NEW a \in Agent, NEW b \in Agent
               PROVE  \/ IsPrefix(view[a].rosters, view[b].rosters)
                      \/ IsPrefix(view[b].rosters, view[a].rosters)
    BY DEF RostersAgree
  <2>1. PICK c \in Chain, d \in Chain : c = view[a].rosters /\ d = view[b].rosters
    BY ServedChain
  <2>2. Len(c) <= Len(d) \/ Len(d) <= Len(c)
    BY DEF Chain
  <2>3. IsPrefix(c, d) \/ IsPrefix(d, c)
    BY <2>1, <2>2, ServedChain, Comparable DEF RosterInv
  <2>4. QED
    BY <2>1, <2>3
<1>2. QED
  BY <1>1, RosterInvHolds, PTL

\* A later fold reaches at least as far as an earlier one.
LEMMA FoldReaches ==
  ASSUME RosterInv, ~Forked, NEW a \in Agent, Genesis(chains[a]) # {}
  PROVE  Len(view[a].rosters) <= Len(Fold(a).rosters)
<1>1. PICK v, w : v = view[a].rosters /\ w = Fold(a).rosters
  OBVIOUS
<1>2. PICK C \in SUBSET Chain : C = chains[a]
  BY DEF RosterInv, Published
<1>3. /\ w \in C /\ w \in Chain /\ Len(w) \in 1 .. MaxEpoch + 1
      /\ \A d \in C : Linked(C, w) # {d}
  BY <1>1, <1>2, FoldedChain DEF RosterInv
<1>4. v \in Chain /\ Len(v) \in Nat
  BY <1>1, ServedChain
<1>5. \A c, d \in C : Len(c) = Len(d) => c = d
  BY <1>2 DEF RosterInv, Published
<1>6. ASSUME ~(Len(v) <= Len(w)) PROVE FALSE
  <2>1. Len(w) \in 1 .. Len(v) /\ Len(w) + 1 \in 1 .. Len(v)
    BY <1>3, <1>4, <1>6
  <2>2. PICK p : p = SubSeq(v, 1, Len(w) + 1)
    OBVIOUS
  <2>3. p \in C /\ SubSeq(v, 1, Len(w)) \in C
    BY <1>1, <1>2, <2>1, <2>2 DEF RosterInv, Served
  <2>4. Len(p) = Len(w) + 1 /\ Len(SubSeq(v, 1, Len(w))) = Len(w)
    BY <1>4, <2>1, <2>2, Prefix DEF Chain
  <2>5. SubSeq(v, 1, Len(w)) = w
    BY <1>3, <1>5, <2>3, <2>4
  <2>6. SubSeq(p, 1, Len(w)) = SubSeq(v, 1, Len(w))
    BY <1>3, <1>4, <2>1, <2>2, PrefixOfPrefix DEF Chain
  <2>7. Front(p) = w
    <3>1. Len(p) - 1 = Len(w)
      BY <1>3, <2>4
    <3>2. QED
      BY <2>5, <2>6, <3>1 DEF Front
  <2>8. Linked(C, w) = {p}
    BY <1>5, <2>3, <2>4, <2>7 DEF Linked
  <2>9. QED
    BY <1>3, <2>3, <2>8
<1>7. QED
  BY <1>1, <1>6

\* What a daemon has served it serves ever after, for every number of daemons,
\* updates and crashes: admission by epoch keeps a removed member's records, and
\* a longer chain extends the shorter (fold_view, Admit).
THEOREM ServedForGood == Spec => ServedStays
<1>1. ASSUME RosterInv, RosterInv', [Next]_vars, ~Forked', NEW a \in Agent
      PROVE  IsPrefix(view[a].rosters, view'[a].rosters) /\ view[a].events \subseteq view'[a].events
  <2>1. CASE view'[a] = view[a]
    BY <2>1, ServedChain DEF IsPrefix
  <2>2. CASE Genesis(chains[a]) # {} /\ view'[a] = Fold(a)
    <3>1. ~Forked
      BY PublishedStep, RosterAssumption, <1>1 DEF Forked, RosterInv
    <3>2. PICK v \in Chain, w \in Chain : v = view[a].rosters /\ w = Fold(a).rosters
      BY <1>1, <2>2, ServedChain, FoldedChain DEF RosterInv
    <3>3. IsPrefix(v, w)
      <4>1. w \in chains[Creator]
        BY <1>1, <2>2, <3>2, FoldedChain DEF RosterInv, Published
      <4>2. v = <<>> \/ v \in chains[Creator]
        BY <1>1, <3>2, ServedChain
      <4>3. Len(v) <= Len(w)
        BY <1>1, <2>2, <3>1, <3>2, FoldReaches, SMTT(30)
      <4>4. QED
        BY <1>1, <3>1, <4>1, <4>2, <4>3, Comparable DEF RosterInv
    <3>4. ASSUME NEW r \in view[a].events PROVE r \in Fold(a).events
      <4>1. r \in events[a] /\ r.owner \in Streams(a) /\ Admit(r, v)
        BY <1>1, <3>2 DEF RosterInv, Served
      <4>2. Admit(r, w)
        <5>1. PICK e : e = r.epoch + 1
          OBVIOUS
        <5>2. e \in 1 .. Len(v) /\ r.owner \in v[e]
          BY <4>1, <5>1 DEF Admit, Chain
        <5>3. Len(v) <= Len(w) /\ SubSeq(v, 1, Len(v)) = SubSeq(w, 1, Len(v))
          BY <3>3 DEF IsPrefix
        <5>4. Len(v) \in 0 .. Len(w) /\ Len(v) \in 0 .. Len(v)
          BY <5>3 DEF Chain
        <5>5. w[e] = v[e]
          BY <5>2, <5>3, <5>4, Prefix DEF Chain
        <5>6. e \in DOMAIN w
          BY <5>2, <5>4 DEF Chain
        <5>7. QED
          BY <5>1, <5>2, <5>5, <5>6 DEF Admit
      <4>3. Fold(a).events = {x \in events[a] : x.owner \in Streams(a) /\ Admit(x, w)}
        BY <3>2 DEF Fold
      <4>4. QED
        BY <4>1, <4>2, <4>3
    <3>5. QED
      BY <2>2, <3>2, <3>3, <3>4
  <2>3. QED
    <3>1. ASSUME NEW b \in Agent, view' = [view EXCEPT ![b] = Fold(b)]
          PROVE  view'[a] = IF a = b THEN Fold(a) ELSE view[a]
      BY <1>1, <3>1 DEF RosterInv, Served
    <3>2. QED
      BY <1>1, <2>1, <2>2, <3>1, ViewSteps
<1>2. RosterInv /\ RosterInv' /\ [Next]_vars =>
        [Forked' \/ \A a \in Agent : /\ IsPrefix(view[a].rosters, view'[a].rosters)
                                     /\ view[a].events \subseteq view'[a].events]_vars
  BY <1>1
<1>3. QED
  BY <1>2, RosterInvHolds, PTL DEF Spec, ServedStays
=============================================================================
