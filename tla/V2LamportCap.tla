--------------------------- MODULE V2LamportCap ---------------------------
(***************************************************************************)
(* The lamport future-dating cap of fold_v2 (apply_lamport_cap in          *)
(* v2/fold.rs): passes over the surviving records in fold order, each      *)
(* marking the records that outrun the running maximum, until a pass marks *)
(* nothing.                                                                *)
(***************************************************************************)
EXTENDS V2Events

CONSTANTS
  Skew,      \* LAMPORT_MAX_SKEW
  Inputs     \* the chained records the cap may be given

\* chain_author lets through at most one record for each author and seq.
OneRecordPerSeq(E) ==
  \A g, h \in DOMAIN E : E[g].author = E[h].author /\ E[g].seq = E[h].seq => g = h

ASSUME CapAssumption ==
  /\ Skew \in Nat
  /\ \A E \in Inputs : /\ DOMAIN E \subseteq Hash
                        /\ \A h \in DOMAIN E : E[h] \in Event
                        /\ OneRecordPerSeq(E)

VARIABLES
  chained,          \* the records that passed the author chains
  survivors,        \* hashes not rejected yet
  ahead,            \* hashes this pass has still to look at
  running_max,      \* the highest lamport this pass admitted
  truncate_from,    \* author -> lowest seq this pass marked
  marked,           \* lamport_rejected
  rejections,       \* hashes removed by earlier passes
  done              \* the loop returned

vars == <<chained, survivors, ahead, running_max, truncate_from, marked, rejections, done>>

StartPass(S) ==
  /\ ahead' = S
  /\ running_max' = 0
  /\ truncate_from' = [a \in {} |-> 0]
  /\ marked' = {}

Init ==
  /\ chained \in Inputs
  /\ survivors = DOMAIN chained
  /\ ahead = survivors
  /\ running_max = 0
  /\ truncate_from = [a \in {} |-> 0]
  /\ marked = {}
  /\ rejections = {}
  /\ done = FALSE

Visit(h) ==
  LET e == chained[h]
      from == IF e.author \in DOMAIN truncate_from /\ truncate_from[e.author] < e.seq
              THEN truncate_from[e.author] ELSE e.seq
  IN /\ h \in ahead
     /\ \A g \in ahead \ {h} : Before(chained, h, g)
     /\ ahead' = ahead \ {h}
     /\ \/ /\ e.lamport > running_max + Skew
           /\ marked' = marked \cup {h}
           /\ truncate_from' = [a \in DOMAIN truncate_from \cup {e.author} |->
                                  IF a = e.author THEN from ELSE truncate_from[a]]
           /\ UNCHANGED running_max
        \/ /\ e.lamport <= running_max + Skew
           /\ running_max' = IF e.lamport > running_max THEN e.lamport ELSE running_max
           /\ UNCHANGED <<marked, truncate_from>>
     /\ UNCHANGED <<chained, survivors, rejections, done>>

\* Truncation that starts after the marked record's successor.
LateTruncation(h) ==
  LET e == chained[h]
  IN e.author \in DOMAIN truncate_from /\ e.seq > truncate_from[e.author] + 1

\* Truncation that drops the author's whole chain.
WholeChain(h) == chained[h].author \in DOMAIN truncate_from

Truncated(h) ==
  LET e == chained[h]
  IN e.author \in DOMAIN truncate_from /\ e.seq >= truncate_from[e.author]

\* A pass that starts over without removing what it marked.
ForgetfulEndPass ==
  /\ ~done
  /\ ahead = {}
  /\ \/ DOMAIN truncate_from = {} /\ done' = TRUE
        /\ UNCHANGED <<ahead, running_max, truncate_from, marked>>
     \/ DOMAIN truncate_from # {} /\ StartPass(survivors) /\ UNCHANGED done
  /\ UNCHANGED <<chained, survivors, rejections>>

EndPass ==
  /\ ~done
  /\ ahead = {}
  /\ \/ /\ DOMAIN truncate_from = {}
        /\ done' = TRUE
        /\ UNCHANGED <<survivors, ahead, running_max, truncate_from, marked, rejections>>
     \/ /\ DOMAIN truncate_from # {}
        /\ LET out == {h \in survivors : h \in marked \/ Truncated(h)}
           IN /\ survivors' = survivors \ out
              /\ rejections' = rejections \cup out
              /\ StartPass(survivors \ out)
        /\ UNCHANGED done
  /\ UNCHANGED chained

Next == (\E h \in ahead : Visit(h)) \/ EndPass

\* A pure function of the fold: nothing can stop the loop from running on.
Spec == Init /\ [][Next]_vars /\ WF_vars(Next)

-----------------------------------------------------------------------------

TypeOK ==
  /\ DOMAIN chained \subseteq Hash
  /\ \A h \in DOMAIN chained : chained[h] \in Event
  /\ OneRecordPerSeq(chained)
  /\ survivors \subseteq DOMAIN chained
  /\ ahead \subseteq survivors
  /\ running_max \in Nat
  /\ DOMAIN truncate_from \subseteq Agent
  /\ \A a \in DOMAIN truncate_from : truncate_from[a] \in Nat
  /\ marked \subseteq survivors
  /\ rejections = DOMAIN chained \ survivors
  /\ done \in BOOLEAN

\* Within reach of the records of T below it, or of zero.
WithinReach(T, h) ==
  \/ chained[h].lamport <= Skew
  \/ \E g \in T : /\ chained[g].lamport < chained[h].lamport
                  /\ chained[h].lamport <= chained[g].lamport + Skew

\* A set of records that holds up by itself: no author's chain has a hole,
\* and no record needs one outside the set to be within reach.
SelfSustaining(T) ==
  /\ \A h \in T : WithinReach(T, h)
  /\ \A h \in T, g \in DOMAIN chained :
       chained[g].author = chained[h].author /\ chained[g].seq < chained[h].seq => g \in T

(***************************************************************************)
(* What the cap returns holds up by itself: no surviving record was within *)
(* the horizon only thanks to a record that was itself rejected, and an    *)
(* author's surviving records are a prefix of its chain.                   *)
(***************************************************************************)
OnlySurvivorsWidenTheHorizon == done => SelfSustaining(survivors)

(***************************************************************************)
(* The cap rejects no more than it must: a set of records that holds up by *)
(* itself survives, whatever else the list holds.  With                    *)
(* OnlySurvivorsWidenTheHorizon this makes the result the one greatest     *)
(* such set, so it does not depend on the order of the input.              *)
(***************************************************************************)
NoSustainedRecordIsRejected ==
  \A T \in SUBSET DOMAIN chained : SelfSustaining(T) => T \subseteq survivors

\* The loop comes to an end.
CapTerminates == <>done
=============================================================================
