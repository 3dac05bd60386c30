------------------------------ MODULE V2Roster ------------------------------
(***************************************************************************)
(* Who may write a v2 list, and how a daemon learns it (v2/store.rs,       *)
(* v2/tracker.rs: ensure_surfaces, fold_view, join_new_members;            *)
(* v2/fold.rs: genesis, roster chain, admission by epoch).  Each agent     *)
(* keeps its records in an event store of its own; a daemon reads the      *)
(* stores it has joined.  The creator's store holds the genesis manifest   *)
(* and the chain of roster updates that name the other stores to join, so  *)
(* a reader folds, joins what the fold names, and folds again.             *)
(*                                                                         *)
(* A roster update commits to its predecessor by hash.  Here a record of   *)
(* the chain IS the sequence of rosters it commits to: <<r0>> is the       *)
(* genesis, and Append(c, r) the update that follows c.  An author's key   *)
(* (card-self) is the first record of its store and carries nothing else:  *)
(* a stream whose key has not arrived is inadmissible as a whole, as if    *)
(* none of it had arrived, so the key is not a record of its own here.     *)
(***************************************************************************)
EXTENDS Naturals, FiniteSets, SequencesExt

CONSTANTS
  Agent, Creator,
  OldDaemon,         \* agents whose x0xd ignores the append_only policy
  Author,            \* the agents whose users write records, one each
  FirstRosters,      \* the rosters an operator may put in a genesis
  Rosters,           \* the rosters an operator may publish in updates
  MaxEpoch,          \* bound on the length of the chain
  MaxPublishes,      \* bound on the operator's roster updates
  MaxRosterMembers,  \* FoldLimits::max_roster_members
  MaxJoinPasses,     \* MAX_JOIN_PASSES
  MaxFaults          \* bound on failing calls and restarts

VARIABLES
  listed,   \* listed[a]: owners of the stores a's x0xd lists (created or joined)
  chains,   \* chains[a]: the genesis and roster updates a's x0xd holds
  events,   \* events[a]: the other records it holds, its own store's included
  joined,   \* joined[a]: V2Tracker::joined
  proc,     \* proc[a]: where a's daemon is
  view,     \* view[a]: the last fold a served
  refused,  \* refused[a]: a's last call was refused
  publishes, faults

daemon == <<joined, proc, view, refused>>
vars == <<listed, chains, events, joined, proc, view, refused, publishes, faults>>

ASSUME RosterAssumption ==
  /\ Creator \in Agent /\ OldDaemon \subseteq Agent /\ Author \subseteq Agent
  /\ FirstRosters \cup Rosters \subseteq SUBSET Agent \ {{}}
  /\ {MaxEpoch, MaxPublishes, MaxRosterMembers, MaxJoinPasses, MaxFaults} \subseteq Nat

\* A record of an author's store: who wrote it, and the roster epoch it names.
Record == [owner : Agent, epoch : 0 .. MaxEpoch]

NoView == [rosters |-> <<>>, events |-> {}]
Stopped == [at |-> "down", pass |-> 0]

Genesis(C) == {c \in C : Len(c) = 1}

-----------------------------------------------------------------------------
(* The reader's pure part.                                                  *)

\* The updates of C that follow the chain c.
Linked(C, c) == {d \in C : Len(d) = Len(c) + 1 /\ Front(d) = c}

\* From the genesis on, one update links after every roster of the walk before c.
Reached(C, c) ==
  /\ SubSeq(c, 1, 1) \in C
  /\ \A n \in 1 .. Len(c) - 1 : Linked(C, SubSeq(c, 1, n)) = {SubSeq(c, 1, n + 1)}

\* The one update that links extends the chain; none, or two (the creator forked
\* it), end it.
RosterChain(C) == CHOOSE c \in C : Reached(C, c) /\ \A d \in C : Linked(C, c) # {d}

\* Every member some payload in the creator's store names, verified or not.
Members(C) == UNION {Last(c) : c \in C}

VerifyStoreAnchor(a, o) == o \in listed[a] /\ o \notin OldDaemon

\* The streams a can read; a store that a does not list is skipped.
Streams(a) == {Creator} \cup (Members(chains[a]) \cap listed[a])

ReadFails(a) ==
  \/ \E o \in Streams(a) : ~VerifyStoreAnchor(a, o)
  \/ Cardinality(Members(chains[a])) > MaxRosterMembers

\* The list is refused as a whole.
FoldRefuses(a) ==
  \/ \E c \in chains[a] : Cardinality(Last(c)) > MaxRosterMembers
  \/ IF Genesis(chains[a]) = {} THEN TRUE
     ELSE Cardinality(UNION Range(RosterChain(chains[a]))) > MaxRosterMembers

\* A mutated admission: membership in the current roster, not in the one named.
AdmitNow(r, rosters) == r.owner \in Last(rosters)

\* Membership at the epoch the record names.
Admit(r, rosters) == r.epoch + 1 \in DOMAIN rosters /\ r.owner \in rosters[r.epoch + 1]

Fold(a) ==
  LET rosters == RosterChain(chains[a])
  IN [rosters |-> rosters,
      events |-> {r \in events[a] : r.owner \in Streams(a) /\ Admit(r, rosters)}]

Named(v) == v.rosters[1] \cup Last(v.rosters)

-----------------------------------------------------------------------------

Init ==
  /\ listed = [a \in Agent |-> {}]
  /\ chains = [a \in Agent |-> {}]
  /\ events = [a \in Agent |-> {}]
  /\ joined = [a \in Agent |-> {}]
  /\ proc = [a \in Agent |-> Stopped]
  /\ view = [a \in Agent |-> NoView]
  /\ refused = [a \in Agent |-> FALSE]
  /\ publishes = 0
  /\ faults = 0

Goto(a, at) == proc' = [proc EXCEPT ![a] = [Stopped EXCEPT !.at = at]]

PutOnce(c) == chains' = [chains EXCEPT ![Creator] = @ \cup {c}]

Join(a, o) == listed' = [listed EXCEPT ![a] = @ \cup {o}]

\* ensure_own_store: created or found, anchored, and the author's key published; a
\* daemon whose x0xd did not honour the policy does not start.
Start(a) ==
  /\ proc[a].at = "down"
  /\ Join(a, a)
  /\ IF a \in OldDaemon THEN UNCHANGED proc ELSE Goto(a, "surfaces")
  /\ UNCHANGED <<chains, events, joined, view, refused, publishes, faults>>

\* The creator's branch of ensure_surfaces: a genesis is due when the fold refuses.
CheckGenesis ==
  /\ proc[Creator].at = "surfaces"
  /\ Goto(Creator, IF ReadFails(Creator) THEN "down"
                   ELSE IF FoldRefuses(Creator) THEN "publish" ELSE "up")
  /\ UNCHANGED <<listed, chains, events, joined, view, refused, publishes, faults>>

\* A mutated put: the daemon's own genesis replaces one that appeared meanwhile.
PublishGenesisOver ==
  /\ proc[Creator].at = "publish"
  /\ chains' = [chains EXCEPT ![Creator] = (@ \ Genesis(@)) \cup {<<{Creator}>>}]
  /\ Goto(Creator, "up")
  /\ UNCHANGED <<listed, events, joined, view, refused, publishes, faults>>

\* put_once: a genesis that appeared since the check is a conflict, and the daemon exits.
PublishGenesis ==
  /\ proc[Creator].at = "publish"
  /\ IF Genesis(chains[Creator]) = {}
       THEN PutOnce(<<{Creator}>>) /\ Goto(Creator, "up")
       ELSE Goto(Creator, "down") /\ UNCHANGED chains
  /\ UNCHANGED <<listed, events, joined, view, refused, publishes, faults>>

\* The member's branch: one attempt to join the creator's store, failure tolerated.
JoinCreator(a) ==
  /\ a # Creator /\ proc[a].at = "surfaces"
  /\ \/ Creator \in listed[Creator] /\ Join(a, Creator) /\ UNCHANGED faults
     \/ Creator \notin listed[Creator] /\ UNCHANGED <<listed, faults>>
     \/ /\ Creator \in listed[Creator] /\ faults < MaxFaults
        /\ faults' = faults + 1 /\ UNCHANGED listed
  /\ Goto(a, "up")
  /\ UNCHANGED <<chains, events, joined, view, refused, publishes>>

\* The call that asked for the view fails.  The poll loop and the orphan sweep of
\* the start pass the error on, and the daemon exits; reconcile, the reaper and an
\* API request leave it running.
Refuse(a, in) ==
  /\ \/ Goto(a, "up") /\ joined' = [joined EXCEPT ![a] = in]
     \/ Goto(a, "down") /\ joined' = [joined EXCEPT ![a] = {}]
  /\ refused' = [refused EXCEPT ![a] = TRUE]
  /\ UNCHANGED view

Serve(a, out, in) ==
  /\ Goto(a, "up")
  /\ joined' = [joined EXCEPT ![a] = in]
  /\ refused' = [refused EXCEPT ![a] = FALSE]
  /\ view' = [view EXCEPT ![a] = out]

\* The members join_new_members tries, of those whose join can succeed.
Joinable(a, out) == {o \in Named(out) \ (joined[a] \cup {a}) : o \in listed[o]}

\* Nothing new: the view is served.  Otherwise the list is read again, and the
\* view refused when that has happened MaxJoinPasses times.
AfterJoin(a, out, new, in) ==
  CASE new = {} -> Serve(a, out, in)
    [] new # {} /\ proc[a].pass < MaxJoinPasses ->
         /\ proc' = [proc EXCEPT ![a].pass = @ + 1]
         /\ joined' = [joined EXCEPT ![a] = in]
         /\ UNCHANGED <<view, refused>>
    [] OTHER -> Refuse(a, in)

\* A mutated loop that counts every member it tried as joined.
JoinNewMembersTried(a, out, can) ==
  /\ can \cap OldDaemon = {}
  /\ \E new \in SUBSET can :
       /\ new # can => faults < MaxFaults
       /\ faults' = IF new = can THEN faults ELSE faults + 1
       /\ listed' = [listed EXCEPT ![a] = @ \cup new]
       /\ AfterJoin(a, out, new, joined[a] \cup Named(out))

\* A member that is absent, or whose join fails, is skipped.
JoinNewMembers(a, out, can) ==
  /\ can \cap OldDaemon = {}
  /\ \E new \in SUBSET can :
       /\ new # can => faults < MaxFaults
       /\ faults' = IF new = can THEN faults ELSE faults + 1
       /\ listed' = [listed EXCEPT ![a] = @ \cup new]
       /\ AfterJoin(a, out, new, joined[a] \cup new)

\* A member store listed with the wrong policy fails the whole view, after the
\* members before it in the loop were joined.
AnchorFails(a, can) ==
  /\ \E o \in can \cap OldDaemon : \E new \in SUBSET (can \ OldDaemon) :
       /\ listed' = [listed EXCEPT ![a] = @ \cup new \cup {o}]
       /\ Refuse(a, joined[a] \cup new)
  /\ UNCHANGED faults

\* One pass of fold_view, in a call of the poll loop or of the API: read, fold,
\* join.  It is one step: the joins look only at the fold and at which stores
\* exist, so what reaches a between its read and its joins may as well come after.
FoldView(a) ==
  /\ proc[a].at = "up"
  /\ IF ReadFails(a) \/ FoldRefuses(a)
       THEN Refuse(a, joined[a]) /\ UNCHANGED <<listed, faults>>
       ELSE LET out == Fold(a)
                can == Joinable(a, out)
            IN JoinNewMembers(a, out, can) \/ AnchorFails(a, can)
  /\ UNCHANGED <<chains, events, publishes>>

\* A served call appends: the record names the latest epoch of its fold.
AppendEvent(a) ==
  /\ a \in Author
  /\ proc[a].at = "up" /\ proc[a].pass = 0 /\ ~refused[a] /\ view[a] # NoView
  /\ \A r \in events[a] : r.owner # a
  /\ events' = [events EXCEPT ![a] = @ \cup {[owner |-> a, epoch |-> Len(view[a].rosters) - 1]}]
  /\ UNCHANGED <<listed, chains, daemon, publishes, faults>>

-----------------------------------------------------------------------------
(* The operator at the creator's machine.                                   *)

\* publish_genesis with a roster of the operator's, after ensure_own_store.
OperatorGenesis(r) ==
  /\ Creator \notin OldDaemon
  /\ Genesis(chains[Creator]) = {}
  /\ Join(Creator, Creator)
  /\ PutOnce(<<r>>)
  /\ UNCHANGED <<events, daemon, publishes, faults>>

\* publish_roster_update: epoch and previous hash are the caller's, who may have
\* them from any update it has seen or made, the latest or not.
PublishRosterUpdate(r) ==
  /\ publishes < MaxPublishes
  /\ \E b \in chains[Creator] : Len(b) <= MaxEpoch /\ PutOnce(Append(b, r))
  /\ publishes' = publishes + 1
  /\ UNCHANGED <<listed, events, daemon, faults>>

(* The world outside.                                                       *)

\* Replication: a's x0xd receives a record of a store that it lists.
Deliver(a) ==
  /\ \/ /\ Creator \in listed[a]
        /\ \E c \in chains[Creator] \ chains[a] : chains' = [chains EXCEPT ![a] = @ \cup {c}]
        /\ UNCHANGED events
     \/ /\ \E o \in listed[a] : \E r \in events[o] \ events[a] :
             r.owner = o /\ events' = [events EXCEPT ![a] = @ \cup {r}]
        /\ UNCHANGED chains
  /\ UNCHANGED <<listed, daemon, publishes, faults>>

\* The daemon dies; its x0xd, and the stores that lists, stay.
Crash(a) ==
  /\ proc[a].at # "down" /\ faults < MaxFaults
  /\ faults' = faults + 1
  /\ joined' = [joined EXCEPT ![a] = {}]
  /\ Goto(a, "down")
  /\ UNCHANGED <<listed, chains, events, view, refused, publishes>>

DaemonStep(a) ==
  \/ a = Creator /\ (CheckGenesis \/ PublishGenesis)
  \/ JoinCreator(a) \/ FoldView(a)

Next ==
  \/ \E a \in Agent : Start(a) \/ DaemonStep(a) \/ AppendEvent(a) \/ Deliver(a) \/ Crash(a)
  \/ \E r \in FirstRosters : OperatorGenesis(r)
  \/ \E r \in Rosters : PublishRosterUpdate(r)

Spec == Init /\ [][Next]_vars

\* x0xd replicates what it lists.  A daemon that runs goes on through its start and
\* its poll loop goes on calling; one that has exited need not be started again.
Fairness ==
  /\ \A a \in Agent \ OldDaemon : WF_vars(DaemonStep(a)) /\ WF_vars(Deliver(a))

FairSpec == Spec /\ Fairness

-----------------------------------------------------------------------------

TypeOK ==
  /\ listed \in [Agent -> SUBSET Agent]
  /\ \A a \in Agent : \A c \in chains[a] : c \in Seq(SUBSET Agent) /\ Len(c) \in 1 .. MaxEpoch + 1
  /\ events \in [Agent -> SUBSET Record]
  /\ joined \in [Agent -> SUBSET Agent]
  /\ \A a \in Agent :
       /\ proc[a].at \in {"down", "surfaces", "publish", "up"}
       /\ proc[a].pass \in 0 .. MaxJoinPasses
  /\ refused \in [Agent -> BOOLEAN]
  /\ publishes \in 0 .. MaxPublishes /\ faults \in 0 .. MaxFaults

\* The creator has published two updates that follow the same roster.
Forked == \E c, d \in chains[Creator] : c # d /\ Len(c) > 1 /\ Len(d) > 1 /\ Front(c) = Front(d)

\* Any two daemons' served chains agree as far as both reach, whatever each has
\* received and in whatever order, unless the creator published two updates
\* over one epoch (build_roster_chain, put_once of the genesis).
RostersAgree ==
  Forked \/ \A a, b \in Agent : \/ IsPrefix(view[a].rosters, view[b].rosters)
                                \/ IsPrefix(view[b].rosters, view[a].rosters)

\* What a daemon has once served it serves ever after, across crashes and
\* whatever rosters follow: a later fold has no fewer records, a removed member's
\* included, and its chain extends the earlier one (fold_view, admission by epoch).
ServedStays ==
  [][Forked' \/ \A a \in Agent : /\ IsPrefix(view[a].rosters, view'[a].rosters)
                                 /\ view[a].events \subseteq view'[a].events]_vars

\* A daemon that runs (no refusal has ended it), whose one attempt at the creator's
\* store succeeded, and which has joined no store of the wrong policy.
Reader(a) == proc[a].at = "up" /\ Creator \in listed[a] /\ listed[a] \cap OldDaemon = {}

Agree(a, b) ==
  /\ refused[a] = refused[b]
  /\ ~refused[a] =>
       /\ view[a].rosters = view[b].rosters
       /\ \A r \in view[a].events \cup view[b].events :
            r.owner \in Named(view[a]) => r \in view[a].events \cap view[b].events

\* Once the operator, the authors and the faults are quiet, the readers that still
\* run, restarted ones included, serve the same rosters and the same records of the
\* members of the genesis roster and of the current one, or all refuse the list: no
\* fork, late join, pass that ran into its bound, refusal, exit or crash leaves two
\* of them apart for good.
ViewsConverge == <>[](\A a, b \in Agent : Reader(a) /\ Reader(b) => Agree(a, b))
=============================================================================
