-------------------------- MODULE WorkerViewProofs --------------------------
(***************************************************************************)
(* For every set of workers and whatever happens to the gossip, x0xd and   *)
(* the daemon: within one process the view's epoch names one set of        *)
(* visible workers, a slate names the closest live workers, and (if cards  *)
(* are sent and handled in time) every worker is visible again a fixed     *)
(* time after the last disturbance, and from then on at every instant.     *)
(***************************************************************************)
EXTENDS WorkerView, FiniteSetTheorems, TLAPS

\* (e, s) was the epoch and the visible set at some earlier moment, if (f, t) is a
\* later such pair: the epoch has moved on, or the set is still the same.
Precedes(e, s, f, t) == e \in Nat /\ f \in Nat /\ e <= f /\ (e = f => s = t)

\* The last issue precedes the creation under way, and both precede the view.
EpochInv ==
  /\ epoch \in Nat
  /\ job # None => DOMAIN job = {"cards", "epoch"}
  /\ job # None => Precedes(job.epoch, DOMAIN job.cards, epoch, DOMAIN view)
  /\ issue # None => Precedes(issue.epoch, issue.seen, epoch, DOMAIN view)
  /\ (job # None /\ issue # None) =>
       Precedes(issue.epoch, issue.seen, job.epoch, DOMAIN job.cards)

\* The view's set changes only with the epoch.
Moves ==
  /\ epoch' \in Nat /\ epoch <= epoch'
  /\ epoch' = epoch => DOMAIN view' = DOMAIN view

\* insert_local_card and insert_verified move the epoch for a new agent.
LEMMA InsertMoves ==
  ASSUME EpochInv, NEW w, NEW age, Insert(w, age)
  PROVE  Moves
<1>1. DOMAIN view' = DOMAIN view \cup {w}
  BY DEF Insert
<1>2. CASE w \in DOMAIN view
  BY <1>1, <1>2 DEF Insert, EpochInv, Moves
<1>3. CASE w \notin DOMAIN view
  BY <1>1, <1>3 DEF Insert, BumpEpoch, EpochInv, Moves
<1>4. QED
  BY <1>2, <1>3

\* reap_expired moves it for every set it shrinks.
LEMMA ReapMoves ==
  ASSUME EpochInv, ReapExpired
  PROVE  Moves
<1>1. CASE view' = view
  BY <1>1 DEF ReapExpired, EpochInv, Moves
<1>2. CASE view' # view
  BY <1>2 DEF ReapExpired, BumpEpoch, EpochInv, Moves
<1>3. QED
  BY <1>1, <1>2

\* What was recorded earlier stays earlier.
LEMMA MovesKeep ==
  ASSUME EpochInv, Moves, UNCHANGED <<job, issue>>
  PROVE  EpochInv'
  BY DEF EpochInv, Moves, Precedes

\* The snapshot records the pair of this moment.
LEMMA SnapshotKeeps ==
  ASSUME EpochInv, SnapshotView
  PROVE  EpochInv'
<1>1. Moves
  BY ReapMoves DEF SnapshotView
<1>2. /\ DOMAIN job' = {"cards", "epoch"} /\ job'.epoch = epoch' /\ job'.cards = view'
      /\ UNCHANGED issue
  BY DEF SnapshotView
<1>3. Precedes(job.epoch, DOMAIN job.cards, epoch, DOMAIN view)'
  BY <1>1, <1>2 DEF Moves, Precedes
<1>4. issue' # None => Precedes(issue.epoch, issue.seen, epoch, DOMAIN view)'
  BY <1>1, <1>2 DEF EpochInv, Moves, Precedes
<1>5. QED
  BY <1>1, <1>2, <1>3, <1>4 DEF EpochInv, Moves

\* The creation records the pair of its snapshot, or nothing.
LEMMA CreateKeeps ==
  ASSUME EpochInv, CreateIssue
  PROVE  /\ EpochInv'
         /\ (issue # None /\ issue'.epoch = issue.epoch) => issue'.seen = issue.seen
<1>1. job # None /\ job' = None /\ UNCHANGED <<view, epoch>>
  BY DEF CreateIssue
<1>2. CASE UNCHANGED issue
  BY <1>1, <1>2 DEF EpochInv
<1>3. CASE issue' = [epoch |-> job.epoch, seen |-> DOMAIN job.cards]
  <2>1. issue'.epoch = job.epoch /\ issue'.seen = DOMAIN job.cards
    BY <1>3
  <2>2. QED
    BY <1>1, <2>1 DEF EpochInv, Precedes
<1>4. QED
  BY <1>2, <1>3 DEF CreateIssue

\* Cards grow older where they are.
LEMMA TickKeeps ==
  ASSUME EpochInv, Tick
  PROVE  EpochInv'
<1>1. DOMAIN view' = DOMAIN view /\ UNCHANGED <<epoch, issue>>
  BY DEF Tick
<1>2. CASE job = None
  BY <1>1, <1>2 DEF Tick, EpochInv
<1>3. CASE job # None
  <2>1. job' = [job EXCEPT !.cards = [w \in DOMAIN @ |-> Smaller(@[w] + 1, TemplateTtl)]]
    BY <1>3 DEF Tick
  <2>2. /\ DOMAIN job' = DOMAIN job
        /\ job'.epoch = job.epoch /\ DOMAIN job'.cards = DOMAIN job.cards
    BY <1>3, <2>1 DEF EpochInv
  <2>3. QED
    BY <1>1, <1>3, <2>2 DEF EpochInv
<1>4. QED
  BY <1>2, <1>3

\* Every step keeps the order.
LEMMA EpochStep ==
  ASSUME EpochInv, [Next]_vars
  PROVE  EpochInv'
<1>1. CASE \/ \E w \in Worker : Publish(w) \/ Leave(w) \/ Rejoin(w)
           \/ RunLoop \/ Resubscribe \/ Away \/ Back \/ StreamEnds
           \/ \E c \in gossip : Receive(c) \/ Missed(c)
           \/ \E c \in gossip \cup checking : Lose(c)
           \/ UNCHANGED vars
  <2>1. UNCHANGED <<view, epoch, job, issue>>
    BY <1>1 DEF Publish, Leave, Rejoin, RunLoop, Resubscribe, Away, Back, StreamEnds, Receive,
       Missed, Lose, vars
  <2>2. QED
    BY <2>1 DEF EpochInv
<1>2. CASE \E c \in posted : InsertLocalCard(c)
  <2>1. Moves /\ UNCHANGED <<job, issue>>
    BY <1>2, InsertMoves DEF InsertLocalCard
  <2>2. QED
    BY <2>1, MovesKeep
<1>3. CASE \E c \in checking : InsertVerified(c)
  <2>1. Moves /\ UNCHANGED <<job, issue>>
    BY <1>3, InsertMoves DEF InsertVerified
  <2>2. QED
    BY <2>1, MovesKeep
<1>4. CASE Restart
  BY <1>4 DEF Restart, EpochInv
<1>5. CASE SnapshotView \/ CreateIssue \/ Tick
  BY <1>5, SnapshotKeeps, CreateKeeps, TickKeeps
<1>6. QED
  BY <1>1, <1>2, <1>3, <1>4, <1>5 DEF Next

\* Two issues of one process that record the same view epoch were drawn from the
\* same visible workers (WorkerView::snapshot, create_issue), for every number
\* of workers, restarts and losses.
THEOREM EpochNames == Spec => EpochNamesOneSet
<1>1. Init => EpochInv
  BY DEF Init, Fresh, EpochInv
<1>2. EpochInv /\ [Next]_vars => EpochInv'
  BY EpochStep
<1>3. EpochInv /\ [Next]_vars =>
        [CreateIssue /\ issue # None /\ issue'.epoch = issue.epoch
           => issue'.seen = issue.seen]_vars
  BY CreateKeeps
<1>4. QED
  BY <1>1, <1>2, <1>3, PTL DEF Spec, EpochNamesOneSet

-----------------------------------------------------------------------------
(***************************************************************************)
(* Every worker stays visible.  The publishes of an agent are so far apart *)
(* that one card is handled before the next is sent, and so close that the *)
(* next is handled before the one in the view expires.                     *)
(***************************************************************************)
Timely == Delay < PublishInterval /\ PublishInterval + Lag + Delay < TemplateTtl

Cycle == PublishInterval + Lag

\* After this much calm the consumer is reading.
Awake == Larger(MaxBackoff, Cycle)

Cards == [agent: Worker, age: Nat, due: Nat]

Clocks ==
  /\ next \in [Worker -> 0 .. Cycle] /\ Me \notin gone
  /\ x0xd \in BOOLEAN /\ calm \in 0 .. Settled /\ (~x0xd => calm = 0)

\* A back-off, and a subscription still to be made, end while it is calm.
Consumer ==
  /\ backoff \in 1 .. MaxBackoff /\ wait \in Nat
  /\ stream \in {"unsubscribed", "asleep", "open"}
  /\ stream = "asleep" => wait + calm <= MaxBackoff
  /\ stream = "unsubscribed" => next[Me] + calm <= Cycle

Transit ==
  /\ gossip \subseteq Cards /\ checking \subseteq Cards
  /\ \A c \in gossip \cup checking : c.age + c.due = Delay
  /\ \A c, d \in checking : c = d
  /\ \A w \in DOMAIN view : view[w] \in Nat

Sound == Clocks /\ Consumer /\ Transit

\* A card on its way is of its agent's last publish, or older than the calm.
Spaced ==
  \A c \in gossip \cup checking : c.agent \notin gone =>
    \/ c.age + next[c.agent] \in PublishInterval .. Cycle
    \/ calm <= c.age

\* The agent has yet to publish to an awake consumer, or its last card is on its
\* way and either the first of these or preceded by one in the view, or its last
\* card is in the view.
Due(w) == next[w] + calm <= Awake + Cycle

Coming(w, c) ==
  /\ c.agent = w /\ c.age + next[w] <= Cycle
  /\ calm <= Awake + Cycle + c.age \/ (w \in DOMAIN view /\ view[w] <= c.age + Cycle)

Held(w) == w \in DOMAIN view /\ view[w] + next[w] <= Cycle

Kept ==
  \A w \in Advertised \ gone : Due(w) \/ (\E c \in gossip \cup checking : Coming(w, c)) \/ Held(w)

VisInv == Sound /\ Spaced /\ Kept

\* The durations the code computes, as numbers.
LEMMA Constants ==
  /\ PublishInterval \in Nat /\ PublishInterval >= 1 /\ Lag \in Nat /\ Delay \in Nat
  /\ Cycle \in Nat /\ Cycle = PublishInterval + Lag
  /\ Awake \in Nat /\ Cycle <= Awake /\ MaxBackoff <= Awake /\ MaxBackoff \in Nat /\ MaxBackoff >= 1
  /\ Settled = Awake + Cycle + Delay + 1
  /\ TemplateTtl \in Nat /\ TemplateTtl >= 1
  /\ Me \in Worker /\ Me \in Knows /\ Knows \subseteq Worker /\ Advertised \subseteq Knows
<1>1. TemplateTtl \in Nat /\ TemplateTtl >= 1
  BY ViewAssumption DEF TemplateTtl, Larger
<1>2. PublishInterval \in Nat /\ PublishInterval >= 1
  <2>1. TemplateTtl \div 2 \in Nat
    BY <1>1
  <2>2. QED
    BY <2>1 DEF PublishInterval, Larger
<1>3. QED
  BY <1>1, <1>2, ViewAssumption DEF Cycle, Awake, Settled, Larger, Advertised

\* A back-off never exceeds its cap.
LEMMA SleepBounded ==
  ASSUME Consumer, Sleep
  PROVE  /\ stream' = "asleep" /\ wait' \in Nat /\ wait' <= MaxBackoff
         /\ backoff' \in 1 .. MaxBackoff
  BY Constants DEF Consumer, Sleep, RetryAfter, Smaller

\* A card just issued.
LEMMA NewCard ==
  ASSUME NEW w \in Worker
  PROVE  /\ Card(w) \in Cards /\ Card(w).agent = w /\ Card(w).age = 0
         /\ Card(w).age + Card(w).due = Delay
  BY Constants DEF Card, Cards

\* Cards a second later.
LEMMA OlderCards ==
  ASSUME NEW S \in SUBSET Cards, \A c \in S : c.due > 0
  PROVE  /\ Older(S) \subseteq Cards
         /\ \A d \in Older(S) : \E c \in S :
              d.agent = c.agent /\ d.age = c.age + 1 /\ d.age + d.due = c.age + c.due
         /\ \A c \in S : \E d \in Older(S) : d.agent = c.agent /\ d.age = c.age + 1
         /\ (\A c, d \in S : c = d) => \A c, d \in Older(S) : c = d
<1> DEFINE older(c) == [c EXCEPT !.age = @ + 1, !.due = @ - 1]
<1>1. ASSUME NEW c \in S
      PROVE  /\ older(c) \in Cards /\ older(c).agent = c.agent /\ older(c).age = c.age + 1
             /\ older(c).age + older(c).due = c.age + c.due
  <2>1. c \in Cards /\ c.age \in Nat /\ c.due \in Nat /\ c.due - 1 \in Nat
    BY DEF Cards
  <2>2. PICK x, y : x = c.age + 1 /\ y = c.due - 1
    OBVIOUS
  <2>3. older(c) = [c EXCEPT !.age = x, !.due = y]
    BY <2>2
  <2>4. x \in Nat /\ y \in Nat /\ x + y = c.age + c.due
    BY <2>1, <2>2
  <2>5. [c EXCEPT !.age = x, !.due = y] \in Cards
    BY <2>1, <2>4 DEF Cards
  <2>6. /\ [c EXCEPT !.age = x, !.due = y].agent = c.agent
        /\ [c EXCEPT !.age = x, !.due = y].age = x
        /\ [c EXCEPT !.age = x, !.due = y].due = y
    BY <2>1 DEF Cards
  <2>7. QED
    BY <2>2, <2>3, <2>4, <2>5, <2>6
<1>2. Older(S) = {older(c) : c \in S}
  BY DEF Older
<1> HIDE DEF older
<1>3. QED
  BY <1>1, <1>2

\* The card that Me has posted is of its last publish, and is accepted before Me
\* sleeps.
Local ==
  /\ next \in [Worker -> Nat] /\ last \in [Worker -> Nat] /\ Me \notin gone
  /\ posted \subseteq Cards
  /\ \A c \in posted : /\ c.agent = Me /\ last[Me] <= c.age
                       /\ c.age + next[Me] <= Cycle /\ c.due + PublishInterval <= next[Me]

\* A round of Me's loop finds nothing posted.
LEMMA RunLoopLocal ==
  ASSUME Local, RunLoop
  PROVE  Local'
<1>1. PICK lag \in 0 .. Lag :
        /\ next' = [next EXCEPT ![Me] = PublishInterval + lag]
        /\ PublishCard(lag) \/ UNCHANGED <<posted, last>>
  BY DEF RunLoop
<1>2. lag \in Nat /\ lag <= Lag /\ PublishInterval + lag \in Nat /\ Me \in Worker
  BY Constants
<1>3. next' \in [Worker -> Nat] /\ next'[Me] = PublishInterval + lag /\ UNCHANGED gone
  BY <1>1, <1>2 DEF Local, RunLoop
<1>4. CASE UNCHANGED <<posted, last>>
  <2>1. posted = {}
    BY Constants DEF Local, RunLoop, Cards
  <2>2. QED
    BY <1>3, <1>4, <2>1 DEF Local
<1>5. CASE PublishCard(lag)
  <2>1. last' \in [Worker -> Nat] /\ last'[Me] = 0
    BY <1>2, <1>5 DEF PublishCard, Local
  <2>2. ASSUME NEW c \in posted'
        PROVE  c \in Cards /\ c.agent = Me /\ c.age = 0 /\ c.due = lag
    BY <1>2, <1>5, Constants DEF PublishCard, Card, Cards
  <2>3. QED
    BY <1>2, <1>3, <2>1, <2>2, Constants DEF Local
<1>6. QED
  BY <1>1, <1>4, <1>5

\* A second passes.
LEMMA TickLocal ==
  ASSUME Local, Tick
  PROVE  Local'
<1>1. /\ Me \in Worker \ gone /\ UNCHANGED gone /\ posted' = Older(posted)
      /\ next' = [w \in Worker |-> IF w \in gone THEN 0 ELSE next[w] - 1]
      /\ last' = [w \in Worker |-> Smaller(last[w] + 1, TemplateTtl)]
      /\ \A w \in Worker \ gone : next[w] > 0
      /\ \A c \in posted : c.due > 0
  BY Constants DEF Tick, Local
<1>2. \A w \in Worker : next[w] \in Nat /\ last[w] \in Nat
  BY DEF Local
<1>3. next' \in [Worker -> Nat] /\ next'[Me] = next[Me] - 1
  <2>1. \A w \in Worker \ gone : next[w] - 1 \in Nat
    BY <1>1, <1>2
  <2>2. QED
    BY <1>1, <2>1
<1>4. last' \in [Worker -> Nat] /\ last'[Me] <= last[Me] + 1
  <2>1. \A w \in Worker : Smaller(last[w] + 1, TemplateTtl) \in Nat
    BY <1>2, Constants DEF Smaller
  <2>2. Smaller(last[Me] + 1, TemplateTtl) <= last[Me] + 1
    BY <1>1, <1>2, Constants DEF Smaller
  <2>3. QED
    BY <1>1, <2>1, <2>2
<1>5. /\ posted' \subseteq Cards
      /\ \A d \in posted' : \E c \in posted :
           d.agent = c.agent /\ d.age = c.age + 1 /\ d.age + d.due = c.age + c.due
  <2>1. posted \in SUBSET Cards
    BY DEF Local
  <2>2. QED
    BY <1>1, <2>1, OlderCards
<1>6. ASSUME NEW d \in posted'
      PROVE  /\ d.agent = Me /\ last'[Me] <= d.age
             /\ d.age + next'[Me] <= Cycle /\ d.due + PublishInterval <= next'[Me]
  <2>1. PICK c \in posted :
          d.agent = c.agent /\ d.age = c.age + 1 /\ d.age + d.due = c.age + c.due
    BY <1>5
  <2>2. c.age \in Nat /\ c.due \in Nat /\ d.age \in Nat /\ d.due \in Nat
    BY <1>5 DEF Local, Cards
  <2>3. /\ c.agent = Me /\ last[Me] <= c.age
        /\ c.age + next[Me] <= Cycle /\ c.due + PublishInterval <= next[Me]
    BY DEF Local
  <2>4. last'[Me] \in Nat /\ last[Me] \in Nat /\ next[Me] \in Nat
    BY <1>1, <1>2, <1>4
  <2>5. QED
    BY <1>3, <1>4, <2>1, <2>2, <2>3, <2>4, Constants
<1>7. QED
  BY <1>1, <1>3, <1>4, <1>5, <1>6 DEF Local

\* Every behaviour of Me's loop and of x0xd keeps it.
LEMMA LocalHolds == Spec => []Local
<1>1. Init => Local
  <2> SUFFICES ASSUME Init PROVE Local
    OBVIOUS
  <2>1. next \in [Worker -> Nat] /\ last \in [Worker -> Nat]
    BY Constants DEF Init
  <2>2. QED
    BY <2>1 DEF Init, Local
<1>2. Local /\ [Next]_vars => Local'
  <2> SUFFICES ASSUME Local, [Next]_vars PROVE Local'
    OBVIOUS
  <2>1. CASE RunLoop \/ Tick
    BY <2>1, RunLoopLocal, TickLocal
  <2>2. ASSUME NEW w \in Worker, Publish(w) \/ Leave(w) \/ Rejoin(w) PROVE Local'
    <3>1. w # Me /\ UNCHANGED posted /\ Me \notin gone'
      BY <2>2 DEF Publish, Leave, Rejoin, Local
    <3>2. /\ next' \in [Worker -> Nat] /\ next'[Me] = next[Me]
          /\ last' \in [Worker -> Nat] /\ last'[Me] = last[Me]
      <4>1. \A lag \in 0 .. Lag : PublishInterval + lag \in Nat
        BY Constants
      <4>2. \/ UNCHANGED next
            \/ \E n \in Nat : next' = [next EXCEPT ![w] = n]
        BY <2>2, <4>1 DEF Publish, Leave, Rejoin
      <4>3. UNCHANGED last \/ last' = [last EXCEPT ![w] = 0]
        BY <2>2 DEF Publish, Leave, Rejoin
      <4>4. QED
        BY <3>1, <4>2, <4>3, Constants DEF Local
    <3>3. QED
      BY <3>1, <3>2 DEF Local
  <2>3. CASE Restart
    <3>1. posted' = {} /\ UNCHANGED <<last, gone>> /\ next' = [next EXCEPT ![Me] = 0]
      BY <2>3 DEF Restart
    <3>2. QED
      BY <3>1 DEF Local
  <2>4. CASE \/ \E c \in posted : InsertLocalCard(c)
             \/ \E c \in checking : InsertVerified(c)
             \/ \E c \in gossip : Receive(c) \/ Missed(c)
             \/ \E c \in gossip \cup checking : Lose(c)
             \/ Resubscribe \/ SnapshotView \/ CreateIssue \/ Away \/ Back \/ StreamEnds
             \/ UNCHANGED vars
    <3>1. UNCHANGED <<next, last, gone>> /\ posted' \subseteq posted
      BY <2>4 DEF InsertLocalCard, InsertVerified, Receive, Missed, Lose, Resubscribe,
         SnapshotView, CreateIssue, Away, Back, StreamEnds, vars
    <3>2. QED
      BY <3>1 DEF Local
  <2>5. QED
    BY <2>1, <2>2, <2>3, <2>4 DEF Next
<1>3. QED
  BY <1>1, <1>2, PTL DEF Spec

\* After a disturbance everything is still to come.
LEMMA Afresh ==
  ASSUME Sound', calm' = 0
  PROVE  Spaced' /\ Kept'
<1>1. Spaced'
  BY DEF Sound, Transit, Cards, Spaced
<1>2. ASSUME NEW w \in Knows PROVE Due(w)'
  <2>1. next'[w] \in 0 .. Cycle
    BY Constants DEF Sound, Clocks
  <2>2. QED
    BY <2>1, Constants DEF Due
<1>3. QED
  BY <1>1, <1>2, Constants DEF Kept

\* What is kept stays so while cards, clocks and view do.
LEMMA Unmoved ==
  ASSUME Spaced, Kept, UNCHANGED <<view, checking, next, gossip, gone, calm>>
  PROVE  Spaced' /\ Kept'
  BY DEF Spaced, Kept, Due, Coming, Held

\* In a long enough calm the consumer is reading.
LEMMA Reads ==
  ASSUME Sound, calm > Awake
  PROVE  Reading
<1>1. stream # "asleep"
  BY Constants DEF Sound, Clocks, Consumer
<1>2. stream # "unsubscribed"
  <2>1. next[Me] \in Nat
    BY Constants DEF Sound, Clocks
  <2>2. QED
    BY <2>1, Constants DEF Sound, Clocks, Consumer
<1>3. x0xd
  BY Constants DEF Sound, Clocks
<1>4. QED
  BY <1>1, <1>2, <1>3 DEF Sound, Consumer, Reading, Answers

\* No card on its way is older than the last publish once that is due.
LEMMA LastCard ==
  ASSUME Timely, Sound, Spaced, NEW w \in Advertised \ gone, ~Due(w),
         NEW c \in gossip \cup checking, c.agent = w
  PROVE  c.age + next[w] \in PublishInterval .. Cycle /\ c.age <= Delay /\ next[w] > 0
<1>1. next[w] \in 0 .. Cycle
  BY Constants DEF Sound, Clocks
<1>2. calm > Awake
  BY <1>1, Constants DEF Due, Sound, Clocks
<1>3. c.age \in Nat /\ c.due \in Nat /\ c.age + c.due = Delay
  BY DEF Sound, Transit, Cards
<1>4. c.age <= Delay /\ Delay < calm
  BY <1>2, <1>3, Constants DEF Timely, Sound, Clocks
<1>5. c.age + next[w] \in PublishInterval .. Cycle
  BY <1>3, <1>4 DEF Spaced, Sound, Clocks
<1>6. QED
  BY <1>1, <1>3, <1>4, <1>5, Constants DEF Timely

\* A publish of any agent starts its cycle again.
LEMMA CycleStarts ==
  ASSUME Sound, NEW w \in Worker, NEW lag \in 0 .. Lag,
         next' = [next EXCEPT ![w] = PublishInterval + lag]
  PROVE  /\ next' \in [Worker -> 0 .. Cycle] /\ next'[w] \in PublishInterval .. Cycle
         /\ \A v \in Worker \ {w} : next'[v] = next[v]
<1>1. PublishInterval + lag \in 0 .. Cycle /\ PublishInterval + lag \in PublishInterval .. Cycle
  BY Constants
<1>2. next \in [Worker -> 0 .. Cycle]
  BY DEF Sound, Clocks
<1>3. QED
  BY <1>1, <1>2

\* The new card is the last one of its agent, and no other is on its way.
LEMMA PublishSpaced ==
  ASSUME Sound, Spaced, Timely, NEW w \in Worker, next[w] = 0,
         next'[w] \in PublishInterval .. Cycle, \A v \in Worker \ {w} : next'[v] = next[v],
         gossip' \subseteq gossip \cup {Card(w)}, UNCHANGED <<checking, gone, calm>>
  PROVE  Spaced'
<1> SUFFICES ASSUME NEW c \in gossip' \cup checking', c.agent \notin gone'
             PROVE  \/ c.age + next'[c.agent] \in PublishInterval .. Cycle
                    \/ calm' <= c.age
  BY DEF Spaced
<1>1. CASE c = Card(w)
  BY <1>1, NewCard, Constants
<1>2. CASE c \in gossip \cup checking
  <2>1. c.age \in Nat /\ c.due \in Nat /\ c.age + c.due = Delay /\ c.agent \in Worker
    BY <1>2 DEF Sound, Transit, Cards
  <2>2. \/ c.age + next[c.agent] \in PublishInterval .. Cycle
        \/ calm <= c.age
    BY <1>2 DEF Spaced
  <2>3. CASE c.agent = w
    BY <2>1, <2>2, <2>3, Constants DEF Timely
  <2>4. CASE c.agent # w
    BY <2>1, <2>2, <2>4
  <2>5. QED
    BY <2>3, <2>4
<1>3. QED
  BY <1>1, <1>2

\* The other agents see nothing of it.
LEMMA PublishOthers ==
  ASSUME Kept, NEW w \in Worker, \A v \in Worker \ {w} : next'[v] = next[v],
         gossip \cup checking \subseteq gossip' \cup checking', UNCHANGED <<gone, calm>>,
         \A v \in DOMAIN view \ {w} : v \in DOMAIN view' /\ view'[v] = view[v],
         NEW v \in Advertised \ gone, v # w
  PROVE  Due(v)' \/ (\E c \in gossip' \cup checking' : Coming(v, c)') \/ Held(v)'
<1>1. next'[v] = next[v] /\ calm' = calm
  BY Constants
<1>2. CASE Due(v)
  BY <1>1, <1>2 DEF Due
<1>3. CASE \E c \in gossip \cup checking : Coming(v, c)
  BY <1>1, <1>3 DEF Coming
<1>4. CASE Held(v)
  BY <1>1, <1>4 DEF Held
<1>5. QED
  BY <1>2, <1>3, <1>4 DEF Kept

\* A publish leaves a card on its way that follows the one in the view.
LEMMA Published ==
  ASSUME VisInv, Timely, NEW w \in Worker, w \notin gone, next[w] = 0,
         next'[w] \in PublishInterval .. Cycle, \A v \in Worker \ {w} : next'[v] = next[v],
         gossip' = gossip \cup {Card(w)}, UNCHANGED <<view, checking, gone, calm>>
  PROVE  Spaced' /\ Kept'
<1>1. Spaced'
  BY PublishSpaced DEF VisInv
<1>2. ASSUME w \in Advertised PROVE \E c \in gossip' \cup checking' : Coming(w, c)'
  <2>1. Card(w) \in gossip' /\ Card(w).agent = w /\ Card(w).age = 0
    BY NewCard
  <2>2. calm \in Nat /\ (w \in DOMAIN view => view[w] \in Nat)
    BY Constants DEF VisInv, Sound, Clocks, Transit
  <2>3. Card(w).age + next'[w] <= Cycle
    BY <2>1, Constants
  <2>4. CASE Due(w)
    <3>1. calm' <= Awake + Cycle + Card(w).age
      BY <2>1, <2>2, <2>4, Constants DEF Due
    <3>2. QED
      BY <2>1, <2>3, <3>1 DEF Coming
  <2>5. CASE ~Due(w) /\ Held(w)
    <3>1. w \in DOMAIN view' /\ view'[w] <= Card(w).age + Cycle
      BY <2>1, <2>2, <2>5, Constants DEF Held
    <3>2. QED
      BY <2>1, <2>3, <3>1 DEF Coming
  <2>6. CASE ~Due(w) /\ \E c \in gossip \cup checking : Coming(w, c)
    <3>1. PICK c \in gossip \cup checking : c.agent = w
      BY <2>6 DEF Coming
    <3>2. next[w] > 0
      BY <1>2, <2>6, <3>1, LastCard DEF VisInv
    <3>3. QED
      BY <3>2
  <2>7. QED
    BY <1>2, <2>4, <2>5, <2>6 DEF VisInv, Kept
<1>3. ASSUME NEW v \in Advertised \ gone, v # w
      PROVE  Due(v)' \/ (\E c \in gossip' \cup checking' : Coming(v, c)') \/ Held(v)'
  BY <1>3, PublishOthers DEF VisInv
<1>4. QED
  BY <1>1, <1>2, <1>3 DEF Kept

\* A peer's.
LEMMA PublishKeeps ==
  ASSUME VisInv, Timely, NEW w \in Worker, Publish(w)
  PROVE  VisInv'
<1>1. PICK lag \in 0 .. Lag : next' = [next EXCEPT ![w] = PublishInterval + lag]
  BY DEF Publish
<1>2. /\ next' \in [Worker -> 0 .. Cycle] /\ next'[w] \in PublishInterval .. Cycle
      /\ \A v \in Worker \ {w} : next'[v] = next[v]
  BY <1>1, CycleStarts DEF VisInv
<1>3. /\ w # Me /\ w \notin gone /\ next[w] = 0 /\ gossip' = gossip \cup {Card(w)}
      /\ UNCHANGED <<view, stream, wait, backoff, checking, gone, x0xd, calm>>
  BY DEF Publish, reader
<1>4. Sound'
  <2>1. Clocks'
    BY <1>2, <1>3 DEF VisInv, Sound, Clocks
  <2>2. Consumer'
    BY <1>2, <1>3, Constants DEF VisInv, Sound, Consumer
  <2>3. Transit'
    BY <1>3, NewCard DEF VisInv, Sound, Transit
  <2>4. QED
    BY <2>1, <2>2, <2>3 DEF Sound
<1>5. QED
  BY <1>2, <1>3, <1>4, Published DEF VisInv

\* Insertion touches one agent's entry.
LEMMA Inserted ==
  ASSUME Transit, NEW w, NEW age \in Nat, Insert(w, age)
  PROVE  /\ w \in DOMAIN view' /\ view'[w] = age
         /\ \A v \in DOMAIN view \ {w} : v \in DOMAIN view' /\ view'[v] = view[v]
         /\ \A v \in DOMAIN view' : view'[v] \in Nat
  BY DEF Insert, Transit

\* A round of Me's loop.
LEMMA RunLoopKeeps ==
  ASSUME VisInv, Timely, RunLoop
  PROVE  VisInv'
<1>0. Me \in Worker /\ Me \notin gone
  BY Constants DEF VisInv, Sound, Clocks
<1>1. PICK lag \in 0 .. Lag :
        /\ next' = [next EXCEPT ![Me] = PublishInterval + lag]
        /\ IF Answers /\ PublishEnabled THEN PublishCard(lag) ELSE UNCHANGED gossip
  BY DEF RunLoop
<1>2. /\ next' \in [Worker -> 0 .. Cycle] /\ next'[Me] \in PublishInterval .. Cycle
      /\ \A v \in Worker \ {Me} : next'[v] = next[v]
  BY <1>0, <1>1, CycleStarts DEF VisInv
<1>3. next[Me] = 0 /\ UNCHANGED <<view, wait, backoff, checking, gone, x0xd, calm>>
  BY DEF RunLoop
<1>4. Clocks'
  BY <1>2, <1>3 DEF VisInv, Sound, Clocks
<1>5. gossip' = gossip \/ gossip' = gossip \cup {Card(Me)}
  BY <1>1 DEF PublishCard
<1>6. Transit'
  BY <1>0, <1>3, <1>5, NewCard DEF VisInv, Sound, Transit
<1>7. CASE Answers
  <2>1. stream' = IF stream = "unsubscribed" THEN "open" ELSE stream
    BY <1>7 DEF RunLoop, Subscribe
  <2>2. Consumer'
    BY <1>3, <2>1 DEF VisInv, Sound, Consumer
  <2>3. CASE PublishEnabled
    <3>1. gossip' = gossip \cup {Card(Me)}
      BY <1>1, <1>7, <2>3 DEF PublishCard
    <3>2. Spaced' /\ Kept'
      BY <1>0, <1>2, <1>3, <3>1, Published
    <3>3. QED
      BY <1>4, <1>6, <2>2, <3>2 DEF VisInv, Sound
  <2>4. CASE ~PublishEnabled
    <3>1. gossip' = gossip /\ Me \notin Advertised
      BY <1>1, <2>4 DEF Advertised
    <3>2. Spaced'
      BY <1>0, <1>2, <1>3, <3>1, PublishSpaced DEF VisInv
    <3>3. ASSUME NEW v \in Advertised \ gone
          PROVE  Due(v)' \/ (\E c \in gossip' \cup checking' : Coming(v, c)') \/ Held(v)'
      BY <1>0, <1>2, <1>3, <3>1, PublishOthers DEF VisInv
    <3>4. Kept'
      BY <1>3, <3>3 DEF Kept
    <3>5. QED
      BY <1>4, <1>6, <2>2, <3>2, <3>4 DEF VisInv, Sound
  <2>5. QED
    BY <2>3, <2>4
<1>8. CASE ~Answers
  <2>1. UNCHANGED stream
    BY <1>8 DEF RunLoop
  <2>2. calm' = 0
    BY <1>3, <1>8 DEF Answers, VisInv, Sound, Clocks
  <2>3. Consumer'
    BY <1>2, <1>3, <2>1, <2>2, Constants DEF VisInv, Sound, Consumer
  <2>4. QED
    BY <1>4, <1>6, <2>2, <2>3, Afresh DEF VisInv, Sound
<1>9. QED
  BY <1>7, <1>8

\* x0xd has accepted Me's last card.
LEMMA InsertLocalKeeps ==
  ASSUME VisInv, Local, NEW c \in posted, InsertLocalCard(c)
  PROVE  VisInv'
<1>1. c.age \in Nat /\ c.age + next[Me] <= Cycle
  BY DEF Local, Cards
<1>2. UNCHANGED <<stream, wait, backoff, checking, next, gossip, gone, x0xd, calm>>
  BY DEF InsertLocalCard, reader
<1>3. /\ Me \in DOMAIN view' /\ view'[Me] = c.age
      /\ \A v \in DOMAIN view \ {Me} : v \in DOMAIN view' /\ view'[v] = view[v]
      /\ \A v \in DOMAIN view' : view'[v] \in Nat
  <2>1. PICK age \in Nat : age = c.age
    BY <1>1
  <2>2. QED
    BY <2>1, Inserted DEF VisInv, Sound, InsertLocalCard
<1>4. Sound'
  BY <1>2, <1>3 DEF VisInv, Sound, Clocks, Consumer, Transit
<1>5. Spaced'
  BY <1>2 DEF VisInv, Spaced
<1>6. Held(Me)'
  BY <1>1, <1>2, <1>3 DEF Held
<1>7. ASSUME NEW v \in Advertised \ gone, v # Me
      PROVE  Due(v)' \/ (\E d \in gossip' \cup checking' : Coming(v, d)') \/ Held(v)'
  BY <1>2, <1>3, <1>7, Constants, PublishOthers DEF VisInv
<1>8. QED
  BY <1>2, <1>4, <1>5, <1>6, <1>7 DEF VisInv, Kept

\* The consumer takes a card: one that it drops is no worker's it knows.
LEMMA ReceiveKeeps ==
  ASSUME VisInv, Timely, NEW c \in gossip, Receive(c)
  PROVE  VisInv'
<1>1. /\ gossip' = gossip \ {c} /\ checking = {}
      /\ checking' = IF IsExpired(c.age) \/ ~Trusted(c) THEN {} ELSE {c}
      /\ UNCHANGED <<view, stream, wait, backoff, next, gone, x0xd, calm>>
  BY DEF Receive
<1>2. c.age \in Nat /\ c.due \in Nat /\ c.age + c.due = Delay
  BY DEF VisInv, Sound, Transit, Cards
<1>3. ~IsExpired(c.age)
  BY <1>2, Constants DEF IsExpired, Timely
<1>4. gossip' \cup checking' \subseteq gossip /\ \A d \in gossip : d.agent \in Knows => d \in gossip' \cup checking'
  BY <1>1, <1>3 DEF Trusted
<1>5. Sound'
  <2>1. Clocks' /\ Consumer'
    BY <1>1 DEF VisInv, Sound, Clocks, Consumer
  <2>2. Transit'
    <3>1. \A d, e \in checking' : d = e
      BY <1>1
    <3>2. QED
      BY <1>1, <1>4, <3>1 DEF VisInv, Sound, Transit
  <2>3. QED
    BY <2>1, <2>2 DEF Sound
<1>6. Spaced'
  BY <1>1, <1>4 DEF VisInv, Spaced
<1>7. Kept'
  <2> SUFFICES ASSUME NEW w \in Advertised \ gone
               PROVE  Due(w)' \/ (\E d \in gossip' \cup checking' : Coming(w, d)') \/ Held(w)'
    BY <1>1 DEF Kept
  <2>1. CASE Due(w) \/ Held(w)
    BY <1>1, <2>1 DEF Due, Held
  <2>2. CASE \E d \in gossip \cup checking : Coming(w, d)
    <3>1. PICK d \in gossip : Coming(w, d)
      BY <1>1, <2>2
    <3>2. d \in gossip' \cup checking'
      BY <1>4, <3>1, Constants DEF Coming
    <3>3. Coming(w, d)'
      BY <1>1, <3>1 DEF Coming
    <3>4. QED
      BY <3>2, <3>3
  <2>3. QED
    BY <2>1, <2>2 DEF VisInv, Kept
<1>8. QED
  BY <1>5, <1>6, <1>7 DEF VisInv

\* The verified card enters the view: in a long enough calm it is the last of its
\* agent.
LEMMA InsertKeeps ==
  ASSUME VisInv, Timely, NEW c \in checking, InsertVerified(c)
  PROVE  VisInv'
<1>1. /\ checking = {c} /\ checking' = {} /\ Insert(c.agent, c.age)
      /\ UNCHANGED <<stream, wait, backoff, next, gossip, gone, x0xd, calm>>
  BY DEF InsertVerified, VisInv, Sound, Transit
<1>2. c.age \in Nat /\ c.agent \in Worker
  BY DEF VisInv, Sound, Transit, Cards
<1>3. /\ c.agent \in DOMAIN view' /\ view'[c.agent] = c.age
      /\ \A v \in DOMAIN view \ {c.agent} : v \in DOMAIN view' /\ view'[v] = view[v]
      /\ \A v \in DOMAIN view' : view'[v] \in Nat
  <2>1. PICK w, age : w = c.agent /\ age = c.age
    OBVIOUS
  <2>2. QED
    BY <1>1, <1>2, <2>1, Inserted DEF VisInv, Sound
<1>4. Sound'
  <2>1. Clocks' /\ Consumer'
    BY <1>1 DEF VisInv, Sound, Clocks, Consumer
  <2>2. Transit'
    BY <1>1, <1>3 DEF VisInv, Sound, Transit
  <2>3. QED
    BY <2>1, <2>2 DEF Sound
<1>5. Spaced'
  BY <1>1 DEF VisInv, Spaced
<1>6. Kept'
  <2> SUFFICES ASSUME NEW w \in Advertised \ gone, ~Due(w)
               PROVE  (\E d \in gossip' \cup checking' : Coming(w, d)') \/ Held(w)'
    BY <1>1 DEF Kept, Due
  <2>1. CASE w = c.agent
    <3>1. c.age + next[w] <= Cycle
      <4>1. c.age + next[w] \in PublishInterval .. Cycle
        BY <2>1, LastCard DEF VisInv
      <4>2. QED
        BY <4>1, Constants
    <3>2. QED
      BY <1>1, <1>3, <2>1, <3>1 DEF Held
  <2>2. CASE w # c.agent /\ Held(w)
    BY <1>1, <1>3, <2>2 DEF Held
  <2>3. CASE w # c.agent /\ \E d \in gossip \cup checking : Coming(w, d)
    <3>1. PICK d \in gossip \cup checking : Coming(w, d)
      BY <2>3
    <3>2. d \in gossip'
      BY <1>1, <2>3, <3>1 DEF Coming
    <3>3. Coming(w, d)'
      BY <1>1, <1>3, <2>3, <3>1 DEF Coming
    <3>4. QED
      BY <3>2, <3>3
  <2>4. QED
    BY <2>1, <2>2, <2>3 DEF VisInv, Kept
<1>7. QED
  BY <1>4, <1>5, <1>6 DEF VisInv

\* A consumer that is not reading misses a card only soon after a disturbance.
LEMMA MissedKeeps ==
  ASSUME VisInv, NEW c \in gossip, Missed(c)
  PROVE  VisInv'
<1>1. /\ ~Reading /\ gossip' = gossip \ {c}
      /\ UNCHANGED <<view, stream, wait, backoff, checking, next, gone, x0xd, calm>>
  BY DEF Missed, reader
<1>2. Sound'
  <2>1. Clocks' /\ Consumer'
    BY <1>1 DEF VisInv, Sound, Clocks, Consumer
  <2>2. Transit'
    BY <1>1 DEF VisInv, Sound, Transit
  <2>3. QED
    BY <2>1, <2>2 DEF Sound
<1>3. Spaced'
  BY <1>1 DEF VisInv, Spaced
<1>4. ~(calm > Awake)
  BY <1>1, Reads DEF VisInv
<1>5. ASSUME NEW w \in Knows PROVE Due(w)'
  <2>1. next[w] \in 0 .. Cycle /\ calm \in Nat
    BY Constants DEF VisInv, Sound, Clocks
  <2>2. QED
    BY <1>1, <1>4, <2>1, Constants DEF Due
<1>6. QED
  BY <1>2, <1>3, <1>5, Constants DEF VisInv, Kept

\* The snapshot reaps no card that is still followed by a timely one.
LEMMA SnapshotKeepsVisible ==
  ASSUME VisInv, Timely, SnapshotView
  PROVE  VisInv'
<1>1. /\ view' = Restrict(view, Live(view))
      /\ UNCHANGED <<stream, wait, backoff, checking, next, gossip, gone, x0xd, calm>>
  BY DEF SnapshotView, ReapExpired, reader
<1>2. \A w \in DOMAIN view' : w \in DOMAIN view /\ view'[w] = view[w]
  BY <1>1 DEF Restrict, Live
<1>3. ASSUME NEW w \in DOMAIN view, view[w] <= Delay + Cycle
      PROVE  w \in DOMAIN view' /\ view'[w] = view[w]
  <2>1. view[w] \in Nat
    BY DEF VisInv, Sound, Transit
  <2>2. ~IsExpired(view[w])
    BY <1>3, <2>1, Constants DEF IsExpired, Timely
  <2>3. QED
    BY <1>1, <2>2 DEF Restrict, Live
<1>4. Sound'
  <2>1. Clocks' /\ Consumer'
    BY <1>1 DEF VisInv, Sound, Clocks, Consumer
  <2>2. Transit'
    BY <1>1, <1>2 DEF VisInv, Sound, Transit
  <2>3. QED
    BY <2>1, <2>2 DEF Sound
<1>5. Spaced'
  BY <1>1 DEF VisInv, Spaced
<1>6. Kept'
  <2> SUFFICES ASSUME NEW w \in Advertised \ gone
               PROVE  Due(w)' \/ (\E d \in gossip' \cup checking' : Coming(w, d)') \/ Held(w)'
    BY <1>1 DEF Kept
  <2>1. CASE Due(w)
    BY <1>1, <2>1 DEF Due
  <2>2. CASE Held(w)
    <3>1. view[w] \in Nat /\ next[w] \in 0 .. Cycle
      BY <2>2, Constants DEF Held, VisInv, Sound, Transit, Clocks
    <3>2. view[w] <= Delay + Cycle
      BY <2>2, <3>1, Constants DEF Held
    <3>3. QED
      BY <1>1, <1>3, <2>2, <3>2 DEF Held
  <2>3. CASE \E d \in gossip \cup checking : Coming(w, d)
    <3>1. PICK d \in gossip \cup checking : Coming(w, d)
      BY <2>3
    <3>2. d.age \in Nat /\ d.age <= Delay
      BY Constants DEF VisInv, Sound, Transit, Cards
    <3>3. ASSUME w \in DOMAIN view, view[w] <= d.age + Cycle
          PROVE  w \in DOMAIN view' /\ view'[w] = view[w]
      <4>1. view[w] \in Nat
        BY <3>3 DEF VisInv, Sound, Transit
      <4>2. view[w] <= Delay + Cycle
        BY <3>2, <3>3, <4>1, Constants
      <4>3. QED
        BY <1>3, <3>3, <4>2
    <3>4. Coming(w, d)'
      BY <1>1, <3>1, <3>3 DEF Coming
    <3>5. QED
      BY <1>1, <3>4
  <2>4. QED
    BY <2>1, <2>2, <2>3 DEF VisInv, Kept
<1>7. QED
  BY <1>4, <1>5, <1>6 DEF VisInv

\* A second passes: what comes and what is held ages as the cycle runs down.
LEMMA TickKeepsVisible ==
  ASSUME VisInv, Tick
  PROVE  VisInv'
<1>1. /\ \A w \in Worker \ gone : next[w] > 0
      /\ \A c \in gossip \cup checking : c.due > 0
      /\ ~(stream = "asleep" /\ wait = 0)
      /\ view' = [w \in DOMAIN view |-> Smaller(view[w] + 1, TemplateTtl)]
      /\ gossip' = Older(gossip) /\ checking' = Older(checking)
      /\ next' = [w \in Worker |-> IF w \in gone THEN 0 ELSE next[w] - 1]
      /\ wait' = IF stream = "asleep" THEN wait - 1 ELSE wait
      /\ calm' = IF x0xd THEN Smaller(calm + 1, Settled) ELSE 0
      /\ UNCHANGED <<stream, backoff, gone, x0xd>>
  BY DEF Tick
<1>2. Settled \in Nat /\ calm \in Nat /\ calm <= Settled
  BY Constants DEF VisInv, Sound, Clocks
<1>3. calm' \in 0 .. Settled /\ calm' <= calm + 1
  BY <1>1, <1>2 DEF Smaller
<1>4. /\ next' \in [Worker -> 0 .. Cycle]
      /\ \A w \in Worker \ gone : next[w] \in Nat /\ next'[w] = next[w] - 1
  <2>1. \A w \in Worker : next[w] \in 0 .. Cycle
    BY DEF VisInv, Sound, Clocks
  <2>2. \A w \in Worker \ gone : next[w] - 1 \in 0 .. Cycle
    BY <1>1, <2>1, Constants
  <2>3. 0 \in 0 .. Cycle
    BY Constants
  <2>4. QED
    BY <1>1, <2>1, <2>2, <2>3
<1>5. Me \in Worker \ gone
  BY Constants DEF VisInv, Sound, Clocks
<1>6. \A w \in DOMAIN view : w \in DOMAIN view' /\ view'[w] \in Nat /\ view'[w] <= view[w] + 1
  BY <1>1, Constants DEF VisInv, Sound, Transit, Smaller
<1>7. /\ gossip' \subseteq Cards /\ checking' \subseteq Cards
      /\ \A d \in gossip' \cup checking' : \E c \in gossip \cup checking :
           d.agent = c.agent /\ d.age = c.age + 1 /\ d.age + d.due = c.age + c.due
      /\ \A c \in gossip \cup checking : \E d \in gossip' \cup checking' :
           d.agent = c.agent /\ d.age = c.age + 1
      /\ \A c, d \in checking' : c = d
  <2>1. gossip \in SUBSET Cards /\ checking \in SUBSET Cards /\ \A c, d \in checking : c = d
    BY DEF VisInv, Sound, Transit
  <2>2. QED
    BY <1>1, <2>1, OlderCards
<1>8. \A c \in gossip \cup checking : c.age \in Nat /\ c.agent \in Worker
  BY DEF VisInv, Sound, Transit, Cards
<1>9. Sound'
  <2>1. Clocks'
    BY <1>1, <1>3, <1>4 DEF VisInv, Sound, Clocks
  <2>2. Consumer'
    <3>1. stream' = "asleep" => wait' \in Nat /\ wait' + calm' <= MaxBackoff
      BY <1>1, <1>2, <1>3, Constants DEF VisInv, Sound, Consumer
    <3>2. stream' = "unsubscribed" => next'[Me] + calm' <= Cycle
      BY <1>1, <1>2, <1>3, <1>4, <1>5, Constants DEF VisInv, Sound, Consumer
    <3>3. QED
      BY <1>1, <3>1, <3>2 DEF VisInv, Sound, Consumer
  <2>3. Transit'
    BY <1>1, <1>6, <1>7 DEF VisInv, Sound, Transit
  <2>4. QED
    BY <2>1, <2>2, <2>3 DEF Sound
<1>10. Spaced'
  <2> SUFFICES ASSUME NEW d \in gossip' \cup checking', d.agent \notin gone'
               PROVE  \/ d.age + next'[d.agent] \in PublishInterval .. Cycle
                      \/ calm' <= d.age
    BY DEF Spaced
  <2>1. PICK c \in gossip \cup checking : d.agent = c.agent /\ d.age = c.age + 1
    BY <1>7
  <2>2. \/ c.age + next[c.agent] \in PublishInterval .. Cycle
        \/ calm <= c.age
    BY <1>1, <2>1 DEF VisInv, Spaced
  <2>3. QED
    BY <1>1, <1>2, <1>3, <1>4, <1>8, <2>1, <2>2
<1>11. Kept'
  <2> SUFFICES ASSUME NEW w \in Advertised \ gone
               PROVE  Due(w)' \/ (\E d \in gossip' \cup checking' : Coming(w, d)') \/ Held(w)'
    BY <1>1 DEF Kept
  <2>0. w \in Worker \ gone /\ next[w] \in Nat /\ next'[w] = next[w] - 1 /\ next'[w] \in Nat
    BY <1>4, Constants
  <2>1. CASE Due(w)
    BY <1>2, <1>3, <2>0, <2>1, Constants DEF Due
  <2>2. CASE Held(w)
    <3>1. view[w] \in Nat /\ w \in DOMAIN view
      BY <2>2 DEF Held, VisInv, Sound, Transit
    <3>2. w \in DOMAIN view' /\ view'[w] \in Nat /\ view'[w] <= view[w] + 1
      BY <1>6, <3>1
    <3>3. QED
      BY <2>0, <2>2, <3>1, <3>2, Constants DEF Held
  <2>3. CASE \E c \in gossip \cup checking : Coming(w, c)
    <3>1. PICK c \in gossip \cup checking : Coming(w, c)
      BY <2>3
    <3>2. PICK d \in gossip' \cup checking' : d.agent = c.agent /\ d.age = c.age + 1
      BY <1>7
    <3>3. c.age \in Nat
      BY <1>8
    <3>4. calm <= Awake + Cycle + c.age => calm' <= Awake + Cycle + d.age
      BY <1>2, <1>3, <3>2, <3>3, Constants
    <3>5. ASSUME w \in DOMAIN view, view[w] <= c.age + Cycle
          PROVE  w \in DOMAIN view' /\ view'[w] <= d.age + Cycle
      <4>1. view[w] \in Nat
        BY <3>5 DEF VisInv, Sound, Transit
      <4>2. w \in DOMAIN view' /\ view'[w] \in Nat /\ view'[w] <= view[w] + 1
        BY <1>6, <3>5
      <4>3. QED
        BY <3>2, <3>3, <3>5, <4>1, <4>2, Constants
    <3>6. d.agent = w /\ d.age + next'[w] <= Cycle
      BY <2>0, <3>1, <3>2, <3>3, Constants DEF Coming
    <3>7. Coming(w, d)'
      BY <3>1, <3>4, <3>5, <3>6 DEF Coming
    <3>8. QED
      BY <3>7
  <2>4. QED
    BY <2>1, <2>2, <2>3 DEF VisInv, Kept
<1>12. QED
  BY <1>9, <1>10, <1>11 DEF VisInv

\* A disturbance starts the calm again.
LEMMA DisturbanceKeeps ==
  ASSUME VisInv,
         \/ \E c \in gossip \cup checking : Lose(c)
         \/ \E w \in Worker : Leave(w) \/ Rejoin(w)
         \/ Away \/ StreamEnds \/ Restart
  PROVE  VisInv'
<1>1. calm' = 0
  BY DEF Lose, Leave, Rejoin, Away, StreamEnds, Restart, Disturb
<1>2. Clocks'
  <2>1. Me \notin gone' /\ x0xd' \in BOOLEAN
    BY ZenonT(40) DEF Lose, Leave, Rejoin, Away, StreamEnds, Restart, VisInv, Sound, Clocks
  <2>2. \/ UNCHANGED next
        \/ \E w \in Worker : next' = [next EXCEPT ![w] = 0]
    BY Constants DEF Lose, Leave, Rejoin, Away, StreamEnds, Restart
  <2>3. next' \in [Worker -> 0 .. Cycle]
    BY <2>2, Constants DEF VisInv, Sound, Clocks
  <2>4. QED
    BY <1>1, <2>1, <2>3, Constants, SMTT(30) DEF Clocks
<1>3. Consumer'
  <2>1. CASE UNCHANGED <<stream, wait, backoff>>
    <3>1. next'[Me] \in 0 .. Cycle
      BY <1>2, Constants DEF Clocks
    <3>2. Consumer /\ next[Me] \in 0 .. Cycle /\ calm \in 0 .. Settled
      BY Constants DEF VisInv, Sound, Clocks
    <3>3. stream = "asleep" => wait <= MaxBackoff
      BY <3>2, Constants DEF Consumer
    <3>4. /\ backoff' \in 1 .. MaxBackoff /\ wait' \in Nat
          /\ stream' \in {"unsubscribed", "asleep", "open"}
      BY <2>1, <3>2, Zenon DEF Consumer
    <3>5. stream' = "asleep" => wait' + calm' <= MaxBackoff
      BY <1>1, <2>1, <3>3, <3>4
    <3>6. next'[Me] + calm' <= Cycle
      BY <1>1, <3>1, Constants
    <3>7. QED
      BY <3>4, <3>5, <3>6, Zenon DEF Consumer
  <2>2. CASE Sleep
    BY <1>1, <2>2, SleepBounded, Constants, SMTT(30) DEF VisInv, Sound, Consumer
  <2>3. CASE Restart
    <3>1. next'[Me] = 0
      BY <2>3, Constants DEF Restart, VisInv, Sound, Clocks
    <3>2. QED
      BY <1>1, <2>3, <3>1, Constants DEF Restart, Consumer
  <2>4. QED
    BY <2>1, <2>2, <2>3 DEF Lose, Leave, Rejoin, Away, StreamEnds, reader
<1>4. Transit'
  <2>1. /\ gossip' \subseteq gossip /\ checking' \subseteq checking
        /\ view' = view \/ view' = << >>
    BY DEF Lose, Leave, Rejoin, Away, StreamEnds, Restart, reader
  <2>2. \A w \in DOMAIN view' : view'[w] \in Nat
    BY <2>1 DEF VisInv, Sound, Transit
  <2>3. QED
    BY <2>1, <2>2 DEF VisInv, Sound, Transit
<1>5. QED
  BY <1>1, <1>2, <1>3, <1>4, Afresh, SMTT(30) DEF VisInv, Sound

\* The consumer's attempts, and steps that are no news to the view.
LEMMA OtherKeeps ==
  ASSUME VisInv, Resubscribe \/ CreateIssue \/ Back \/ UNCHANGED vars
  PROVE  VisInv'
<1>1. UNCHANGED <<view, checking, next, gossip, gone, calm>>
  BY DEF Resubscribe, CreateIssue, Back, vars, reader
<1>2. Transit'
  BY <1>1 DEF VisInv, Sound, Transit
<1>3. Clocks'
  <2>1. x0xd' \in BOOLEAN /\ (~x0xd' => ~x0xd)
    BY DEF Resubscribe, CreateIssue, Back, vars, VisInv, Sound, Clocks
  <2>2. QED
    BY <1>1, <2>1 DEF VisInv, Sound, Clocks
<1>4. Consumer'
  <2>1. CASE UNCHANGED <<stream, wait, backoff>>
    BY <1>1, <2>1 DEF VisInv, Sound, Consumer
  <2>2. CASE stream' = "open" /\ wait' = 0 /\ backoff' = 1
    BY <2>2, Constants DEF Consumer
  <2>3. CASE ~x0xd /\ Sleep
    <3>1. calm' = 0
      BY <1>1, <2>3 DEF VisInv, Sound, Clocks
    <3>2. QED
      BY <2>3, <3>1, SleepBounded, Constants DEF VisInv, Sound, Consumer
  <2>4. QED
    BY <2>1, <2>2, <2>3 DEF Resubscribe, CreateIssue, Back, vars, reader, Answers
<1>5. QED
  BY <1>1, <1>2, <1>3, <1>4, Unmoved DEF VisInv, Sound

\* From Settled seconds after the last disturbance on, every advertised worker whose
\* key is known and that has not left has a live card in the view at every instant
\* (run_loop's interval of half the TTL, reap_expired, RetryBackoff): for every
\* number of workers and every TTL, lag, delay and back-off for which a card is
\* handled before its agent sends the next, and the next before it expires.
THEOREM WorkersStayVisible == Timely => (Spec => []VisibleUnlessDisturbed)
<1> SUFFICES ASSUME Timely PROVE Spec => []VisibleUnlessDisturbed
  OBVIOUS
<1>1. Init => VisInv
  <2> SUFFICES ASSUME Init PROVE VisInv
    OBVIOUS
  <2>1. next \in [Worker -> 0 .. Cycle] /\ next[Me] = 0
    BY Constants DEF Init
  <2>2. /\ calm = 0 /\ gone = {} /\ gossip = {} /\ checking = {} /\ x0xd \in BOOLEAN
        /\ stream = "unsubscribed" /\ wait = 0 /\ backoff = 1 /\ DOMAIN view = {}
    BY DEF Init, Fresh
  <2>3. Sound
    BY <2>1, <2>2, Constants DEF Sound, Clocks, Consumer, Transit
  <2>4. ASSUME NEW w \in Knows PROVE Due(w)
    <3>1. next[w] \in 0 .. Cycle
      BY <2>1, Constants
    <3>2. QED
      BY <2>2, <3>1, Constants DEF Due
  <2>5. QED
    BY <2>2, <2>3, <2>4, Constants DEF VisInv, Spaced, Kept
<1>2. VisInv /\ Local /\ [Next]_vars => VisInv'
  BY PublishKeeps, RunLoopKeeps, InsertLocalKeeps, ReceiveKeeps, InsertKeeps, MissedKeeps, SnapshotKeepsVisible,
     TickKeepsVisible, DisturbanceKeeps, OtherKeeps DEF Next
<1>3. VisInv => VisibleUnlessDisturbed
  <2> SUFFICES ASSUME VisInv, calm = Settled, NEW w \in Advertised \ gone PROVE w \in Live(view)
    BY DEF VisibleUnlessDisturbed
  <2>1. next[w] \in 0 .. Cycle
    BY Constants DEF VisInv, Sound, Clocks
  <2>2. ~Due(w)
    BY <2>1, Constants DEF Due
  <2>3. w \in DOMAIN view /\ view[w] <= Delay + Cycle
    <3>1. CASE Held(w)
      <4>1. view[w] \in Nat
        BY <3>1 DEF Held, VisInv, Sound, Transit
      <4>2. QED
        BY <2>1, <3>1, <4>1, Constants DEF Held
    <3>2. CASE \E c \in gossip \cup checking : Coming(w, c)
      <4>1. PICK c \in gossip \cup checking : Coming(w, c)
        BY <3>2
      <4>2. c.age \in Nat /\ c.age <= Delay
        BY Constants DEF VisInv, Sound, Transit, Cards
      <4>3. w \in DOMAIN view /\ view[w] <= c.age + Cycle
        BY <4>1, <4>2, Constants DEF Coming
      <4>4. view[w] \in Nat
        BY <4>3 DEF VisInv, Sound, Transit
      <4>5. QED
        BY <4>2, <4>3, <4>4, Constants
    <3>3. QED
      BY <2>2, <3>1, <3>2 DEF VisInv, Kept
  <2>4. view[w] \in Nat
    BY <2>3 DEF VisInv, Sound, Transit
  <2>5. ~IsExpired(view[w])
    BY <2>3, <2>4, Constants DEF IsExpired, Timely
  <2>6. QED
    BY <2>3, <2>5 DEF Live
<1>4. QED
  BY <1>1, <1>2, <1>3, LocalHolds, PTL DEF Spec

-----------------------------------------------------------------------------
(***************************************************************************)
(* A slate names the closest live workers.  The ranking exists because a   *)
(* worker's place in it is one more than the number of closer workers; no  *)
(* card is younger than its agent's last publish.                          *)
(***************************************************************************)

\* Distance and then identifier is a strict order on workers.
LEMMA Order ==
  ASSUME NEW distance \in [Worker -> Nat], NEW a \in Worker, NEW b \in Worker, NEW c \in Worker
  PROVE  /\ ~Closer(distance, a, a)
         /\ Closer(distance, a, b) \/ a = b \/ Closer(distance, b, a)
         /\ Closer(distance, a, b) /\ Closer(distance, b, c) => Closer(distance, a, c)
<1>1. a \in Nat /\ b \in Nat /\ c \in Nat
  BY ViewAssumption
<1>2. distance[a] \in Nat /\ distance[b] \in Nat /\ distance[c] \in Nat
  OBVIOUS
<1>3. QED
  BY <1>1, <1>2 DEF Closer

\* A finite set of workers can be ranked.
LEMMA RankingExists ==
  ASSUME NEW S \in SUBSET Worker, IsFiniteSet(S), NEW distance \in [Worker -> Nat]
  PROVE  \E s \in [1 .. Cardinality(S) -> S] :
           \A i, j \in DOMAIN s : i < j => Closer(distance, s[i], s[j])
<1> DEFINE n == Cardinality(S)
           Before(x) == {y \in S : Closer(distance, y, x)}
           place == [x \in S |-> Cardinality(Before(x)) + 1]
<1>1. n \in Nat
  BY FS_CardinalityType
<1>2. ASSUME NEW x \in S
      PROVE  IsFiniteSet(Before(x)) /\ Cardinality(Before(x)) \in Nat /\ Cardinality(Before(x)) < n
  <2>1. x \notin Before(x)
    BY Order
  <2>2. IsFiniteSet(Before(x)) /\ Cardinality(Before(x)) <= n /\ (n = Cardinality(Before(x)) => S = Before(x))
    BY FS_Subset
  <2>3. Cardinality(Before(x)) \in Nat
    BY <2>2, FS_CardinalityType
  <2>4. Cardinality(Before(x)) # n
    BY <2>1, <2>2
  <2> HIDE DEF n, Before
  <2>5. QED
    BY <1>1, <2>2, <2>3, <2>4
<1>3. place \in [S -> 1 .. n]
  <2> HIDE DEF n, Before
  <2>1. QED
    BY <1>1, <1>2
<1>4. ASSUME NEW x \in S, NEW y \in S, Closer(distance, x, y)
      PROVE  place[x] < place[y]
  <2>1. Before(x) \in SUBSET Before(y)
    BY <1>4, Order
  <2>2. x \in Before(y) /\ x \notin Before(x)
    BY <1>4, Order
  <2>3. /\ Cardinality(Before(x)) <= Cardinality(Before(y))
        /\ Cardinality(Before(y)) = Cardinality(Before(x)) => Before(y) = Before(x)
    <3> HIDE DEF Before
    <3>1. QED
      BY <1>2, <2>1, FS_Subset
  <2> HIDE DEF Before
  <2>4. QED
    BY <1>2, <2>2, <2>3
<1> HIDE DEF place
<1>5. place \in Injection(S, 1 .. n)
  <2>1. ASSUME NEW x \in S, NEW y \in S, x # y
        PROVE  place[x] # place[y]
    <3>1. Closer(distance, x, y) \/ Closer(distance, y, x)
      BY <2>1, Order
    <3>2. place[x] \in Nat /\ place[y] \in Nat
      BY <1>1, <1>3
    <3>3. QED
      BY <1>4, <3>1, <3>2
  <2>2. QED
    BY <1>3, <2>1 DEF Injection, IsInjective
<1>6. place \in Surjection(S, 1 .. n)
  <2>1. IsFiniteSet(1 .. n) /\ Cardinality(1 .. n) = n
    BY <1>1, FS_Interval
  <2>2. QED
    BY <1>5, <2>1, FS_Injection
<1> DEFINE s == [i \in 1 .. n |-> CHOOSE x \in S : place[x] = i]
<1>7. ASSUME NEW i \in 1 .. n
      PROVE  s[i] \in S /\ place[s[i]] = i
  <2>1. \E x \in S : place[x] = i
    BY <1>3, <1>6 DEF Surjection
  <2>2. QED
    BY <2>1
<1>8. s \in [1 .. n -> S]
  BY <1>7
<1> HIDE DEF s
<1>9. ASSUME NEW i \in 1 .. n, NEW j \in 1 .. n, i < j
      PROVE  Closer(distance, s[i], s[j])
  <2>1. s[i] \in S /\ s[j] \in S /\ place[s[i]] = i /\ place[s[j]] = j
    BY <1>7
  <2>2. s[i] # s[j]
    BY <1>9, <2>1
  <2>3. ~Closer(distance, s[j], s[i])
    BY <1>4, <1>9, <2>1
  <2>4. QED
    BY <2>1, <2>2, <2>3, Order
<1>10. QED
  BY <1>8, <1>9

\* What assign_with_metadata sorts the workers into.
LEMMA RankedIs ==
  ASSUME NEW S \in SUBSET Worker, IsFiniteSet(S), NEW distance \in [Worker -> Nat]
  PROVE  /\ Ranked(S, distance) \in [1 .. Cardinality(S) -> S]
         /\ \A i, j \in 1 .. Cardinality(S) :
              i < j => Closer(distance, Ranked(S, distance)[i], Ranked(S, distance)[j])
         /\ \A w \in S : \E i \in 1 .. Cardinality(S) : Ranked(S, distance)[i] = w
<1> DEFINE n == Cardinality(S)
           s == Ranked(S, distance)
<1>1. n \in Nat
  BY FS_CardinalityType
<1>2. s \in [1 .. n -> S] /\ \A i, j \in DOMAIN s : i < j => Closer(distance, s[i], s[j])
  BY RankingExists DEF Ranked
<1> HIDE DEF s
<1>3. \A i, j \in 1 .. n : i < j => Closer(distance, s[i], s[j])
  BY <1>2
<1>4. s \in Injection(1 .. n, S)
  <2>1. ASSUME NEW i \in 1 .. n, NEW j \in 1 .. n, i < j
        PROVE  s[i] # s[j]
    <3>1. s[i] \in Worker
      BY <1>2
    <3>2. QED
      BY <1>3, <2>1, <3>1, Order
  <2>2. ASSUME NEW i \in 1 .. n, NEW j \in 1 .. n, s[i] = s[j]
        PROVE  i = j
    BY <1>1, <2>1, <2>2
  <2>3. QED
    BY <1>2, <2>2 DEF Injection, IsInjective
<1>5. s \in Surjection(1 .. n, S)
  <2>1. IsFiniteSet(1 .. n) /\ Cardinality(1 .. n) = n
    BY <1>1, FS_Interval
  <2>2. QED
    BY <1>4, <2>1, FS_Injection
<1>6. \A w \in S : \E i \in 1 .. n : s[i] = w
  BY <1>5 DEF Surjection
<1>7. QED
  BY <1>2, <1>3, <1>6 DEF s

\* The slate is the front of the ranking.
LEMMA SlateIs ==
  ASSUME NEW S \in SUBSET Worker, IsFiniteSet(S), S # {}, NEW distance \in [Worker -> Nat]
  PROVE  LET slate == Assign(S, distance)
             chosen == Range(slate)
         IN  /\ chosen \subseteq S
             /\ Len(slate) = Cardinality(chosen)
             /\ Len(slate) = Smaller(Larger(Factor, 1), Cardinality(S))
             /\ \A v \in chosen : distance[slate[1]] <= distance[v]
             /\ \A v \in chosen, w \in S \ chosen : Closer(distance, v, w)
<1> DEFINE n == Cardinality(S)
           s == Ranked(S, distance)
           k == Smaller(Larger(Factor, 1), n)
           slate == Assign(S, distance)
           chosen == Range(slate)
<1>1. n \in Nat /\ n >= 1
  <2>1. n \in Nat /\ n # 0
    BY FS_CardinalityType, FS_EmptySet
  <2>2. QED
    BY <2>1
<1>2. /\ s \in [1 .. n -> S]
      /\ \A i, j \in 1 .. n : i < j => Closer(distance, s[i], s[j])
      /\ \A w \in S : \E i \in 1 .. n : s[i] = w
  BY RankedIs
<1> HIDE DEF n, s
<1>3. k \in 1 .. n /\ k = 1 + Smaller(Larger(Factor, 1) - 1, n - 1)
  BY <1>1, ViewAssumption DEF Smaller, Larger
<1>4. slate = SubSeq(s, 1, k)
  <2>1. Len(s) = n
    BY <1>1, <1>2
  <2>2. QED
    BY <1>3, <2>1 DEF Assign, s
<1> HIDE DEF slate, k
<1>5. slate = [i \in 1 .. k |-> s[i]] /\ Len(slate) = k
  <2>1. s \in Seq(S) /\ Len(s) = n
    BY <1>1, <1>2
  <2>2. QED
    BY <1>1, <1>3, <1>4, <2>1
<1>6. DOMAIN slate = 1 .. k /\ \A i \in 1 .. k : slate[i] = s[i] /\ s[i] \in S
  BY <1>1, <1>2, <1>3, <1>5
<1>7. chosen = {s[i] : i \in 1 .. k}
  BY <1>6 DEF Range
<1> HIDE DEF chosen
<1>8. chosen \subseteq S
  BY <1>6, <1>7
<1>9. Cardinality(chosen) = k
  <2>1. ASSUME NEW i \in 1 .. k, NEW j \in 1 .. k, i < j
        PROVE  s[i] # s[j]
    <3>1. s[i] \in Worker
      BY <1>6
    <3>2. Closer(distance, s[i], s[j])
      BY <1>1, <1>2, <1>3, <2>1
    <3>3. QED
      BY <3>1, <3>2, Order
  <2>2. ASSUME NEW i \in 1 .. k, NEW j \in 1 .. k, slate[i] = slate[j]
        PROVE  i = j
    BY <1>1, <1>3, <1>6, <2>1, <2>2
  <2>3. slate \in [1 .. k -> chosen]
    BY <1>5, <1>7
  <2>4. slate \in Bijection(1 .. k, chosen)
    <3>1. slate \in Injection(1 .. k, chosen)
      BY <2>2, <2>3 DEF Injection, IsInjective
    <3>2. slate \in Surjection(1 .. k, chosen)
      BY <1>6, <1>7, <2>3 DEF Surjection
    <3>3. QED
      BY <3>1, <3>2 DEF Bijection
  <2>5. ExistsBijection(1 .. k, chosen)
    BY <2>4 DEF ExistsBijection
  <2>6. k \in Nat
    BY <1>1, <1>3
  <2>7. QED
    BY <2>5, <2>6, FS_CountingElements
<1>10. ASSUME NEW v \in chosen PROVE distance[slate[1]] <= distance[v]
  <2>1. PICK i \in 1 .. k : v = s[i]
    BY <1>7
  <2>2. slate[1] = s[1] /\ s[1] \in Worker /\ s[i] \in Worker
    BY <1>1, <1>3, <1>6
  <2>3. distance[s[1]] \in Nat /\ distance[s[i]] \in Nat
    BY <2>2
  <2>4. CASE i = 1
    BY <2>1, <2>2, <2>3, <2>4
  <2>5. CASE i > 1
    <3>1. Closer(distance, s[1], s[i])
      BY <1>1, <1>2, <1>3, <2>5
    <3>2. QED
      BY <2>1, <2>2, <2>3, <3>1 DEF Closer
  <2>6. QED
    BY <1>1, <1>3, <2>4, <2>5
<1>11. ASSUME NEW v \in chosen, NEW w \in S \ chosen PROVE Closer(distance, v, w)
  <2>1. PICK i \in 1 .. k : v = s[i]
    BY <1>7
  <2>2. PICK j \in 1 .. n : w = s[j]
    BY <1>2
  <2>3. j \notin 1 .. k
    BY <1>7, <2>2
  <2>4. i \in 1 .. n /\ i < j
    BY <1>1, <1>3, <2>3
  <2>5. QED
    BY <1>2, <2>1, <2>2, <2>4
<1>12. QED
  BY <1>5, <1>8, <1>9, <1>10, <1>11 DEF chosen, slate, k, n

\* The cards of the view and of a creation under way, and those on their way.
\* Nobody's card is younger than the time since they last issued one.
NotYounger(cards) ==
  /\ IsFiniteSet(DOMAIN cards) /\ DOMAIN cards \subseteq Knows
  /\ \A w \in DOMAIN cards : cards[w] \in Nat /\ last[w] <= cards[w]

SlateInv ==
  /\ last \in [Worker -> Nat]
  /\ gossip \cup checking \subseteq Cards
  /\ \A c \in gossip \cup checking : last[c.agent] <= c.age
  /\ \A c \in checking : c.agent \in Knows
  /\ NotYounger(view)
  /\ job # None => DOMAIN job = {"cards", "epoch"} /\ NotYounger(job.cards)

\* Issuing a card makes nobody's last one older.
Reissues == last' \in [Worker -> Nat] /\ \A v \in Worker : last'[v] <= last[v]

\* A publish is one.
LEMMA Reissued ==
  ASSUME SlateInv, NEW w \in Worker, last' = [last EXCEPT ![w] = 0]
  PROVE  Reissues /\ last'[w] = 0
  BY DEF SlateInv, Reissues

\* The view after a step that does not touch it.
LEMMA ViewNotYounger ==
  ASSUME SlateInv, Reissues, view' = view \/ view' = << >>
  PROVE  NotYounger(view)'
<1>1. CASE view' = view
  <2> SUFFICES ASSUME NEW v \in DOMAIN view PROVE view[v] \in Nat /\ last'[v] <= view[v]
    BY <1>1 DEF SlateInv, NotYounger
  <2>1. v \in Worker /\ view[v] \in Nat /\ last[v] <= view[v]
    BY ViewAssumption DEF SlateInv, NotYounger
  <2>2. last[v] \in Nat /\ last'[v] \in Nat /\ last'[v] <= last[v]
    BY <2>1 DEF SlateInv, Reissues
  <2>3. QED
    BY <2>1, <2>2
<1>2. CASE view' = << >>
  <2>1. DOMAIN view' = {}
    BY <1>2
  <2>2. QED
    BY <2>1, FS_EmptySet DEF NotYounger
<1>3. QED
  BY <1>1, <1>2

\* The view after insert_local_card or insert_verified.
LEMMA InsertNotYounger ==
  ASSUME SlateInv, Reissues, NEW w \in Knows, NEW age \in Nat, last'[w] <= age, Insert(w, age)
  PROVE  NotYounger(view)'
<1>1. /\ DOMAIN view' = DOMAIN view \cup {w}
      /\ \A v \in DOMAIN view \cup {w} : view'[v] = IF v = w THEN age ELSE view[v]
  BY DEF Insert
<1>2. IsFiniteSet(DOMAIN view')
  <2>1. PICK d : d = DOMAIN view
    OBVIOUS
  <2>2. IsFiniteSet(d \cup {w})
    BY <2>1, FS_AddElement DEF SlateInv, NotYounger
  <2>3. QED
    BY <1>1, <2>1, <2>2
<1>3. ASSUME NEW v \in DOMAIN view' PROVE view'[v] \in Nat /\ last'[v] <= view'[v]
  <2>1. CASE v = w
    BY <1>1, <2>1
  <2>2. CASE v # w
    <3>1. v \in Worker /\ view[v] \in Nat /\ last[v] <= view[v] /\ view'[v] = view[v]
      BY <1>1, <2>2, ViewAssumption DEF SlateInv, NotYounger
    <3>2. last[v] \in Nat /\ last'[v] \in Nat /\ last'[v] <= last[v]
      BY <3>1 DEF SlateInv, Reissues
    <3>3. QED
      BY <3>1, <3>2
  <2>3. QED
    BY <2>1, <2>2
<1>4. DOMAIN view' \subseteq Knows
  BY <1>1 DEF SlateInv, NotYounger
<1>5. QED
  BY <1>2, <1>3, <1>4 DEF NotYounger

\* A step that starts no creation and ages no card.
LEMMA SlateKept ==
  ASSUME SlateInv, Reissues, NotYounger(view)', job' = job \/ job' = None,
         \A c \in gossip' \cup checking' :
            c \in gossip \cup checking \/ \E w \in Worker : c = Card(w) /\ last'[w] = 0,
         \A c \in checking' : c.agent \in Knows
  PROVE  SlateInv'
<1>1. ASSUME NEW c \in gossip' \cup checking'
      PROVE  c \in Cards /\ last'[c.agent] <= c.age
  <2>1. CASE c \in gossip \cup checking
    <3>1. c \in Cards /\ last[c.agent] <= c.age
      BY <2>1 DEF SlateInv
    <3>2. c.agent \in Worker /\ c.age \in Nat
      BY <3>1 DEF Cards
    <3>3. last[c.agent] \in Nat /\ last'[c.agent] \in Nat /\ last'[c.agent] <= last[c.agent]
      BY <3>2 DEF SlateInv, Reissues
    <3>4. QED
      BY <3>1, <3>2, <3>3
  <2>2. CASE \E w \in Worker : c = Card(w) /\ last'[w] = 0
    <3>1. PICK w \in Worker : c = Card(w) /\ last'[w] = 0
      BY <2>2
    <3>2. QED
      BY <3>1, NewCard
  <2>3. QED
    BY <2>1, <2>2
<1>2. ASSUME job' # None PROVE (DOMAIN job = {"cards", "epoch"} /\ NotYounger(job.cards))'
  <2>1. job' = job /\ job # None
    BY <1>2
  <2>2. DOMAIN job = {"cards", "epoch"} /\ NotYounger(job.cards)
    BY <2>1 DEF SlateInv
  <2>3. ASSUME NEW v \in DOMAIN job.cards PROVE job.cards[v] \in Nat /\ last'[v] <= job.cards[v]
    <3>1. v \in Worker /\ job.cards[v] \in Nat /\ last[v] <= job.cards[v]
      BY <2>2, ViewAssumption DEF NotYounger
    <3>2. last[v] \in Nat /\ last'[v] \in Nat /\ last'[v] <= last[v]
      BY <3>1 DEF SlateInv, Reissues
    <3>3. QED
      BY <3>1, <3>2
  <2>4. QED
    BY <2>1, <2>2, <2>3 DEF NotYounger
<1>3. QED
  BY <1>1, <1>2 DEF SlateInv, Reissues

\* A second makes a card and its agent's last publish older alike.
LEMMA AgedAlike ==
  ASSUME NEW a \in Nat, NEW b \in Nat, a <= b
  PROVE  /\ Smaller(a + 1, TemplateTtl) \in Nat /\ Smaller(b + 1, TemplateTtl) \in Nat
         /\ Smaller(a + 1, TemplateTtl) <= Smaller(b + 1, TemplateTtl)
         /\ Smaller(a + 1, TemplateTtl) <= b + 1
  BY Constants DEF Smaller

\* A second passes.
LEMMA TickSlate ==
  ASSUME SlateInv, Tick
  PROVE  SlateInv'
<1>1. last' = [w \in Worker |-> Smaller(last[w] + 1, TemplateTtl)]
  BY DEF Tick
<1>2. \A w \in Worker : last[w] \in Nat
  BY DEF SlateInv
<1>3. last' \in [Worker -> Nat]
  BY <1>1, <1>2, AgedAlike
<1>4. ASSUME NEW d \in gossip' \cup checking'
      PROVE  /\ d \in Cards /\ last'[d.agent] <= d.age
             /\ d \in checking' => d.agent \in Knows
  <2>1. PICK g, h : g = gossip /\ h = checking
    OBVIOUS
  <2>2. /\ g \in SUBSET Cards /\ h \in SUBSET Cards
        /\ \A c \in g : c.due > 0
        /\ \A c \in h : c.due > 0
    BY <2>1 DEF SlateInv, Tick
  <2>3. d \in Older(g) \/ d \in Older(h)
    BY <2>1 DEF Tick
  <2>4. PICK c \in gossip \cup checking :
          /\ d \in Cards /\ d.agent = c.agent /\ d.age = c.age + 1
          /\ d \in checking' => c \in checking
    <3>1. CASE d \in checking'
      <4>1. d \in Older(h)
        BY <2>1, <3>1 DEF Tick
      <4>2. QED
        BY <2>1, <2>2, <4>1, OlderCards
    <3>2. CASE d \notin checking'
      BY <2>1, <2>2, <2>3, <3>2, OlderCards
    <3>3. QED
      BY <3>1, <3>2
  <2>5. c.agent \in Worker /\ c.age \in Nat /\ last[c.agent] <= c.age
    BY DEF SlateInv, Cards
  <2>6. PICK a, b : a = last[c.agent] /\ b = c.age
    OBVIOUS
  <2>7. last'[c.agent] <= c.age + 1
    BY <1>1, <1>2, <2>5, <2>6, AgedAlike
  <2>8. QED
    BY <2>4, <2>7 DEF SlateInv
<1>5. NotYounger(view)'
  <2>1. DOMAIN view' = DOMAIN view
    BY DEF Tick
  <2>2. ASSUME NEW v \in DOMAIN view PROVE view'[v] \in Nat /\ last'[v] <= view'[v]
    <3>1. v \in Worker /\ view[v] \in Nat /\ last[v] <= view[v]
      BY ViewAssumption DEF SlateInv, NotYounger
    <3>2. view'[v] = Smaller(view[v] + 1, TemplateTtl) /\ last'[v] = Smaller(last[v] + 1, TemplateTtl)
      BY <1>1, <3>1 DEF Tick
    <3>3. PICK a, b : a = last[v] /\ b = view[v]
      OBVIOUS
    <3>4. QED
      BY <1>2, <3>1, <3>2, <3>3, AgedAlike
  <2>3. QED
    BY <2>1, <2>2 DEF SlateInv, NotYounger
<1>6. ASSUME job' # None PROVE (DOMAIN job = {"cards", "epoch"} /\ NotYounger(job.cards))'
  <2>1. /\ job # None
        /\ job' = [job EXCEPT !.cards = [w \in DOMAIN @ |-> Smaller(@[w] + 1, TemplateTtl)]]
    BY <1>6 DEF Tick
  <2>2. DOMAIN job = {"cards", "epoch"} /\ NotYounger(job.cards)
    BY <2>1 DEF SlateInv
  <2>3. /\ DOMAIN job' = {"cards", "epoch"}
        /\ job'.cards = [w \in DOMAIN job.cards |-> Smaller(job.cards[w] + 1, TemplateTtl)]
    BY <2>1, <2>2
  <2>4. ASSUME NEW v \in DOMAIN job.cards
        PROVE  job'.cards[v] \in Nat /\ last'[v] <= job'.cards[v]
    <3>1. v \in Worker /\ job.cards[v] \in Nat /\ last[v] <= job.cards[v]
      BY <2>2, ViewAssumption, ZenonT(40) DEF NotYounger
    <3>2. /\ job'.cards[v] = Smaller(job.cards[v] + 1, TemplateTtl)
          /\ last'[v] = Smaller(last[v] + 1, TemplateTtl)
      BY <1>1, <2>3, <3>1
    <3>3. PICK a, b : a = last[v] /\ b = job.cards[v]
      OBVIOUS
    <3>4. QED
      BY <1>2, <3>1, <3>2, <3>3, AgedAlike
  <2>5. DOMAIN job'.cards = DOMAIN job.cards
    BY <2>3
  <2>6. QED
    BY <2>2, <2>3, <2>4, <2>5 DEF NotYounger
<1>7. QED
  BY <1>3, <1>4, <1>5, <1>6 DEF SlateInv

\* The snapshot takes what it leaves in the view.
LEMMA SnapshotSlate ==
  ASSUME SlateInv, SnapshotView
  PROVE  SlateInv'
<1>1. /\ view' = Restrict(view, Live(view)) /\ UNCHANGED <<gossip, checking, last>>
      /\ job' = [cards |-> view', epoch |-> epoch']
  BY DEF SnapshotView, ReapExpired, reader
<1>2. /\ DOMAIN view' \subseteq DOMAIN view
      /\ \A w \in DOMAIN view' : view'[w] = view[w]
  BY <1>1 DEF Restrict, Live
<1>3. IsFiniteSet(DOMAIN view')
  <2>1. PICK d, e : d = DOMAIN view /\ e = DOMAIN view'
    OBVIOUS
  <2>2. IsFiniteSet(d) /\ e \in SUBSET d
    BY <1>2, <2>1 DEF SlateInv, NotYounger
  <2>3. QED
    BY <2>1, <2>2, FS_Subset
<1>4. NotYounger(view)'
  BY <1>1, <1>2, <1>3 DEF SlateInv, NotYounger
<1>5. job'.cards = view' /\ DOMAIN job' = {"cards", "epoch"}
  BY <1>1
<1>6. NotYounger(job.cards)'
  BY <1>4, <1>5 DEF NotYounger
<1>7. QED
  BY <1>1, <1>4, <1>5, <1>6 DEF SlateInv

\* Steps that neither publish, insert nor age a card.
LEMMA OtherSlate ==
  ASSUME SlateInv, UNCHANGED last, view' = view \/ view' = << >>, job' = job \/ job' = None,
         gossip' \cup checking' \subseteq gossip \cup checking,
         \A c \in checking' : c.agent \in Knows
  PROVE  SlateInv'
<1>1. Reissues
  BY DEF SlateInv, Reissues
<1>2. NotYounger(view)'
  BY <1>1, ViewNotYounger
<1>3. QED
  BY <1>1, <1>2, SlateKept

\* Every step keeps the cards no younger than their agents' last publish.
LEMMA SlateStep ==
  ASSUME SlateInv, Local, [Next]_vars
  PROVE  SlateInv'
<1>1. ASSUME NEW w \in Worker, Publish(w) PROVE SlateInv'
  <2>1. Reissues /\ last'[w] = 0
    BY <1>1, Reissued DEF Publish
  <2>2. /\ UNCHANGED <<view, checking, job>> /\ gossip' = gossip \cup {Card(w)}
    BY <1>1 DEF Publish, reader
  <2>3. NotYounger(view)'
    BY <2>1, <2>2, ViewNotYounger
  <2>4. \A c \in checking' : c.agent \in Knows
    BY <2>2 DEF SlateInv
  <2>5. QED
    BY <2>1, <2>2, <2>3, <2>4, SlateKept
<1>2. ASSUME RunLoop PROVE SlateInv'
  <2>1. UNCHANGED <<checking, job>>
    BY <1>2 DEF RunLoop
  <2>2. \A c \in checking' : c.agent \in Knows
    BY <2>1 DEF SlateInv
  <2>3. /\ UNCHANGED view
        /\ \/ UNCHANGED <<gossip, last>>
           \/ last' = [last EXCEPT ![Me] = 0] /\ gossip' = gossip \cup {Card(Me)}
    BY <1>2 DEF RunLoop, PublishCard
  <2>4. CASE last' = [last EXCEPT ![Me] = 0] /\ gossip' = gossip \cup {Card(Me)}
    <3>1. Reissues /\ last'[Me] = 0
      BY <2>4, Reissued, Constants
    <3>2. NotYounger(view)'
      BY <2>3, <3>1, ViewNotYounger
    <3>3. QED
      BY <2>1, <2>2, <2>4, <3>1, <3>2, SlateKept, Constants
  <2>5. CASE UNCHANGED <<gossip, last>>
    BY <2>1, <2>2, <2>3, <2>5, OtherSlate
  <2>6. QED
    BY <2>3, <2>4, <2>5
<1>3. ASSUME NEW c \in posted, InsertLocalCard(c) PROVE SlateInv'
  <2>1. UNCHANGED <<gossip, checking, job, last>> /\ Insert(Me, c.age)
    BY <1>3 DEF InsertLocalCard, reader
  <2>2. Reissues
    BY <2>1 DEF SlateInv, Reissues
  <2>3. PICK age \in Nat : age = c.age /\ last'[Me] <= age
    BY <2>1 DEF Local, Cards
  <2>4. NotYounger(view)'
    BY <2>1, <2>2, <2>3, InsertNotYounger, Constants
  <2>5. \A d \in checking' : d.agent \in Knows
    BY <2>1 DEF SlateInv
  <2>6. QED
    BY <2>1, <2>2, <2>4, <2>5, SlateKept
<1>4. ASSUME NEW c \in checking, InsertVerified(c) PROVE SlateInv'
  <2>1. /\ UNCHANGED <<gossip, job, last>> /\ checking' = {} /\ Insert(c.agent, c.age)
    BY <1>4 DEF InsertVerified
  <2>2. Reissues
    BY <2>1 DEF SlateInv, Reissues
  <2>3. c.agent \in Knows /\ c.age \in Nat /\ last'[c.agent] <= c.age
    BY <2>1 DEF SlateInv, Cards
  <2>4. NotYounger(view)'
    <3>1. PICK w, age : w = c.agent /\ age = c.age
      OBVIOUS
    <3>2. QED
      BY <2>1, <2>2, <2>3, <3>1, InsertNotYounger
  <2>5. QED
    BY <2>1, <2>2, <2>4, SlateKept
<1>5. ASSUME NEW c \in gossip, Receive(c) PROVE SlateInv'
  <2>1. /\ UNCHANGED <<view, last, job>> /\ gossip' \subseteq gossip
        /\ checking' \subseteq {c} /\ \A d \in checking' : d.agent \in Knows
    BY <1>5 DEF Receive, Trusted
  <2>2. QED
    BY <2>1, OtherSlate
<1>6. ASSUME \/ \E c \in gossip : Missed(c)
             \/ \E c \in gossip \cup checking : Lose(c)
             \/ \E w \in Worker : Leave(w)
             \/ \E w \in Worker : Rejoin(w)
             \/ Resubscribe
             \/ CreateIssue
             \/ Away
             \/ Back
             \/ StreamEnds
             \/ Restart
             \/ UNCHANGED vars
      PROVE SlateInv'
  <2>1. /\ UNCHANGED last /\ gossip' \subseteq gossip /\ checking' \subseteq checking
        /\ view' = view \/ view' = << >>
        /\ job' = job \/ job' = None
    BY <1>6 DEF Missed, Lose, Leave, Rejoin, Resubscribe, CreateIssue, Away, Back, StreamEnds,
                Restart, vars, reader
  <2>2. \A c \in checking' : c.agent \in Knows
    BY <2>1 DEF SlateInv
  <2>3. QED
    BY <2>1, <2>2, OtherSlate, SMTT(30)
<1>7. QED
  BY <1>1, <1>2, <1>3, <1>4, <1>5, <1>6, TickSlate, SnapshotSlate DEF Next

\* Whatever the issue's identifier, the slate it would be given names distinct
\* trusted agents that issued a card less than its TTL before, the closest of them
\* first, as many as the factor asks for and there are, and nobody left out is
\* closer than anybody in it (snapshot, live_verified_worker_ids,
\* assign_with_metadata): for every number of workers, TTL, factor and distances.
THEOREM SlatesAreClosestAndLive == Spec => []SlateIsClosestAndLive
<1>1. Init => SlateInv
  <2> SUFFICES ASSUME Init PROVE SlateInv
    OBVIOUS
  <2>1. /\ DOMAIN view = {} /\ gossip = {} /\ checking = {} /\ job = None
        /\ last = [w \in Worker |-> TemplateTtl]
    BY DEF Init, Fresh
  <2>2. NotYounger(view)
    BY <2>1, FS_EmptySet DEF NotYounger
  <2>3. QED
    BY <2>1, <2>2, Constants DEF SlateInv
<1>2. SlateInv /\ Local /\ [Next]_vars => SlateInv'
  BY SlateStep
<1>3. SlateInv => SlateIsClosestAndLive
  <2> SUFFICES ASSUME SlateInv, job # None, LiveVerifiedWorkerIds # {}, NEW distance \in Distances
               PROVE  LET slate == Assign(LiveVerifiedWorkerIds, distance)
                          chosen == Range(slate)
                          rest == LiveVerifiedWorkerIds \ chosen
                      IN  /\ chosen \subseteq {w \in Knows : last[w] < TemplateTtl}
                          /\ Len(slate) = Cardinality(chosen)
                          /\ Len(slate) = Smaller(Larger(Factor, 1), Cardinality(LiveVerifiedWorkerIds))
                          /\ \A v \in chosen : distance[slate[1]] <= distance[v]
                          /\ \A v \in chosen, w \in rest : Closer(distance, v, w)
    BY DEF SlateIsClosestAndLive, Closer
  <2>1. PICK S : S = LiveVerifiedWorkerIds
    OBVIOUS
  <2>2. NotYounger(job.cards) /\ S \subseteq DOMAIN job.cards
    BY <2>1 DEF SlateInv, LiveVerifiedWorkerIds, Live
  <2>3. S \in SUBSET Worker
    BY <2>2, ViewAssumption DEF NotYounger
  <2>4. IsFiniteSet(S)
    <3>1. PICK d : d = DOMAIN job.cards
      OBVIOUS
    <3>2. IsFiniteSet(d) /\ S \in SUBSET d
      BY <2>2, <3>1 DEF NotYounger
    <3>3. QED
      BY <3>2, FS_Subset
  <2>5. distance \in [Worker -> Nat]
    BY ViewAssumption
  <2>6. ASSUME NEW w \in S PROVE w \in Knows /\ last[w] < TemplateTtl
    <3>1. ~IsExpired(job.cards[w])
      BY <2>1 DEF LiveVerifiedWorkerIds, Live
    <3>2. w \in Knows /\ job.cards[w] \in Nat /\ last[w] <= job.cards[w]
      BY <2>2 DEF NotYounger
    <3>3. last[w] \in Nat
      BY <2>3 DEF SlateInv
    <3>4. QED
      BY <3>1, <3>2, <3>3, Constants DEF IsExpired
  <2>7. LET slate == Assign(S, distance)
            chosen == Range(slate)
        IN  /\ chosen \subseteq S
            /\ Len(slate) = Cardinality(chosen)
            /\ Len(slate) = Smaller(Larger(Factor, 1), Cardinality(S))
            /\ \A v \in chosen : distance[slate[1]] <= distance[v]
            /\ \A v \in chosen, w \in S \ chosen : Closer(distance, v, w)
    BY <2>1, <2>3, <2>4, <2>5, SlateIs
  <2>8. QED
    BY <2>1, <2>6, <2>7
<1>4. QED
  BY <1>1, <1>2, <1>3, LocalHolds, PTL DEF Spec
=============================================================================
