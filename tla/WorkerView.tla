----------------------------- MODULE WorkerView -----------------------------
(***************************************************************************)
(* Worker discovery: the view that one daemon, Me, keeps of the worker     *)
(* cards on the gossip topic, and the slates it assigns from it when it    *)
(* creates an issue.                                                       *)
(*                                                                         *)
(* Time is counted in seconds, as the timestamps of the cards are.  What   *)
(* the properties tell apart is how old things are, so a card is its       *)
(* agent and its age.  The publishers, the gossip and Me are timely: what  *)
(* is due happens before the next Tick.  A disturbance is a lost card, an  *)
(* x0xd that is away or a restart of Me; calm is the time since the last.  *)
(* A worker is its identifier, a number, because ties of the assignment    *)
(* are broken by the order of identifiers.                                 *)
(***************************************************************************)
EXTENDS Naturals, Sequences, FiniteSets, Functions

CONSTANTS
  Worker,         \* agents that advertise on the topic
  Me,             \* the viewing daemon's agent
  Knows,          \* agents whose key Me's resolver has
  Ttl,            \* workers.ttl_seconds of every worker
  Lag,            \* the most a publish takes before the sleep begins
  Delay,          \* the most a card takes, verification included
  MaxBackoff,     \* cap of RetryBackoff
  Factor,         \* replication factor of a slate
  Distances,      \* XOR distances an issue's id may have from the workers
  PublishEnabled, \* Me advertises itself
  MaxFaults       \* bound on disturbances

ASSUME ViewAssumption ==
  /\ Worker \subseteq Nat /\ Me \in Knows /\ Knows \subseteq Worker
  /\ Ttl \in Nat /\ Lag \in Nat /\ Delay \in Nat /\ Factor \in Nat
  /\ MaxBackoff \in Nat \ {0} /\ MaxFaults \in Nat
  /\ Distances \subseteq [Worker -> Nat] /\ PublishEnabled \in BOOLEAN

VARIABLES
  view,           \* WorkerView.cards: the age of the card of every agent in it
  epoch,          \* WorkerView.view_epoch
  stream,         \* the consumer: not started, asleep before a retry, or reading
  wait,           \* what is left of its sleep
  backoff,        \* RetryBackoff.current
  checking,       \* cards past their expiry check, their signature being verified
  next,           \* time to every agent's next publish
  gossip,         \* cards on their way to Me
  posted,         \* Me's own card, while x0xd has not accepted it
  gone,           \* peers that have left
  x0xd,           \* Me's x0xd can be reached
  job,            \* the creation under way: what its snapshot returned
  issue,          \* the last issue created: the epoch it records, the view it saw
  last,           \* time since an agent last issued a card
  calm, faults

reader == <<stream, wait, backoff, checking>>
vars == <<view, epoch, reader, next, gossip, posted, gone, x0xd, job, issue, last, calm, faults>>

None == [none |-> TRUE]

Smaller(a, b) == IF a < b THEN a ELSE b
Larger(a, b) == IF a < b THEN b ELSE a

-----------------------------------------------------------------------------
TemplateTtl == Larger(Ttl, 1)

OncePerTtl == TemplateTtl
PublishInterval == Larger(TemplateTtl \div 2, 1)

\* How long after the last disturbance every worker is visible.
Settled == Larger(MaxBackoff, PublishInterval + Lag) + PublishInterval + Lag + Delay + 1

ExpiredLate(age) == age > TemplateTtl
IsExpired(age) == age >= TemplateTtl

\* A card just issued, with the time its delivery may still take.
Card(w) == [agent |-> w, age |-> 0, due |-> Delay]

BumpEpoch == epoch' = epoch + 1

\* insert_local_card and insert_verified: whatever is there is replaced.
Insert(w, age) ==
  /\ view' = [v \in DOMAIN view \cup {w} |-> IF v = w THEN age ELSE view[v]]
  /\ IF w \in DOMAIN view THEN UNCHANGED epoch ELSE BumpEpoch

Live(cards) == {w \in DOMAIN cards : ~IsExpired(cards[w])}

SilentReap == view' = Restrict(view, Live(view)) /\ UNCHANGED epoch

ReapExpired ==
  /\ view' = Restrict(view, Live(view))
  /\ IF view' = view THEN UNCHANGED epoch ELSE BumpEpoch

RetryAfter == [wait |-> backoff, backoff |-> Smaller(2 * backoff, MaxBackoff)]

\* Sleep before the next attempt.
Sleep ==
  /\ stream' = "asleep"
  /\ wait' = RetryAfter.wait /\ backoff' = RetryAfter.backoff

-----------------------------------------------------------------------------
\* assign_with_metadata: the workers by distance, ties by identifier.
Closer(distance, a, b) ==
  distance[a] < distance[b] \/ (distance[a] = distance[b] /\ a < b)

Ranked(workers, distance) ==
  CHOOSE s \in [1 .. Cardinality(workers) -> workers] :
    \A i, j \in DOMAIN s : i < j => Closer(distance, s[i], s[j])

Assign(workers, distance) ==
  LET ranked == Ranked(workers, distance)
  IN  SubSeq(ranked, 1, 1 + Smaller(Larger(Factor, 1) - 1, Len(ranked) - 1))

-----------------------------------------------------------------------------
Fresh ==
  /\ view = << >> /\ epoch = 0
  /\ stream = "unsubscribed" /\ wait = 0 /\ backoff = 1 /\ checking = {}

\* The peers are anywhere in their cycle; Me publishes at once.
Init ==
  /\ Fresh
  /\ next \in [Worker -> 0..PublishInterval] /\ next[Me] = 0
  /\ gossip = {} /\ posted = {} /\ gone = {} /\ x0xd \in BOOLEAN
  /\ job = None /\ issue = None
  /\ last = [w \in Worker |-> TemplateTtl]
  /\ calm = 0 /\ faults = 0

\* A publish, a subscription or a verification succeeds.
Answers == x0xd

\* The consumer is reading /events.
Reading == Answers /\ stream = "open"

\* subscribe starts the consumer once.
Subscribe == stream' = IF stream = "unsubscribed" THEN "open" ELSE stream

\* A round of a peer's run_loop.
Publish(w) ==
  /\ w \notin gone \cup {Me} /\ next[w] = 0
  /\ \E lag \in 0..Lag : next' = [next EXCEPT ![w] = PublishInterval + lag]
  /\ gossip' = gossip \cup {Card(w)}
  /\ last' = [last EXCEPT ![w] = 0]
  /\ UNCHANGED <<view, epoch, reader, posted, gone, x0xd, job, issue, calm, faults>>

\* publish_card: the card is issued and posted; it takes lag until x0xd says so.
PublishCard(lag) ==
  /\ gossip' = gossip \cup {Card(Me)}
  /\ posted' = {[Card(Me) EXCEPT !.due = lag]}
  /\ last' = [last EXCEPT ![Me] = 0]

\* A round of Me's run_loop: the subscription if it is still to be made, then
\* the publish if Me advertises itself, then the sleep.
RunLoop ==
  /\ next[Me] = 0
  /\ \E lag \in 0..Lag :
       /\ next' = [next EXCEPT ![Me] = PublishInterval + lag]
       /\ IF Answers /\ PublishEnabled THEN PublishCard(lag) ELSE UNCHANGED <<gossip, posted, last>>
  /\ IF Answers THEN Subscribe ELSE UNCHANGED stream
  /\ UNCHANGED <<view, epoch, wait, backoff, checking, gone, x0xd, job, issue, calm, faults>>

\* x0xd has accepted the card: insert_local_card.
InsertLocalCard(c) ==
  /\ c \in posted
  /\ posted' = {}
  /\ Insert(Me, c.age)
  /\ UNCHANGED <<reader, next, gossip, gone, x0xd, job, issue, last, calm, faults>>

\* consume_loop's turn after its sleep: resubscribe, then open the stream.
Resubscribe ==
  /\ stream = "asleep" /\ wait = 0
  /\ IF Answers
     THEN stream' = "open" /\ wait' = 0 /\ backoff' = 1
     ELSE Sleep
  /\ UNCHANGED <<view, epoch, checking, next, gossip, posted, gone, x0xd, job, issue, last, calm,
                 faults>>

\* The signer's key is known, and the envelope is the card's.
Trusted(c) == c.agent \in Knows

\* An event of the stream up to the expiry check; the rest awaits the
\* signer.  The consumer takes one event at a time.
Receive(c) ==
  /\ c \in gossip /\ Reading /\ checking = {}
  /\ gossip' = gossip \ {c}
  /\ checking' = IF IsExpired(c.age) \/ ~Trusted(c) THEN {} ELSE {c}
  /\ UNCHANGED <<view, epoch, stream, wait, backoff, next, posted, gone, x0xd, job, issue, last,
                 calm, faults>>

\* The signature is verified, and the card inserted whatever time it is now.
InsertVerified(c) ==
  /\ c \in checking
  /\ checking' = {}
  /\ Insert(c.agent, c.age)
  /\ UNCHANGED <<stream, wait, backoff, next, gossip, posted, gone, x0xd, job, issue, last, calm,
                 faults>>

\* An event for a consumer that is not reading is not kept for it.
Missed(c) ==
  /\ c \in gossip /\ ~Reading
  /\ gossip' = gossip \ {c}
  /\ UNCHANGED <<view, epoch, reader, next, posted, gone, x0xd, job, issue, last, calm, faults>>

\* create_issue: the snapshot reaps what has expired and returns the rest.
SnapshotView ==
  /\ job = None
  /\ ReapExpired
  /\ job' = [cards |-> view', epoch |-> epoch']
  /\ UNCHANGED <<reader, next, gossip, posted, gone, x0xd, issue, last, calm, faults>>

\* The workers a slate is drawn from: the cards still live by then.
LiveVerifiedWorkerIds == Live(job.cards)

\* The issue is created, with its slate and the snapshot's epoch, or the
\* creation fails: for want of a live card, or of an answer of x0xd.
CreateIssue ==
  /\ job # None
  /\ \/ LiveVerifiedWorkerIds # {} /\ issue' = [epoch |-> job.epoch, seen |-> DOMAIN job.cards]
     \/ UNCHANGED issue
  /\ job' = None
  /\ UNCHANGED <<view, epoch, reader, next, gossip, posted, gone, x0xd, last, calm, faults>>

-----------------------------------------------------------------------------
\* Disturbances.
Disturb == faults < MaxFaults /\ faults' = faults + 1 /\ calm' = 0

\* The gossip loses a card, or its verification fails.
Lose(c) ==
  /\ Disturb
  /\ gossip' = gossip \ {c} /\ checking' = checking \ {c}
  /\ UNCHANGED <<view, epoch, stream, wait, backoff, next, posted, gone, x0xd, job, issue, last>>

\* A peer's daemon stops, and may be started again.
Leave(w) ==
  /\ w \notin gone \cup {Me} /\ Disturb
  /\ gone' = gone \cup {w}
  /\ UNCHANGED <<view, epoch, reader, next, gossip, posted, x0xd, job, issue, last>>

Rejoin(w) ==
  /\ w \in gone /\ gone' = gone \ {w}
  /\ next' = [next EXCEPT ![w] = 0] /\ calm' = 0
  /\ UNCHANGED <<view, epoch, reader, gossip, posted, x0xd, job, issue, last, faults>>

\* x0xd goes away: the stream ends, a verification or a publish under way fails.
Away ==
  /\ x0xd /\ Disturb /\ x0xd' = FALSE
  /\ IF stream = "open" THEN Sleep ELSE UNCHANGED <<stream, wait, backoff>>
  /\ checking' = {} /\ posted' = {}
  /\ UNCHANGED <<view, epoch, next, gossip, gone, job, issue, last>>

Back ==
  /\ ~x0xd /\ x0xd' = TRUE
  /\ UNCHANGED <<view, epoch, reader, next, gossip, posted, gone, job, issue, last, calm, faults>>

\* The stream ends by itself, or a chunk of it fails.
StreamEnds ==
  /\ stream = "open" /\ Disturb
  /\ Sleep /\ checking' = {}
  /\ UNCHANGED <<view, epoch, next, gossip, posted, gone, x0xd, job, issue, last>>

\* A new process of Me: nothing of the view is kept.
Restart ==
  /\ Disturb
  /\ view' = << >> /\ epoch' = 0
  /\ stream' = "unsubscribed" /\ wait' = 0 /\ backoff' = 1 /\ checking' = {}
  /\ next' = [next EXCEPT ![Me] = 0] /\ posted' = {}
  /\ job' = None /\ issue' = None
  /\ UNCHANGED <<gossip, gone, x0xd, last>>

\* A second passes when nothing is due.
Older(cards) == {[c EXCEPT !.age = @ + 1, !.due = @ - 1] : c \in cards}

Tick ==
  /\ \A w \in Worker \ gone : next[w] > 0
  /\ \A c \in gossip \cup checking \cup posted : c.due > 0
  /\ ~(stream = "asleep" /\ wait = 0)
  /\ view' = [w \in DOMAIN view |-> Smaller(view[w] + 1, TemplateTtl)]
  /\ job' = IF job = None THEN None
            ELSE [job EXCEPT !.cards = [w \in DOMAIN @ |-> Smaller(@[w] + 1, TemplateTtl)]]
  /\ gossip' = Older(gossip) /\ checking' = Older(checking) /\ posted' = Older(posted)
  /\ next' = [w \in Worker |-> IF w \in gone THEN 0 ELSE next[w] - 1]
  /\ wait' = IF stream = "asleep" THEN wait - 1 ELSE wait
  /\ last' = [w \in Worker |-> Smaller(last[w] + 1, TemplateTtl)]
  /\ calm' = IF x0xd THEN Smaller(calm + 1, Settled) ELSE 0
  /\ UNCHANGED <<epoch, stream, backoff, gone, x0xd, issue, faults>>

Next ==
  \/ \E w \in Worker : Publish(w)
  \/ RunLoop
  \/ \E c \in posted : InsertLocalCard(c)
  \/ Resubscribe
  \/ \E c \in gossip : Receive(c)
  \/ \E c \in checking : InsertVerified(c)
  \/ \E c \in gossip : Missed(c)
  \/ SnapshotView
  \/ CreateIssue
  \/ \E c \in gossip \cup checking : Lose(c)
  \/ \E w \in Worker : Leave(w)
  \/ \E w \in Worker : Rejoin(w)
  \/ Away
  \/ Back
  \/ StreamEnds
  \/ Restart
  \/ Tick

Spec == Init /\ [][Next]_vars

-----------------------------------------------------------------------------
\* The workers that Me can know of: itself only if it advertises itself.
Advertised == IF PublishEnabled THEN Knows ELSE Knows \ {Me}

\* From Settled seconds after the last disturbance on, every advertised worker
\* whose key is known has a live card in the view, at every instant: a publish is sent
\* and handled before the card it follows expires, a card is handled before
\* its agent sends the next, and the consumer is back from any back-off.
VisibleUnlessDisturbed ==
  calm = Settled => Advertised \ gone \subseteq Live(view)

\* Two issues that record the same epoch of one process were created from the
\* same set of visible workers.
EpochNamesOneSet ==
  [][CreateIssue /\ issue # None /\ issue'.epoch = issue.epoch
       => issue'.seen = issue.seen]_vars

\* Whatever the issue's identifier, the slate it would be given names trusted
\* agents that issued a card less than its TTL before, the closest of them
\* first, as many as the factor asks for and there are, and nobody left out
\* is closer than anybody in it.
SlateIsClosestAndLive ==
  job # None /\ LiveVerifiedWorkerIds # {} =>
    \A distance \in Distances :
      LET slate == Assign(LiveVerifiedWorkerIds, distance)
          chosen == Range(slate)
          rest == LiveVerifiedWorkerIds \ chosen
      IN  /\ chosen \subseteq {w \in Knows : last[w] < TemplateTtl}
          /\ Len(slate) = Cardinality(chosen)
          /\ Len(slate) = Smaller(Larger(Factor, 1), Cardinality(LiveVerifiedWorkerIds))
          /\ \A v \in chosen : distance[slate[1]] <= distance[v]
          /\ \A v \in chosen, w \in rest :
               distance[v] < distance[w] \/ (distance[v] = distance[w] /\ v < w)
=============================================================================
