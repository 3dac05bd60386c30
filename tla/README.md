# Verification of x0x-symphony

x0x-symphony lets agents on different machines share lists of issues: an agent
claims an issue, runs a coding agent on it, and hands the result to review.
There is no server. This directory holds TLA+ models of the parts in which that
can go wrong, TLC configurations that check them on small instances, and proofs
that TLAPS checks for every instance. Source paths are relative to `src/crates/`,
and to `src/` where they begin with `docs/`.

## The system and its models

| Part | Code | Here |
| --- | --- | --- |
| v2 fold: from the signed records a replica sees to the state of the list | `x0x-symphony-tracker-x0x-crdt/src/v2/{fold,events}.rs` | `V2Events`, `V2FoldWalk`, `V2LamportCap`, `V2Fold`, `V2Ledger` |
| v2 tracker: fold, build, append, fold again | `.../v2/tracker.rs` | `V2Tracker` |
| v2 membership: stores, anchors, genesis, rosters, joins | `.../v2/{store,tracker,fold}.rs` | `V2Roster` |
| v1 tracker: one task, its claim, handoff, shard and provenance blobs | `x0x-symphony-tracker-x0x-crdt/src/{lib,mapping,client}.rs`, `orchestrator/src/reconcile.rs` | `V1Tracker` |
| Approval gate of the v1 flow: trust, approvals, consumption, parking | `orchestrator/src/{dispatch,trust_gate}.rs`, `core/src/approval.rs`, `bin/src/{api,config}.rs` | `ApprovalGate` |
| Orchestrator: budget, claim, run, retry, shutdown, restart | `orchestrator/src/{lib,dispatch,concurrency,retry}.rs` | `Orchestrator` |
| One run on the host: workspace, hooks, turns, proofs, reaper, orphan sweep | `orchestrator/src/{dispatch,proofs,reaper,orphans}.rs`, `workspace/src/*` | `RunClaim` |
| Shell runner and host sandbox: one turn | `runner-shell/src/runner.rs`, `saorsa-sandbox/src/{lib,linux}.rs` | `ShellRunner`, composed into `RunClaim` |
| Workers registry and shard assignment | `bin/src/workers.rs`, `core/src/{workers,shard}.rs` | `WorkerView` |
| Daemon: select between loop and server, startup, API handlers | `bin/src/bin/x0x-symphonyd.rs`, `bin/src/api.rs` | the module of the part each belongs to |

How they meet. The orchestrator talks to a tracker, v1 or v2. The v2 tracker
answers by folding the records its x0xd holds, and every change it makes is one
record in the local author's own store (two, for a handoff); nothing but the
fold decides who holds an issue. The v1 tracker reads and overwrites blobs, one
HTTP request after another, and has no fold to settle what overlapped. A claimed
issue passes the approval gate and is then run on the host, by the runner in its
sandbox. Worker cards decide which slate a new issue records.

Each composition is modelled where its parts really meet: `V2Tracker` on top of
`V2Fold`, `RunClaim` on top of `ShellRunner`, claims and approvals in
`ApprovalGate`. Elsewhere one module takes the other's outcomes as a choice
(`Orchestrator` takes the gate's, the turn's and the tracker's).

## The modules

**`V2Events`** has the records and the rules for one record: `CheckClaimFence`,
`TransitionApplies`/`ApplyTransition`, `RequeueAllowed`, `ConsumeEffective`,
`HandoffFence`, and the fold order `Before`. A record is named by its hash; only
the fields the fold compares are kept. A record here has passed envelope
verification.

**`V2FoldWalk`** is phase 2 of `fold_v2`, one record a step (`WalkTransition`,
`WalkApproval`, `WalkConsume`, `WalkHandoff` are the arms of the match).
**`V2Ledger`** is what that phase promises: exclusive leases, claims granted at
most once, approvals spent at most once and under a held claim. `V2FoldWalk`
implements it under the mapping `leases`, `grants`, `spends`.

**`V2LamportCap`** is `apply_lamport_cap`, one record a step within a pass
(`Visit`) and one step between passes (`EndPass`).

**`V2Fold`** is the whole fold as an operator, for modules in which replicas act
on it. Its cap removes records pass by pass in a different grouping from the
code's; both end at the one greatest self-sustaining set, which is what
`CapSound` and `CapComplete` prove of the code's loop.

**`V2Tracker`** is several replicas with a constant roster. A caller is a flow of
control that uses an agent's tracker. Each operation (`Claim`, `Release`,
`Block`, `Handoff`, `RequeueBlocked`, `StoreApproval`, `StoreConsumed`,
`CreateIssue`) folds, checks and builds in one step; `AppendNext` writes one
record; `ConfirmClaim` and `ConfirmConsume` fold again; `Fail` is an error, a
timeout or the death of the process after any of these; `Deliver` brings one
record to one replica.

**`V2Roster`** is membership. A daemon starts (`Start`, `CheckGenesis`,
`PublishGenesis`, `JoinCreator`: `ensure_surfaces`), and each of its calls is a
sequence of `FoldView` steps: read the stores it lists, fold, join what the fold
names, again, at most `MaxJoinPasses` times. A fold that refuses the list (`Refuse`)
fails the call. In the poll loop or in the sweep of a start that ends the daemon:
`claim_next` returns the error, `run()` returns it, and the daemon exits; in an API
request it is an error answer and the daemon goes on. A roster update is the sequence of
rosters it commits to, which is what its chain of hashes stands for; the chain a
reader accepts is the one its walk reaches with a single successor at every epoch
(`Reached`) and cannot extend (`RosterChain`). An operator publishes the genesis
and updates; stores fail, daemons crash, an old x0xd creates a store with the
wrong policy.

**`V1Tracker`** is one task and its blobs (`task`, `claimBlob`, `handoffBlob`,
`shardBlob`, `provenance`). A call is a record of what it read (`basis`) and which
request comes next (`pc`): `ClaimCheck`, `ClaimPatch`, `PutClaim` are the three
requests of `claim`; `Heartbeat`, `EndRun`, `CheckOwner`, `Requeue` are the
ownership checks of the calls on a claim, `PutHandoff`, `CompleteTask` and
`PutClaim` their writes. `ApiHandoff` lists the claim that `CheckOwner`
then checks. Aborting a heartbeat does not
recall a PUT it has sent (`late`, `LatePut`). `RequestFails`, `Crash`, `Restart`
(with the reconciliation of the agent's own stale claim) and `Expire` are faults and
time. `blind` and `hidden` are history: a PUT landed on blobs its call had not read;
a claim was made while the listing hid a live one, whose signer's key did not
resolve.

**`ApprovalGate`** is one issue, the daemons' gates and API requests over one
approval blob. `gate[a]` goes through `ClaimCheck`/`ClaimWrite`, `Gate` (trust,
source and workflow), `LoadApprovals`, `ConsumeRead`/`ConsumePut` and then
`EndRun` or `Block`; `api[r]` through `Submit`, `SubmitRead`/`SubmitPut`,
`RequeueCheck`/`RequeueWrite`. `Init` takes the workflow through the code's
validation (`Workflows`), so a refused configuration is a refused start. With
signing required a daemon lists the claim of an agent whose key it cannot resolve
as no claim and the issue as `todo` (`Hides`); that it then claimed the issue is
`hidden`. `blind` again marks a write over something its writer had not read. Claims
and handoffs over the API are in `V1Tracker` and `Orchestrator` and not here: they
pass no gate and dispatch nothing.

**`Orchestrator`** is one daemon. `run[w]` says where a flow is in `claim_next`
and `run_claim`; every await is a step boundary. `used`, `used_in` and
`in_flight` are the budget and the registrations. `tracker` is what the tracker
would answer: free, held by this agent or by another, in review. Others change it at
any time (`RivalActs`), and so do this daemon's API clients: `ApiClaim` claims an
issue for the agent without registering it anywhere, `ApiHandoff` ends a claim the
loop may be working under. `Errs` and `ClaimFails` are calls that fail, the latter also
after the claim took effect. `SetFlag`, `NotifyWaiters`, `StopWaiting` are the
steps of `shutdown()`; `Start` is a new process with its `reconcile()`.

**`ShellRunner`** is one turn: `Prepare`, `Spawn`, `ChildStarted` (with the
native launcher's handshake), the wait, the join of the pipe readers, the end of
the sandbox session; `Cancel` drops it at an await. The child may do what a process
may: fork, leave its group, hold its pipes or let go of them (`mute`), exit or not.
A descendant outside the group is followed as long as it holds a pipe; nothing in the
code can see it after that. What confines the child is a set of `guards`; Landlock's
rules for the network are those for TCP (`NoTcp`), a network namespace has no sockets
at all (`NoNetwork`). A prepare that fails late leaves its directory behind (`box`
`left`).
**`RunClaim`** runs such turns: proof directory, workspace, hooks with their
timeout and their output, attempts, validation, handoff, block, release, cleanup,
with the reaper and the orphan sweep beside it, shutdown, crash and restart.

**`WorkerView`** is the view one daemon keeps of worker cards, in seconds: `Publish`
of the others, `RunLoop` with `PublishCard` of its own card, which is inserted once
x0xd has accepted it (`posted`, `InsertLocalCard`), or, unless `PublishEnabled`,
without it; `Receive`, `InsertVerified`, `ReapExpired` within `SnapshotView`,
`CreateIssue`, the subscription with its back-off (`Subscribe`, `Resubscribe`), and
the disturbances (`Lose`, `Leave`, `Away`, `StreamEnds`, `Restart`).

The `MC*` modules give the constants their values for TLC. Definitions that come
directly before the one they resemble and are used nowhere (`OffByOneOpen`,
`LeakyChildStarted`, ...) are faulty variants: each property is shown to fail
when its definition is replaced by one of them (`mutants` in `PROJECT.json`).

## The runs

| Run | Instance | Shows |
| --- | --- | --- |
| `fold_walk` | five families of 6 or 7 records in every order, 8 records with tied lamports; 133,344 states | leases, single spend, one outcome per record, refusals only for cause, refinement of the ledger |
| `lamport_cap` | chains of 3, 2 and 1 records, every lamport from 0 to 4, skew 1; 153,364 states | soundness, completeness and termination of the cap |
| `tracker` | two agents, one caller each; an opened and approved issue, or an empty list and the parking cycle; 94,475 states | no fork, admitted records stay, done issues carry their handoff, double dispatch only through an unseen claim, a dispatch's approval is spent |
| `roster` | a creator, a member, an agent with an old x0xd; two updates, one fault; 192,384 states | served rosters agree, what was served stays, daemons that still run come to agree |
| `orchestrator` | three callers, one issue, two slots, every failure; symmetric in the callers; 1,157,136 states | the caps |
| `orchestrator_daemon` | one loop, two issues, one slot, two attempts, one restart; 1,001,348 states | exact books, no forgotten claim of the loop, runs end, shutdown ends |
| `v1_claims` | two daemons and one API, three claims, one fault, signing off and required; 1,783,616 states | claims exclude and stay on record unless a write raced; a handoff stays once its claim is completed; stranding needs a fault |
| `approval_gate` | two daemons, two requests, two verdicts, two contents, one fault or edit, ten workflow files, signers known and trusted; 2,405,652 states | consent, denial, single use, no approved issue left parked but for the reasons named |
| `run_claim` | two runs of two attempts, two specs, three hosts, two hooks, two processes; 1,056,296 states | confinement, sessions shut, files kept, claim outlives agent, runs end unless held up |
| `worker_view` | two workers, TTL 5 s, one disturbance; 3,735,716 states | advertised and undisturbed workers stay in view, slates are closest and live, an epoch names one set |
| `tracker_shared` | the loop and the API on one v2 tracker | violation, see below |
| `reapproval` | one daemon, one API, no fault | violation, see below |

### Bounds

*v2.* Records collide in pairs: two claims, two consumes, two opens, a block
and its requeue. The families hold every such pair in every order, so that any
one of them may come first, last or between the other's claim and release. In
`tracker` four records for each author suffice for claim, consume, handoff and
complete, or for two claims with a release between. `Skew` stands for
`LAMPORT_MAX_SKEW` = 64 and is scaled to the length of the chains: what matters
is that some lamports are out of reach. In `roster` two updates suffice to add and
remove a member or to fork the chain, `MaxRosterMembers` 2 is exceeded by a
third name, and `MaxJoinPasses` 1 (8 in the code) makes a second round of joins one too many.

*Orchestrator.* Three callers for two slots make a caller wait; one issue makes
them collide. Two attempts make one retry. One restart suffices to find what an
earlier process left.

*v1.* A race needs two callers; three claims are one that ends, one that
replaces it and one that replaces that. One fault is one call cut short, with
every step of the other caller before and after it. Two verdicts are the approval
and its denial or its repetition; two contents are the approved and the edited.
`MCV1Tracker` and `MCApprovalGate` stop exploring at the first race
(`CONSTRAINT NotYetRaced`). Nothing is lost: `blind` and `hidden` never become
false again; every `...UnlessRaced` property and `ParkedThoughApproved` is true from then on;
`StrandedNeedsFault` is about
states without a claim blob, and a race needs one, which stays.
`NetworkRunIsConsented` is the one property that says something past a race;
`Consented` proves it there. A signer is known or trusted to the contacts, below and
at what a workflow asks for; the levels below known behave as known does, and
`Consented` has them all. Everyone knows the key of the approver, who knows no other
daemon's: one daemon sees the other's claims and the other does not see its.

*Host.* Two runs make a second one meet the first one's leftovers; an event queue
of one is full at once; two hooks are one before and one after the turns; the hosts
have no backend, a wrapper, and the native launcher; all work is the network's, under
a sandbox and without one. The proofs have every spec,
host and hook. The TTL of 5 gives a publish interval of 2, with one second each
for the publish and the delivery.

`CHECK_DEADLOCK FALSE` wherever something ends: a fold is over, a bounded chain is
full, a process has stopped for the last time, an issue is in review. In
`worker_view` time goes on, and deadlock is checked.

### Fairness

* `V2LamportCap`: weak fairness of the loop's next step. It is a pure loop.
* `Orchestrator`: weak fairness of each flow's step and of the steps of
  `shutdown()` after its first. The runtime polls a ready task, the backoff
  sleep ends, the wait of `shutdown()` has a deadline. That a *turn* ends is
  part of it, and holds as long as no process outside the agent's group keeps
  its pipes: `RunClaim` has the runner in full and states the condition
  (`HeldUp`). None for a shutdown request, a crash, a restart, rivals, or expiry.
* `RunClaim`: weak fairness of the run's own steps (its timers are among them),
  of the pipe and event tasks, and of the exit after the grace period. Nothing is
  assumed of the agent, of hooks, of validation commands.
* `ApprovalGate`: weak fairness of each daemon's and each started request's next
  step. Daemons poll; nobody has to file a verdict. A daemon that stopped is
  started again (`Restart` is a step of `GateStep`), as a supervisor would.
* `V2Roster`: weak fairness of each running daemon's steps and of replication to
  it. The poll loop goes on calling as long as the daemon runs, and x0xd replicates
  what it lists. None for operators, starts or crashes, nor is a daemon that a refused
  fold has ended assumed to be started again.
* `WorkerView` states no fairness; its promptness is in `Tick`, which waits for
  what is due. A card takes at most `Delay` seconds and a publish at most `Lag`.
  `VisibleUnlessDisturbed` rests on these being small: the instance has
  `PublishInterval + Lag + Delay < Ttl` and `Delay < PublishInterval`. Where a
  card can be delayed past the next one, the older card overwrites the newer and a
  worker that is up may drop out of the view until its next publish.

## What the violations show

* `tracker_shared`, `NoForkEvidence`: "Fork evidence is self-authenticating proof
  of equivocation" (`v2/tracker.rs:224`). The daemon's API and its loop share one
  tracker, which takes no lock from fold to append. Two appends from one tip are
  a fork, and the honest agent's later records are inadmissible for good.
* `reapproval`, `ReapprovalRuns`: "Operator recovery: approve the payload again (a
  fresh approval mints a fresh consumption)" (`docs/symphony/security.md:141`), and
  "a re-dispatch of the same payload after execution must be re-approved"
  (`docs/adr/0005-consent-gated-dispatch.md:79`). `is_valid` refuses an approval
  when any consumption has its issue, content and signer, whatever its nonce, so
  the second approval is spent before it is given and the issue parks again.

## Other disagreements met on the way

These are visible in the models, which follow the code, and have no run of
their own.

*v2.*
* "the gate never dispatches an issue revision that carries an admitted denial"
  (`v2/events.rs:560`): the fold that confirms a consume looks only for the
  winning consume, not for a denial admitted since the candidate was chosen.
* "self-harm only" (`v2/fold.rs:1378`): others take their lamports from records
  that a fork seen late removes, and can fall to the cap with them.
* "convergently deterministic across daemons" (`CHANGELOG.md:11`):
  `join_new_members` joins the members of the genesis and of the current roster.
  A daemon that starts after a member was added and removed never reads that
  member's store, which earlier daemons still serve. `ViewsConverge` therefore
  compares the records of members both daemons name.
* The creator's store is joined once, at startup; a daemon whose attempt fails
  refuses the list, and with its first poll exits. A member store with the wrong
  policy, once listed, refuses the whole list from then on, for every daemon that
  lists it.
* The member budget counts "members across all accepted epochs — identically in the
  read path and the fold" (`docs/design/tracker-integrity-v2.md:405`). The read
  path counts every payload in the creator's store, accepted or not.

*Shutdown and restart.*
* `shutdown_signaled` "completes when shutdown is requested"
  (`orchestrator/src/lib.rs:517`): it reads the flag and then registers, and the
  notification can fall between. The turn then runs until it ends by itself.
* "lets in-flight runs release cleanly" (`lib.rs:783`): a claim that has succeeded
  and is not yet registered is not in flight.
* Kept claims are there "so a subsequent run can resume them" (`lib.rs:631`):
  `claim` refuses an issue that is already claimed, by whomever.
* "in-flight runs release their claims" (`docs/symphony/operator.md:552`): a
  preempted run waits for the event writer, and that for the pipes. A process that
  holds them keeps the claim until the daemon exits, and the agent, in a group of
  its own, may outlive that.

*Host.*
* "Each turn is bounded by the spec's turn timeout"
  (`docs/symphony/runner-authoring.md:58`): the readers are joined without a limit
  after it. Hooks' output and validation commands are waited for likewise.
* "A network-sourced task with no enforcing backend never executes"
  (`docs/adr/0006-native-sandbox-extraction.md:112`,
  `docs/symphony/security.md:333`): in a workflow without a `runner.sandbox` block
  the runner takes the session that does nothing (`runner.rs:219`), whatever the
  source of the issue. `NetworkWorkIsConfined` is about workflows with the block.
* The native backend's Landlock rules deny TCP (`linux.rs:413`) and no other socket,
  under profiles that promise no network (`Unenforced`).
* Attempts, handoff and cleanup go on beside a descendant that left the child's group
  and redirected its output. `ClaimOutlivesAgent` says what they do wait for.
* A preempted native session is dropped, not shut: its cgroup leaf and socket
  directory stay.
* The orphan sweep quarantines the workspace of a `blocked` issue, which a requeue
  would run again. `-abandoned` proof directories do not match the reaper's format
  and stay.

*v1.*
* "Two trusted agents must not silently both work the same issue"
  (`docs/adr/0002-sharded-claim-ttl.md:9`): two overlapping claims both succeed.
  The properties say exactly when: `blind` or `hidden`.
* `handoff` stores the handoff and then completes the claim. In between, the ownership
  check of another handoff by the same agent passes, and the second replaces the
  first though nothing it read has changed. `HandoffKeptUnlessRaced`
  allows that window and no other.
* An API claim is registered nowhere: no heartbeat keeps it, no run works on it, and it
  blocks the issue until it is handed off over the API or goes stale.
* The daemon's resolver knows the local key only. With signing required, other
  agents' claims are stripped from a listing and their cards dropped.

*Workers.*
* "The view epoch is recorded so reviewers can audit which roster was used"
  (`docs/design/symphony.md:234`): the epoch counts within one process and starts
  again at 0, and the slate is drawn from the cards still live at a later clock.

## What is proved

Eight modules hold proofs, each for all values of the constants, from the named
assumptions of the modules they extend. In each the property itself is not
inductive; what is said below is what had to be added.

**`V2FoldWalkProofs`** (`NamesAreOrdered`, `InputsAreRecords`). That a record
passes the fence says something about the *status*, and `LeaseLog` is about the
*log*: `LeaseInv` joins it with `TypeOK` and `StatusIsLastApplied`, which ties the
two. From it follow `LeaseLogHolds`, `StatusHolds`, and, with the fact that a step
only extends logs (`WalkGrowsLog`), `SpentHolds` and `HandoffHolds`.
`RejectedHolds` is the converse of `LeaseLogHolds`: what was refused could not have
followed the events that were applied before it, and later events come later in the
log, so a refusal never loses its cause. `OneOutcomeHolds` needs that only passed
records are reported and none in two ways (`ReportsPassed`, `OneReportEach`).
`WalkImplementsLedger` maps initial states to initial states and each arm of the
walk to a ledger step or a stutter.

**`V2LamportCapProofs`** (`CapAssumption`). `CapSound` needs, within a pass, that
the running maximum is the lamport of a record the pass visited and did not mark,
and that everything visited and unmarked is within reach of such records.
`CapComplete` keeps, for every self-sustaining set, that it is among the
survivors, unmarked and untouched by any truncation so far. Together they
determine the result whatever the order of the input.

**`OrchestratorProofs`** (`OrchestratorAssumption`). The proof of `CapIsKept`
follows `Cardinality(Holders)`: a flow enters by reserving (`ReserveStep`) and
leaves by giving back (`GivesBack`). The delicate case is a flow whose
registration was taken by another flow on the same issue: it gives back nothing,
so `used` only bounds the holders from above (`Drops`), which is all the cap needs.
That case is also why `SlotsAreExact` is about a daemon's one flow (`OneFlow`): with
several, an issue that a rival takes and gives back can be registered by a second
flow while the first still runs it, and a slot leaks. With one, counters and
registrations are a function of where the flow is (`Exact`). `NoClaimForgotten` follows
each claim at the tracker to the flow that works on it (`EveryClaimWorked`) and
needs that the daemon's process ends on an error (`Daemon`): `run_claim` returns
most errors with the claim still held. The claims excepted are those the code really
leaves: of an earlier process, of a call that was reported as failed, of API clients,
and those of a daemon that fails. A claim that is made and not yet registered when
main drops the loop is one the loop was working on.

**`V1TrackerProofs`** (`ProcAssumption`, `BoundsAssumption`, `NoneAssumption`).
`TrackerInv` says what a call has *checked*: its basis showed no active claim
(`Unclaimed`), or its own agent's (`Known`). A PUT that is not blind finds its basis
on record, so what it checked is what it overwrites (`OnBasis`). The hard part is
the PUT of an aborted heartbeat (`LateOK`): it may land at any time, and is harmless
because either it writes the claim that is there, or its basis is gone, or nobody
runs under its claim any more (`Retired`), and numbers of claims never return. One
lemma for each kind of step (`CallMoves`, `CallsEnd`, `PutClaimKeeps`,
`LatePutKeeps`, ...) gives `Exclusive`, `HolderOnRecord` and `HandoffKept`, for
which a call between its check and its PUT of the handoff has its agent's claim as
its basis. `Stranded` needs only that a run was started by a PUT (`StrandInv`).

**`ApprovalGateProofs`** (`ReqAssumption`, `NoneAssumption`, `KnowsAssumption`).
`GateInv` has three parts that stand on each other only through `Types`. *Consent*:
whatever is in a blob, or was read from one, was filed, so a gate past its check has
a filed approval of the content it took (`Consented`, races included). *Denials*:
without a blind write no filed verdict is missing from the blob (`DenialHolds`).
*Spending*: without a blind write the claim excludes other gates, so nothing is
consumed between a gate's check and its write, and every run of an approved content
has its consumption on record (`SpentOnce`); a claim taken because the listing hid
another's ends that exclusion, so the property excuses it. `ApprovedIsNotParked`
adds `ParkInv`: a parked issue, or one a gate is about to park, is undecided for
some gate or a request is on its way to requeue it. An approval that is being filed
was asked for while the issue was parked, so its request will; the gate that decides
on a content edited meanwhile decides on one no approval is bound to (`Outdated`).
That holds for one edit. After two the content may be the approved one again, parked
by a gate that saw the one between, and nothing requeues it; the property therefore
excuses `edits > 1`.

**`RunClaimProofs`** (`RunnerAssumption`, `RunClaimAssumption`). `Confined` follows
how confinement comes about: past `Prepare` network work has a backend, a launcher
is native, and it is in its cgroup before it has its configuration; the wrappers'
arguments cover the profile (`WrapKeepsPromise`), Landlock's all but the sockets
that are not TCP's (`LandlockKeepsPromise`). `OutlivesAgent` needs the chain
`Watch`: an agent at work has readers or a turn, these are senders, senders keep the
event writer, and the run joins the writer before it goes on. An agent that has let
go of its pipes is out of that chain, and is followed by `Minded` instead: it is in
a turn that waits for it or that failed at waiting, whose error ends the daemon, or
was left by a run that a stopping daemon preempted. `KeepsFiles` needs that runs and
sweeps exclude each other and that a reaper's scan which found no run spares what a
run has made since.

**`V2RosterProofs`** (`RosterAssumption`). `Published`: what the creator has
published is closed under predecessors, each replica holds a part of it, and unless
the creator forked there is one record for each epoch. `Served`: the rosters a
daemon serves are records it holds, and each record it serves is in a stream it
reads and admitted by those rosters. Two chains among records that form one line are
comparable (`Comparable`): `RostersNeverDisagree`. The walk over more records
reaches at least as far (`FoldReaches`), and a longer chain admits what a shorter
one did: `ServedForGood`. That a walk ends (`ChainEnds`) is the one induction; it
takes the longest chain reached, which is there because epochs are bounded
(`Greatest`).

**`WorkerViewProofs`** (`ViewAssumption`). `EpochNames`: the last issue *precedes*
the creation under way, and that the view, where one pair of epoch and set precedes
another if the epoch has moved on or the set is the same. `WorkersStayVisible` assumes
`Timely`: `Delay < PublishInterval` and `PublishInterval + Lag + Delay < TemplateTtl`.
Both are needed: without the second a card expires before the next is handled,
and without the first an older card that arrives after a newer one replaces it.
It holds for a daemon that advertises itself and for one that does not, of the others
(`Advertised`); the run has the former. `Local`: the card a daemon has posted is that
of its last publish, and is accepted before its loop sleeps.
`VisInv` is a budget of seconds: a back-off or a missing subscription ends while
it is calm (`Consumer`), a card on its way is its agent's last or from before the
calm (`Spaced`), and each agent is due to publish, has a card coming that follows
the one in view, or is held in view until its next publish (`Kept`).
`SlatesAreClosestAndLive` needs that nobody's card is younger than the time since
they last issued one (`SlateInv`), wherever the card is, and that a finite set of
workers can be ranked at all: a worker's place is one more than the number of
closer ones (`RankingExists`).

Only model-checked: everything temporal under fairness (`CapTerminates`, `RunEnds`,
`ShutdownEnds`, `RunEndsUnlessHeldUp`, `ViewsConverge`), which
is out of the prover's reach; and the properties of `V2Tracker` (`NoForkEvidence`,
`AdmittedOnlyGrows`, `DoneCarriesHandoff`, `DoubleDispatchNeedsUnseenClaim`,
`ProceedIsSpent`), whose fold is a recursive operator. What its fold returns is proved
of the same rules step by step, in `V2FoldWalkProofs` and `V2LamportCapProofs`.

## Not modelled

* Cryptography: keys, cards, signatures, digests. A record has passed, or the
  signer's key does or does not resolve.
* v2 heartbeats and the display list: never inputs of the fold. The v2 tracker's
  projection to the v1 issue type. `v2/gate.rs`, which only tests call; the
  daemon's own sequence of consume and confirm is in `V2Tracker`.
* v1 notes and comments (no decision reads them) and the `fallback` signing mode.
  Reconciliation's branches for a stale primary and for duplicate claims: the v1
  tracker writes every claim with the manual role under one key, so they are not
  reached.
* Clock skew between agents: an expiry happens at any time in `V1Tracker` and
  `ApprovalGate`, and by one clock in `WorkerView`.
* Several issues at once in the v1 modules and in `RunClaim`: keys, approval blobs,
  workspaces and proof directories of different issues are disjoint. The budget,
  which they share, is `Orchestrator`'s.
* The contents of proofs, prompts and handoffs; path containment checks (an
  outcome of `RunClaim`); the kernel's side of the sandbox and the text of the
  macOS profile; an agent that outlives its daemon.
* Configuration parsing, bearer tokens, metrics, listings, the command line:
  parsing and I/O without shared state.
