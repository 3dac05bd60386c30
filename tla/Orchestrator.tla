--------------------------- MODULE Orchestrator ---------------------------
(***************************************************************************)
(* One daemon's orchestrator (orchestrator/src/lib.rs, dispatch.rs,        *)
(* concurrency.rs): flows of control that claim an issue under the         *)
(* concurrency budget and run it to a resolution, the shutdown that        *)
(* preempts them, and the restart that reconciles what an earlier process  *)
(* left behind.  Every await is a step boundary.                           *)
(*                                                                         *)
(* The tracker is what the orchestrator is told of it: which issues are    *)
(* free, which this agent holds, which others hold.  A call may fail,      *)
(* before or after it took effect.  The dispatch gate is its outcome.      *)
(***************************************************************************)
EXTENDS Integers, FiniteSets

CONSTANTS
  Worker,        \* flows that call claim_next and run_claim
  Issue,
  GlobalCap,     \* max_concurrent_agents
  StateCap,      \* per-state caps, for the states that have one
  MaxAttempts,   \* retry.max_attempts()
  Daemon,        \* TRUE: the one flow is run(), and the daemon exits with it
  Faults,        \* tracker, runner and workspace calls may fail
  Rivals,        \* other agents, and this agent's API, act on the list
  MaxStarts,     \* bound on the processes of a behaviour
  None

ActiveState == {"todo", "in_progress"}

ASSUME OrchestratorAssumption ==
  /\ IsFiniteSet(Worker)
  /\ GlobalCap \in Nat /\ MaxAttempts \in Nat \ {0} /\ MaxStarts \in Nat
  /\ DOMAIN StateCap \subseteq ActiveState /\ \A s \in DOMAIN StateCap : StateCap[s] \in Nat
  /\ Daemon \in BOOLEAN /\ Faults \in BOOLEAN /\ Rivals \in BOOLEAN
  /\ None \notin Issue

VARIABLES
  tracker,       \* issue -> free, mine, other, or how its last claim ended
  stale,         \* issues whose claim has outlived its heartbeat TTL
  used,          \* budget.global_used
  used_in,       \* budget.per_state_used
  in_flight,     \* registered issue -> the state its slot was taken for
  run,           \* what each flow is doing
  flag,          \* shutdown_flag
  shut,          \* how far the call of shutdown() has come
  woken,         \* flows whose shutdown_signaled() has completed
  up, starts,    \* the process, and how many there have been
  unknown        \* history: claims of this agent that no flow of the process made or
                 \* learnt of

vars == <<tracker, stale, used, used_in, in_flight, run, flag, shut, woken, up, starts,
          unknown>>
memory == <<used, used_in, in_flight>>
process == <<flag, shut, woken, up, starts, unknown>>

NotRunning == [pc |-> "idle", issue |-> None, state |-> "todo", left |-> {}, attempts |-> 0]

\* The issue a flow holds a slot for; the stages in which it has one.
Reserved(w) == run[w].pc \notin {"idle", "scan"}
Registered(w) == Reserved(w) /\ run[w].pc \notin {"claiming", "claimed"}
Beating(w) == run[w].pc \in {"setup", "before_run", "select", "armed", "turn", "after_run",
                             "backoff"}

Init ==
  /\ tracker = [i \in Issue |-> "free"]
  /\ stale = {}
  /\ used = 0 /\ used_in = [s \in DOMAIN StateCap |-> 0]
  /\ in_flight = [i \in {} |-> "todo"]
  /\ run = [w \in Worker |-> NotRunning]
  /\ flag = FALSE /\ shut = "none" /\ woken = {}
  /\ up = "up" /\ starts = 1 /\ unknown = {}

-----------------------------------------------------------------------------
(* The budget (concurrency.rs) and the slot of a claim.                     *)

Goto(w, pc) == run' = [run EXCEPT ![w].pc = pc]

\* One slot too many.
OffByOneOpen(s) == used <= GlobalCap /\ (s \in DOMAIN StateCap => used_in[s] <= StateCap[s])

IsOpen(s) == used < GlobalCap /\ (s \in DOMAIN StateCap => used_in[s] < StateCap[s])

TryAcquire(s) ==
  /\ IsOpen(s)
  /\ used' = used + 1
  /\ used_in' = [t \in DOMAIN used_in |-> IF t = s THEN used_in[t] + 1 ELSE used_in[t]]

\* saturating_sub
Less(n) == IF n = 0 THEN 0 ELSE n - 1

Release(s) ==
  /\ used' = Less(used)
  /\ used_in' = [t \in DOMAIN used_in |-> IF t = s THEN Less(used_in[t]) ELSE used_in[t]]

ReleaseSlot(i) ==
  \/ /\ i \in DOMAIN in_flight
     /\ in_flight' = [j \in DOMAIN in_flight \ {i} |-> in_flight[j]]
     /\ Release(in_flight[i])
  \/ i \notin DOMAIN in_flight /\ UNCHANGED memory

-----------------------------------------------------------------------------
(* claim_next.                                                              *)

\* A poll that does not look at the shutdown flag.
EagerPoll(w) ==
  /\ up = "up" /\ run[w].pc = "idle"
  /\ LET polled == {i \in Issue : tracker[i] = "free" \/ (tracker[i] = "mine" /\ i \notin stale)}
     IN run' = [run EXCEPT ![w] = [NotRunning EXCEPT !.pc = "scan",
           !.left = {<<i, IF tracker[i] = "free" THEN "todo" ELSE "in_progress">> :
                       i \in polled}]]
  /\ UNCHANGED <<tracker, stale, memory, process>>

\* The candidates are a snapshot: each with the state and claim it then had.
Poll(w) ==
  /\ up = "up" /\ run[w].pc = "idle" /\ ~flag
  /\ LET polled == {i \in Issue : tracker[i] = "free" \/ (tracker[i] = "mine" /\ i \notin stale)}
     IN run' = [run EXCEPT ![w] = [NotRunning EXCEPT !.pc = "scan",
           !.left = {<<i, IF tracker[i] = "free" THEN "todo" ELSE "in_progress">> :
                       i \in polled}]]
  /\ UNCHANGED <<tracker, stale, memory, process>>

\* The poll fails, and run() with it.
PollFails(w) ==
  /\ up = "up" /\ run[w].pc = "idle" /\ ~flag /\ Faults /\ Daemon
  /\ up' = "failed"
  /\ UNCHANGED <<tracker, stale, memory, run, flag, shut, woken, starts, unknown>>

\* Reserve a slot for the next candidate; a full budget ends the scan.
Reserve(w, c) ==
  /\ up = "up" /\ run[w].pc = "scan" /\ c \in run[w].left
  /\ \/ /\ TryAcquire(c[2])
        /\ run' = [run EXCEPT ![w] = [run[w] EXCEPT !.pc = "claiming", !.issue = c[1],
                                                    !.state = c[2], !.left = @ \ {c}]]
     \/ /\ ~IsOpen(c[2])
        /\ run' = [run EXCEPT ![w] = NotRunning]
        /\ UNCHANGED <<used, used_in>>
  /\ UNCHANGED <<tracker, stale, in_flight, process>>

ScanEnds(w) ==
  /\ up = "up" /\ run[w].pc = "scan" /\ run[w].left = {}
  /\ run' = [run EXCEPT ![w] = NotRunning]
  /\ UNCHANGED <<tracker, stale, memory, process>>

\* The claim takes effect at the tracker before the call returns.
ClaimIssue(w) ==
  LET i == run[w].issue
  IN /\ up = "up" /\ run[w].pc = "claiming" /\ tracker[i] = "free"
     /\ tracker' = [tracker EXCEPT ![i] = "mine"]
     /\ stale' = stale \ {i}
     /\ unknown' = unknown \ {i}
     /\ Goto(w, "claimed")
     /\ UNCHANGED <<memory, flag, shut, woken, up, starts>>

\* The failed claim's slot is kept.
ForgetfulClaimFails(w) ==
  /\ up = "up"
  /\ \/ run[w].pc = "claiming" /\ (tracker[run[w].issue] # "free" \/ Faults)
     \/ run[w].pc = "claimed" /\ Faults
  /\ Goto(w, "scan")
  /\ UNCHANGED <<tracker, stale, memory, process>>

\* Someone else was faster, or the call failed, perhaps after it took effect.
ClaimFails(w) ==
  /\ up = "up"
  /\ \/ run[w].pc = "claiming" /\ (tracker[run[w].issue] # "free" \/ Faults)
     \/ run[w].pc = "claimed" /\ Faults
  /\ Release(run[w].state)
  /\ Goto(w, "scan")
  /\ unknown' = IF run[w].pc = "claimed" THEN unknown \cup {run[w].issue} ELSE unknown
  /\ UNCHANGED <<tracker, stale, in_flight, flag, shut, woken, up, starts>>

Register(w) ==
  LET i == run[w].issue
  IN /\ up = "up" /\ run[w].pc = "claimed"
     /\ in_flight' = [j \in DOMAIN in_flight \cup {i} |->
                        IF j = i THEN run[w].state ELSE in_flight[j]]
     /\ Goto(w, "gate")
     /\ UNCHANGED <<tracker, stale, used, used_in, process>>

-----------------------------------------------------------------------------
(* run_claim.  HeldClaim's Drop gives the slot back on every way out.       *)

\* The flow is out of run_claim: a resolution, or an error that run() returns.
Return(w, error) ==
  /\ ReleaseSlot(run[w].issue)
  /\ run' = [run EXCEPT ![w] = NotRunning]
  /\ up' = IF error /\ Daemon THEN "failed" ELSE up
  /\ UNCHANGED <<flag, shut, woken, starts, unknown>>

\* A call fails where the code passes the error on: the claim stays as it is.
Errs(w) ==
  /\ up = "up" /\ Faults /\ Registered(w)
  /\ run[w].pc \in {"gate", "setup", "before_run", "turn", "preempted", "after_run"}
  /\ Return(w, TRUE)
  /\ UNCHANGED <<tracker, stale>>

\* The call that ends the claim: only its holder's has an effect, and an error
\* may come back after it.
EndClaim(w, how) ==
  LET i == run[w].issue
  IN \/ /\ tracker[i] = "mine"
        /\ tracker' = [tracker EXCEPT ![i] = how]
        /\ \E error \in {FALSE, Faults} : Return(w, error)
        /\ UNCHANGED stale
     \/ /\ tracker[i] # "mine"
        /\ Return(w, TRUE)
        /\ UNCHANGED <<tracker, stale>>

\* fetch_claim_issue and the dispatch gate: refuse, park, or proceed and start
\* the heartbeat.
Gate(w) ==
  /\ up = "up" /\ run[w].pc = "gate"
  /\ \/ Goto(w, "setup") /\ UNCHANGED <<tracker, stale, memory, process>>
     \/ EndClaim(w, "blocked")
     \/ EndClaim(w, "parked")

\* Proof directory, workspace and after_create hook.
Setup(w) ==
  /\ up = "up" /\ run[w].pc = "setup"
  /\ \/ Goto(w, "before_run") /\ UNCHANGED <<tracker, stale, memory, process>>
     \/ EndClaim(w, "blocked")

\* A retry loop that does not count its attempts.
UncountedBeforeRun(w) ==
  /\ up = "up" /\ run[w].pc = "before_run"
  /\ Goto(w, "select")
  /\ UNCHANGED <<tracker, stale, memory, process>>

\* Top of the attempt loop: before_run hook, then the runner's session.
BeforeRun(w) ==
  /\ up = "up" /\ run[w].pc = "before_run"
  /\ \/ /\ run' = [run EXCEPT ![w].pc = "select", ![w].attempts = @ + 1]
        /\ UNCHANGED <<tracker, stale, memory, process>>
     \/ EndClaim(w, "blocked")

\* shutdown_signaled() as polled first by run_attempt's select: it reads the
\* flag, then registers with shutdown_notify.  The two are not one step.
PollFlag(w) ==
  /\ up = "up" /\ run[w].pc = "select"
  /\ Goto(w, IF flag THEN "preempted" ELSE "armed")
  /\ UNCHANGED <<tracker, stale, memory, process>>

StartTurn(w) ==
  /\ up = "up" /\ run[w].pc = "armed"
  /\ Goto(w, "turn")
  /\ UNCHANGED <<tracker, stale, memory, process>>

Preempt(w) ==
  /\ up = "up" /\ run[w].pc = "turn" /\ w \in woken
  /\ Goto(w, "preempted")
  /\ UNCHANGED <<tracker, stale, memory, process>>

\* A preempted run that drops its claim without a word to the tracker.
SilentRelease(w) ==
  /\ up = "up" /\ run[w].pc = "preempted"
  /\ Return(w, FALSE)
  /\ UNCHANGED <<tracker, stale>>

\* Stop the session, cancel the heartbeat, release the claim with `shutdown`.
ShutdownRelease(w) ==
  /\ up = "up" /\ run[w].pc = "preempted"
  /\ EndClaim(w, "free")

\* The turn is over; after_run hook, and the verdict on the attempt.
TurnEnds(w) ==
  /\ up = "up" /\ run[w].pc = "turn" /\ w \notin woken
  /\ Goto(w, "after_run")
  /\ UNCHANGED <<tracker, stale, memory, process>>

Succeeded(w) ==
  /\ up = "up" /\ run[w].pc = "after_run"
  /\ EndClaim(w, "review")

Exhausted(w) ==
  /\ up = "up" /\ run[w].pc = "after_run" /\ run[w].attempts >= MaxAttempts
  /\ EndClaim(w, "blocked")

Retry(w) ==
  /\ up = "up" /\ run[w].pc = "after_run" /\ run[w].attempts < MaxAttempts
  /\ Goto(w, "backoff")
  /\ UNCHANGED <<tracker, stale, memory, process>>

\* The backoff sleep is not raced with shutdown.
BackoffEnds(w) ==
  /\ up = "up" /\ run[w].pc = "backoff"
  /\ Goto(w, "before_run")
  /\ UNCHANGED <<tracker, stale, memory, process>>

Heartbeat(w) ==
  /\ up = "up" /\ Beating(w) /\ tracker[run[w].issue] = "mine"
  /\ stale' = stale \ {run[w].issue}
  /\ UNCHANGED <<tracker, memory, run, process>>
-----------------------------------------------------------------------------
(* shutdown(), the end of the process, and the next one.                    *)

SetFlag ==
  /\ up = "up" /\ shut = "none"
  /\ flag' = TRUE /\ shut' = "flagged"
  /\ UNCHANGED <<tracker, stale, memory, run, woken, up, starts, unknown>>

\* notify_waiters wakes the flows that are registered now.
NotifyWaiters ==
  /\ up = "up" /\ shut = "flagged"
  /\ woken' = {w \in Worker : run[w].pc = "turn"}
  /\ shut' = "waiting"
  /\ UNCHANGED <<tracker, stale, memory, run, flag, up, starts, unknown>>

\* Nothing in flight any more, or the grace period is over.
StopWaiting ==
  /\ up = "up" /\ shut = "waiting"
  /\ shut' = IF DOMAIN in_flight = {} THEN "drained" ELSE "expired"
  /\ UNCHANGED <<tracker, stale, memory, run, flag, woken, up, starts, unknown>>

\* main's select: run() returns on seeing the flag, or the HTTP server, whose
\* graceful shutdown awaits shutdown(), is done first and run() is dropped.
RunReturns(w) ==
  /\ up = "up" /\ Daemon /\ flag /\ run[w].pc = "idle"
  /\ up' = "stopped"
  /\ UNCHANGED <<tracker, stale, memory, run, flag, shut, woken, starts, unknown>>

ServerStops ==
  /\ up = "up" /\ Daemon /\ shut \in {"drained", "expired"}
  /\ up' = "stopped"
  /\ UNCHANGED <<tracker, stale, memory, run, flag, shut, woken, starts, unknown>>

Crash ==
  /\ up = "up" /\ Faults
  /\ up' = "failed"
  /\ UNCHANGED <<tracker, stale, memory, run, flag, shut, woken, starts, unknown>>

\* A new process: nothing in memory, and reconcile() releases the claims of
\* this agent whose heartbeat is stale and keeps the fresh ones.
Start ==
  /\ up # "up" /\ starts < MaxStarts
  /\ up' = "up" /\ starts' = starts + 1
  /\ tracker' = [i \in Issue |->
                   IF tracker[i] = "mine" /\ i \in stale THEN "free" ELSE tracker[i]]
  /\ used' = 0 /\ used_in' = [s \in DOMAIN StateCap |-> 0]
  /\ in_flight' = [i \in {} |-> "todo"]
  /\ run' = [w \in Worker |-> NotRunning]
  /\ flag' = FALSE /\ shut' = "none" /\ woken' = {}
  /\ unknown' = {i \in Issue : tracker[i] = "mine"}
  /\ UNCHANGED stale

-----------------------------------------------------------------------------
(* The rest of the world.                                                   *)

\* Another agent claims, ends its claim, or turns out to hold ours (an earlier
\* claim arrives, or a backup takes over).
RivalActs(i) ==
  /\ Rivals
  /\ \/ tracker[i] \in {"free", "mine"} /\ tracker' = [tracker EXCEPT ![i] = "other"]
     \/ tracker[i] = "other" /\ tracker' = [tracker EXCEPT ![i] = "free"]
  /\ UNCHANGED <<stale, memory, run, process>>

\* The API's claim_issue: under the daemon's own agent id, past budget and registry.
ApiClaim(i) ==
  /\ Rivals /\ up = "up" /\ tracker[i] = "free"
  /\ tracker' = [tracker EXCEPT ![i] = "mine"]
  /\ stale' = stale \ {i}
  /\ unknown' = unknown \cup {i}
  /\ UNCHANGED <<memory, run, flag, shut, woken, up, starts>>

\* The API's handoff_issue, of whatever claim this agent holds.
ApiHandoff(i) ==
  /\ Rivals /\ up = "up" /\ tracker[i] = "mine"
  /\ tracker' = [tracker EXCEPT ![i] = "review"]
  /\ UNCHANGED <<stale, memory, run, process>>

\* A claim that nothing refreshes outlives its TTL.
Expires(i) ==
  /\ tracker[i] = "mine" /\ i \notin stale
  /\ ~ \E w \in Worker : up = "up" /\ Beating(w) /\ run[w].issue = i
  /\ stale' = stale \cup {i}
  /\ UNCHANGED <<tracker, memory, run, process>>

-----------------------------------------------------------------------------

Step(w) ==
  \/ Poll(w) \/ PollFails(w) \/ (\E c \in run[w].left : Reserve(w, c)) \/ ScanEnds(w)
  \/ ClaimIssue(w) \/ ClaimFails(w) \/ Register(w) \/ Errs(w) \/ Gate(w) \/ Setup(w)
  \/ BeforeRun(w) \/ PollFlag(w) \/ StartTurn(w) \/ Preempt(w) \/ ShutdownRelease(w)
  \/ TurnEnds(w) \/ Succeeded(w) \/ Exhausted(w) \/ Retry(w) \/ BackoffEnds(w)
  \/ RunReturns(w)

Shutdown == SetFlag \/ NotifyWaiters \/ StopWaiting \/ ServerStops

Next ==
  \/ \E w \in Worker : Step(w) \/ Heartbeat(w)
  \/ Shutdown \/ Crash \/ Start
  \/ \E i \in Issue : RivalActs(i) \/ ApiClaim(i) \/ ApiHandoff(i) \/ Expires(i)

\* A flow that can go on does: the runtime polls it.  So does a shutdown once it
\* is asked for.  A turn ends: its timeout kills the agent's process group, and no
\* process outside the group keeps the agent's pipes (RunClaim has the condition).
Fairness ==
  /\ \A w \in Worker : WF_vars(Step(w))
  /\ WF_vars(NotifyWaiters) /\ WF_vars(StopWaiting)

Spec == Init /\ [][Next]_vars /\ Fairness

-----------------------------------------------------------------------------

Stages == {"idle", "scan", "claiming", "claimed", "gate", "setup", "before_run", "select",
           "armed", "turn", "preempted", "after_run", "backoff"}

Flow == [pc: Stages, issue: Issue \cup {None}, state: ActiveState,
         left: SUBSET (Issue \X ActiveState), attempts: Nat]

TypeOK ==
  /\ tracker \in [Issue -> {"free", "mine", "other", "review", "blocked", "parked"}]
  /\ stale \subseteq Issue
  /\ used \in Nat /\ used_in \in [DOMAIN StateCap -> Nat]
  /\ DOMAIN in_flight \subseteq Issue
  /\ \A i \in DOMAIN in_flight : in_flight[i] \in ActiveState
  /\ run \in [Worker -> Flow]
  /\ \A w \in Worker : Reserved(w) => run[w].issue \in Issue
  /\ flag \in BOOLEAN /\ shut \in {"none", "flagged", "waiting", "drained", "expired"}
  /\ woken \subseteq Worker
  /\ up \in {"up", "failed", "stopped"} /\ starts \in Nat
  /\ unknown \subseteq Issue

(***************************************************************************)
(* The cap holds: never more flows between reservation and resolution than *)
(* the budget counts, and never more counted than the global cap, whatever *)
(* fails and whoever takes an issue away and gives it back (try_acquire,   *)
(* claim_next, HeldClaim's Drop).                                          *)
(***************************************************************************)
CapHolds ==
  /\ Cardinality({w \in Worker : Reserved(w)}) <= used
  /\ used <= GlobalCap
  /\ \A s \in DOMAIN StateCap : used_in[s] <= StateCap[s]

(***************************************************************************)
(* In the daemon the books are exact: as many slots counted, globally and  *)
(* for each state, as flows hold one, and the registered issues are those  *)
(* being run.  A slot is neither leaked nor given back twice on any exit   *)
(* path.                                                                   *)
(***************************************************************************)
SlotsExact ==
  LET holding(s) == {w \in Worker : Reserved(w) /\ run[w].state = s}
  IN /\ used = Cardinality({w \in Worker : Reserved(w)})
     /\ \A s \in DOMAIN StateCap : used_in[s] = Cardinality(holding(s))
     /\ DOMAIN in_flight = {run[w].issue : w \in {v \in Worker : Registered(v)}}

(***************************************************************************)
(* The daemon forgets no claim of its loop: what it holds at the tracker   *)
(* the loop is working on, or was when main dropped it to stop, but for    *)
(* the claims of an earlier process, those whose call took effect and was  *)
(* reported as failed, and those of API clients.  A loop that returns on   *)
(* shutdown leaves none.  Only a failing daemon may exit with more         *)
(* (claim_next, run_claim, shutdown).                                      *)
(***************************************************************************)
NoForgottenClaim ==
  up # "failed" => \A i \in Issue \ unknown : tracker[i] = "mine" =>
    \E w \in Worker : Reserved(w) /\ run[w].issue = i

(***************************************************************************)
(* A claimed issue does not stay claimed for ever: every run comes to a    *)
(* resolution, an error, or the end of the process, retries included.      *)
(***************************************************************************)
RunEnds == \A w \in Worker : Registered(w) ~> (~Reserved(w) \/ up # "up")

\* A daemon asked to shut down exits.
ShutdownEnds == flag ~> up # "up"
=============================================================================
