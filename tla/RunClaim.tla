----------------------------- MODULE RunClaim -----------------------------
(***************************************************************************)
(* What run_claim (orchestrator/src/dispatch.rs) does on the host once the *)
(* gate lets an issue through, attempt by attempt: the proof directory     *)
(* (proofs.rs), the workspace and its hooks (workspace/src/manager.rs),    *)
(* the turns of ShellRunner, the handoff, block or release, the cleanup.   *)
(* Beside it run the proof reaper (reaper.rs, x0x-symphonyd.rs) and, in    *)
(* each new process before its poll loop, the orphan sweep (orphans.rs).   *)
(*                                                                         *)
(* One issue, one daemon.  The rest of the world may move the issue.       *)
(***************************************************************************)
EXTENDS ShellRunner

CONSTANTS
  Hooks,         \* the configured hooks
  Terminal,      \* config.terminal_states
  MaxAttempts,   \* retry.max_attempts()
  MaxRuns,       \* bound on the runs, and so on the proof directories
  Crashes,       \* the daemon may crash
  MaxStarts,     \* bound on the processes of the daemon
  MaxMoves       \* bound on what others do to the issue

Phase == {"after_create", "before_run", "after_run", "before_remove"}
State == {"todo", "in_progress", "review", "blocked", "done", "missing"}

ASSUME RunClaimAssumption ==
  /\ Hooks \subseteq Phase /\ Terminal \subseteq {"review", "blocked", "done"}
  /\ Crashes \in BOOLEAN /\ MaxAttempts \in Nat \ {0} /\ MaxRuns \in Nat /\ MaxStarts \in Nat /\ MaxMoves \in Nat

VARIABLES
  issue,      \* its state at the tracker; in_progress is this agent's claim
  stale,      \* the claim has outlived its TTL
  ws,         \* the workspace: absent, present, quarantined
  proofs,     \* run -> its directory: none, fresh, old, reaped
  run,        \* [pc, attempts, next, reached]: next is where a hook returns to
  hook,       \* the hook's process group
  check,      \* a validation command is running
  reap,       \* the reaper's scan: idle, or the active set it works from
  sweep,      \* what the sweep has read of the issue
  up, stopping, starts, runs, moves

hostVars == <<issue, stale, ws, proofs, hook, check>>
daemonVars == <<reap, sweep, up, stopping, starts, runs, moves>>
vars == <<spec, turnVars, hostVars, run, daemonVars>>

NoRun == [pc |-> "idle", attempts |-> 0, next |-> "idle", reached |-> "none"]
NoHook == [at |-> "off", kin |-> FALSE, phase |-> "none"]

InFlight == run.pc # "idle"

Init ==
  /\ RunnerInit
  /\ issue = "todo" /\ stale = FALSE /\ ws = "absent"
  /\ proofs = [r \in 1..MaxRuns |-> "none"]
  /\ run = NoRun /\ hook = NoHook /\ check = FALSE
  /\ reap = "idle" /\ sweep = "none"
  /\ up = "up" /\ stopping = FALSE /\ starts = 1 /\ runs = 0 /\ moves = 0

Goto(pc) == run' = [run EXCEPT !.pc = pc]

\* The daemon's exit: an error of run() ends main.  The agent survives it, in a
\* group of its own; what becomes of it then is not followed.
GoDown ==
  /\ up' = "down" /\ run' = NoRun /\ reap' = "idle" /\ sweep' = "none"
  /\ turn' = "idle" /\ readers' = FALSE /\ session' = FALSE /\ queue' = 0
  /\ writer' = FALSE /\ outcome' = "none" /\ box' = "none" /\ hook' = NoHook
  /\ check' = FALSE /\ stopping' = FALSE
  /\ child' = NoChild
  /\ UNCHANGED <<starts, runs, moves>>

-----------------------------------------------------------------------------
(* Into the run.                                                            *)

\* A daemon that polls before its sweep is done.
EagerClaim ==
  /\ up \in {"up", "sweeping"} /\ ~stopping /\ run.pc = "idle" /\ issue = "todo"
  /\ runs < MaxRuns
  /\ issue' = "in_progress" /\ stale' = FALSE
  /\ runs' = runs + 1 /\ Goto("proof")
  /\ UNCHANGED <<spec, turnVars, ws, proofs, hook, check, reap, sweep, up,
                 stopping, starts, moves>>

\* claim_next and the gate's consent.
Claim ==
  /\ up = "up" /\ ~stopping /\ run.pc = "idle" /\ issue = "todo" /\ runs < MaxRuns
  /\ issue' = "in_progress" /\ stale' = FALSE
  /\ runs' = runs + 1 /\ Goto("proof")
  /\ UNCHANGED <<spec, turnVars, ws, proofs, hook, check, reap, sweep, up,
                 stopping, starts, moves>>

\* A directory of this run alone, whatever the clock says.
CreateUniqueRunDir == proofs' = [proofs EXCEPT ![runs] = "fresh"]

StartProof ==
  /\ run.pc = "proof" /\ CreateUniqueRunDir
  /\ Goto("create")
  /\ UNCHANGED <<spec, turnVars, issue, stale, ws, hook, check, daemonVars>>

\* create_or_reuse_directory.
Create ==
  /\ run.pc = "create"
  /\ ws' = "present"
  /\ run' = [run EXCEPT !.pc = "hook", !.next = "after_create"]
  /\ UNCHANGED <<spec, turnVars, issue, stale, proofs, hook, check, daemonVars>>

-----------------------------------------------------------------------------
(* Hooks: run_hook_in, run_hook_in_dir.                                     *)

\* Where a hook that succeeded, or is not configured, leads.
AfterHook(phase) ==
  CASE phase = "after_create" -> "before_run"
    [] phase = "before_run" -> "attempt"
    [] phase = "after_run" -> "verdict"
    [] OTHER -> "destroy"

\* after_create and before_run block the issue; after_run is a warning;
\* before_remove keeps the workspace.
FailedHook(phase) ==
  CASE phase \in {"after_create", "before_run"} -> "block"
    [] phase = "after_run" -> "verdict"
    [] OTHER -> "finish"

Continue(phase, ok) ==
  LET pc == IF ok THEN AfterHook(phase) ELSE FailedHook(phase)
  IN run' = [run EXCEPT !.pc = IF pc = "before_run" THEN "hook" ELSE pc,
                        !.next = IF pc = "before_run" THEN "before_run" ELSE "idle"]

\* validate_existing_workspace_path, of a path that only the manager touches.
ValidateHandle == ws = "present"

\* The handle is validated before the hook starts; a hook that cannot start has
\* failed.
RunHook ==
  /\ run.pc = "hook" /\ hook.at = "off"
  /\ \/ run.next \notin Hooks /\ Continue(run.next, TRUE) /\ UNCHANGED hook
     \/ run.next \in Hooks /\ Continue(run.next, FALSE) /\ UNCHANGED hook
     \/ /\ run.next \in Hooks /\ ValidateHandle
        /\ hook' = [at |-> "running", kin |-> FALSE, phase |-> run.next]
        /\ UNCHANGED run
  /\ UNCHANGED <<spec, turnVars, issue, stale, ws, proofs, check, daemonVars>>

\* The shell is gone and its output is read to the end, without a limit.
HookEnds ==
  /\ hook.at = "exited" /\ ~hook.kin
  /\ \E ok \in BOOLEAN : Continue(hook.phase, ok)
  /\ hook' = NoHook
  /\ UNCHANGED <<spec, turnVars, issue, stale, ws, proofs, check, daemonVars>>

\* The limit is on the output only.
HookOutputTimesOut ==
  /\ hook.at = "exited"
  /\ Continue(hook.phase, FALSE)
  /\ hook' = NoHook
  /\ UNCHANGED <<spec, turnVars, issue, stale, ws, proofs, check, daemonVars>>

\* Its time is up: the group is killed and the output given up after a second.
HookTimesOut ==
  /\ hook.at = "running"
  /\ Continue(hook.phase, FALSE)
  /\ hook' = NoHook
  /\ UNCHANGED <<spec, turnVars, issue, stale, ws, proofs, check, daemonVars>>

\* The hook itself (external).
HookActs ==
  /\ \/ hook.at = "running" /\ hook' = [hook EXCEPT !.at = "exited"]
     \/ hook.at = "running" /\ ~hook.kin /\ hook' = [hook EXCEPT !.kin = TRUE]
     \/ hook.kin /\ hook' = [hook EXCEPT !.kin = FALSE]
  /\ UNCHANGED <<spec, turnVars, issue, stale, ws, proofs, check, run, daemonVars>>

-----------------------------------------------------------------------------
(* Attempts.                                                                *)

Attempt ==
  /\ run.pc = "attempt"
  /\ StartSession
  /\ run' = [run EXCEPT !.pc = "turn", !.attempts = @ + 1]
  /\ UNCHANGED <<spec, hostVars, daemonVars>>

Turn ==
  /\ run.pc = "turn" /\ RunnerStep
  /\ UNCHANGED <<spec, hostVars, run, daemonVars>>

Preempt ==
  /\ run.pc = "turn" /\ stopping /\ Cancel
  /\ UNCHANGED <<spec, hostVars, run, daemonVars>>

\* The turn's end does not wait for the event writer.
HastyEndAttempt ==
  /\ run.pc = "turn" /\ turn \in {"over", "cancelled"} /\ ~session
  /\ \/ /\ turn = "over" /\ outcome # "error"
        /\ run' = [run EXCEPT !.pc = "hook", !.next = "after_run"]
        /\ UNCHANGED <<turnVars, hook, check, daemonVars>>
     \/ /\ turn = "cancelled"
        /\ Goto("release") /\ UNCHANGED <<turnVars, hook, check, daemonVars>>
     \/ /\ turn = "over" /\ outcome = "error" /\ GoDown
  /\ UNCHANGED <<spec, issue, stale, ws, proofs>>

StopTurn ==
  /\ run.pc = "turn" /\ StopSession
  /\ UNCHANGED <<spec, hostVars, run, daemonVars>>

\* The session is stopped and the event writer joined, whichever way the turn
\* ended; a runner error then ends the daemon.
EndAttempt ==
  /\ run.pc = "turn" /\ turn \in {"over", "cancelled"} /\ ~session /\ ~writer
  /\ \/ /\ turn = "over" /\ outcome # "error"
        /\ run' = [run EXCEPT !.pc = "hook", !.next = "after_run"]
        /\ UNCHANGED <<turnVars, hook, check, daemonVars>>
     \/ /\ turn = "cancelled"
        /\ Goto("release") /\ UNCHANGED <<turnVars, hook, check, daemonVars>>
     \/ /\ turn = "over" /\ outcome = "error" /\ GoDown
  /\ UNCHANGED <<spec, issue, stale, ws, proofs>>

\* Succeeded, exhausted, or back off and try again in the same workspace.
Verdict ==
  /\ run.pc = "verdict"
  /\ \/ outcome = "succeeded" /\ check' = TRUE /\ Goto("handoff")
     \/ outcome # "succeeded" /\ run.attempts >= MaxAttempts /\ Goto("block") /\ UNCHANGED check
     \/ /\ outcome # "succeeded" /\ run.attempts < MaxAttempts
        /\ run' = [run EXCEPT !.pc = "hook", !.next = "before_run"]
        /\ UNCHANGED check
  /\ UNCHANGED <<spec, turnVars, issue, stale, ws, proofs, hook, daemonVars>>

\* run_validation_command waits for the command, without a limit (external).
CheckEnds ==
  /\ check /\ check' = FALSE
  /\ UNCHANGED <<spec, turnVars, issue, stale, ws, proofs, hook, run, daemonVars>>

-----------------------------------------------------------------------------
(* Out of the run.                                                          *)

EndClaim(state, pc) ==
  \/ /\ issue = "in_progress" /\ issue' = state
     /\ run' = [run EXCEPT !.pc = pc, !.reached = state]
     /\ UNCHANGED <<turnVars, hook, check, daemonVars>>
  \/ /\ issue # "in_progress" /\ GoDown /\ UNCHANGED issue

Handoff ==
  /\ run.pc = "handoff" /\ ~check
  /\ EndClaim("review", "cleanup")
  /\ UNCHANGED <<spec, stale, ws, proofs>>

Block ==
  /\ run.pc = "block"
  /\ EndClaim("blocked", "cleanup")
  /\ UNCHANGED <<spec, stale, ws, proofs>>

ReleaseShutdown ==
  /\ run.pc = "release"
  /\ EndClaim("todo", "finish")
  /\ UNCHANGED <<spec, stale, ws, proofs>>

\* cleanup_if_terminal.
Cleanup ==
  /\ run.pc = "cleanup"
  /\ IF run.reached \in Terminal
     THEN run' = [run EXCEPT !.pc = "hook", !.next = "before_remove"]
     ELSE Goto("finish")
  /\ UNCHANGED <<spec, turnVars, hostVars, daemonVars>>

Destroy ==
  /\ run.pc = "destroy"
  /\ ws' = "absent" /\ Goto("finish")
  /\ UNCHANGED <<spec, turnVars, issue, stale, proofs, hook, check, daemonVars>>

\* The manifest is written (nothing reads it); HeldClaim's Drop.
Finish ==
  /\ run.pc = "finish"
  /\ run' = NoRun /\ turn' = "idle" /\ box' = "none" /\ outcome' = "none"
  /\ child' = IF Held \/ Running THEN child ELSE NoChild
  /\ UNCHANGED <<spec, readers, session, queue, writer, issue, stale, ws, proofs, hook, check,
                 daemonVars>>

-----------------------------------------------------------------------------
(* The reaper.                                                              *)

\* The tracker's listing alone.
ReapListedOnly ==
  /\ reap = "listed" /\ reap' = "passive"
  /\ UNCHANGED <<spec, turnVars, hostVars, run, sweep, up, stopping, starts, runs, moves>>

\* proof_reaper_active_issue_ids: the listing, then the runs in flight.
ReapList ==
  /\ up # "down" /\ reap = "idle"
  /\ reap' = IF issue = "in_progress" THEN "active" ELSE "listed"
  /\ UNCHANGED <<spec, turnVars, hostVars, run, sweep, up, stopping, starts, runs, moves>>

ReapInFlight ==
  /\ reap = "listed" /\ reap' = IF InFlight THEN "active" ELSE "passive"
  /\ UNCHANGED <<spec, turnVars, hostVars, run, sweep, up, stopping, starts, runs, moves>>

\* Directories past the cutoff go, unless the issue is active.
ReapScan ==
  /\ reap \in {"active", "passive"} /\ reap' = "idle"
  /\ proofs' = [r \in 1..MaxRuns |->
                  IF reap = "passive" /\ proofs[r] = "old" THEN "reaped" ELSE proofs[r]]
  /\ UNCHANGED <<spec, turnVars, issue, stale, ws, hook, check, run, sweep, up,
                 stopping, starts, runs, moves>>

\* proofs_days pass (at least one day: no scan lasts that long).
Age ==
  /\ reap = "idle" /\ \E r \in 1..MaxRuns : proofs[r] = "fresh"
  /\ proofs' = [r \in 1..MaxRuns |-> IF proofs[r] = "fresh" THEN "old" ELSE proofs[r]]
  /\ UNCHANGED <<spec, turnVars, issue, stale, ws, hook, check, run, daemonVars>>

-----------------------------------------------------------------------------
(* The process.                                                             *)

Stop ==
  /\ up = "up" /\ ~stopping /\ stopping' = TRUE
  /\ UNCHANGED <<spec, turnVars, hostVars, run, reap, sweep, up, starts, runs, moves>>

\* The run waits for a process: the agent or the launcher's handshake, a hook, or
\* a validation command.
OnProcess ==
  \/ turn = "spawned" \/ (turn = "waiting" /\ Alive) \/ (run.pc = "turn" /\ readers /\ Held)
  \/ hook.at # "off" \/ check

\* run() has returned, or the grace period is over: it is a minute, and only a
\* process keeps a run that long.
Exit ==
  /\ up = "up" /\ stopping /\ (InFlight => OnProcess) /\ GoDown
  /\ UNCHANGED <<spec, issue, stale, ws, proofs>>

Crash ==
  /\ Crashes /\ up # "down" /\ GoDown
  /\ UNCHANGED <<spec, issue, stale, ws, proofs>>

\* reconcile() gives a stale claim back; the sweep begins.
Start ==
  /\ up = "down" /\ starts < MaxStarts
  /\ up' = "sweeping" /\ starts' = starts + 1
  /\ issue' = IF stale THEN "todo" ELSE issue
  /\ stale' = FALSE
  /\ UNCHANGED <<spec, turnVars, ws, proofs, hook, check, run, reap, sweep,
                 stopping, runs, moves>>

\* live_claim_workspace_names, then fetch_by_ids.
SweepClaims ==
  /\ up = "sweeping" /\ sweep = "none"
  /\ sweep' = IF issue = "in_progress" /\ ~stale THEN "live" ELSE "fetch"
  /\ UNCHANGED <<spec, turnVars, hostVars, run, reap, up, stopping, starts, runs, moves>>

SweepFetch ==
  /\ sweep = "fetch"
  /\ sweep' = IF issue \in Terminal \cup {"blocked", "missing"} THEN "orphan" ELSE "preserve"
  /\ UNCHANGED <<spec, turnVars, hostVars, run, reap, up, stopping, starts, runs, moves>>

\* list_workspace_directories skips the quarantine.
ListWorkspaces == ws = "present"

QuarantineWorkspace == ValidateHandle /\ ws' = "quarantined"

\* A directory of the quarantine is missing, foreign or taken.
QuarantineRefused == UNCHANGED ws

\* The move may be refused; the sweep goes on without it.
SweepMove ==
  /\ sweep \in {"live", "orphan", "preserve"}
  /\ sweep' = "none" /\ up' = "up"
  /\ \/ sweep = "orphan" /\ ListWorkspaces /\ QuarantineWorkspace
     \/ sweep = "orphan" /\ QuarantineRefused
     \/ sweep # "orphan" /\ UNCHANGED ws
  /\ UNCHANGED <<spec, turnVars, issue, stale, proofs, hook, check, run, reap,
                 stopping, starts, runs, moves>>

-----------------------------------------------------------------------------
(* The rest of the world.                                                   *)

Expire ==
  /\ issue = "in_progress" /\ ~stale /\ ~InFlight
  /\ stale' = TRUE
  /\ UNCHANGED <<spec, turnVars, issue, ws, proofs, hook, check, run, daemonVars>>

\* Another agent or an operator moves the issue.
Elsewhere ==
  /\ moves < MaxMoves /\ moves' = moves + 1
  /\ issue' \in State \ {issue, "in_progress"} /\ stale' = FALSE
  /\ UNCHANGED <<spec, turnVars, ws, proofs, hook, check, run, reap, sweep, up,
                 stopping, starts, runs>>

TasksStep == Tasks /\ UNCHANGED <<spec, hostVars, run, daemonVars>>
AgentStep == ChildStep /\ UNCHANGED <<spec, hostVars, run, daemonVars>>

RunStep ==
  \/ StartProof \/ Create \/ RunHook \/ HookEnds \/ HookTimesOut \/ Attempt \/ Turn
  \/ StopTurn \/ EndAttempt \/ Verdict \/ Handoff \/ Block \/ ReleaseShutdown \/ Cleanup
  \/ Destroy \/ Finish

Reaper == ReapList \/ ReapInFlight \/ ReapScan
Sweep == SweepClaims \/ SweepFetch \/ SweepMove

Next ==
  \/ Claim \/ RunStep \/ Preempt \/ TasksStep \/ AgentStep \/ HookActs \/ CheckEnds
  \/ Reaper \/ Age \/ Stop \/ Exit \/ Crash \/ Start \/ Sweep \/ Expire \/ Elsewhere

Spec == Init /\ [][Next]_vars

\* The runtime polls what can go on, and timers fire: the turn's, a hook's, the
\* grace period of a shutdown.  Nothing is assumed of the agent, of hooks and of
\* validation commands, and the daemon may exit or crash and stay down.
Fairness == WF_vars(RunStep) /\ WF_vars(TasksStep) /\ WF_vars(Exit)

FairSpec == Spec /\ Fairness

-----------------------------------------------------------------------------

TypeOK ==
  /\ RunnerTypeOK
  /\ issue \in State /\ stale \in BOOLEAN /\ ws \in {"absent", "present", "quarantined"}
  /\ proofs \in [1..MaxRuns -> {"none", "fresh", "old", "reaped"}]
  /\ check \in BOOLEAN /\ stopping \in BOOLEAN
  /\ hook.at \in {"off", "running", "exited"} /\ up \in {"up", "sweeping", "down"}

\* While any process of an agent that this process started, in the child's process
\* group or outside it, has the agent's pipes, and while the agent itself runs
\* unless the daemon stops, the process starts no other agent in the workspace,
\* does not give the claim up (handoff, block, release), and leaves the workspace
\* where it is: every way out of a turn waits for the pipes to close, and all but
\* a preemption for the agent.  Nothing waits for a descendant that has redirected
\* its output: the run is retried, handed off or cleaned up beside it.
ClaimOutlivesAgent ==
  [][((Attached \/ (Running /\ ~stopping)) /\ up = "up" /\ up' = "up") =>
       /\ ~(turn = "prepared" /\ turn' = "spawned")
       /\ issue = "in_progress" /\ moves' = moves => issue' = issue
       /\ ws = "present" => ws' = ws]_vars

\* A run has its workspace until it destroys it itself, and its proof directory
\* until it is over: neither the orphan sweep of a start, nor an earlier run's
\* cleanup, nor the reaper takes them away, whatever others do to the issue.
RunKeepsItsFiles ==
  /\ run.pc \in {"hook", "attempt", "turn", "verdict", "handoff", "block", "release", "cleanup",
                "destroy"} => ws = "present"
  /\ run.pc \notin {"idle", "proof"} => proofs[runs] # "reaped"

\* Someone outside keeps the run waiting: a process with the agent's pipes after
\* the agent is gone or the run preempted, a process with a hook's output, or a
\* validation command.
HeldUp ==
  \/ turn \in {"joining", "closing", "over", "cancelled"} /\ readers /\ Held
  \/ hook.at = "exited" /\ hook.kin
  \/ check

\* A run ends, unless it waits for a process that it has no timer on.
RunEndsUnlessHeldUp == InFlight ~> (~InFlight \/ HeldUp)
=============================================================================
