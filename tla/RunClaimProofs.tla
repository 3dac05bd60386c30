-------------------------- MODULE RunClaimProofs --------------------------
(***************************************************************************)
(* For every set of runner specs and hosts, every retry limit and whatever *)
(* the agent, hooks, crashes and others do: work of the network runs only  *)
(* confined, a finished turn leaves no sandbox session open, a run keeps   *)
(* its files, and a claim outlives the agent that works under it.          *)
(***************************************************************************)
EXTENDS RunClaim, TLAPS

Guard == {"writes", "secrets", "workspace", "tcp", "sockets", "cgroup"}

ChildOK ==
  child \in [exe: {"none", "launcher", "configured", "target", "dead"}, mute: BOOLEAN,
             kin: BOOLEAN, far: BOOLEAN, guards: SUBSET Guard]

\* The resolved spec: a backend that is available is one that confines.
SpecOK == spec.available => spec.backend \in Backend

\* How the confinement comes about: a turn for the network's work gets past
\* prepare only with a backend; a launcher is a child of the native backend; it
\* is in its cgroup before it has its configuration.
Confinement ==
  /\ (turn = "prepared" /\ spec.source = "network" /\ spec.backend # "unsandboxed") =>
       spec.available
  /\ child.exe \in {"launcher", "configured"} => Native
  /\ child.exe = "configured" => "cgroup" \in child.guards
  /\ NetworkWorkIsConfined

\* A new session starts without a box.
Boxing == (turn = "session" => box = "none") /\ SandboxIsShut

RunnerInv == ChildOK /\ SpecOK /\ Confinement /\ Boxing

\* Who has the agent's pipes is watched by the turn or by their readers; while
\* either lasts the event writer has a sender; and the writer is joined before
\* the run goes on from the turn.
Watch ==
  /\ readers \in BOOLEAN /\ writer \in BOOLEAN /\ session \in BOOLEAN
  /\ Attached => turn = "spawned" \/ readers
  /\ (turn = "spawned" /\ Native) =>
       child.exe \in {"launcher", "dead"} /\ ~child.kin /\ ~child.far
  /\ readers => writer
  /\ InTurn => writer /\ session
  /\ turn \in {"session", "prepared"} => ~Attached /\ ~readers
  /\ run.pc # "turn" => ~InTurn /\ ~writer

\* An agent that runs is in a turn that waits for it or has failed to, or was left
\* by a run that the daemon's stop preempted: it is in no turn that goes on.
Minded == Running =>
  \/ /\ run.pc = "turn"
     /\ turn \in {"spawned", "waiting"} \/ (turn \in {"closing", "over"} /\ outcome = "error")
  \/ /\ stopping /\ run.pc \in {"turn", "release", "finish", "idle"}
     /\ turn \in {"cancelled", "idle"}

\* The stages of a run, those with a workspace among them.
Busy == {"hook", "attempt", "turn", "verdict", "handoff", "block", "release", "cleanup", "destroy"}
Stages == Busy \cup {"idle", "proof", "create", "finish"}

Shape ==
  /\ run \in [pc: Stages, attempts: Nat, next: Phase \cup {"idle"}, reached: State \cup {"none"}]
  /\ hook \in [at: {"off", "running", "exited"}, kin: BOOLEAN, phase: Phase \cup {"none"}]
  /\ proofs \in [1..MaxRuns -> {"none", "fresh", "old", "reaped"}]
  /\ runs \in 0..MaxRuns /\ (InFlight => runs > 0)

\* Runs and sweeps exclude each other, a hook runs for a run in that stage, and
\* a scan that found no run spares what a run has made since.
Files ==
  /\ InFlight => up = "up"
  /\ sweep # "none" => up = "sweeping"
  /\ hook.at # "off" => run.pc = "hook"
  /\ (reap = "passive" /\ run.pc \notin {"idle", "proof"}) => proofs[runs] = "fresh"
  /\ RunKeepsItsFiles

RunInv == RunnerInv /\ Watch /\ Shape /\ Files

-----------------------------------------------------------------------------
(* The sandbox.                                                             *)

\* resolve_backend calls a backend available only if it is one.
LEMMA ResolveSound ==
  ASSUME NEW s \in Specs, NEW h \in Hosts
  PROVE  Resolve(s, h).available => Resolve(s, h).backend \in Backend
<1>1. h.has \subseteq Backend
  BY RunnerAssumption
<1>2. PICK b : /\ Resolve(s, h).backend = b
               /\ Resolve(s, h).available = (b \in h.has)
  BY DEF Resolve
<1>3. QED
  BY <1>1, <1>2, Zenon

\* Each wrapper takes away what the profile promises.
LEMMA WrapKeepsPromise ==
  ASSUME NEW s, s.backend \in Backend, s.backend # "native"
  PROVE  Promised(s) \subseteq WrapAvailable(s)
<1>1. Promised(s) \subseteq WrapBubblewrap(s)
  BY DEF Promised, WrapBubblewrap, NoWrites
<1>2. Promised(s) \subseteq WrapLandlock(s)
  BY DEF Promised, WrapLandlock, NoWrites
<1>3. Promised(s) \subseteq WrapSandboxRuntime(s) /\ Promised(s) \subseteq WrapSandboxExec(s)
  BY DEF Promised, WrapSandboxRuntime, WrapSandboxExec
<1>4. QED
  BY <1>1, <1>2, <1>3 DEF WrapAvailable, Backend

\* So do the launcher's Landlock rules, but for the sockets that they do not reach.
LEMMA LandlockKeepsPromise ==
  ASSUME NEW s
  PROVE  Promised(s) \ {"sockets"} \subseteq ApplyLandlock(s)
  BY DEF Promised, ApplyLandlock, NoWrites, NoSecrets, NoTcp, NoNetwork

\* Guards are guards.
LEMMA GuardTypes ==
  ASSUME NEW s
  PROVE  WrapAvailable(s) \subseteq Guard /\ ApplyLandlock(s) \subseteq Guard
<1>1. /\ ReadOnly(s) \subseteq Guard /\ NoSecrets(s) \subseteq Guard
      /\ NoWrites(s) \subseteq Guard /\ NoNetwork(s) \subseteq Guard /\ NoTcp(s) \subseteq Guard
  BY DEF ReadOnly, NoSecrets, NoWrites, NoNetwork, NoTcp, Guard
<1>2. /\ WrapBubblewrap(s) \subseteq Guard /\ WrapLandlock(s) \subseteq Guard
      /\ WrapSandboxRuntime(s) \subseteq Guard /\ WrapSandboxExec(s) \subseteq Guard
  BY <1>1 DEF WrapBubblewrap, WrapLandlock, WrapSandboxRuntime, WrapSandboxExec, Guard
<1>3. QED
  BY <1>1, <1>2 DEF WrapAvailable, ApplyLandlock, Guard

-----------------------------------------------------------------------------
(* The turn.                                                                *)

\* Preparing a turn refuses network work that nothing confines.
LEMMA PrepareKeeps ==
  ASSUME RunnerInv, Prepare, UNCHANGED spec
  PROVE  RunnerInv'
<1>1. UNCHANGED child /\ turn = "session" /\ box = "none"
  BY DEF Prepare, RunnerInv, Boxing
<1>2. turn' = "prepared" \/ turn' = "over"
  BY DEF Prepare, PrepareNative, TurnErrs
<1>3. box' = "open" => turn' = "prepared"
  BY <1>1 DEF Prepare, PrepareNative, TurnErrs
<1>4. (turn' = "prepared" /\ spec.source = "network" /\ spec.backend # "unsandboxed") =>
        spec.available
  BY <1>1 DEF Prepare, TurnErrs, PrepareMode, Native
<1>5. QED
  BY <1>1, <1>2, <1>3, <1>4 DEF RunnerInv, ChildOK, SpecOK, Confinement, Boxing,
     NetworkWorkIsConfined, SandboxIsShut, InTurn, Native

\* Spawning the child, or failing to.
LEMMA SpawnKeeps ==
  ASSUME RunnerInv, Spawn, UNCHANGED spec
  PROVE  RunnerInv'
<1>1. turn = "prepared"
  BY DEF Spawn
<1>2. CASE TurnErrs /\ Shut /\ UNCHANGED child
  BY <1>1, <1>2 DEF RunnerInv, ChildOK, SpecOK, Confinement, Boxing, NetworkWorkIsConfined,
     SandboxIsShut, InTurn, Native, TurnErrs, Shut
<1>3. CASE /\ child' = [NoChild EXCEPT
                 !.exe = IF Native THEN "launcher" ELSE "target",
                 !.guards = IF spec.available THEN WrapAvailable(spec) ELSE {}]
           /\ turn' = "spawned" /\ UNCHANGED <<box, outcome>>
  <2>1. child' = [exe |-> IF Native THEN "launcher" ELSE "target", mute |-> FALSE,
                  kin |-> FALSE, far |-> FALSE,
                  guards |-> IF spec.available THEN WrapAvailable(spec) ELSE {}]
    BY <1>3 DEF NoChild
  <2>2. ChildOK'
    BY <2>1, GuardTypes DEF ChildOK
  <2>3. child'.exe = "launcher" => Native
    BY <2>1
  <2>4. (child'.exe = "target" /\ spec.source = "network" /\ spec.backend # "unsandboxed") =>
          spec.backend # "native" /\ Promised(spec) \subseteq child'.guards
    BY <1>1, <2>1, WrapKeepsPromise DEF RunnerInv, Confinement, SpecOK, Native
  <2>5. child'.exe # "configured"
    BY <2>1
  <2>6. QED
    BY <1>3, <2>2, <2>3, <2>4, <2>5 DEF RunnerInv, SpecOK, Confinement, Boxing,
       NetworkWorkIsConfined, SandboxIsShut, InTurn, Native
<1>4. QED
  BY <1>2, <1>3 DEF Spawn

\* Outside of spawn, handshake and exec the child's command does not change but
\* by its death, and its guards not at all.
LEMMA ChildOnlyDies ==
  ASSUME RunnerInv, UNCHANGED spec, ChildOK', child'.exe \in {child.exe, "dead"},
         child'.guards = child.guards, turn' # "prepared" \/ UNCHANGED turn, Boxing'
  PROVE  RunnerInv'
  BY DEF RunnerInv, SpecOK, Confinement, NetworkWorkIsConfined, Native

\* The launcher's start: cgroup, then configuration, then the agent.
LEMMA ChildStartedKeeps ==
  ASSUME RunnerInv, ChildStarted, UNCHANGED spec
  PROVE  RunnerInv'
<1>1. CASE ~Native /\ turn' = "waiting" /\ UNCHANGED <<box, child>>
  BY <1>1, ChildOnlyDies DEF RunnerInv, ChildOK, Boxing, SandboxIsShut, InTurn
<1>2. CASE /\ Native
           /\ child' = [child EXCEPT !.exe = "configured", !.guards = CgroupLeaf]
           /\ turn' = "waiting" /\ UNCHANGED box
  <2>1. child'.exe = "configured" /\ child'.guards = {"cgroup"} /\ ChildOK'
    BY <1>2 DEF RunnerInv, ChildOK, CgroupLeaf, Guard
  <2>2. QED
    BY <1>2, <2>1 DEF RunnerInv, SpecOK, Confinement, Boxing, NetworkWorkIsConfined,
       SandboxIsShut, InTurn, Native
<1>3. CASE KillProcessGroup /\ TurnErrs /\ Shut
  <2>1. ChildOK' /\ child'.exe = "dead" /\ child'.guards = child.guards
    BY <1>3 DEF RunnerInv, ChildOK, KillProcessGroup
  <2>2. turn' = "over" /\ box' # "open"
    BY <1>3 DEF TurnErrs, Shut
  <2>3. QED
    BY <2>1, <2>2, ChildOnlyDies DEF Boxing, SandboxIsShut
<1>4. QED
  BY <1>1, <1>2, <1>3 DEF ChildStarted

\* The wait, the joins and the end of the turn.
LEMMA TurnEndKeeps ==
  ASSUME RunnerInv, UNCHANGED spec,
         WaitExit \/ WaitTimeout \/ WaitFails \/ JoinReaders \/ FinishSandboxSession
  PROVE  RunnerInv'
<1>1. ChildOK' /\ child'.exe \in {child.exe, "dead"} /\ child'.guards = child.guards
  BY DEF RunnerInv, ChildOK, WaitExit, WaitTimeout, WaitFails, JoinReaders,
     FinishSandboxSession, KillProcessGroup
<1>2. turn' \in {"joining", "closing", "over"}
  BY DEF WaitExit, WaitTimeout, WaitFails, JoinReaders, FinishSandboxSession
<1>3. turn' = "over" => box' # "open"
  BY DEF WaitExit, WaitTimeout, WaitFails, JoinReaders, FinishSandboxSession, Shut
<1>4. QED
  BY <1>1, <1>2, <1>3, ChildOnlyDies DEF Boxing, SandboxIsShut, InTurn

\* What the agent does by itself.
LEMMA ChildStepKeeps ==
  ASSUME RunnerInv, ChildStep, UNCHANGED spec
  PROVE  RunnerInv'
<1>1. CASE Launch
  <2>1. child'.exe = "target" /\ child'.guards = child.guards \cup ApplyLandlock(spec) /\ ChildOK'
    BY <1>1, GuardTypes DEF Launch, RunnerInv, ChildOK
  <2>2. Promised(spec) \ {"sockets"} \subseteq child'.guards /\ "cgroup" \in child'.guards
    BY <1>1, <2>1, LandlockKeepsPromise DEF Launch, RunnerInv, Confinement
  <2>3. spec.backend = "native"
    BY <1>1 DEF Launch, RunnerInv, Confinement, Native
  <2>4. NetworkWorkIsConfined'
    BY <1>1, <2>2, <2>3 DEF Launch, NetworkWorkIsConfined, Unenforced
  <2>5. QED
    BY <1>1, <2>1, <2>4 DEF Launch, RunnerInv, SpecOK, Confinement, Boxing,
       SandboxIsShut, InTurn, Native
<1>2. CASE ChildActs
  <2>1. ChildOK' /\ child'.exe \in {child.exe, "dead"} /\ child'.guards = child.guards
    BY <1>2 DEF ChildActs, RunnerInv, ChildOK
  <2>2. QED
    BY <1>2, <2>1, ChildOnlyDies DEF ChildActs, RunnerInv, Boxing, SandboxIsShut, InTurn
<1>3. CASE ChildWrites
  BY <1>3, ChildOnlyDies DEF ChildWrites, RunnerInv, ChildOK, Boxing, SandboxIsShut, InTurn
<1>4. QED
  BY <1>1, <1>2, <1>3 DEF ChildStep

\* Beside the turn's own steps: cancellation, the end of the session, its start,
\* the tasks and the daemon's end.
LEMMA AroundTheTurn ==
  ASSUME RunnerInv, UNCHANGED spec,
         Cancel \/ StopSession \/ StartSession \/ Tasks
  PROVE  RunnerInv'
<1>1. UNCHANGED child
  BY DEF Cancel, StopSession, StartSession, Tasks, ReadersEnd, WriteEvent
<1>2. UNCHANGED <<turn, box>> \/ (turn' = "session" /\ box' = "none")
        \/ (turn' = "cancelled" /\ box' # "open")
  BY DEF Cancel, StopSession, StartSession, Tasks, ReadersEnd, WriteEvent
<1>3. QED
  BY <1>1, <1>2, ChildOnlyDies DEF RunnerInv, ChildOK, Boxing, SandboxIsShut, InTurn

\* A new session, or the end of the process.
LEMMA ResetKeeps ==
  ASSUME RunnerInv, UNCHANGED spec, turn' = "idle", box' = "none", child' \in {child, NoChild}
  PROVE  RunnerInv'
<1>1. Boxing'
  BY DEF Boxing, SandboxIsShut
<1>2. CASE child' = child
  BY <1>1, <1>2, ChildOnlyDies DEF RunnerInv, ChildOK
<1>3. CASE child' = NoChild
  <2>1. ChildOK' /\ child'.exe = "none"
    BY <1>3 DEF ChildOK, NoChild
  <2>2. QED
    BY <1>1, <2>1 DEF RunnerInv, SpecOK, Confinement, NetworkWorkIsConfined
<1>4. QED
  BY <1>2, <1>3

\* Every step of the runner preserves its part of the invariant.
LEMMA RunnerStepKeeps ==
  ASSUME RunnerInv, RunnerStep, UNCHANGED spec
  PROVE  RunnerInv'
  BY PrepareKeeps, SpawnKeeps, ChildStartedKeeps, TurnEndKeeps DEF RunnerStep

\* Steps that leave spec and turn alone preserve it too.
LEMMA RunnerInvStutters ==
  ASSUME RunnerInv, UNCHANGED <<spec, turn, box, child>>
  PROVE  RunnerInv'
  BY DEF RunnerInv, ChildOK, SpecOK, Confinement, Boxing, NetworkWorkIsConfined, SandboxIsShut,
     InTurn, Native

-----------------------------------------------------------------------------
(* The watch over the agent.                                                *)

\* The turn's own steps leave a working agent watched.
LEMMA WatchedTurn ==
  ASSUME ChildOK, Watch, RunnerStep, run.pc = "turn", UNCHANGED <<spec, run>>
  PROVE  Watch'
<1> USE DEF Watch, Attached, Running, InTurn, Native
<1>1. CASE Prepare
  BY <1>1 DEF Prepare, PrepareNative, TurnErrs
<1>2. CASE Spawn
  <2>1. (turn' = "over" /\ UNCHANGED child) \/ turn' = "spawned"
    BY <1>2 DEF Spawn, TurnErrs
  <2>2. turn' = "spawned" => (Native => child'.exe = "launcher" /\ ~child'.kin /\ ~child'.far)
    BY <1>2 DEF Spawn, NoChild, TurnErrs
  <2>3. UNCHANGED <<readers, session, writer>> /\ turn = "prepared"
    BY <1>2 DEF Spawn
  <2>4. QED
    BY <2>1, <2>2, <2>3
<1>3. CASE ChildStarted
  <2>1. CASE ~Native /\ turn' = "waiting" /\ readers' = TRUE /\ UNCHANGED child
    BY <1>3, <2>1 DEF ChildStarted
  <2>2. CASE Native /\ turn' = "waiting" /\ readers' = TRUE
    BY <1>3, <2>2 DEF ChildStarted
  <2>3. CASE Native /\ KillProcessGroup /\ TurnErrs /\ UNCHANGED readers
    BY <1>3, <2>3 DEF ChildStarted, KillProcessGroup, TurnErrs, ChildOK
  <2>4. QED
    BY <1>3, <2>1, <2>2, <2>3 DEF ChildStarted
<1>4. CASE WaitExit \/ WaitFails
  BY <1>4 DEF WaitExit, WaitFails
<1>5. CASE WaitTimeout
  BY <1>5 DEF WaitTimeout, KillProcessGroup, ChildOK
<1>6. CASE JoinReaders \/ FinishSandboxSession
  BY <1>6 DEF JoinReaders, FinishSandboxSession
<1>7. QED
  BY <1>1, <1>2, <1>3, <1>4, <1>5, <1>6 DEF RunnerStep

\* So do the steps of the agent and its kin.
LEMMA WatchedChild ==
  ASSUME RunnerInv, Watch, ChildStep, UNCHANGED <<spec, run>>
  PROVE  Watch'
<1> USE DEF Watch, Attached, Running, InTurn, Native
<1>1. CASE Launch
  BY <1>1 DEF Launch, RunnerInv, ChildOK
<1>2. CASE ChildActs
  BY <1>2 DEF ChildActs, RunnerInv, ChildOK, Alive
<1>3. CASE ChildWrites
  BY <1>3 DEF ChildWrites
<1>4. QED
  BY <1>1, <1>2, <1>3 DEF ChildStep

\* And those of the readers and the event writer.
LEMMA WatchedTasks ==
  ASSUME Watch, Tasks, UNCHANGED <<spec, run>>
  PROVE  Watch'
<1> USE DEF Watch, Attached, Running, InTurn, Native
<1>1. CASE ReadersEnd
  BY <1>1 DEF ReadersEnd, Held, Alive
<1>2. CASE WriteEvent
  BY <1>2 DEF WriteEvent, Sending
<1>3. QED
  BY <1>1, <1>2 DEF Tasks

\* A step that leaves the turn alone, and neither enters nor leaves that stage.
LEMMA WatchStutters ==
  ASSUME Watch, UNCHANGED <<spec, turn, child, readers, writer, session>>,
         run'.pc # "turn" => run.pc # "turn"
  PROVE  Watch'
  BY DEF Watch, Attached, Running, InTurn, Native

\* Nothing runs in a new session.
LEMMA WatchReset ==
  ASSUME turn' = "idle", readers' = FALSE, session' = FALSE, writer' = FALSE, child' = NoChild
  PROVE  Watch'
  BY DEF Watch, Attached, Running, InTurn, NoChild

-----------------------------------------------------------------------------
(* The run's files.                                                         *)

\* A step within the stages that have a workspace, or out of them.
LEMMA FilesStay ==
  ASSUME Shape, Files, UNCHANGED <<ws, proofs, reap, runs, up, sweep>>,
         run.pc # "idle" \/ UNCHANGED run,
         hook'.at # "off" => run'.pc = "hook",
         run'.pc \in Busy => run.pc \in Busy,
         run'.pc \notin {"idle", "proof"} => run.pc \notin {"idle", "proof"}
  PROVE  Files'
  BY DEF Files, Shape, RunKeepsItsFiles, Busy, InFlight

\* The end of the process.
LEMMA DownKeeps ==
  ASSUME RunInv, GoDown, UNCHANGED <<spec, ws, proofs>>
  PROVE  RunInv'
<1>1. RunnerInv'
  BY ResetKeeps DEF RunInv, GoDown
<1>2. Watch'
  BY WatchReset DEF GoDown
<1>3. Shape'
  BY DEF RunInv, Shape, GoDown, NoRun, NoHook, Stages, InFlight
<1>4. Files'
  BY DEF Files, GoDown, NoRun, NoHook, RunKeepsItsFiles, InFlight
<1>5. QED
  BY <1>1, <1>2, <1>3, <1>4 DEF RunInv

\* A step of the run that neither touches its files nor the turn.
LEMMA QuietKeeps ==
  ASSUME RunInv, UNCHANGED <<spec, turnVars, ws, proofs, daemonVars>>, Shape',
         run.pc # "idle" \/ UNCHANGED run,
         hook'.at # "off" => run'.pc = "hook",
         run'.pc \in Busy => run.pc \in Busy,
         run'.pc \notin {"idle", "proof"} => run.pc \notin {"idle", "proof"},
         run'.pc # "turn" => run.pc # "turn" \/ (~InTurn /\ ~writer)
  PROVE  RunInv'
<1>1. RunnerInv'
  BY RunnerInvStutters DEF RunInv, turnVars
<1>2. Watch'
  BY DEF RunInv, Watch, Attached, Running, InTurn, Native, turnVars
<1>3. Files'
  BY FilesStay DEF RunInv, daemonVars
<1>4. QED
  BY <1>1, <1>2, <1>3 DEF RunInv

-----------------------------------------------------------------------------
(* The run, step by step.                                                   *)

\* Outside its turn a run has no agent at work.
LEMMA NobodyWorks ==
  ASSUME Watch, run.pc # "turn"
  PROVE  ~Attached /\ ~readers /\ ~writer /\ ~InTurn
  BY DEF Watch, InTurn

\* A run takes its claim.
LEMMA ClaimKeeps ==
  ASSUME RunInv, Claim
  PROVE  RunInv'
<1>1. Shape'
  BY RunClaimAssumption DEF RunInv, Shape, Claim, Goto, Stages, Busy, InFlight
<1>2. RunnerInv' /\ Watch'
  BY RunnerInvStutters, WatchStutters DEF RunInv, Claim, Goto, Shape, turnVars
<1>3. run'.pc = "proof" /\ up' = "up"
  BY DEF RunInv, Claim, Goto, Shape
<1>4. Files'
  BY <1>3 DEF RunInv, Files, Claim, RunKeepsItsFiles, InFlight
<1>5. QED
  BY <1>1, <1>2, <1>4 DEF RunInv

\* It makes its proof directory.
LEMMA StartProofKeeps ==
  ASSUME RunInv, StartProof
  PROVE  RunInv'
<1>1. run'.pc = "create" /\ runs \in 1..MaxRuns /\ proofs'[runs] = "fresh"
  BY DEF RunInv, Shape, StartProof, Goto, CreateUniqueRunDir, InFlight
<1>2. Shape'
  BY <1>1 DEF RunInv, Shape, StartProof, Goto, CreateUniqueRunDir, Stages, Busy, InFlight, daemonVars
<1>3. RunnerInv' /\ Watch'
  BY <1>1, RunnerInvStutters, WatchStutters DEF RunInv, StartProof, turnVars
<1>4. Files'
  BY <1>1 DEF RunInv, Files, StartProof, RunKeepsItsFiles, InFlight, daemonVars
<1>5. QED
  BY <1>2, <1>3, <1>4 DEF RunInv

\* It makes or reuses its workspace.
LEMMA CreateKeeps ==
  ASSUME RunInv, Create
  PROVE  RunInv'
<1>1. run'.pc = "hook" /\ ws' = "present"
  BY DEF RunInv, Shape, Create
<1>2. Shape'
  BY DEF RunInv, Shape, Create, Stages, Busy, InFlight, Phase, daemonVars
<1>3. RunnerInv' /\ Watch'
  BY <1>1, RunnerInvStutters, WatchStutters DEF RunInv, Create, turnVars
<1>4. Files'
  BY <1>1 DEF RunInv, Files, Create, RunKeepsItsFiles, InFlight, daemonVars
<1>5. QED
  BY <1>2, <1>3, <1>4 DEF RunInv

\* Where a hook leads.
LEMMA HookLeads ==
  ASSUME RunInv, NEW phase, NEW ok \in BOOLEAN, Continue(phase, ok)
  PROVE  /\ run' \in [pc: Stages, attempts: Nat, next: Phase \cup {"idle"},
                       reached: State \cup {"none"}]
         /\ run'.pc \in Busy \cup {"finish"} /\ run'.pc # "turn"
<1>1. AfterHook(phase) \in {"before_run", "attempt", "verdict", "destroy"}
  BY DEF AfterHook
<1>2. FailedHook(phase) \in {"block", "verdict", "finish"}
  BY DEF FailedHook
<1>3. PICK pc \in {"before_run", "attempt", "verdict", "destroy", "block", "finish"} :
        run' = [run EXCEPT !.pc = IF pc = "before_run" THEN "hook" ELSE pc,
                           !.next = IF pc = "before_run" THEN "before_run" ELSE "idle"]
  BY <1>1, <1>2 DEF Continue
<1>4. QED
  BY <1>3 DEF RunInv, Shape, Stages, Busy, Phase

\* Hooks start, end and time out.
LEMMA HooksKeep ==
  ASSUME RunInv, RunHook \/ HookEnds \/ HookTimesOut
  PROVE  RunInv'
<1>1. run.pc = "hook"
  BY DEF RunHook, HookEnds, HookTimesOut, RunInv, Files
<1>2. /\ run' \in [pc: Stages, attempts: Nat, next: Phase \cup {"idle"},
                    reached: State \cup {"none"}]
      /\ run'.pc \in Busy \cup {"finish"} /\ run'.pc # "turn"
  <2>1. UNCHANGED run \/ \E phase : Continue(phase, TRUE) \/ Continue(phase, FALSE)
    BY DEF RunHook, HookEnds, HookTimesOut
  <2>2. QED
    BY <1>1, <2>1, HookLeads DEF RunInv, Shape, Busy
<1>3. /\ hook' \in [at: {"off", "running", "exited"}, kin: BOOLEAN, phase: Phase \cup {"none"}]
      /\ hook'.at # "off" => UNCHANGED run
  <2>1. \/ hook' = NoHook
        \/ UNCHANGED hook /\ hook.at = "off"
        \/ UNCHANGED run /\ hook' = [at |-> "running", kin |-> FALSE, phase |-> run.next]
             /\ run.next \in Hooks
    BY DEF RunHook, HookEnds, HookTimesOut
  <2>2. Hooks \subseteq Phase
    BY RunClaimAssumption
  <2>3. CASE hook' = NoHook
    BY <2>3 DEF NoHook
  <2>4. CASE UNCHANGED hook /\ hook.at = "off"
    BY <2>4 DEF RunInv, Shape
  <2>5. CASE UNCHANGED run /\ hook' = [at |-> "running", kin |-> FALSE, phase |-> run.next]
               /\ run.next \in Hooks
    BY <2>2, <2>5
  <2>6. QED
    BY <2>1, <2>3, <2>4, <2>5
<1>4. UNCHANGED <<spec, turnVars, ws, proofs, daemonVars>>
  BY DEF RunHook, HookEnds, HookTimesOut
<1>5. Shape'
  BY <1>1, <1>2, <1>3, <1>4 DEF RunInv, Shape, InFlight, daemonVars
<1>6. QED
  BY <1>1, <1>2, <1>3, <1>4, <1>5, QuietKeeps DEF Busy

\* An attempt begins.
LEMMA AttemptKeeps ==
  ASSUME RunInv, Attempt
  PROVE  RunInv'
<1>1. run'.pc = "turn" /\ run.pc = "attempt"
  BY DEF RunInv, Shape, Attempt
<1>2. Shape'
  <2>1. run' \in [pc: Stages, attempts: Nat, next: Phase \cup {"idle"},
                  reached: State \cup {"none"}]
    <3>1. run.attempts + 1 \in Nat
      BY DEF RunInv, Shape
    <3>2. QED
      BY <3>1 DEF RunInv, Shape, Attempt, Stages, Busy
  <2>2. QED
    BY <1>1, <2>1 DEF RunInv, Shape, Attempt, InFlight, hostVars, daemonVars
<1>3. RunnerInv'
  BY AroundTheTurn DEF RunInv, Attempt
<1>4. Watch'
  BY <1>1, NobodyWorks DEF RunInv, Watch, Attempt, StartSession, Attached, Running, InTurn
<1>5. Files'
  BY <1>1, FilesStay DEF RunInv, Files, Attempt, hostVars, daemonVars, Busy
<1>6. QED
  BY <1>2, <1>3, <1>4, <1>5 DEF RunInv

\* Steps of the turn, of its tasks and of the agent.
LEMMA TurnKeeps ==
  ASSUME RunInv, Turn \/ Preempt \/ StopTurn \/ TasksStep \/ AgentStep
  PROVE  RunInv'
<1>1. UNCHANGED <<spec, hostVars, run, daemonVars>>
  BY DEF Turn, Preempt, StopTurn, TasksStep, AgentStep
<1>2. RunnerInv'
  BY <1>1, RunnerStepKeeps, AroundTheTurn, ChildStepKeeps
     DEF RunInv, Turn, Preempt, StopTurn, TasksStep, AgentStep
<1>3. Watch'
  <2>1. CASE Turn
    BY <1>1, <2>1, WatchedTurn DEF Turn, RunInv, RunnerInv
  <2>2. CASE Preempt
    BY <1>1, <2>2 DEF Preempt, Cancel, RunInv, Watch, Attached, Running, InTurn, Native
  <2>3. CASE StopTurn
    BY <1>1, <2>3 DEF StopTurn, StopSession, RunInv, Watch, Attached, Running, InTurn, Native
  <2>4. CASE TasksStep
    BY <1>1, <2>4, WatchedTasks DEF TasksStep, RunInv
  <2>5. CASE AgentStep
    BY <1>1, <2>5, WatchedChild DEF AgentStep, RunInv
  <2>6. QED
    BY <2>1, <2>2, <2>3, <2>4, <2>5
<1>4. Shape'
  BY <1>1 DEF RunInv, Shape, InFlight, hostVars, daemonVars
<1>5. Files'
  BY <1>1, FilesStay DEF RunInv, Files, hostVars, daemonVars
<1>6. QED
  BY <1>2, <1>3, <1>4, <1>5 DEF RunInv

\* An attempt ends once the event writer is joined.
LEMMA EndAttemptKeeps ==
  ASSUME RunInv, EndAttempt
  PROVE  RunInv'
<1>1. CASE GoDown
  BY <1>1, DownKeeps DEF EndAttempt
<1>2. CASE UNCHANGED <<turnVars, hook, check, daemonVars>>
  <2>1. run.pc = "turn" /\ ~InTurn /\ ~writer
    BY DEF EndAttempt, InTurn
  <2>2. \/ run' = [run EXCEPT !.pc = "hook", !.next = "after_run"]
        \/ run' = [run EXCEPT !.pc = "release"]
        \/ GoDown
    BY DEF EndAttempt, Goto
  <2>3. CASE run' = [run EXCEPT !.pc = "hook", !.next = "after_run"]
    <3>1. Shape' /\ run'.pc = "hook"
      BY <1>2, <2>1, <2>3 DEF RunInv, Shape, Stages, Busy, Phase, InFlight, EndAttempt, daemonVars
    <3>2. QED
      BY <1>2, <2>1, <3>1, QuietKeeps DEF EndAttempt, Busy
  <2>4. CASE run' = [run EXCEPT !.pc = "release"]
    <3>1. Shape' /\ run'.pc = "release"
      BY <1>2, <2>1, <2>4 DEF RunInv, Shape, Stages, Busy, InFlight, EndAttempt, daemonVars
    <3>2. hook'.at = "off"
      BY <1>2, <2>1 DEF RunInv, Files
    <3>3. QED
      BY <1>2, <2>1, <3>1, <3>2, QuietKeeps DEF EndAttempt, Busy
  <2>5. QED
    BY <1>1, <2>2, <2>3, <2>4
<1>3. QED
  BY <1>1, <1>2 DEF EndAttempt

\* A step of the run from one stage to another outside the turn.
LEMMA MovesOn ==
  ASSUME RunInv, UNCHANGED <<spec, turnVars, ws, proofs, hook, daemonVars>>,
         run.pc \in Busy \ {"turn", "hook"},
         run'.pc \in (Busy \ {"turn"}) \cup {"finish"},
         run' \in [pc: Stages, attempts: Nat, next: Phase \cup {"idle"},
                   reached: State \cup {"none"}]
  PROVE  RunInv'
<1>1. hook'.at = "off"
  BY DEF RunInv, Files
<1>2. Shape'
  BY DEF RunInv, Shape, InFlight, daemonVars, Busy
<1>3. QED
  BY <1>1, <1>2, QuietKeeps DEF Busy

\* What the attempt's outcome, and the cleanup policy, make the run do next.
LEMMA VerdictKeeps ==
  ASSUME RunInv, Verdict \/ Cleanup
  PROVE  RunInv'
<1>1. \/ \E pc \in {"handoff", "block", "finish"} : run' = [run EXCEPT !.pc = pc]
      \/ \E phase \in {"before_run", "before_remove"} :
           run' = [run EXCEPT !.pc = "hook", !.next = phase]
  BY DEF Verdict, Cleanup, Goto
<1>2. /\ run' \in [pc: Stages, attempts: Nat, next: Phase \cup {"idle"},
                    reached: State \cup {"none"}]
      /\ run'.pc \in {"handoff", "block", "finish", "hook"}
  BY <1>1 DEF RunInv, Shape, Stages, Busy, Phase
<1>3. QED
  BY <1>2, MovesOn DEF Verdict, Cleanup, Busy, hostVars

\* Handoff, block or release.
LEMMA EndClaimKeeps ==
  ASSUME RunInv, Handoff \/ Block \/ ReleaseShutdown
  PROVE  RunInv'
<1>1. UNCHANGED <<spec, stale, ws, proofs>> /\ run.pc \in {"handoff", "block", "release"}
  BY DEF Handoff, Block, ReleaseShutdown
<1>2. CASE GoDown
  BY <1>1, <1>2, DownKeeps
<1>3. CASE /\ UNCHANGED <<turnVars, hook, check, daemonVars>>
           /\ \E state \in State, pc \in {"cleanup", "finish"} :
                run' = [run EXCEPT !.pc = pc, !.reached = state]
  <2>1. /\ run' \in [pc: Stages, attempts: Nat, next: Phase \cup {"idle"},
                      reached: State \cup {"none"}]
        /\ run'.pc \in {"cleanup", "finish"}
    <3>1. PICK state \in State, pc \in {"cleanup", "finish"} :
            run' = [run EXCEPT !.pc = pc, !.reached = state]
      BY <1>3
    <3>2. pc \in Stages
      BY DEF Stages, Busy
    <3>3. QED
      BY <3>1, <3>2 DEF RunInv, Shape
  <2>2. QED
    BY <1>1, <1>3, <2>1, MovesOn DEF Busy
<1>4. QED
  BY <1>2, <1>3 DEF Handoff, Block, ReleaseShutdown, EndClaim, State

\* The workspace is removed.
LEMMA DestroyKeeps ==
  ASSUME RunInv, Destroy
  PROVE  RunInv'
<1>1. run'.pc = "finish" /\ run.pc = "destroy"
  BY DEF RunInv, Shape, Destroy, Goto
<1>2. Shape'
  BY <1>1 DEF RunInv, Shape, Destroy, Goto, Stages, InFlight, daemonVars
<1>3. RunnerInv' /\ Watch'
  BY <1>1, RunnerInvStutters, WatchStutters DEF RunInv, Destroy, turnVars
<1>4. Files'
  BY <1>1 DEF RunInv, Files, Destroy, RunKeepsItsFiles, InFlight, daemonVars
<1>5. QED
  BY <1>2, <1>3, <1>4 DEF RunInv

\* The run is over.
LEMMA FinishKeeps ==
  ASSUME RunInv, Finish
  PROVE  RunInv'
<1>1. run' = NoRun /\ run.pc = "finish" /\ child' \in {child, NoChild}
  BY DEF Finish
<1>2. Shape'
  BY <1>1 DEF RunInv, Shape, Finish, NoRun, Stages, InFlight, daemonVars
<1>3. RunnerInv'
  BY <1>1, ResetKeeps DEF RunInv, Finish
<1>4. ~Attached'
  BY <1>1, NobodyWorks DEF RunInv, Attached, Running, NoChild
<1>5. Watch'
  BY <1>1, <1>4, NobodyWorks DEF RunInv, Watch, Finish, InTurn
<1>6. hook.at = "off"
  BY <1>1 DEF RunInv, Files
<1>7. Files'
  BY <1>1, <1>6 DEF RunInv, Files, Finish, NoRun, RunKeepsItsFiles, InFlight, daemonVars
<1>8. QED
  BY <1>2, <1>3, <1>5, <1>7 DEF RunInv

-----------------------------------------------------------------------------
(* Beside the run.                                                          *)

\* The reaper of old proofs lists, looks for runs, and removes.
LEMMA ReaperKeeps ==
  ASSUME RunInv, Reaper \/ Age
  PROVE  RunInv'
<1>1. UNCHANGED <<spec, turnVars, run, hook, ws, runs, up, sweep>>
  BY DEF Reaper, ReapList, ReapInFlight, ReapScan, Age, hostVars, daemonVars
<1>2. RunnerInv' /\ Watch'
  BY <1>1, RunnerInvStutters, WatchStutters DEF RunInv, turnVars
<1>3. /\ proofs' \in [1..MaxRuns -> {"none", "fresh", "old", "reaped"}]
      /\ (run.pc \notin {"idle", "proof"} /\ reap' = "passive") => proofs'[runs] = "fresh"
      /\ run.pc \notin {"idle", "proof"} => proofs'[runs] # "reaped"
  <2>1. run.pc \notin {"idle", "proof"} => runs \in 1..MaxRuns
    BY DEF RunInv, Shape, InFlight
  <2>2. CASE ReapList \/ ReapInFlight
    BY <2>2 DEF ReapList, ReapInFlight, RunInv, Shape, Files, RunKeepsItsFiles, InFlight, hostVars
  <2>3. CASE ReapScan
    BY <2>1, <2>3 DEF ReapScan, RunInv, Shape, Files, RunKeepsItsFiles
  <2>4. CASE Age
    BY <2>1, <2>4 DEF Age, RunInv, Shape, Files, RunKeepsItsFiles, daemonVars
  <2>5. QED
    BY <2>2, <2>3, <2>4 DEF Reaper
<1>4. Shape'
  BY <1>1, <1>3 DEF RunInv, Shape, InFlight
<1>5. Files'
  BY <1>1, <1>3 DEF RunInv, Files, RunKeepsItsFiles, InFlight
<1>6. QED
  BY <1>2, <1>4, <1>5 DEF RunInv

\* A start sweeps the workspaces that no claim has.
LEMMA SweepKeeps ==
  ASSUME RunInv, Sweep \/ Start
  PROVE  RunInv'
<1>1. UNCHANGED <<spec, turnVars, run, hook, proofs, runs, reap>>
  BY DEF Sweep, SweepClaims, SweepFetch, SweepMove, Start, hostVars
<1>2. RunnerInv' /\ Watch'
  BY <1>1, RunnerInvStutters, WatchStutters DEF RunInv, turnVars
<1>3. run.pc = "idle"
  BY DEF RunInv, Files, InFlight, Sweep, SweepClaims, SweepFetch, SweepMove, Start
<1>4. Shape'
  BY <1>1 DEF RunInv, Shape, InFlight
<1>5. sweep' # "none" => up' = "sweeping"
  BY DEF RunInv, Files, Sweep, SweepClaims, SweepFetch, SweepMove, Start
<1>6. Files'
  BY <1>1, <1>3, <1>5 DEF RunInv, Files, RunKeepsItsFiles, InFlight
<1>7. QED
  BY <1>2, <1>4, <1>6 DEF RunInv

\* Steps of hooks, checks, the operator and other agents.
LEMMA WorldKeeps ==
  ASSUME RunInv, HookActs \/ CheckEnds \/ Stop \/ Expire \/ Elsewhere
  PROVE  RunInv'
<1>1. UNCHANGED <<spec, turnVars, run, proofs, runs, reap, ws, up, sweep>>
  BY DEF HookActs, CheckEnds, Stop, Expire, Elsewhere, hostVars, daemonVars
<1>2. RunnerInv' /\ Watch'
  BY <1>1, RunnerInvStutters, WatchStutters DEF RunInv, turnVars
<1>3. /\ hook' \in [at: {"off", "running", "exited"}, kin: BOOLEAN, phase: Phase \cup {"none"}]
      /\ hook'.at # "off" => hook.at # "off" \/ run.pc = "hook"
  <2>1. CASE UNCHANGED hook
    BY <2>1 DEF RunInv, Shape
  <2>2. CASE HookActs
    BY <2>2 DEF HookActs, RunInv, Shape
  <2>3. QED
    BY <2>1, <2>2 DEF CheckEnds, Stop, Expire, Elsewhere, hostVars
<1>4. Shape'
  BY <1>1, <1>3 DEF RunInv, Shape, InFlight
<1>5. Files'
  BY <1>1, <1>3, FilesStay DEF RunInv, Files
<1>6. QED
  BY <1>2, <1>4, <1>5 DEF RunInv

-----------------------------------------------------------------------------

\* The invariant holds at the start.
LEMMA RunInvInit ==
  ASSUME Init
  PROVE  RunInv
<1>1. PICK s \in Specs, h \in Hosts : spec = Resolve(s, h)
  BY DEF Init, RunnerInit
<1>2. SpecOK
  BY <1>1, ResolveSound DEF SpecOK
<1>3. RunnerInv
  BY <1>2 DEF Init, RunnerInit, RunnerInv, ChildOK, NoChild, Confinement, Boxing,
     NetworkWorkIsConfined, SandboxIsShut
<1>4. Watch
  BY DEF Init, RunnerInit, Watch, Attached, Running, InTurn, NoChild
<1>5. Shape
  BY RunClaimAssumption DEF Init, Shape, NoRun, NoHook, Stages, InFlight
<1>6. Files
  BY DEF Init, Files, NoRun, NoHook, RunKeepsItsFiles, InFlight
<1>7. QED
  BY <1>3, <1>4, <1>5, <1>6 DEF RunInv

\* Every step preserves the invariant.
LEMMA RunInvStep ==
  ASSUME RunInv, [Next]_vars
  PROVE  RunInv'
<1>1. CASE Next
  <2>1. CASE Claim
    BY <2>1, ClaimKeeps
  <2>2. CASE RunStep
    BY <2>2, StartProofKeeps, CreateKeeps, HooksKeep, AttemptKeeps, TurnKeeps, EndAttemptKeeps,
       VerdictKeeps, EndClaimKeeps, DestroyKeeps, FinishKeeps DEF RunStep
  <2>3. CASE Preempt \/ TasksStep \/ AgentStep
    BY <2>3, TurnKeeps
  <2>4. CASE HookActs \/ CheckEnds \/ Stop \/ Expire \/ Elsewhere
    BY <2>4, WorldKeeps
  <2>5. CASE Reaper \/ Age
    BY <2>5, ReaperKeeps
  <2>6. CASE Exit \/ Crash
    BY <2>6, DownKeeps DEF Exit, Crash
  <2>7. CASE Start \/ Sweep
    BY <2>7, SweepKeeps
  <2>8. QED
    BY <1>1, <2>1, <2>2, <2>3, <2>4, <2>5, <2>6, <2>7 DEF Next
<1>2. CASE UNCHANGED vars
  <2>1. UNCHANGED <<spec, turnVars, ws, proofs, daemonVars, run, hook>>
    BY <1>2 DEF vars, hostVars
  <2>2. Shape'
    BY <2>1 DEF RunInv, Shape, InFlight, daemonVars
  <2>3. QED
    BY <2>1, <2>2, QuietKeeps DEF RunInv, Files
<1>3. QED
  BY <1>1, <1>2

\* Every behaviour of run_claim, the shell runner, the reaper and the sweep keeps
\* the invariant.
THEOREM RunInvHolds == Spec => []RunInv
  BY RunInvInit, RunInvStep, PTL DEF Spec

\* Work of the network runs only under what its profile promises, whichever specs
\* and hosts there are (prepare_mode, wrap_available, the launcher's handshake).
THEOREM Confined == Spec => []NetworkWorkIsConfined
<1>1. RunInv => NetworkWorkIsConfined
  BY DEF RunInv, RunnerInv, Confinement
<1>2. QED
  BY <1>1, RunInvHolds, PTL

\* No turn ends with its sandbox session open (finish_sandbox_session).
THEOREM Shuts == Spec => []SandboxIsShut
<1>1. RunInv => SandboxIsShut
  BY DEF RunInv, RunnerInv, Boxing
<1>2. QED
  BY <1>1, RunInvHolds, PTL

\* No sweep, reaper or earlier run takes a run's workspace or proofs
\* (sweep_orphans, reap_old_proofs), for any number of runs and starts.
THEOREM KeepsFiles == Spec => []RunKeepsItsFiles
<1>1. RunInv => RunKeepsItsFiles
  BY DEF RunInv, Files
<1>2. QED
  BY <1>1, RunInvHolds, PTL

\* The moves of others are counted.
LEMMA MovesCounted ==
  ASSUME moves \in Nat, [Next]_vars
  PROVE  moves' \in Nat /\ (Elsewhere => moves' # moves)
<1>1. UNCHANGED moves \/ Elsewhere
  <2>1. CASE RunStep
    <3>1. UNCHANGED daemonVars \/ UNCHANGED moves
      BY <2>1 DEF RunStep, StartProof, Create, RunHook, HookEnds, HookTimesOut, Attempt, Turn,
         StopTurn, EndAttempt, Verdict, Handoff, Block, ReleaseShutdown, EndClaim, Cleanup,
         Destroy, Finish, GoDown
    <3>2. QED
      BY <3>1 DEF daemonVars
  <2>2. CASE Claim \/ Preempt \/ TasksStep \/ AgentStep \/ HookActs \/ CheckEnds \/ Expire
    BY <2>2 DEF Claim, Preempt, TasksStep, AgentStep, HookActs, CheckEnds, Expire, daemonVars
  <2>3. CASE Reaper \/ Age \/ Stop \/ Exit \/ Crash \/ Start \/ Sweep
    BY <2>3 DEF Reaper, ReapList, ReapInFlight, ReapScan, Age, Stop, Exit, Crash, Start, Sweep,
       SweepClaims, SweepFetch, SweepMove, GoDown, daemonVars
  <2>4. QED
    BY <2>1, <2>2, <2>3 DEF Next, vars, daemonVars
<1>2. QED
  BY <1>1 DEF Elsewhere

\* An agent that does not run is minded, as long as none is started.
LEMMA NobodyToMind ==
  ASSUME ~Running, child' \in {child, NoChild}
  PROVE  Minded'
  BY DEF Minded, Running, NoChild

\* The turn's own steps mind the agent.
LEMMA MindedTurn ==
  ASSUME ChildOK, Minded, Turn
  PROVE  Minded'
<1> USE DEF Minded, Running, Turn
<1>1. UNCHANGED <<run, stopping>> /\ run.pc = "turn"
  BY DEF daemonVars
<1>2. CASE Prepare
  BY <1>1, <1>2 DEF Prepare, PrepareNative, TurnErrs
<1>3. CASE Spawn
  BY <1>1, <1>3 DEF Spawn, TurnErrs
<1>4. CASE ChildStarted
  <2>1. turn' = "waiting" \/ child'.exe = "dead"
    BY <1>4 DEF ChildStarted, KillProcessGroup, ChildOK
  <2>2. QED
    BY <1>1, <2>1
<1>5. CASE WaitExit \/ WaitTimeout
  <2>1. child'.exe = "dead"
    BY <1>5 DEF WaitExit, WaitTimeout, KillProcessGroup, ChildOK
  <2>2. QED
    BY <2>1
<1>6. CASE WaitFails \/ JoinReaders \/ FinishSandboxSession
  BY <1>1, <1>6 DEF WaitFails, JoinReaders, FinishSandboxSession
<1>7. QED
  BY <1>2, <1>3, <1>4, <1>5, <1>6 DEF RunnerStep

\* So does the run when it leaves its turn, and the daemon when it stops.
LEMMA MindedRun ==
  ASSUME RunInv, Minded, RunStep
  PROVE  Minded'
<1>1. CASE Turn
  BY <1>1, MindedTurn DEF RunInv, RunnerInv
<1>2. CASE StopTurn
  BY <1>2 DEF StopTurn, StopSession, Minded, Running, daemonVars
<1>3. CASE EndAttempt
  <2>1. CASE GoDown
    BY <2>1 DEF GoDown, NoChild, Minded, Running
  <2>2. CASE turn = "over" /\ outcome # "error" /\ UNCHANGED turnVars
    BY <2>2, NobodyToMind DEF Minded, turnVars
  <2>3. CASE turn = "cancelled" /\ Goto("release") /\ UNCHANGED <<turnVars, daemonVars>>
    <3>1. run'.pc = "release"
      BY <2>3 DEF Goto, RunInv, Shape
    <3>2. QED
      BY <2>3, <3>1 DEF Minded, Running, turnVars, daemonVars
  <2>4. QED
    BY <1>3, <2>1, <2>2, <2>3 DEF EndAttempt
<1>4. CASE ReleaseShutdown
  <2>1. CASE GoDown
    BY <2>1 DEF GoDown, NoChild, Minded, Running
  <2>2. CASE run' = [run EXCEPT !.pc = "finish", !.reached = "todo"]
               /\ UNCHANGED <<turnVars, daemonVars>>
    <3>1. run'.pc = "finish" /\ run.pc = "release"
      BY <1>4, <2>2 DEF ReleaseShutdown, RunInv, Shape
    <3>2. QED
      BY <2>2, <3>1 DEF Minded, Running, turnVars, daemonVars
  <2>3. QED
    BY <1>4, <2>1, <2>2 DEF ReleaseShutdown, EndClaim
<1>5. CASE Finish
  <2>1. run'.pc = "idle" /\ turn' = "idle" /\ UNCHANGED stopping /\ run.pc = "finish"
    BY <1>5 DEF Finish, NoRun, daemonVars
  <2>2. child' \in {child, NoChild}
    BY <1>5 DEF Finish
  <2>3. QED
    BY <2>1, <2>2 DEF Minded, Running, NoChild
<1>6. CASE ~(Turn \/ StopTurn \/ EndAttempt \/ ReleaseShutdown \/ Finish)
  <2>1. run.pc \notin {"turn", "release", "finish", "idle"}
    BY <1>6 DEF RunStep, StartProof, Create, RunHook, HookEnds, HookTimesOut, Attempt, Verdict,
       Handoff, Block, Cleanup, Destroy, RunInv, Files
  <2>2. child' \in {child, NoChild}
    BY <1>6 DEF RunStep, StartProof, Create, RunHook, HookEnds, HookTimesOut, Attempt, Verdict,
       Handoff, Block, Cleanup, Destroy, EndClaim, GoDown, StartSession, turnVars
  <2>3. QED
    BY <2>1, <2>2, NobodyToMind DEF Minded
<1>7. QED
  BY <1>1, <1>2, <1>3, <1>4, <1>5, <1>6

\* Every step minds the agent.
LEMMA MindedStep ==
  ASSUME RunInv, Minded, [Next]_vars
  PROVE  Minded'
<1>1. CASE RunStep
  BY <1>1, MindedRun
<1>2. CASE Claim
  BY <1>2, NobodyToMind DEF Claim, Minded, turnVars
<1>3. CASE Preempt
  BY <1>3 DEF Preempt, Cancel, Minded, Running, daemonVars
<1>4. CASE TasksStep
  BY <1>4 DEF TasksStep, Tasks, ReadersEnd, WriteEvent, Minded, Running, daemonVars
<1>5. CASE AgentStep
  <2>1. Running' => Running
    BY <1>5 DEF AgentStep, ChildStep, Launch, ChildActs, ChildWrites, Running, RunInv, RunnerInv,
       ChildOK
  <2>2. UNCHANGED <<turn, outcome, run, stopping>>
    BY <1>5 DEF AgentStep, ChildStep, Launch, ChildActs, ChildWrites, daemonVars
  <2>3. QED
    BY <2>1, <2>2 DEF Minded
<1>6. CASE Exit \/ Crash
  BY <1>6 DEF Exit, Crash, GoDown, NoChild, Minded, Running
<1>7. CASE Stop
  BY <1>7 DEF Stop, Minded, Running, turnVars
<1>8. CASE HookActs \/ CheckEnds \/ Reaper \/ Age \/ Start \/ Sweep \/ Expire \/ Elsewhere
  <2>1. UNCHANGED <<turnVars, run, stopping>>
    BY <1>8 DEF HookActs, CheckEnds, Reaper, ReapList, ReapInFlight, ReapScan, Age, Start, Sweep,
       SweepClaims, SweepFetch, SweepMove, Expire, Elsewhere, daemonVars
  <2>2. QED
    BY <2>1 DEF Minded, Running, turnVars
<1>9. CASE UNCHANGED vars
  BY <1>9 DEF vars, turnVars, daemonVars, Minded, Running
<1>10. QED
  BY <1>1, <1>2, <1>3, <1>4, <1>5, <1>6, <1>7, <1>8, <1>9 DEF Next

\* While someone has the agent's pipes, or the agent runs and the daemon does not
\* stop, no step of the daemon takes the issue or workspace away or starts another
\* agent.
LEMMA OutlivesStep ==
  ASSUME RunInv, Minded, moves \in Nat, [Next]_vars, Attached \/ (Running /\ ~stopping),
         up = "up", up' = "up"
  PROVE  /\ ~(turn = "prepared" /\ turn' = "spawned")
         /\ issue = "in_progress" /\ moves' = moves => issue' = issue
         /\ ws = "present" => ws' = ws
<1>1. run.pc = "turn" /\ turn # "prepared"
  BY NobodyWorks DEF RunInv, Watch, Minded
<1>2. sweep = "none"
  BY DEF RunInv, Files
<1>3. UNCHANGED <<issue, ws>> \/ Elsewhere
  <2>1. CASE RunStep
    <3>1. ~(StartProof \/ Create \/ RunHook \/ Attempt \/ Verdict \/ Handoff \/ Block
              \/ ReleaseShutdown \/ Cleanup \/ Destroy \/ Finish)
      BY <1>1 DEF StartProof, Create, RunHook, Attempt, Verdict, Handoff, Block, ReleaseShutdown,
         Cleanup, Destroy, Finish
    <3>2. QED
      BY <2>1, <3>1 DEF RunStep, HookEnds, HookTimesOut, Turn, StopTurn, EndAttempt, hostVars
  <2>2. CASE Claim
    BY <1>1, <2>2 DEF Claim
  <2>3. CASE Preempt \/ TasksStep \/ AgentStep \/ HookActs \/ CheckEnds \/ Expire
    BY <2>3 DEF Preempt, TasksStep, AgentStep, HookActs, CheckEnds, Expire, hostVars
  <2>4. CASE Reaper \/ Age \/ Stop
    BY <2>4 DEF Reaper, ReapList, ReapInFlight, ReapScan, Age, Stop, hostVars
  <2>5. CASE Exit \/ Crash \/ Start \/ Sweep
    BY <1>2, <2>5 DEF Exit, Crash, Start, Sweep, SweepClaims, SweepFetch, SweepMove, GoDown
  <2>6. QED
    BY <2>1, <2>2, <2>3, <2>4, <2>5 DEF Next, vars, hostVars
<1>4. QED
  BY <1>1, <1>3, MovesCounted DEF Elsewhere

\* A claim is kept while anyone has its agent's pipes, and while the agent runs
\* unless the daemon stops, for every retry limit, spec and host: the turn waits
\* for the agent, and its end joins the readers of the pipes, or the event writer
\* that they feed (wait_with_timeout, join_background_task, run_attempt).
THEOREM OutlivesAgent == Spec => ClaimOutlivesAgent
<1>1. Init => moves \in Nat
  BY DEF Init
<1>2. (moves \in Nat /\ [Next]_vars) => (moves \in Nat)'
  BY MovesCounted
<1>3. Init => Minded
  BY DEF Init, RunnerInit, NoChild, Minded, Running
<1>4. (RunInv /\ Minded /\ [Next]_vars) => Minded'
  BY MindedStep
<1>5. (RunInv /\ Minded /\ moves \in Nat /\ [Next]_vars) =>
        [((Attached \/ (Running /\ ~stopping)) /\ up = "up" /\ up' = "up") =>
           /\ ~(turn = "prepared" /\ turn' = "spawned")
           /\ issue = "in_progress" /\ moves' = moves => issue' = issue
           /\ ws = "present" => ws' = ws]_vars
  BY OutlivesStep
<1>6. QED
  BY <1>1, <1>2, <1>3, <1>4, <1>5, RunInvHolds, PTL DEF Spec, ClaimOutlivesAgent
=============================================================================
