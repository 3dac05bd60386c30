---------------------------- MODULE ShellRunner ----------------------------
(***************************************************************************)
(* One turn of the shell runner (runner-shell/src/runner.rs) in its host   *)
(* sandbox (saorsa-sandbox/src/lib.rs, linux.rs): the sandbox session, the *)
(* child and its process group, the tasks that read its pipes, the bounded *)
(* event queue and the task that drains it into the proof logs.            *)
(*                                                                         *)
(* What the child does is not the runner's to choose: it forks, leaves its *)
(* group, writes, redirects its output, and exits when it likes or never.  *)
(* An event is counted, not named: drop-oldest keeps the count at the      *)
(* capacity.                                                               *)
(***************************************************************************)
EXTENDS Integers, FiniteSets

CONSTANTS
  Specs,           \* resolved RunnerSpecs, each with the source of the issue
  Hosts,           \* hosts: whether on Linux, and which backends they have
  EventCapacity    \* spec.event_capacity

Backend == {"native", "bubblewrap", "landlock", "sandbox-runtime", "sandbox-exec"}
Profile == {"read-only", "repo-write", "no-network", "full-dev", "ci-only"}

\* The sandbox block of a RunnerSpec ("unsandboxed" without one), and the source
\* of the issue it is prepared for.
SandboxSpec ==
  [backend: Backend \cup {"auto", "none", "unsandboxed"}, profile: Profile, egress: BOOLEAN,
   on_unavailable: {"warn", "fail_closed"}, source: {"local", "network"}]

\* RunnerSpec.validate: a queue that holds nothing is refused.
ASSUME RunnerAssumption ==
  /\ EventCapacity \in Nat \ {0}
  /\ Specs \subseteq SandboxSpec
  /\ Hosts \subseteq [linux: BOOLEAN, has: SUBSET Backend]
  /\ \A h \in Hosts : "native" \in h.has => h.linux

VARIABLES
  spec,       \* this runner's spec, with the backend HostSandbox::new resolved
  turn,       \* how far run_child has come
  box,        \* the sandbox session: none, open, shut, or something of it left
  child,      \* the child's process group, and what confines it
  readers,    \* the tasks on the child's pipes
  session,    \* the registry holds the session, and with it a sender
  queue,      \* events in the channel
  writer,     \* the event writer of the proof
  outcome     \* of the last turn

turnVars == <<turn, box, child, readers, session, queue, writer, outcome>>

-----------------------------------------------------------------------------
(* The sandbox policy.                                                      *)

NetworkAllowed(s) ==
  s.profile = "full-dev" \/ (s.profile \in {"repo-write", "ci-only"} /\ s.egress)

ReadOnly(s) == IF s.profile = "read-only" THEN {"workspace"} ELSE {}
NoSecrets(s) == IF s.profile = "full-dev" THEN {} ELSE {"secrets"}
NoWrites(s) == IF s.profile = "full-dev" THEN {} ELSE {"writes"}
NoTcp(s) == IF NetworkAllowed(s) THEN {} ELSE {"tcp"}
NoNetwork(s) == IF NetworkAllowed(s) THEN {} ELSE {"tcp", "sockets"}

\* What the profile promises of a confined command: no writes outside the
\* workspace, or none at all, no secrets, no network.
Promised(s) == ReadOnly(s) \cup NoSecrets(s) \cup NoWrites(s) \cup NoNetwork(s)

\* What the arguments of each wrapper take away.  bwrap binds / read-only, the
\* workspace by profile, an empty tmpfs over each secret, and unshares the
\* network.  The landlock helper gets the same as flags, srt the profile's name
\* and the secrets.  sandbox-exec denies by default and allows by profile.
WrapBubblewrap(s) == {"writes"} \cup ReadOnly(s) \cup NoSecrets(s) \cup NoNetwork(s)
WrapLandlock(s) == {"writes"} \cup ReadOnly(s) \cup NoSecrets(s) \cup NoNetwork(s)
WrapSandboxRuntime(s) == NoWrites(s) \cup ReadOnly(s) \cup NoSecrets(s) \cup NoNetwork(s)
WrapSandboxExec(s) == NoWrites(s) \cup ReadOnly(s) \cup NoSecrets(s) \cup NoNetwork(s)

WrapAvailable(s) ==
  CASE s.backend = "sandbox-runtime" -> WrapSandboxRuntime(s)
    [] s.backend = "bubblewrap" -> WrapBubblewrap(s)
    [] s.backend = "landlock" -> WrapLandlock(s)
    [] s.backend = "sandbox-exec" -> WrapSandboxExec(s)
    [] OTHER -> {}

\* The cgroup leaf of a native session, with its limits.
CgroupLeaf == {"cgroup"}

\* The native launcher's Landlock rules grant system paths and the workspace, and
\* deny TCP's bind and connect; they do not reach any other socket.
ApplyLandlock(s) == {"writes", "secrets"} \cup ReadOnly(s) \cup NoTcp(s)

AutoBackend(host) ==
  CASE host.linux /\ "native" \in host.has -> "native"
    [] host.linux /\ "native" \notin host.has /\ "bubblewrap" \in host.has -> "bubblewrap"
    [] host.linux /\ host.has \cap {"native", "bubblewrap", "landlock"} = {"landlock"} -> "landlock"
    [] ~host.linux /\ "sandbox-runtime" \in host.has -> "sandbox-runtime"
    [] ~host.linux /\ host.has \cap {"sandbox-runtime", "sandbox-exec"} = {"sandbox-exec"} -> "sandbox-exec"
    [] OTHER -> "none"

\* resolve_backend: the backend, and whether it is there.
Resolve(s, host) ==
  LET backend == IF s.backend = "auto" THEN AutoBackend(host) ELSE s.backend
  IN [backend |-> backend, available |-> backend \in host.has, profile |-> s.profile,
      egress |-> s.egress, on_unavailable |-> s.on_unavailable, source |-> s.source]

\* A host without the backend is a warning, whoever asks.
WarnMode(s) ==
  CASE s.available -> "available"
    [] ~s.available /\ s.on_unavailable = "fail_closed" -> "refused"
    [] OTHER -> "warn"

PrepareMode(s) ==
  CASE s.available -> "available"
    [] ~s.available /\ (s.source = "network" \/ s.on_unavailable = "fail_closed") -> "refused"
    [] OTHER -> "warn"

Native == spec.backend = "native" /\ spec.available

-----------------------------------------------------------------------------
(* The child and its pipes.                                                 *)

NoChild == [exe |-> "none", mute |-> FALSE, kin |-> FALSE, far |-> FALSE, guards |-> {}]

\* Alive: the launcher before its exec, or the command itself.
Alive == child.exe \in {"launcher", "configured", "target"}

\* The agent, not just its launcher.
Running == child.exe \in {"configured", "target"}

\* Some process still has the write end of the child's pipes: the child, unless
\* it has closed them (mute), a descendant in its group (kin), or one that has
\* left the group (far).  A descendant without the pipes is not followed: the
\* runner has no sight of it, in the group or out of it.
Held == (Alive /\ ~child.mute) \/ child.kin \/ child.far
Attached == (Running /\ ~child.mute) \/ child.kin \/ child.far

\* A sender of the event channel is alive: in the registry, in run_child, or in
\* a reader task.
InTurn == turn \notin {"idle", "over", "cancelled"}
Sending == session \/ readers \/ InTurn

Push == queue' = IF queue < EventCapacity THEN queue + 1 ELSE queue

\* kill(-pgid, SIGKILL): what left the group survives.
KillProcessGroup == child' = [child EXCEPT !.exe = "dead", !.mute = FALSE, !.kin = FALSE]

-----------------------------------------------------------------------------
(* start_session, run_child, stop_session.                                  *)

RunnerInit ==
  /\ \E s \in Specs, h \in Hosts : spec = Resolve(s, h)
  /\ turn = "idle" /\ box = "none" /\ child = NoChild /\ readers = FALSE
  /\ session = FALSE /\ queue = 0 /\ writer = FALSE /\ outcome = "none"

\* The session is registered, SessionStarted is sent, and the orchestrator
\* spawns the event writer on the stream.
StartSession ==
  /\ session' = TRUE /\ queue' = 1 /\ writer' = TRUE
  /\ turn' = "session" /\ outcome' = "none" /\ box' = "none"
  /\ UNCHANGED <<child, readers>>

TurnErrs == turn' = "over" /\ outcome' = "error"

\* The native session needs a socket in a directory of its own and a cgroup leaf.
\* Without the leaf the directory is removed; without the socket it is left.
PrepareNative ==
  \/ box' = "open" /\ turn' = "prepared" /\ UNCHANGED outcome
  \/ TurnErrs /\ box' \in {box, "left"}

Prepare ==
  /\ turn = "session"
  /\ \/ /\ spec.backend = "unsandboxed"
        /\ turn' = "prepared" /\ UNCHANGED <<box, outcome>>
     \/ /\ spec.backend # "unsandboxed" /\ PrepareMode(spec) # "refused" /\ ~Native
        /\ box' = "open" /\ turn' = "prepared" /\ UNCHANGED outcome
     \/ /\ spec.backend # "unsandboxed" /\ PrepareMode(spec) = "refused"
        /\ TurnErrs /\ UNCHANGED box
     \/ Native /\ PrepareNative
  /\ UNCHANGED <<child, readers, session, queue, writer>>

\* Sandbox sessions are always shut with the turn, whatever became of it.
Shut == box' = IF box = "open" THEN "shut" ELSE box

\* The command for the child; wrapping or spawning it may fail.
Spawn ==
  /\ turn = "prepared"
  /\ \/ /\ child' = [NoChild EXCEPT
             !.exe = IF Native THEN "launcher" ELSE "target",
             !.guards = IF spec.available THEN WrapAvailable(spec) ELSE {}]
        /\ turn' = "spawned" /\ UNCHANGED <<box, outcome>>
     \/ TurnErrs /\ Shut /\ UNCHANGED child
  /\ UNCHANGED <<readers, session, queue, writer>>

\* The session is left open when the child cannot be attached.
LeakyChildStarted ==
  /\ turn = "spawned"
  /\ \/ /\ ~Native
        /\ turn' = "waiting" /\ readers' = TRUE /\ UNCHANGED <<box, child, outcome>>
     \/ /\ Native /\ child.exe = "launcher"
        /\ child' = [child EXCEPT !.exe = "configured", !.guards = CgroupLeaf]
        /\ turn' = "waiting" /\ readers' = TRUE /\ UNCHANGED <<box, outcome>>
     \/ /\ Native
        /\ KillProcessGroup /\ TurnErrs /\ UNCHANGED <<box, readers>>
  /\ UNCHANGED <<session, queue, writer>>

\* child_started.  The native session attaches the launcher to its cgroup and
\* then hands it its configuration; either may fail, or the launcher not come
\* for it in time, and then the group is killed.  The pipe tasks start.
ChildStarted ==
  /\ turn = "spawned"
  /\ \/ /\ ~Native
        /\ turn' = "waiting" /\ readers' = TRUE /\ UNCHANGED <<box, child, outcome>>
     \/ /\ Native /\ child.exe = "launcher"
        /\ child' = [child EXCEPT !.exe = "configured", !.guards = CgroupLeaf]
        /\ turn' = "waiting" /\ readers' = TRUE /\ UNCHANGED <<box, outcome>>
     \/ /\ Native
        /\ KillProcessGroup /\ TurnErrs /\ Shut /\ UNCHANGED readers
  /\ UNCHANGED <<session, queue, writer>>

\* wait_with_timeout: the child is gone, or its time is up and its group is
\* killed.  Either wait may fail, and then nobody kills the child.
WaitExit ==
  /\ turn = "waiting" /\ child.exe = "dead"
  /\ turn' = "joining" /\ outcome' \in {"succeeded", "failed"}
  /\ UNCHANGED <<box, child, readers, session, queue, writer>>

WaitTimeout ==
  /\ turn = "waiting" /\ Alive
  /\ KillProcessGroup
  /\ turn' = "joining" /\ outcome' = "timed_out"
  /\ UNCHANGED <<box, readers, session, queue, writer>>

WaitFails ==
  /\ turn = "waiting"
  /\ turn' = "closing" /\ outcome' = "error"
  /\ UNCHANGED <<box, child, readers, session, queue, writer>>

\* The pipe tasks are joined, without a limit, and TurnCompleted is sent.
JoinReaders ==
  /\ turn = "joining" /\ ~readers
  /\ Push
  /\ turn' = "closing"
  /\ UNCHANGED <<box, child, readers, session, writer, outcome>>

FinishSandboxSession ==
  /\ turn = "closing"
  /\ Shut /\ turn' = "over"
  /\ UNCHANGED <<child, readers, session, queue, writer, outcome>>

\* run_attempt's select sees the shutdown and drops run_child where it stands:
\* the child is not killed, the pipe tasks go on, the sandbox session is left.
\* It stands at an await that is not ready: before its first poll, in the
\* native handshake, in the wait or in a join.
Cancel ==
  /\ turn \in {"session", "waiting", "joining"} \/ (turn = "spawned" /\ Native)
  /\ turn' = "cancelled" /\ box' = IF box = "open" THEN "left" ELSE box
  /\ UNCHANGED <<child, readers, session, queue, writer, outcome>>

StopSession ==
  /\ turn \in {"over", "cancelled"} /\ session
  /\ session' = FALSE
  /\ UNCHANGED <<turn, box, child, readers, queue, writer, outcome>>

-----------------------------------------------------------------------------
(* The tasks.                                                               *)

\* A reader stops at end of file: when nobody has the pipe any more.
ReadersEnd ==
  /\ readers /\ ~Held
  /\ readers' = FALSE
  /\ UNCHANGED <<turn, box, child, session, queue, writer, outcome>>

\* The event writer takes what is queued, and ends with the last sender.
WriteEvent ==
  /\ writer
  /\ \/ queue > 0 /\ queue' = queue - 1 /\ UNCHANGED writer
     \/ queue = 0 /\ ~Sending /\ writer' = FALSE /\ UNCHANGED queue
  /\ UNCHANGED <<turn, box, child, readers, session, outcome>>

Tasks == ReadersEnd \/ WriteEvent

RunnerStep ==
  Prepare \/ Spawn \/ ChildStarted \/ WaitExit \/ WaitTimeout \/ WaitFails \/ JoinReaders
    \/ FinishSandboxSession

-----------------------------------------------------------------------------
(* The child (external).                                                    *)

\* launcher_main: restrict itself, then exec the target.
Launch ==
  /\ child.exe = "configured"
  /\ child' = [child EXCEPT !.exe = "target", !.guards = @ \cup ApplyLandlock(spec)]
  /\ UNCHANGED <<turn, box, readers, session, queue, writer, outcome>>

\* It exits, closes its pipes, or forks; a descendant leaves the group, and ends
\* or lets go of the pipes.
ChildActs ==
  /\ \/ Alive /\ child' = [child EXCEPT !.exe = "dead", !.mute = FALSE]
     \/ /\ child.exe = "target" /\ ~child.mute /\ ~child.kin
        /\ child' = [child EXCEPT !.kin = TRUE]
     \/ child.kin /\ ~child.far /\ \E stays \in BOOLEAN :
          child' = [child EXCEPT !.kin = stays, !.far = TRUE]
     \/ child.kin /\ child' = [child EXCEPT !.kin = FALSE]
     \/ child.far /\ child' = [child EXCEPT !.far = FALSE]
     \/ child.exe = "target" /\ ~child.mute /\ child' = [child EXCEPT !.mute = TRUE]
  /\ UNCHANGED <<turn, box, readers, session, queue, writer, outcome>>

ChildWrites ==
  /\ Held /\ child.exe # "launcher" /\ readers
  /\ Push
  /\ UNCHANGED <<turn, box, child, readers, session, writer, outcome>>

ChildStep == Launch \/ ChildActs \/ ChildWrites

-----------------------------------------------------------------------------

RunnerTypeOK ==
  /\ turn \in {"idle", "session", "prepared", "spawned", "waiting", "joining", "closing",
               "over", "cancelled"}
  /\ box \in {"none", "open", "shut", "left"}
  /\ child \in [exe: {"none", "launcher", "configured", "target", "dead"}, mute: BOOLEAN,
                kin: BOOLEAN, far: BOOLEAN,
                guards: SUBSET {"writes", "secrets", "workspace", "tcp", "sockets", "cgroup"}]
  /\ readers \in BOOLEAN /\ session \in BOOLEAN /\ writer \in BOOLEAN
  /\ queue \in 0..EventCapacity
  /\ outcome \in {"none", "succeeded", "failed", "timed_out", "error"}

\* What the native backend does not do of what a profile promises.
Unenforced(s) == IF s.backend = "native" THEN {"sockets"} ELSE {}

\* In a workflow with a runner.sandbox block, work that came from the network runs
\* only under what its sandbox profile promises, and on the native backend only
\* inside its cgroup, though with sockets other than TCP's: from prepare_mode over
\* the launcher's handshake to its exec, no way leads around it.  Local work may
\* run unconfined, where the spec says `warn`; without the block all work does,
\* the network's too.
NetworkWorkIsConfined ==
  (child.exe = "target" /\ spec.source = "network" /\ spec.backend # "unsandboxed") =>
    /\ Promised(spec) \ Unenforced(spec) \subseteq child.guards
    /\ spec.backend = "native" => "cgroup" \in child.guards

\* A turn that is over has shut its sandbox session, whichever of its steps failed:
\* wrap, spawn, attach, handshake, wait.  (What a preempted turn had, the cgroup
\* leaf and the socket directory, is left, as is the directory of a session whose
\* prepare failed at its socket.)
SandboxIsShut == box = "open" => InTurn
=============================================================================
