------------------------ MODULE OrchestratorProofs ------------------------
(***************************************************************************)
(* The concurrency cap holds for any number of callers, issues and retries *)
(* and whatever fails (CapHolds).  The books balance step by step: a slot  *)
(* is counted before the flow that reserved it goes on, and is given back  *)
(* only by a flow that stops holding one.  For the daemon's one loop the   *)
(* books are exact (SlotsExact) and no claim is forgotten                  *)
(* (NoForgottenClaim).                                                     *)
(***************************************************************************)
EXTENDS Orchestrator, FiniteSetTheorems, TLAPS

Holders == {w \in Worker : Reserved(w)}

\* The variables of the type invariant that are about flows and slots.
FlowsOK ==
  /\ run \in [Worker -> Flow]
  /\ \A w \in Worker : Reserved(w) => run[w].issue \in Issue

BooksOK ==
  /\ used \in Nat /\ used_in \in [DOMAIN StateCap -> Nat]
  /\ DOMAIN in_flight \subseteq Issue
  /\ \A i \in DOMAIN in_flight : in_flight[i] \in ActiveState

Caps ==
  /\ Cardinality(Holders) <= used
  /\ used <= GlobalCap
  /\ \A s \in DOMAIN StateCap : used_in[s] <= StateCap[s]

SlotInv == FlowsOK /\ BooksOK /\ Caps

\* The memory of a new process.
Fresh ==
  /\ used = 0 /\ used_in = [s \in DOMAIN StateCap |-> 0]
  /\ in_flight = [i \in {} |-> "todo"]
  /\ run = [w \in Worker |-> NotRunning]

-----------------------------------------------------------------------------

\* The flows that hold a slot are finitely many.
LEMMA HoldersFinite ==
  ASSUME FlowsOK
  PROVE  /\ IsFiniteSet(Holders)
         /\ Cardinality(Holders) \in Nat
  BY OrchestratorAssumption, FS_Subset, FS_CardinalityType DEF Holders

\* A step that moves one flow within the stages that hold a slot, or within
\* those that hold none, leaves the books balanced.
LEMMA Balanced ==
  ASSUME SlotInv, FlowsOK', Holders' = Holders, UNCHANGED <<used, used_in, in_flight>>
  PROVE  SlotInv'
  BY DEF SlotInv, BooksOK, Caps

\* A flow moves from one stage to another.
LEMMA Moves ==
  ASSUME SlotInv, NEW w \in Worker, NEW pc \in Stages, Goto(w, pc),
         pc \in {"idle", "scan"} <=> run[w].pc \in {"idle", "scan"}
  PROVE  FlowsOK' /\ Holders' = Holders
<1>1. run' = [run EXCEPT ![w].pc = pc]
  BY DEF Goto
<1>2. run' \in [Worker -> Flow]
  BY <1>1 DEF SlotInv, FlowsOK, Flow
<1>3. \A v \in Worker : Reserved(v)' <=> Reserved(v)
  BY <1>1 DEF Reserved, SlotInv, FlowsOK, Flow
<1>4. \A v \in Worker : run'[v].issue = run[v].issue
  BY <1>1 DEF SlotInv, FlowsOK, Flow
<1>5. FlowsOK'
  BY <1>2, <1>3, <1>4 DEF FlowsOK, SlotInv
<1>6. QED
  BY <1>3, <1>5 DEF Holders

\* A flow without a slot that starts a scan, or ends one, still has none.
LEMMA Scans ==
  ASSUME SlotInv, NEW w \in Worker, ~Reserved(w), NEW left \in SUBSET (Issue \X ActiveState),
         run' = [run EXCEPT ![w] = [NotRunning EXCEPT !.pc = "scan", !.left = left]]
  PROVE  FlowsOK' /\ Holders' = Holders
<1>1. run' \in [Worker -> Flow]
  BY DEF SlotInv, FlowsOK, Flow, NotRunning, Stages, ActiveState
<1>2. ~Reserved(w)'
  BY DEF SlotInv, FlowsOK, NotRunning, Reserved
<1>3. \A v \in Worker \ {w} : run'[v] = run[v]
  BY DEF SlotInv, FlowsOK
<1>4. \A v \in Worker : Reserved(v)' <=> Reserved(v)
  BY <1>2, <1>3 DEF Reserved
<1>5. QED
  BY <1>1, <1>2, <1>3, <1>4 DEF FlowsOK, Holders, SlotInv

\* The same for a flow that goes back to idle.
LEMMA Resets ==
  ASSUME SlotInv, NEW w \in Worker, ~Reserved(w), run' = [run EXCEPT ![w] = NotRunning]
  PROVE  FlowsOK' /\ Holders' = Holders
<1>1. run' \in [Worker -> Flow]
  BY DEF SlotInv, FlowsOK, Flow, NotRunning, Stages, ActiveState
<1>2. ~Reserved(w)'
  BY DEF SlotInv, FlowsOK, NotRunning, Reserved
<1>3. \A v \in Worker \ {w} : run'[v] = run[v]
  BY DEF SlotInv, FlowsOK
<1>4. \A v \in Worker : Reserved(v)' <=> Reserved(v)
  BY <1>2, <1>3 DEF Reserved
<1>5. QED
  BY <1>1, <1>2, <1>3, <1>4 DEF FlowsOK, Holders, SlotInv

\* A flow that stops holding a slot is no longer counted among the holders.
LEMMA Leaves ==
  ASSUME SlotInv, NEW w \in Worker, Reserved(w),
         run' = [run EXCEPT ![w] = NotRunning] \/ Goto(w, "scan")
  PROVE  /\ FlowsOK'
         /\ Holders' = Holders \ {w}
         /\ Cardinality(Holders') = Cardinality(Holders) - 1
<1>1. run' \in [Worker -> Flow]
  BY DEF SlotInv, FlowsOK, Flow, NotRunning, Goto, Stages, ActiveState
<1>2. ~Reserved(w)'
  BY DEF SlotInv, FlowsOK, Flow, NotRunning, Goto, Reserved
<1>3. \A v \in Worker \ {w} : run'[v] = run[v]
  BY DEF SlotInv, FlowsOK, Goto
<1>4. \A v \in Worker \ {w} : Reserved(v)' <=> Reserved(v)
  BY <1>3 DEF Reserved
<1>5. FlowsOK'
  BY <1>1, <1>2, <1>3, <1>4 DEF FlowsOK, SlotInv
<1>6. Holders' = Holders \ {w}
  BY <1>2, <1>4 DEF Holders
<1>7. Cardinality(Holders \ {w}) = Cardinality(Holders) - 1
  BY HoldersFinite, FS_RemoveElement DEF Holders, SlotInv
<1>8. QED
  BY <1>5, <1>6, <1>7

\* budget.release called for a flow that held a slot keeps the books balanced:
\* the count was positive, so the saturating subtraction subtracts.
LEMMA GivesBack ==
  ASSUME SlotInv, NEW w \in Worker, Reserved(w), NEW s \in ActiveState, Release(s),
         FlowsOK', Cardinality(Holders') = Cardinality(Holders) - 1,
         DOMAIN in_flight' \subseteq DOMAIN in_flight,
         \A i \in DOMAIN in_flight' : in_flight'[i] = in_flight[i]
  PROVE  SlotInv'
<1>1. Cardinality(Holders) \in Nat /\ Cardinality(Holders) # 0
  <2>1. w \in Holders
    BY DEF Holders
  <2>2. QED
    BY <2>1, HoldersFinite, FS_EmptySet DEF SlotInv
<1>2. used' \in Nat /\ Cardinality(Holders') <= used' /\ used' <= GlobalCap
  BY <1>1, OrchestratorAssumption DEF SlotInv, BooksOK, Caps, Release, Less
<1>3. used_in' \in [DOMAIN StateCap -> Nat]
  BY DEF SlotInv, BooksOK, Release, Less
<1>4. \A t \in DOMAIN StateCap : used_in'[t] <= StateCap[t]
  BY OrchestratorAssumption DEF SlotInv, BooksOK, Caps, Release, Less
<1>5. DOMAIN in_flight' \subseteq Issue /\ \A i \in DOMAIN in_flight' : in_flight'[i] \in ActiveState
  BY DEF SlotInv, BooksOK
<1>6. QED
  BY <1>2, <1>3, <1>4, <1>5 DEF SlotInv, BooksOK, Caps

\* Dropping HeldClaim keeps the books balanced, whether or not the issue is
\* still registered.
LEMMA Drops ==
  ASSUME SlotInv, NEW w \in Worker, Reserved(w), ReleaseSlot(run[w].issue),
         FlowsOK', Cardinality(Holders') = Cardinality(Holders) - 1
  PROVE  SlotInv'
<1> DEFINE i == run[w].issue
<1>1. CASE /\ i \in DOMAIN in_flight
           /\ in_flight' = [j \in DOMAIN in_flight \ {i} |-> in_flight[j]]
           /\ Release(in_flight[i])
  <2>1. in_flight[i] \in ActiveState
    BY <1>1 DEF SlotInv, BooksOK
  <2>2. DOMAIN in_flight' \subseteq DOMAIN in_flight
    BY <1>1
  <2>3. \A j \in DOMAIN in_flight' : in_flight'[j] = in_flight[j]
    BY <1>1
  <2>4. QED
    BY <1>1, <2>1, <2>2, <2>3, GivesBack
<1>2. CASE i \notin DOMAIN in_flight /\ UNCHANGED memory
  <2>1. UNCHANGED <<used, used_in, in_flight>>
    BY <1>2 DEF memory
  <2>2. Cardinality(Holders') <= used
    BY HoldersFinite DEF SlotInv, Caps, BooksOK
  <2>3. QED
    BY <2>1, <2>2 DEF SlotInv, BooksOK, Caps
<1>3. QED
  BY <1>1, <1>2 DEF ReleaseSlot

\* Every way out of run_claim keeps the books balanced.
LEMMA Returns ==
  ASSUME SlotInv, NEW w \in Worker, Reserved(w), NEW error, Return(w, error)
  PROVE  SlotInv'
<1>1. ReleaseSlot(run[w].issue) /\ run' = [run EXCEPT ![w] = NotRunning]
  BY DEF Return
<1>2. FlowsOK' /\ Cardinality(Holders') = Cardinality(Holders) - 1
  BY <1>1, Leaves
<1>3. QED
  BY <1>1, <1>2, Drops

\* Every call that ends a claim keeps the books balanced.
LEMMA Ends ==
  ASSUME SlotInv, NEW w \in Worker, Reserved(w), NEW how, EndClaim(w, how)
  PROVE  SlotInv'
  BY Returns DEF EndClaim

-----------------------------------------------------------------------------
(* The steps of a flow, one lemma for each kind.                            *)

\* claim_next reserves a slot before it claims, and only under both caps.
LEMMA ReserveStep ==
  ASSUME SlotInv, NEW w \in Worker, NEW c \in run[w].left, Reserve(w, c)
  PROVE  SlotInv'
<1>1. c \in Issue \X ActiveState /\ ~Reserved(w)
  BY DEF SlotInv, FlowsOK, Flow, Reserve, Reserved
<1>2. UNCHANGED in_flight
  BY DEF Reserve
<1>3. CASE /\ TryAcquire(c[2])
           /\ run' = [run EXCEPT ![w] = [run[w] EXCEPT !.pc = "claiming", !.issue = c[1],
                                                       !.state = c[2], !.left = @ \ {c}]]
  <2> DEFINE new == [run[w] EXCEPT !.pc = "claiming", !.issue = c[1], !.state = c[2],
                                   !.left = @ \ {c}]
  <2>0. new \in Flow
    <3>1. run[w] \in Flow /\ c[1] \in Issue /\ c[2] \in ActiveState
      BY <1>1 DEF SlotInv, FlowsOK
    <3>2. run[w].left \ {c} \in SUBSET (Issue \X ActiveState)
      BY <3>1 DEF Flow
    <3>3. QED
      BY <3>1, <3>2 DEF Flow, Stages
  <2>1. run' \in [Worker -> Flow]
    <3>1. run' = [run EXCEPT ![w] = new]
      BY <1>3
    <3> HIDE DEF new
    <3>2. QED
      BY <2>0, <3>1 DEF SlotInv, FlowsOK
  <2>2. Reserved(w)' /\ run'[w].issue \in Issue
    BY <1>1, <1>3 DEF SlotInv, FlowsOK, Flow, Reserved
  <2>3. \A v \in Worker \ {w} : run'[v] = run[v]
    BY <1>3 DEF SlotInv, FlowsOK
  <2>4. \A v \in Worker \ {w} : Reserved(v)' <=> Reserved(v)
    BY <2>3 DEF Reserved
  <2>5. FlowsOK'
    BY <2>1, <2>2, <2>3, <2>4 DEF FlowsOK, SlotInv
  <2>6. Holders' = Holders \cup {w}
    BY <2>2, <2>4 DEF Holders
  <2>7. Cardinality(Holders') = Cardinality(Holders) + 1
    BY <1>1, <2>6, HoldersFinite, FS_AddElement DEF Holders, SlotInv
  <2>8. used' = used + 1 /\ used < GlobalCap
    BY <1>3 DEF TryAcquire, IsOpen
  <2>9. used' \in Nat /\ used' <= GlobalCap /\ Cardinality(Holders') <= used'
    BY <2>7, <2>8, HoldersFinite, OrchestratorAssumption DEF SlotInv, BooksOK, Caps
  <2>10. used_in' \in [DOMAIN StateCap -> Nat]
    BY <1>3 DEF TryAcquire, SlotInv, BooksOK
  <2>11. \A s \in DOMAIN StateCap : used_in'[s] <= StateCap[s]
    BY <1>3, OrchestratorAssumption DEF TryAcquire, IsOpen, SlotInv, BooksOK, Caps
  <2>12. QED
    BY <1>2, <2>5, <2>9, <2>10, <2>11 DEF SlotInv, BooksOK, Caps
<1>4. CASE run' = [run EXCEPT ![w] = NotRunning] /\ UNCHANGED <<used, used_in>>
  BY <1>1, <1>2, <1>4, Resets, Balanced
<1>5. QED
  BY <1>3, <1>4 DEF Reserve

\* A failed claim gives its slot back.
LEMMA ClaimFailsStep ==
  ASSUME SlotInv, NEW w \in Worker, ClaimFails(w)
  PROVE  SlotInv'
<1>1. Reserved(w) /\ Goto(w, "scan") /\ Release(run[w].state) /\ UNCHANGED in_flight
  BY DEF ClaimFails, Reserved
<1>2. run[w].state \in ActiveState
  BY DEF SlotInv, FlowsOK, Flow
<1>3. FlowsOK' /\ Cardinality(Holders') = Cardinality(Holders) - 1
  BY <1>1, Leaves
<1>4. QED
  BY <1>1, <1>2, <1>3, GivesBack

\* Registering a claim touches neither count.
LEMMA RegisterStep ==
  ASSUME SlotInv, NEW w \in Worker, Register(w)
  PROVE  SlotInv'
<1>1. Goto(w, "gate") /\ UNCHANGED <<used, used_in>> /\ run[w].pc = "claimed"
  BY DEF Register
<1>2. FlowsOK' /\ Holders' = Holders
  BY <1>1, Moves DEF Stages
<1>3. run[w].issue \in Issue /\ run[w].state \in ActiveState
  BY <1>1 DEF SlotInv, FlowsOK, Flow, Reserved
<1>4. in_flight' = [j \in DOMAIN in_flight \cup {run[w].issue} |->
                      IF j = run[w].issue THEN run[w].state ELSE in_flight[j]]
  BY DEF Register
<1>5. /\ DOMAIN in_flight' \subseteq Issue
      /\ \A i \in DOMAIN in_flight' : in_flight'[i] \in ActiveState
  BY <1>3, <1>4 DEF SlotInv, BooksOK
<1>6. QED
  BY <1>1, <1>2, <1>5 DEF SlotInv, BooksOK, Caps

\* Every step of a flow keeps the books balanced.
LEMMA FlowStep ==
  ASSUME SlotInv, NEW w \in Worker, Step(w)
  PROVE  SlotInv'
<1>1. CASE Poll(w)
  <2>1. ~Reserved(w) /\ UNCHANGED <<used, used_in, in_flight>>
    BY <1>1 DEF Poll, Reserved, memory
  <2>2. PICK left \in SUBSET (Issue \X ActiveState) :
          run' = [run EXCEPT ![w] = [NotRunning EXCEPT !.pc = "scan", !.left = left]]
    <3> DEFINE polled == {i \in Issue : tracker[i] = "free" \/ (tracker[i] = "mine" /\ i \notin stale)}
               seen == {<<i, IF tracker[i] = "free" THEN "todo" ELSE "in_progress">> : i \in polled}
    <3>1. seen \in SUBSET (Issue \X ActiveState)
      BY DEF ActiveState
    <3>2. run' = [run EXCEPT ![w] = [NotRunning EXCEPT !.pc = "scan", !.left = seen]]
      BY <1>1 DEF Poll
    <3> HIDE DEF seen
    <3>3. QED
      BY <3>1, <3>2, Zenon
  <2>3. FlowsOK' /\ Holders' = Holders
    BY <2>1, <2>2, Scans, Zenon
  <2>4. QED
    BY <2>1, <2>3, Balanced
<1>2. CASE ScanEnds(w)
  BY <1>2, Resets, Balanced DEF ScanEnds, Reserved, memory
<1>3. CASE PollFails(w) \/ RunReturns(w)
  <2>1. UNCHANGED <<run, used, used_in, in_flight>>
    BY <1>3 DEF PollFails, RunReturns, memory
  <2>2. QED
    BY <2>1 DEF SlotInv, FlowsOK, BooksOK, Caps, Holders, Reserved
<1>4. CASE \E c \in run[w].left : Reserve(w, c)
  BY <1>4, ReserveStep
<1>5. CASE ClaimFails(w)
  BY <1>5, ClaimFailsStep
<1>6. CASE Register(w)
  BY <1>6, RegisterStep
<1>7. CASE Errs(w)
  BY <1>7, Returns DEF Errs, Registered
<1>8. CASE PollFlag(w)
  <2>1. Goto(w, IF flag THEN "preempted" ELSE "armed") /\ UNCHANGED <<used, used_in, in_flight>>
    BY <1>8 DEF PollFlag, memory
  <2>2. run[w].pc \notin {"idle", "scan"}
    BY <1>8 DEF PollFlag
  <2>3. FlowsOK' /\ Holders' = Holders
    BY <2>1, <2>2, Moves DEF Stages
  <2>4. QED
    BY <2>1, <2>3, Balanced
<1>9. CASE StartTurn(w)
  <2>1. Goto(w, "turn") /\ UNCHANGED <<used, used_in, in_flight>>
    BY <1>9 DEF StartTurn, memory
  <2>2. run[w].pc \notin {"idle", "scan"}
    BY <1>9 DEF StartTurn
  <2>3. FlowsOK' /\ Holders' = Holders
    BY <2>1, <2>2, Moves DEF Stages
  <2>4. QED
    BY <2>1, <2>3, Balanced
<1>10. CASE Preempt(w)
  <2>1. Goto(w, "preempted") /\ UNCHANGED <<used, used_in, in_flight>>
    BY <1>10 DEF Preempt, memory
  <2>2. run[w].pc \notin {"idle", "scan"}
    BY <1>10 DEF Preempt
  <2>3. FlowsOK' /\ Holders' = Holders
    BY <2>1, <2>2, Moves DEF Stages
  <2>4. QED
    BY <2>1, <2>3, Balanced
<1>11. CASE TurnEnds(w)
  <2>1. Goto(w, "after_run") /\ UNCHANGED <<used, used_in, in_flight>>
    BY <1>11 DEF TurnEnds, memory
  <2>2. run[w].pc \notin {"idle", "scan"}
    BY <1>11 DEF TurnEnds
  <2>3. FlowsOK' /\ Holders' = Holders
    BY <2>1, <2>2, Moves DEF Stages
  <2>4. QED
    BY <2>1, <2>3, Balanced
<1>12. CASE Retry(w)
  <2>1. Goto(w, "backoff") /\ UNCHANGED <<used, used_in, in_flight>>
    BY <1>12 DEF Retry, memory
  <2>2. run[w].pc \notin {"idle", "scan"}
    BY <1>12 DEF Retry
  <2>3. FlowsOK' /\ Holders' = Holders
    BY <2>1, <2>2, Moves DEF Stages
  <2>4. QED
    BY <2>1, <2>3, Balanced
<1>13. CASE BackoffEnds(w)
  <2>1. Goto(w, "before_run") /\ UNCHANGED <<used, used_in, in_flight>>
    BY <1>13 DEF BackoffEnds, memory
  <2>2. run[w].pc \notin {"idle", "scan"}
    BY <1>13 DEF BackoffEnds
  <2>3. FlowsOK' /\ Holders' = Holders
    BY <2>1, <2>2, Moves DEF Stages
  <2>4. QED
    BY <2>1, <2>3, Balanced
<1>14. CASE ClaimIssue(w)
  <2>1. Goto(w, "claimed") /\ UNCHANGED <<used, used_in, in_flight>>
    BY <1>14 DEF ClaimIssue, memory
  <2>2. run[w].pc \notin {"idle", "scan"}
    BY <1>14 DEF ClaimIssue
  <2>3. FlowsOK' /\ Holders' = Holders
    BY <2>1, <2>2, Moves DEF Stages
  <2>4. QED
    BY <2>1, <2>3, Balanced
<1>15. CASE ShutdownRelease(w)
  BY <1>15, Ends DEF ShutdownRelease, Reserved
<1>16. CASE Succeeded(w)
  BY <1>16, Ends DEF Succeeded, Reserved
<1>17. CASE Exhausted(w)
  BY <1>17, Ends DEF Exhausted, Reserved
<1>18. CASE Gate(w)
  <2>1. run[w].pc \notin {"idle", "scan"} /\ Reserved(w)
    BY <1>18 DEF Gate, Reserved
  <2>2. CASE Goto(w, "setup") /\ UNCHANGED memory
    <3>1. FlowsOK' /\ Holders' = Holders
      BY <2>1, <2>2, Moves DEF Stages
    <3>2. QED
      BY <2>2, <3>1, Balanced DEF memory
  <2>3. QED
    BY <1>18, <2>1, <2>2, Ends DEF Gate
<1>19. CASE Setup(w)
  <2>1. run[w].pc \notin {"idle", "scan"} /\ Reserved(w)
    BY <1>19 DEF Setup, Reserved
  <2>2. CASE Goto(w, "before_run") /\ UNCHANGED memory
    <3>1. FlowsOK' /\ Holders' = Holders
      BY <2>1, <2>2, Moves DEF Stages
    <3>2. QED
      BY <2>2, <3>1, Balanced DEF memory
  <2>3. QED
    BY <1>19, <2>1, <2>2, Ends DEF Setup
<1>20. CASE BeforeRun(w)
  <2>1. run[w].pc = "before_run" /\ Reserved(w)
    BY <1>20 DEF BeforeRun, Reserved
  <2>2. CASE run' = [run EXCEPT ![w].pc = "select", ![w].attempts = @ + 1] /\ UNCHANGED memory
    <3>1. run' \in [Worker -> Flow]
      BY <2>2 DEF SlotInv, FlowsOK, Flow, Stages
    <3>2. \A v \in Worker : run'[v].issue = run[v].issue /\ (Reserved(v)' <=> Reserved(v))
      BY <2>1, <2>2 DEF SlotInv, FlowsOK, Flow, Reserved
    <3>3. FlowsOK' /\ Holders' = Holders
      BY <3>1, <3>2 DEF FlowsOK, Holders, SlotInv
    <3>4. QED
      BY <2>2, <3>3, Balanced DEF memory
  <2>3. QED
    BY <1>20, <2>1, <2>2, Ends DEF BeforeRun
<1>21. QED
  BY <1>1, <1>2, <1>3, <1>4, <1>5, <1>6, <1>7, <1>8, <1>9, <1>10, <1>11,
     <1>12, <1>13, <1>14, <1>15, <1>16, <1>17, <1>18, <1>19, <1>20 DEF Step

-----------------------------------------------------------------------------
(* The theorems.                                                            *)

\* A new process starts with the books empty.
LEMMA EmptyBooks == Fresh => SlotInv
<1> SUFFICES ASSUME Fresh PROVE SlotInv
  OBVIOUS
<1> USE DEF Fresh
<1>1. FlowsOK /\ Holders = {}
  BY DEF FlowsOK, Holders, Reserved, Flow, NotRunning, Stages, ActiveState
<1>2. Cardinality(Holders) = 0
  BY <1>1, FS_EmptySet
<1>3. QED
  BY <1>1, <1>2, OrchestratorAssumption DEF SlotInv, BooksOK, Caps

\* The books are balanced in every reachable state.
THEOREM BooksBalance == Spec => []SlotInv
<1>1. Init => SlotInv
  BY EmptyBooks DEF Init, Fresh
<1>2. SlotInv /\ [Next]_vars => SlotInv'
  <2> SUFFICES ASSUME SlotInv, [Next]_vars PROVE SlotInv'
    OBVIOUS
  <2>1. ASSUME NEW w \in Worker, Step(w) PROVE SlotInv'
    BY <2>1, FlowStep
  <2>2. CASE Start
    <3>1. Fresh'
      BY <2>2 DEF Start, Fresh
    <3>2. QED
      BY <3>1, EmptyBooks, PTL
  <2>3. CASE UNCHANGED <<run, used, used_in, in_flight>>
    BY <2>3 DEF SlotInv, FlowsOK, BooksOK, Caps, Holders, Reserved
  <2>4. CASE Shutdown \/ Crash
    BY <2>3, <2>4 DEF Shutdown, SetFlag, NotifyWaiters, StopWaiting, ServerStops, Crash, memory
  <2>5. CASE \E w \in Worker : Heartbeat(w)
    BY <2>3, <2>5 DEF Heartbeat, memory
  <2>6. CASE \E i \in Issue : RivalActs(i) \/ ApiClaim(i) \/ ApiHandoff(i) \/ Expires(i)
    BY <2>3, <2>6 DEF RivalActs, ApiClaim, ApiHandoff, Expires, memory
  <2>7. CASE UNCHANGED vars
    BY <2>3, <2>7 DEF vars
  <2>8. QED
    BY <2>1, <2>2, <2>4, <2>5, <2>6, <2>7 DEF Next
<1>3. QED
  BY <1>1, <1>2, PTL DEF Spec

\* The cap holds (the run orchestrator checks the same on three callers).
THEOREM CapIsKept == Spec => []CapHolds
<1>1. SlotInv => CapHolds
  BY DEF SlotInv, Caps, Holders, CapHolds
<1>2. QED
  BY <1>1, BooksBalance, PTL

\* The rest of the type invariant: the tracker, the shutdown and the process.
WorldOK ==
  /\ tracker \in [Issue -> {"free", "mine", "other", "review", "blocked", "parked"}]
  /\ stale \subseteq Issue
  /\ flag \in BOOLEAN /\ shut \in {"none", "flagged", "waiting", "drained", "expired"}
  /\ woken \subseteq Worker
  /\ up \in {"up", "failed", "stopped"} /\ starts \in Nat
  /\ unknown \subseteq Issue

\* The call that ends a claim leaves the tracker, the shutdown and the process
\* well formed, however it ends.
LEMMA EndsWorld ==
  ASSUME WorldOK, NEW w \in Worker, NEW how \in {"free", "review", "blocked", "parked"},
         EndClaim(w, how)
  PROVE  WorldOK'
<1>1. UNCHANGED <<stale, flag, shut, woken, starts, unknown>> /\ up' \in {up, "failed"}
  BY DEF EndClaim, Return
<1>2. tracker' \in [Issue -> {"free", "mine", "other", "review", "blocked", "parked"}]
  BY DEF EndClaim, WorldOK
<1>3. QED
  BY <1>1, <1>2 DEF WorldOK

\* Every step of a flow leaves the tracker, the shutdown and the process well
\* formed.
LEMMA FlowWorld ==
  ASSUME SlotInv, WorldOK, NEW w \in Worker, Step(w)
  PROVE  WorldOK'
<1>1. CASE Poll(w) \/ ScanEnds(w) \/ Register(w) \/ PollFlag(w) \/ StartTurn(w) \/ Preempt(w)
           \/ TurnEnds(w) \/ Retry(w) \/ BackoffEnds(w) \/ \E c \in run[w].left : Reserve(w, c)
  <2>1. UNCHANGED <<tracker, stale, process>>
    BY <1>1, Zenon DEF Poll, ScanEnds, Register, PollFlag, StartTurn, Preempt, TurnEnds, Retry,
                BackoffEnds, Reserve
  <2>2. QED
    BY <2>1 DEF process, WorldOK
<1>2. CASE PollFails(w) \/ RunReturns(w)
  BY <1>2 DEF PollFails, RunReturns, WorldOK
<1>3. CASE ClaimIssue(w)
  <2>1. run[w].issue \in Issue
    BY <1>3 DEF ClaimIssue, SlotInv, FlowsOK, Reserved
  <2>2. QED
    BY <1>3, <2>1 DEF ClaimIssue, WorldOK
<1>4. CASE ClaimFails(w)
  <2>1. run[w].issue \in Issue
    BY <1>4 DEF ClaimFails, SlotInv, FlowsOK, Reserved
  <2>2. UNCHANGED <<tracker, stale, flag, shut, woken, up, starts>> /\ unknown' \subseteq Issue
    BY <1>4, <2>1 DEF ClaimFails, WorldOK
  <2>3. QED
    BY <2>2 DEF WorldOK
<1>5. CASE Errs(w)
  <2>1. UNCHANGED <<tracker, stale, flag, shut, woken, starts, unknown>> /\ up' \in {up, "failed"}
    BY <1>5 DEF Errs, Return
  <2>2. QED
    BY <2>1 DEF WorldOK
<1>6. CASE Gate(w) \/ Setup(w) \/ BeforeRun(w) \/ ShutdownRelease(w) \/ Succeeded(w) \/ Exhausted(w)
  <2>1. CASE UNCHANGED <<tracker, stale, process>>
    BY <2>1 DEF process, WorldOK
  <2>2. ASSUME NEW how \in {"free", "review", "blocked", "parked"}, EndClaim(w, how)
        PROVE  WorldOK'
    BY <2>2, EndsWorld
  <2>3. QED
    BY <1>6, <2>1, <2>2 DEF Gate, Setup, BeforeRun, ShutdownRelease, Succeeded, Exhausted
<1>7. QED
  BY <1>1, <1>2, <1>3, <1>4, <1>5, <1>6 DEF Step

\* The tracker, the shutdown and the process stay well formed.
LEMMA WorldHolds == Spec => []WorldOK
<1>1. Init => WorldOK
  <2> SUFFICES ASSUME Init PROVE WorldOK
    OBVIOUS
  <2>1. flag \in BOOLEAN
    BY Zenon DEF Init
  <2>2. /\ tracker \in [Issue -> {"free", "mine", "other", "review", "blocked", "parked"}]
        /\ starts \in Nat
    BY DEF Init
  <2>3. QED
    BY <2>1, <2>2 DEF Init, WorldOK
<1>2. SlotInv /\ WorldOK /\ [Next]_vars => WorldOK'
  <2> SUFFICES ASSUME SlotInv, WorldOK, [Next]_vars PROVE WorldOK'
    OBVIOUS
  <2>1. ASSUME NEW w \in Worker, Step(w) PROVE WorldOK'
    BY <2>1, FlowWorld
  <2>2. CASE Start
    <3>1. flag' \in BOOLEAN
      BY <2>2, Zenon DEF Start
    <3>2. /\ tracker' \in [Issue -> {"free", "mine", "other", "review", "blocked", "parked"}]
          /\ starts' \in Nat /\ unknown' \subseteq Issue
      BY <2>2 DEF Start, WorldOK
    <3>3. QED
      BY <2>2, <3>1, <3>2 DEF Start, WorldOK
  <2>3. CASE SetFlag \/ NotifyWaiters \/ StopWaiting \/ ServerStops \/ Crash
    BY <2>3, Zenon DEF SetFlag, NotifyWaiters, StopWaiting, ServerStops, Crash, WorldOK
  <2>4. ASSUME NEW w \in Worker, Heartbeat(w) PROVE WorldOK'
    BY <2>4 DEF Heartbeat, process, WorldOK
  <2>5. ASSUME NEW i \in Issue, RivalActs(i) \/ ApiHandoff(i) \/ Expires(i) PROVE WorldOK'
    BY <2>5 DEF RivalActs, ApiHandoff, Expires, process, WorldOK
  <2>6. ASSUME NEW i \in Issue, ApiClaim(i) PROVE WorldOK'
    BY <2>6 DEF ApiClaim, WorldOK
  <2>7. CASE UNCHANGED vars
    BY <2>7 DEF vars, WorldOK
  <2>8. QED
    BY <2>1, <2>2, <2>3, <2>4, <2>5, <2>6, <2>7 DEF Next, Shutdown
<1>3. QED
  BY <1>1, <1>2, BooksBalance, PTL DEF Spec

\* Type correctness of the orchestrator.
THEOREM OrchestratorTypeCorrect == Spec => []TypeOK
<1>1. SlotInv /\ WorldOK => TypeOK
  BY DEF SlotInv, FlowsOK, BooksOK, WorldOK, TypeOK
<1>2. QED
  BY <1>1, BooksBalance, WorldHolds, PTL

-----------------------------------------------------------------------------
(***************************************************************************)
(* The daemon's books are exact.  Its one flow is run(), which claims and  *)
(* runs one issue after another.  With several flows the property fails:   *)
(* an issue that a rival takes away and gives back can be registered by a  *)
(* second flow while the first still runs it, and one slot leaks.          *)
(***************************************************************************)
OneFlow(w) == Worker = {w}

Exact(w) ==
  /\ used = IF Reserved(w) THEN 1 ELSE 0
  /\ \A s \in DOMAIN StateCap : used_in[s] = IF Reserved(w) /\ run[w].state = s THEN 1 ELSE 0
  /\ DOMAIN in_flight = IF Registered(w) THEN {run[w].issue} ELSE {}
  /\ Registered(w) => in_flight[run[w].issue] = run[w].state

\* The flow keeps its issue, its slot and its registration, or has none.
LEMMA ExactStays ==
  ASSUME NEW w \in Worker, Exact(w), UNCHANGED memory,
         Reserved(w)' <=> Reserved(w), Registered(w)' <=> Registered(w),
         Reserved(w) => run'[w].issue = run[w].issue /\ run'[w].state = run[w].state
  PROVE  Exact(w)'
<1>1. Registered(w) => Reserved(w)
  BY DEF Registered
<1>2. UNCHANGED <<used, used_in, in_flight>>
  BY DEF memory
<1>3. QED
  BY <1>1, <1>2 DEF Exact

\* A flow that moves between stages of a claim it has registered, or has not
\* registered yet.
LEMMA ExactMoves ==
  ASSUME SlotInv, NEW w \in Worker, Exact(w), UNCHANGED memory,
         NEW pc \in Stages, Goto(w, pc),
         run[w].pc \notin {"idle", "scan"}, pc \notin {"idle", "scan"},
         pc \in {"claiming", "claimed"} <=> run[w].pc \in {"claiming", "claimed"}
  PROVE  Exact(w)'
<1>1. /\ run'[w].pc = pc /\ run'[w].issue = run[w].issue /\ run'[w].state = run[w].state
  BY DEF Goto, SlotInv, FlowsOK, Flow
<1>2. QED
  BY <1>1, ExactStays DEF Reserved, Registered

\* Giving back the slot of a counted state restores the count it had.
LEMMA ExactRelease ==
  ASSUME SlotInv, NEW w \in Worker, Exact(w), Reserved(w), Release(run[w].state)
  PROVE  used' = 0 /\ \A s \in DOMAIN StateCap : used_in'[s] = 0
<1>1. used = 1 /\ \A s \in DOMAIN StateCap : used_in[s] = IF run[w].state = s THEN 1 ELSE 0
  BY DEF Exact
<1>2. used' = 0
  BY <1>1 DEF Release, Less
<1>3. DOMAIN used_in = DOMAIN StateCap
  BY DEF SlotInv, BooksOK
<1>4. QED
  BY <1>1, <1>2, <1>3 DEF Release, Less

\* Out of run_claim: HeldClaim's Drop finds the flow's own registration.
LEMMA ExactReturns ==
  ASSUME SlotInv, NEW w \in Worker, Exact(w), Registered(w), NEW error, Return(w, error)
  PROVE  Exact(w)'
<1>1. /\ Reserved(w) /\ run[w].issue \in DOMAIN in_flight /\ DOMAIN in_flight = {run[w].issue}
      /\ in_flight[run[w].issue] = run[w].state
  BY DEF Registered, Exact
<1>2. Release(run[w].state) /\ DOMAIN in_flight' = {}
  BY <1>1 DEF Return, ReleaseSlot
<1>3. ~Reserved(w)' /\ ~Registered(w)'
  BY DEF Return, SlotInv, FlowsOK, NotRunning, Reserved, Registered
<1>4. used' = 0 /\ \A s \in DOMAIN StateCap : used_in'[s] = 0
  BY <1>1, <1>2, ExactRelease
<1>5. QED
  BY <1>2, <1>3, <1>4 DEF Exact

\* The same for every call that ends a claim.
LEMMA ExactEnds ==
  ASSUME SlotInv, NEW w \in Worker, Exact(w), Registered(w), NEW how, EndClaim(w, how)
  PROVE  Exact(w)'
  BY ExactReturns DEF EndClaim

\* claim_next counts the slot of the state it reserves.
LEMMA ExactReserve ==
  ASSUME SlotInv, NEW w \in Worker, Exact(w), NEW c \in run[w].left, Reserve(w, c)
  PROVE  Exact(w)'
<1>1. ~Reserved(w) /\ ~Registered(w) /\ DOMAIN in_flight = {} /\ UNCHANGED in_flight
  BY DEF Reserve, Reserved, Registered, Exact
<1>2. used = 0 /\ \A s \in DOMAIN StateCap : used_in[s] = 0
  BY <1>1 DEF Exact
<1>3. CASE /\ TryAcquire(c[2])
           /\ run' = [run EXCEPT ![w] = [run[w] EXCEPT !.pc = "claiming", !.issue = c[1],
                                                       !.state = c[2], !.left = @ \ {c}]]
  <2>1. run'[w].pc = "claiming" /\ run'[w].state = c[2]
    BY <1>3 DEF SlotInv, FlowsOK, Flow
  <2>2. Reserved(w)' /\ ~Registered(w)'
    BY <2>1 DEF Reserved, Registered
  <2>3. used' = 1 /\ \A s \in DOMAIN StateCap : used_in'[s] = IF c[2] = s THEN 1 ELSE 0
    BY <1>2, <1>3 DEF TryAcquire, SlotInv, BooksOK
  <2>4. QED
    BY <1>1, <2>1, <2>2, <2>3 DEF Exact
<1>4. CASE run' = [run EXCEPT ![w] = NotRunning] /\ UNCHANGED <<used, used_in>>
  <2>1. ~Reserved(w)' /\ ~Registered(w)'
    BY <1>4 DEF SlotInv, FlowsOK, NotRunning, Reserved, Registered
  <2>2. QED
    BY <1>1, <1>2, <1>4, <2>1 DEF Exact
<1>5. QED
  BY <1>3, <1>4 DEF Reserve

\* A claim that failed was not registered yet.
LEMMA ExactClaimFails ==
  ASSUME SlotInv, NEW w \in Worker, Exact(w), ClaimFails(w)
  PROVE  Exact(w)'
<1>1. Reserved(w) /\ ~Registered(w) /\ Release(run[w].state) /\ Goto(w, "scan")
      /\ UNCHANGED in_flight
  BY DEF ClaimFails, Reserved, Registered
<1>2. used' = 0 /\ \A s \in DOMAIN StateCap : used_in'[s] = 0
  BY <1>1, ExactRelease
<1>3. run'[w].pc = "scan"
  BY <1>1 DEF Goto, SlotInv, FlowsOK, Flow
<1>4. ~Reserved(w)' /\ ~Registered(w)'
  BY <1>3 DEF Reserved, Registered
<1>5. DOMAIN in_flight' = {}
  BY <1>1 DEF Exact
<1>6. QED
  BY <1>2, <1>4, <1>5 DEF Exact

\* A successful claim is registered with the state its slot was taken for.
LEMMA ExactRegister ==
  ASSUME SlotInv, NEW w \in Worker, Exact(w), Register(w)
  PROVE  Exact(w)'
<1>1. /\ run[w].pc = "claimed" /\ Goto(w, "gate") /\ UNCHANGED <<used, used_in>>
      /\ in_flight' = [j \in DOMAIN in_flight \cup {run[w].issue} |->
                         IF j = run[w].issue THEN run[w].state ELSE in_flight[j]]
  BY DEF Register
<1>2. Reserved(w) /\ ~Registered(w) /\ DOMAIN in_flight = {}
  BY <1>1 DEF Reserved, Registered, Exact
<1>3. run'[w].pc = "gate" /\ run'[w].issue = run[w].issue /\ run'[w].state = run[w].state
  BY <1>1 DEF Goto, SlotInv, FlowsOK, Flow
<1>4. Reserved(w)' /\ Registered(w)'
  BY <1>3 DEF Reserved, Registered
<1>5. DOMAIN in_flight' = {run[w].issue} /\ in_flight'[run[w].issue] = run[w].state
  BY <1>1, <1>2, SMTT(30)
<1>6. QED
  BY <1>1, <1>2, <1>3, <1>4, <1>5 DEF Exact

\* Every step of the flow leaves the books exact.
LEMMA ExactFlowStep ==
  ASSUME SlotInv, NEW w \in Worker, Exact(w), Step(w)
  PROVE  Exact(w)'
<1>1. CASE Poll(w)
  <2>1. UNCHANGED memory /\ ~Reserved(w) /\ ~Registered(w)
    BY <1>1 DEF Poll, Reserved, Registered
  <2>2. run'[w].pc = "scan"
    BY <1>1 DEF Poll, SlotInv, FlowsOK, NotRunning
  <2>3. QED
    BY <2>1, <2>2, ExactStays DEF Reserved, Registered
<1>2. CASE ScanEnds(w)
  <2>1. UNCHANGED memory /\ ~Reserved(w) /\ ~Registered(w)
    BY <1>2 DEF ScanEnds, Reserved, Registered
  <2>2. run'[w].pc = "idle"
    BY <1>2 DEF ScanEnds, SlotInv, FlowsOK, NotRunning
  <2>3. QED
    BY <2>1, <2>2, ExactStays DEF Reserved, Registered
<1>3. CASE PollFails(w) \/ RunReturns(w)
  <2>1. UNCHANGED <<run, memory>>
    BY <1>3 DEF PollFails, RunReturns
  <2>2. QED
    BY <2>1, ExactStays DEF Reserved, Registered
<1>4. CASE \E c \in run[w].left : Reserve(w, c)
  BY <1>4, ExactReserve
<1>5. CASE ClaimFails(w)
  BY <1>5, ExactClaimFails
<1>6. CASE Register(w)
  BY <1>6, ExactRegister
<1>7. CASE Errs(w)
  BY <1>7, ExactReturns DEF Errs
<1>8. CASE ClaimIssue(w)
  BY <1>8, ExactMoves DEF ClaimIssue, Stages
<1>9. CASE PollFlag(w) \/ StartTurn(w) \/ Preempt(w)
  BY <1>9, ExactMoves DEF PollFlag, StartTurn, Preempt, Stages
<1>10. CASE TurnEnds(w) \/ Retry(w) \/ BackoffEnds(w)
  BY <1>10, ExactMoves DEF TurnEnds, Retry, BackoffEnds, Stages
<1>11. CASE ShutdownRelease(w) \/ Succeeded(w) \/ Exhausted(w)
  <2>1. Registered(w)
    BY <1>11 DEF ShutdownRelease, Succeeded, Exhausted, Registered, Reserved
  <2>2. QED
    BY <1>11, <2>1, ExactEnds DEF ShutdownRelease, Succeeded, Exhausted
<1>12. CASE Gate(w) \/ Setup(w)
  <2>1. Registered(w) /\ run[w].pc \in {"gate", "setup"}
    BY <1>12 DEF Gate, Setup, Registered, Reserved
  <2>2. CASE \E pc \in {"setup", "before_run"} : Goto(w, pc) /\ UNCHANGED memory
    BY <2>1, <2>2, ExactMoves DEF Stages
  <2>3. QED
    BY <1>12, <2>1, <2>2, ExactEnds DEF Gate, Setup
<1>13. CASE BeforeRun(w)
  <2>1. Registered(w) /\ Reserved(w)
    BY <1>13 DEF BeforeRun, Registered, Reserved
  <2>2. CASE run' = [run EXCEPT ![w].pc = "select", ![w].attempts = @ + 1] /\ UNCHANGED memory
    <3>1. run'[w].pc = "select" /\ run'[w].issue = run[w].issue /\ run'[w].state = run[w].state
      BY <2>2 DEF SlotInv, FlowsOK, Flow
    <3>2. QED
      BY <2>1, <2>2, <3>1, ExactStays DEF Reserved, Registered
  <2>3. QED
    BY <1>13, <2>1, <2>2, ExactEnds DEF BeforeRun
<1>14. QED
  BY <1>1, <1>2, <1>3, <1>4, <1>5, <1>6, <1>7, <1>8, <1>9, <1>10, <1>11, <1>12, <1>13 DEF Step

\* Nothing but the flow and a restart touches its books.
LEMMA ExactStep ==
  ASSUME NEW w \in Worker, OneFlow(w), SlotInv, Exact(w), [Next]_vars
  PROVE  Exact(w)'
<1>1. ASSUME NEW v \in Worker, Step(v) PROVE Exact(w)'
  BY <1>1, ExactFlowStep DEF OneFlow
<1>2. CASE UNCHANGED <<run, memory>>
  BY <1>2, ExactStays DEF Reserved, Registered
<1>3. CASE Start
  <2>1. ~Reserved(w)' /\ ~Registered(w)'
    BY <1>3 DEF Start, NotRunning, Reserved, Registered
  <2>2. QED
    BY <1>3, <2>1 DEF Start, Exact
<1>4. CASE Shutdown \/ Crash
  BY <1>2, <1>4 DEF Shutdown, SetFlag, NotifyWaiters, StopWaiting, ServerStops, Crash
<1>5. CASE \E v \in Worker : Heartbeat(v)
  BY <1>2, <1>5 DEF Heartbeat
<1>6. CASE \E i \in Issue : RivalActs(i) \/ ApiClaim(i) \/ ApiHandoff(i) \/ Expires(i)
  BY <1>2, <1>6 DEF RivalActs, ApiClaim, ApiHandoff, Expires
<1>7. CASE UNCHANGED vars
  BY <1>2, <1>7 DEF vars, memory
<1>8. QED
  BY <1>1, <1>3, <1>4, <1>5, <1>6, <1>7 DEF Next

\* Books that are exact for the one flow are the books of SlotsExact.
LEMMA ExactIsSlotsExact ==
  ASSUME NEW w \in Worker, OneFlow(w), Exact(w)
  PROVE  SlotsExact
<1>1. Cardinality({}) = 0 /\ Cardinality({w}) = 1
  BY FS_EmptySet, FS_Singleton
<1>2. {v \in Worker : Reserved(v)} = IF Reserved(w) THEN {w} ELSE {}
  BY DEF OneFlow
<1>3. \A s : {v \in Worker : Reserved(v) /\ run[v].state = s}
               = IF Reserved(w) /\ run[w].state = s THEN {w} ELSE {}
  BY DEF OneFlow
<1>4. {run[v].issue : v \in {u \in Worker : Registered(u)}}
        = IF Registered(w) THEN {run[w].issue} ELSE {}
  BY DEF OneFlow
<1>5. used = Cardinality({v \in Worker : Reserved(v)})
  BY <1>1, <1>2 DEF Exact
<1>6. \A s \in DOMAIN StateCap :
        used_in[s] = Cardinality({v \in Worker : Reserved(v) /\ run[v].state = s})
  BY <1>1, <1>3, ZenonT(60) DEF Exact
<1>7. DOMAIN in_flight = {run[v].issue : v \in {u \in Worker : Registered(u)}}
  BY <1>4 DEF Exact
<1>8. QED
  BY <1>5, <1>6, <1>7 DEF SlotsExact

(***************************************************************************)
(* In the daemon no slot is leaked or given back twice on any exit path,   *)
(* for any number of issues, retries, restarts and failures.               *)
(***************************************************************************)
THEOREM SlotsAreExact ==
  ASSUME NEW w \in Worker, OneFlow(w)
  PROVE  Spec => []SlotsExact
<1>1. Init => Exact(w)
  <2> SUFFICES ASSUME Init PROVE Exact(w)
    OBVIOUS
  <2>1. ~Reserved(w) /\ ~Registered(w)
    BY DEF Init, NotRunning, Reserved, Registered
  <2>2. QED
    BY <2>1 DEF Init, Exact
<1>2. SlotInv /\ Exact(w) /\ [Next]_vars => Exact(w)'
  BY ExactStep
<1>3. Exact(w) => SlotsExact
  BY ExactIsSlotsExact
<1>4. QED
  BY <1>1, <1>2, <1>3, BooksBalance, PTL DEF Spec

-----------------------------------------------------------------------------
(***************************************************************************)
(* A daemon forgets no claim.  A flow that has only announced a claim may  *)
(* lose it to another, so the invariant counts the flows past it: those    *)
(* whose call took effect.                                                 *)
(***************************************************************************)
WorksOn(w, i) == run[w].pc \notin {"idle", "scan", "claiming"} /\ run[w].issue = i

EveryClaimWorked ==
  up # "failed" =>
    \A i \in Issue \ unknown : tracker[i] = "mine" => \E w \in Worker : WorksOn(w, i)

\* A step that grants no claim, forgets none and keeps every flow on its issue.
LEMMA WorkedStays ==
  ASSUME EveryClaimWorked, up # "failed" \/ up' = "failed", unknown \subseteq unknown',
         \A i \in Issue : tracker'[i] = "mine" => tracker[i] = "mine",
         \A w \in Worker, i \in Issue : WorksOn(w, i) => WorksOn(w, i)'
  PROVE  EveryClaimWorked'
  BY DEF EveryClaimWorked

\* A flow that moves on within its claim keeps its issue.
LEMMA StillWorks ==
  ASSUME SlotInv, NEW w \in Worker, NEW pc \in Stages \ {"idle", "scan", "claiming"}, Goto(w, pc)
  PROVE  \A v \in Worker, i \in Issue : WorksOn(v, i) => WorksOn(v, i)'
<1>1. /\ run'[w].pc = pc /\ run'[w].issue = run[w].issue
      /\ \A v \in Worker \ {w} : run'[v] = run[v]
  BY DEF Goto, SlotInv, FlowsOK, Flow
<1>2. QED
  BY <1>1 DEF WorksOn

\* A flow that works on nothing may do what it likes.
LEMMA OthersStillWork ==
  ASSUME SlotInv, NEW w \in Worker, \A v \in Worker \ {w} : run'[v] = run[v],
         run[w].pc \in {"idle", "scan", "claiming"}
  PROVE  \A v \in Worker, i \in Issue : WorksOn(v, i) => WorksOn(v, i)'
  BY DEF WorksOn

\* The flow leaves its claim: the claim is over, or the daemon goes down.
LEMMA WorkedReturns ==
  ASSUME SlotInv, EveryClaimWorked, Daemon, NEW w \in Worker, up = "up", NEW error, Return(w, error),
         \A i \in Issue : tracker'[i] = "mine" => tracker[i] = "mine",
         error \/ tracker'[run[w].issue] # "mine"
  PROVE  EveryClaimWorked'
<1>1. unknown' = unknown /\ (error => up' = "failed")
  BY DEF Return
<1>2. CASE error
  BY <1>1, <1>2 DEF EveryClaimWorked
<1>3. CASE ~error
  <2>1. \A v \in Worker \ {w} : run'[v] = run[v]
    BY DEF Return, SlotInv, FlowsOK
  <2>2. ASSUME NEW i \in Issue \ unknown, tracker'[i] = "mine"
        PROVE  \E v \in Worker : WorksOn(v, i)'
    <3>1. PICK v \in Worker : WorksOn(v, i)
      BY <2>2 DEF EveryClaimWorked
    <3>2. v # w
      BY <1>3, <2>2, <3>1 DEF WorksOn
    <3>3. WorksOn(v, i)'
      BY <2>1, <3>1, <3>2 DEF WorksOn
    <3>4. QED
      BY <3>3
  <2>3. QED
    BY <1>1, <2>2 DEF EveryClaimWorked
<1>4. QED
  BY <1>2, <1>3

\* Ending a claim ends it at the tracker too, or it was no longer ours.
LEMMA WorkedEnds ==
  ASSUME SlotInv, WorldOK, EveryClaimWorked, Daemon, NEW w \in Worker, up = "up", Reserved(w),
         NEW how \in {"free", "review", "blocked", "parked"}, EndClaim(w, how)
  PROVE  EveryClaimWorked'
<1>1. CASE /\ tracker[run[w].issue] = "mine"
           /\ tracker' = [tracker EXCEPT ![run[w].issue] = how]
           /\ \E error \in {FALSE, Faults} : Return(w, error)
  <2>1. PICK error \in {FALSE, Faults} : Return(w, error)
    BY <1>1
  <2>2. run[w].issue \in Issue
    BY DEF SlotInv, FlowsOK
  <2>3. /\ \A i \in Issue : tracker'[i] = "mine" => tracker[i] = "mine"
        /\ tracker'[run[w].issue] # "mine"
    BY <1>1, <2>2 DEF WorldOK
  <2>4. QED
    BY <2>1, <2>3, WorkedReturns
<1>2. CASE tracker[run[w].issue] # "mine" /\ Return(w, TRUE) /\ UNCHANGED tracker
  BY <1>2, WorkedReturns
<1>3. QED
  BY <1>1, <1>2 DEF EndClaim

\* The call that claims takes effect while the flow waits for its answer.
LEMMA WorkedClaim ==
  ASSUME SlotInv, WorldOK, EveryClaimWorked, NEW w \in Worker, ClaimIssue(w)
  PROVE  EveryClaimWorked'
<1> DEFINE c == run[w].issue
<1>1. /\ c \in Issue /\ run[w].pc = "claiming" /\ unknown' = unknown \ {c} /\ up = "up" /\ up' = up
      /\ tracker' = [tracker EXCEPT ![c] = "mine"] /\ Goto(w, "claimed")
  BY DEF ClaimIssue, SlotInv, FlowsOK, Reserved
<1>2. /\ run'[w].pc = "claimed" /\ run'[w].issue = c
      /\ \A v \in Worker \ {w} : run'[v] = run[v]
  BY <1>1 DEF Goto, SlotInv, FlowsOK, Flow
<1>3. WorksOn(w, c)'
  BY <1>2 DEF WorksOn
<1>4. \A v \in Worker, i \in Issue : WorksOn(v, i) => WorksOn(v, i)'
  BY <1>1, <1>2, OthersStillWork
<1>5. \A i \in Issue \ {c} : tracker'[i] = tracker[i]
  BY <1>1 DEF WorldOK
<1>6. QED
  <2>1. ASSUME NEW i \in Issue \ unknown', tracker'[i] = "mine"
        PROVE  \E v \in Worker : WorksOn(v, i)'
    <3>1. CASE i = c
      <4>1. WorksOn(w, i)'
        BY <1>2, <3>1 DEF WorksOn
      <4>2. QED
        BY <4>1
    <3>2. CASE i # c
      <4>1. PICK v \in Worker : WorksOn(v, i)
        BY <1>1, <1>5, <2>1, <3>2 DEF EveryClaimWorked
      <4>2. QED
        BY <1>4, <4>1
    <3>3. QED
      BY <3>1, <3>2
  <2>2. QED
    BY <2>1 DEF EveryClaimWorked

\* A claim reported as failed may have taken effect; then it is one the process
\* does not know of.
LEMMA WorkedClaimFails ==
  ASSUME SlotInv, EveryClaimWorked, NEW w \in Worker, ClaimFails(w)
  PROVE  EveryClaimWorked'
<1>1. /\ up = "up" /\ up' = up /\ tracker' = tracker /\ Goto(w, "scan")
      /\ run[w].pc \in {"claiming", "claimed"}
      /\ unknown' = IF run[w].pc = "claimed" THEN unknown \cup {run[w].issue} ELSE unknown
  BY DEF ClaimFails
<1>2. \A v \in Worker \ {w} : run'[v] = run[v]
  BY <1>1 DEF Goto, SlotInv, FlowsOK
<1>3. ASSUME NEW i \in Issue \ unknown', tracker'[i] = "mine"
      PROVE  \E v \in Worker : WorksOn(v, i)'
  <2>1. PICK v \in Worker : WorksOn(v, i)
    BY <1>1, <1>3 DEF EveryClaimWorked
  <2>2. v # w
    BY <1>1, <1>3, <2>1 DEF WorksOn
  <2>3. WorksOn(v, i)'
    BY <1>2, <2>1, <2>2, SMTT(30) DEF WorksOn
  <2>4. QED
    BY <2>3
<1>4. QED
  BY <1>3 DEF EveryClaimWorked

\* Every step of a flow.
LEMMA WorkedFlowStep ==
  ASSUME SlotInv, WorldOK, EveryClaimWorked, Daemon, NEW w \in Worker, Step(w)
  PROVE  EveryClaimWorked'
<1>1. CASE Poll(w) \/ ScanEnds(w) \/ \E c \in run[w].left : Reserve(w, c)
  <2>1. /\ UNCHANGED <<tracker, process>> /\ run[w].pc \in {"idle", "scan"}
        /\ \A v \in Worker \ {w} : run'[v] = run[v]
    BY <1>1 DEF Poll, ScanEnds, Reserve, SlotInv, FlowsOK
  <2>2. \A v \in Worker, i \in Issue : WorksOn(v, i) => WorksOn(v, i)'
    BY <2>1, OthersStillWork
  <2>3. QED
    <3>1. UNCHANGED <<up, unknown>>
      BY <2>1 DEF process
    <3>2. QED
      BY <2>1, <2>2, <3>1, WorkedStays, Zenon DEF process
<1>2. CASE PollFails(w) \/ RunReturns(w)
  <2>1. up = "up" /\ UNCHANGED <<tracker, run, unknown>>
    BY <1>2 DEF PollFails, RunReturns
  <2>2. QED
    BY <2>1 DEF EveryClaimWorked, WorksOn
<1>3. CASE ClaimIssue(w)
  BY <1>3, WorkedClaim
<1>4. CASE ClaimFails(w)
  BY <1>4, WorkedClaimFails
<1>5. CASE Errs(w)
  BY <1>5, WorkedReturns DEF Errs
<1>6. CASE \E pc \in Stages \ {"idle", "scan", "claiming"} : Goto(w, pc) /\ UNCHANGED <<tracker, process>>
  BY <1>6, StillWorks, WorkedStays DEF process
<1>7. CASE Register(w) \/ PollFlag(w) \/ StartTurn(w) \/ Preempt(w)
  BY <1>6, <1>7 DEF Register, PollFlag, StartTurn, Preempt, Stages
<1>8. CASE TurnEnds(w) \/ Retry(w) \/ BackoffEnds(w)
  BY <1>6, <1>8 DEF TurnEnds, Retry, BackoffEnds, Stages
<1>9. ASSUME NEW how \in {"free", "review", "blocked", "parked"}, up = "up", Reserved(w),
             EndClaim(w, how)
      PROVE  EveryClaimWorked'
  BY <1>9, WorkedEnds
<1>10. CASE ShutdownRelease(w) \/ Succeeded(w) \/ Exhausted(w)
  BY <1>9, <1>10 DEF ShutdownRelease, Succeeded, Exhausted, Reserved
<1>11. CASE Gate(w) \/ Setup(w)
  BY <1>6, <1>9, <1>11 DEF Gate, Setup, Stages, Reserved
<1>12. CASE BeforeRun(w)
  <2>1. CASE /\ run' = [run EXCEPT ![w].pc = "select", ![w].attempts = @ + 1]
             /\ UNCHANGED <<tracker, process>>
    <3>1. /\ run'[w].pc = "select" /\ run'[w].issue = run[w].issue
          /\ \A v \in Worker \ {w} : run'[v] = run[v]
      BY <2>1 DEF SlotInv, FlowsOK, Flow
    <3>2. \A v \in Worker, i \in Issue : WorksOn(v, i) => WorksOn(v, i)'
      BY <3>1 DEF WorksOn
    <3>3. QED
      BY <2>1, <3>2, WorkedStays DEF process
  <2>2. QED
    BY <1>9, <1>12, <2>1 DEF BeforeRun, Reserved
<1>13. QED
  BY <1>1, <1>2, <1>3, <1>4, <1>5, <1>7, <1>8, <1>10, <1>11, <1>12 DEF Step

\* Every step of the system.
LEMMA WorkedStep ==
  ASSUME SlotInv, WorldOK, EveryClaimWorked, Daemon, [Next]_vars
  PROVE  EveryClaimWorked'
<1>1. ASSUME NEW w \in Worker, Step(w) PROVE EveryClaimWorked'
  BY <1>1, WorkedFlowStep
<1>2. CASE Start
  BY <1>2 DEF Start, EveryClaimWorked
<1>3. CASE UNCHANGED <<tracker, run, unknown>> /\ up' = up
  BY <1>3 DEF EveryClaimWorked, WorksOn
<1>4. CASE ServerStops \/ Crash
  BY <1>4 DEF ServerStops, Crash, EveryClaimWorked, WorksOn
<1>5. CASE SetFlag \/ NotifyWaiters \/ StopWaiting
  BY <1>3, <1>5 DEF SetFlag, NotifyWaiters, StopWaiting
<1>6. ASSUME NEW w \in Worker, Heartbeat(w) PROVE EveryClaimWorked'
  BY <1>3, <1>6 DEF Heartbeat, process
<1>7. ASSUME NEW i \in Issue, RivalActs(i) \/ ApiHandoff(i) PROVE EveryClaimWorked'
  <2>1. UNCHANGED <<run, process>> /\ \A j \in Issue : tracker'[j] = "mine" => tracker[j] = "mine"
    BY <1>7 DEF RivalActs, ApiHandoff, WorldOK
  <2>2. QED
    BY <2>1 DEF process, EveryClaimWorked, WorksOn
<1>8. ASSUME NEW i \in Issue, Expires(i) PROVE EveryClaimWorked'
  BY <1>3, <1>8 DEF Expires, process
<1>9. ASSUME NEW i \in Issue, ApiClaim(i) PROVE EveryClaimWorked'
  <2>1. /\ UNCHANGED <<run, up>> /\ unknown' = unknown \cup {i}
        /\ \A j \in Issue \ {i} : tracker'[j] = tracker[j]
    BY <1>9 DEF ApiClaim, WorldOK
  <2>2. QED
    BY <2>1 DEF EveryClaimWorked, WorksOn
<1>10. CASE UNCHANGED vars
  BY <1>3, <1>10 DEF vars
<1>11. QED
  BY <1>1, <1>2, <1>4, <1>5, <1>6, <1>7, <1>8, <1>9, <1>10 DEF Next, Shutdown

(***************************************************************************)
(* A daemon forgets no claim of its loop, whatever fails and whoever else  *)
(* acts on the list, its own API clients included: what it holds at the    *)
(* tracker some flow is working on, or was when the daemon was stopped,    *)
(* but for the claims of an earlier process, those whose call took effect  *)
(* and was reported as failed, and those of the API.  It needs the         *)
(* daemon's exit on an error: run_claim returns most errors with the claim *)
(* still held.                                                             *)
(***************************************************************************)
THEOREM NoClaimForgotten == Daemon => (Spec => []NoForgottenClaim)
<1> SUFFICES ASSUME Daemon PROVE Spec => []NoForgottenClaim
  OBVIOUS
<1>1. Init => EveryClaimWorked
  BY DEF Init, EveryClaimWorked
<1>2. SlotInv /\ WorldOK /\ EveryClaimWorked /\ [Next]_vars => EveryClaimWorked'
  BY WorkedStep
<1>3. EveryClaimWorked => NoForgottenClaim
  BY DEF EveryClaimWorked, NoForgottenClaim, WorksOn, Reserved
<1>4. QED
  BY <1>1, <1>2, <1>3, BooksBalance, WorldHolds, PTL DEF Spec
=============================================================================
