----------------------- MODULE ParallelGatewayProofs -----------------------
(***************************************************************************)
(* Theorems of ParallelGateway for any set of threads, any nesting, any    *)
(* wait and cancel parameters and any mixture of outcomes.                 *)
(***************************************************************************)
EXTENDS ParallelGateway, FiniteSetTheorems, TLAPS

USE DEF gateVars, branchVars, callVars, joinVars

\* The number of branches of a gateway is a number.
LEMMA BranchesCounted ==
    ASSUME GatewayAssumption, NEW S \in SUBSET Threads
    PROVE  Cardinality(S) \in Nat
BY FS_Subset, FS_CardinalityType DEF GatewayAssumption

\* A thread moves to a program point.
LEMMA GoType ==
    ASSUME TypeOK, NEW t, NEW from, NEW to \in Points, Go(t, from, to)
    PROVE  pc' \in [Threads -> Points]
BY DEF TypeOK, Go

\* Waking keeps the queues and channels booleans.
LEMMA WakeType ==
    ASSUME TypeOK, NEW S, NEW G, Wake(S, G)
    PROVE  signal' \in [Threads -> BOOLEAN] /\ event' \in [Threads -> BOOLEAN]
BY DEF TypeOK, Wake

\* The type of what set_state(Stopping) changes.
LEMMA SetStoppingType ==
    ASSUME TypeOK, NEW t, SetStopping(t)
    PROVE  /\ wstate' \in States
           /\ signal' \in [Threads -> BOOLEAN]
           /\ event' \in [Threads -> BOOLEAN]
<1>1. CASE wstate = "Stopping" /\ UNCHANGED <<wstate, signal, event>>
  BY <1>1 DEF TypeOK
<1>2. CASE wstate' = "Stopping" /\ Continue(Subtree(t))
  BY <1>2, WakeType DEF Continue, States
<1> QED
  BY <1>1, <1>2 DEF SetStopping

\* Steps of a gateway.
LEMMA GateType ==
    ASSUME GatewayAssumption, TypeOK, NEW t \in Threads, Gate(t)
    PROVE  TypeOK'
<1>1. CASE GateEnter(t)
  BY <1>1, GoType DEF GateEnter, Call, TypeOK, Points, InGate
<1>2. CASE SpawnCheck(t)
  BY <1>2, GoType DEF SpawnCheck, TypeOK, Points, InGate
<1>3. ASSUME NEW c \in Threads, Spawn(t, c)
      PROVE  TypeOK'
  BY <1>3 DEF Spawn, TypeOK, Points, InGate
<1>4. ASSUME NEW wait \in Waits, NEW cancel \in Conds, GateRelease(t, wait, cancel)
      PROVE  TypeOK'
  <2>1. Threshold(wait, Cardinality(branches[t])) \in Nat
    BY BranchesCounted DEF Threshold, TypeOK, GatewayAssumption
  <2>2. cancel \in {"first", "last"}
    BY DEF GatewayAssumption
  <2>3. pc' \in [Threads -> Points]
    BY <1>4, GoType DEF GateRelease, Points, InGate
  <2> QED
    BY <1>4, <2>1, <2>2, <2>3 DEF GateRelease, TypeOK
<1>5. CASE GateCheck(t)
  BY <1>5, GoType DEF GateCheck, TypeOK, Points, InGate
<1>6. CASE GateRecv(t)
  BY <1>6, GoType DEF GateRecv, TypeOK, Points, InGate
<1>7. CASE GateClose(t)
  <2>1. pc' \in [Threads -> Points]
    BY <1>7, GoType DEF GateClose, Points, InGate
  <2>2. signal' \in [Threads -> BOOLEAN] /\ event' \in [Threads -> BOOLEAN]
    BY <1>7, WakeType DEF GateClose, Continue, TypeOK
  <2> QED
    BY <1>7, <2>1, <2>2 DEF GateClose, TypeOK
<1>8. CASE GateJoined(t)
  BY <1>8, GoType DEF GateJoined, TypeOK, Points, InGate
<1> QED
  BY <1>1, <1>2, <1>3, <1>4, <1>5, <1>6, <1>7, <1>8 DEF Gate

\* Steps of recursive_join.
LEMMA JoinType ==
    ASSUME GatewayAssumption, TypeOK, NEW t \in Threads, Join(t)
    PROVE  TypeOK'
<1>1. ASSUME NEW u \in Threads, JoinVisit(t, u)
      PROVE  TypeOK'
  BY <1>1 DEF JoinVisit, TypeOK
<1>2. CASE JoinReturn(t)
  BY <1>2 DEF JoinReturn, TypeOK
<1> QED
  BY <1>1, <1>2 DEF Join

\* Steps of a branch.  Whoever reaches its end has a parent.
LEMMA BranchType ==
    ASSUME GatewayAssumption, TypeOK, NEW t \in Threads, Branch(t),
           pc[t] = "branch_end" => parent[t] \in Threads
    PROVE  TypeOK'
<1>1. CASE Arrive(t)
  BY <1>1, GoType DEF Arrive, TypeOK, Points
<1>2. CASE Barrier(t)
  BY <1>2, GoType DEF Barrier, TypeOK, Points
<1>3. CASE BranchStart(t)
  BY <1>3, GoType DEF BranchStart, TypeOK, Points
<1>4. CASE LambdaEnds(t)
  BY <1>4, GoType DEF LambdaEnds, TypeOK, Points
<1>5. CASE BranchEnd(t)
  <2>1. pc' \in [Threads -> Points]
    BY <1>5, GoType DEF BranchEnd, Points
  <2>2. signal' \in [Threads -> BOOLEAN] /\ event' \in [Threads -> BOOLEAN]
    BY <1>5, WakeType DEF BranchEnd
  <2>3. parent[t] \in Threads
    BY <1>5 DEF BranchEnd, Go
  <2>4. finished' = [finished EXCEPT ![parent[t]] = finished[parent[t]] + 1]
    BY <1>5 DEF BranchEnd
  <2>5. finished' \in [Threads -> Nat]
    BY <2>3, <2>4 DEF TypeOK
  <2>6. unneeded' \in [Threads -> BOOLEAN]
    <3>1. PICK S : unneeded' = [c \in Threads |-> unneeded[c] \/ c \in S]
      BY <1>5 DEF BranchEnd
    <3> QED
      BY <3>1 DEF TypeOK
  <2> QED
    BY <1>5, <2>1, <2>2, <2>5, <2>6 DEF BranchEnd, TypeOK
<1> QED
  BY <1>1, <1>2, <1>3, <1>4, <1>5 DEF Branch

\* Steps of an activity and of the callback that answers it.
LEMMA ActivityType ==
    ASSUME GatewayAssumption, TypeOK, NEW t \in Threads, Activity(t) \/ Answer(t)
    PROVE  TypeOK'
<1>1. CASE ActBegin(t)
  <2>1. pc' \in [Threads -> Points] /\ ops' \in [Threads -> Nat]
    BY <1>1, GoType DEF ActBegin, Call, TypeOK, Points
  <2>2. signal' \in [Threads -> BOOLEAN] /\ pending' \in [Threads -> BOOLEAN]
    BY <1>1 DEF ActBegin, TypeOK
  <2> QED
    BY <1>1, <2>1, <2>2 DEF ActBegin, TypeOK
<1>2. CASE ActPrepare(t)
  BY <1>2, GoType DEF ActPrepare, TypeOK, Points
<1>3. CASE ActCall(t)
  BY <1>3, GoType DEF ActCall, TypeOK, Points
<1>4. CASE ActCheck(t)
  BY <1>4, GoType DEF ActCheck, TypeOK, Points
<1>5. CASE ActWake(t)
  BY <1>5, GoType DEF ActWake, TypeOK, Points
<1>6. CASE ActWoken(t)
  BY <1>6, GoType DEF ActWoken, TypeOK, Points
<1>7. CASE ActResume(t)
  BY <1>7, GoType DEF ActResume, TypeOK, Points
<1>8. CASE ActError(t)
  BY <1>8, GoType, SetStoppingType DEF ActError, TypeOK, Points
<1>9. CASE ActDone(t)
  <2>1. pc' \in [Threads -> Points]
    BY <1>9, GoType DEF ActDone, Points
  <2>2. CASE parent[t] = NoThread
    BY <1>9, <2>1, <2>2 DEF ActDone, TypeOK
  <2>3. CASE parent[t] # NoThread
    <3>1. signal' \in [Threads -> BOOLEAN] /\ event' \in [Threads -> BOOLEAN]
      BY <1>9, <2>3, WakeType DEF ActDone, Continue
    <3>2. firstAct' \in [Threads -> BOOLEAN]
      <4>1. firstAct' = [firstAct EXCEPT ![t] = firstAct[t] /\ ~Wins(t)]
        BY <1>9, <2>3 DEF ActDone
      <4>2. (firstAct[t] /\ ~Wins(t)) \in BOOLEAN
        OBVIOUS
      <4> QED
        BY <4>1, <4>2, Zenon DEF TypeOK
    <3>5. unneeded' \in [Threads -> BOOLEAN]
      <4>1. unneeded' = [x \in Threads |-> unneeded[x] \/ x \in Losers(t)]
        BY <1>9, <2>3 DEF ActDone
      <4> QED
        BY <4>1 DEF TypeOK
    <3>3. waitCount' \in [Threads -> Nat]
      <4>1. parent[t] \in Threads
        BY <2>3 DEF TypeOK
      <4>2. waitCount' = [waitCount EXCEPT ![parent[t]] = Winners(t)]
        BY <1>9, <2>3 DEF ActDone
      <4>3. Winners(t) \in Nat
        BY <4>1 DEF Winners, TypeOK
      <4> QED
        BY <4>2, <4>3 DEF TypeOK
    <3>4. pending' \in [Threads -> BOOLEAN]
      BY <1>9 DEF ActDone, TypeOK
    <3> QED
      BY <1>9, <2>1, <3>1, <3>2, <3>3, <3>4, <3>5 DEF ActDone, TypeOK
  <2> QED
    BY <2>2, <2>3
<1>10. CASE Failed(t)
  <2>1. pc' \in [Threads -> Points]
    BY <1>10, GoType DEF Failed, Points
  <2> QED
    BY <1>10, <2>1, SetStoppingType DEF Failed, TypeOK
<1>11. CASE Answer(t)
  BY <1>11 DEF Answer, TypeOK
<1> QED
  BY <1>1, <1>2, <1>3, <1>4, <1>5, <1>6, <1>7, <1>8, <1>9, <1>10, <1>11 DEF Activity

\* Steps of stop, terminate, the end of start, and stop_weel.
LEMMA EndingType ==
    ASSUME GatewayAssumption, TypeOK,
           (\E t \in Threads : Jump(t)) \/ Start \/ SigCheck \/ StopWeel \/ Terminated
    PROVE  TypeOK'
<1>1. ASSUME NEW t \in Threads, NEW jump \in Jumps, JumpCheck(t, jump)
      PROVE  TypeOK'
  <2>1. jump \in Points
    BY DEF GatewayAssumption, Points
  <2> QED
    BY <1>1, <2>1, GoType DEF JumpCheck, Call, TypeOK
<1>2. ASSUME NEW t \in Threads, StopSet(t)
      PROVE  TypeOK'
  BY <1>2, GoType, SetStoppingType DEF StopSet, TypeOK, Points
<1>3. ASSUME NEW t \in Threads, TerminateSet(t)
      PROVE  TypeOK'
  BY <1>3, GoType DEF TerminateSet, TypeOK, Points, States
<1>4. CASE ModelEnds
  BY <1>4, GoType DEF ModelEnds, TypeOK, Points, GatewayAssumption
<1>5. CASE SetFinished
  BY <1>5, GoType DEF SetFinished, TypeOK, Points, States
<1>6. CASE SetStopped
  BY <1>6, GoType DEF SetStopped, TypeOK, Points, States
<1>7. CASE SendStop \/ Exit
  BY <1>7, GoType DEF SendStop, Exit, TypeOK, Points
<1>8. CASE SigCheck
  BY <1>8 DEF SigCheck, TypeOK
<1>9. CASE SigSet
  BY <1>9, SetStoppingType DEF SigSet, TypeOK
<1>10. CASE SigRecv
  BY <1>10 DEF SigRecv, TypeOK
<1>11. CASE Terminated
  BY <1>11 DEF Terminated, vars, TypeOK
<1> QED
  BY <1>1, <1>2, <1>3, <1>4, <1>5, <1>6, <1>7, <1>8, <1>9, <1>10, <1>11
     DEF Jump, Start, StopWeel
-----------------------------------------------------------------------------
\* The strengthening of StructuredParallelism and BarrierHolds.

\* Every thread but the model's has a parent once it is born; the branches of
\* a thread are others, and they are born from it.
Kinship ==
    /\ pc[Main] \notin {"unborn", "born", "barrier", "branch_start", "branch_end"}
    /\ \A t \in Threads \ {Main} : pc[t] # "unborn" => parent[t] \in Threads
    /\ \A t \in Threads : \A c \in branches[t] :
          pc[c] # "unborn" /\ c # t /\ parent[c] = t

\* Nobody has been let through the barrier before the gateway is released.
Unreleased ==
    /\ \A t \in Threads : pc[t] = "unborn" => ~go[t]
    /\ \A t \in Threads : \A c \in branches[t] :
          pc[t] \in {"gate_lambda", "spawn"} => ~go[c]

\* What recursive_join still has to do covers the branches that still run.
JoinCovers ==
    wstate = "Running" =>
        \A t \in Threads : \A c \in branches[t] :
            pc[t] = "gate_join" => HasExited(c) \/ c \in todo[t] \/ c = joining[t]

Goals == Kinship /\ Unreleased /\ JoinCovers /\ StructuredParallelism /\ BarrierHolds

IInv == TypeOK /\ Goals

\* A step of at most the thread t that opens, closes and joins no gateway.
Quiet(t) ==
    /\ \A x \in Threads \ {t} : pc'[x] = pc[x]
    /\ pc'[t] # pc[t] => /\ pc[t] \notin {"unborn", "exited"}
                         /\ pc'[t] # "unborn"
    /\ t = Main => pc'[t] \notin {"born", "barrier", "branch_start", "branch_end"}
    /\ UNCHANGED <<branches, parent, go, joining>>
    /\ \A x \in Threads : pc[x] = "gate_join" => todo'[x] = todo[x]
    /\ pc'[t] = "gate_join" => pc[t] = "gate_join"
    /\ pc'[t] \in {"gate_lambda", "spawn"} => pc[t] \in {"gate_lambda", "spawn"}
    /\ wstate' = "Running" =>
          /\ wstate = "Running"
          /\ pc'[t] \in InGate \/ pc[t] \notin InGate
          /\ pc'[t] \in {"born", "barrier"} \/ pc[t] \notin {"born", "barrier"}

\* Quiet steps keep the strengthening.
LEMMA QuietKeeps ==
    ASSUME GatewayAssumption, IInv, NEW t \in Threads, Quiet(t)
    PROVE  Goals'
<1>1. Kinship'
  BY DEF IInv, Goals, Quiet, Kinship, TypeOK, GatewayAssumption
<1>2. Unreleased'
  BY DEF IInv, Goals, Quiet, Unreleased, TypeOK
<1>3. JoinCovers'
  BY DEF IInv, Goals, Quiet, JoinCovers, HasExited, TypeOK
<1>4. StructuredParallelism'
  BY DEF IInv, Goals, Quiet, StructuredParallelism, HasExited, TypeOK
<1>5. BarrierHolds'
  BY DEF IInv, Goals, Quiet, BarrierHolds, TypeOK
<1> QED
  BY <1>1, <1>2, <1>3, <1>4, <1>5 DEF Goals

\* What Go says of each thread.
LEMMA GoMoves ==
    ASSUME TypeOK, NEW t \in Threads, NEW from, NEW to, Go(t, from, to)
    PROVE  /\ pc[t] = from /\ pc'[t] = to
           /\ \A x \in Threads \ {t} : pc'[x] = pc[x]
BY DEF TypeOK, Go

\* set_state(Stopping) does not set the instance running.
LEMMA SetStoppingEnds ==
    ASSUME NEW t, SetStopping(t)
    PROVE  wstate' # "Running"
BY DEF SetStopping

\* The steps of an activity, also a failed one, are quiet.
LEMMA ActivityQuiet ==
    ASSUME GatewayAssumption, IInv, NEW t \in Threads, Activity(t)
    PROVE  Quiet(t)
<1> USE DEF IInv
<1>1. CASE ActBegin(t)
  BY <1>1, GoMoves DEF ActBegin, Call, Quiet, InGate
<1>2. CASE ActPrepare(t)
  BY <1>2, GoMoves DEF ActPrepare, Quiet, InGate
<1>3. CASE ActCall(t)
  BY <1>3, GoMoves DEF ActCall, Quiet, InGate
<1>4. CASE ActCheck(t)
  BY <1>4, GoMoves DEF ActCheck, Quiet, InGate
<1>5. CASE ActWake(t)
  BY <1>5, GoMoves DEF ActWake, Quiet, InGate
<1>6. CASE ActWoken(t)
  BY <1>6, GoMoves DEF ActWoken, Quiet, InGate
<1>7. CASE ActResume(t)
  BY <1>7, GoMoves DEF ActResume, Quiet, InGate
<1>8. CASE ActError(t)
  BY <1>8, GoMoves, SetStoppingEnds DEF ActError, Quiet, InGate
<1>9. CASE ActDone(t)
  <2>1. pc[t] = "act_done" /\ pc'[t] = "run"
        /\ \A x \in Threads \ {t} : pc'[x] = pc[x]
    BY <1>9, GoMoves DEF ActDone
  <2>2. UNCHANGED <<wstate, branches, parent, go, todo, joining>>
    BY <1>9 DEF ActDone
  <2> QED
    BY <2>1, <2>2 DEF Quiet, InGate
<1>10. CASE Failed(t)
  <2>1. wstate' # "Running"
    BY <1>10, SetStoppingEnds DEF Failed
  <2>2. /\ pc[t] = "failed"
        /\ pc'[t] \in {"run", "set_stopped", "branch_end"}
        /\ t = Main => pc'[t] # "branch_end"
        /\ \A x \in Threads \ {t} : pc'[x] = pc[x]
    BY <1>10, GoMoves DEF Failed
  <2>3. UNCHANGED <<branches, parent, go, todo, joining>>
    BY <1>10 DEF Failed
  <2> QED
    BY <2>1, <2>2, <2>3 DEF Quiet
<1> QED
  BY <1>1, <1>2, <1>3, <1>4, <1>5, <1>6, <1>7, <1>8, <1>9, <1>10 DEF Activity

\* The steps of stop and terminate are quiet.
LEMMA JumpQuiet ==
    ASSUME GatewayAssumption, IInv, NEW t \in Threads, Jump(t)
    PROVE  Quiet(t)
<1> USE DEF IInv
<1>1. ASSUME NEW jump \in Jumps, JumpCheck(t, jump)
      PROVE  Quiet(t)
  <2>1. jump \in {"stop", "terminate"}
    BY DEF GatewayAssumption
  <2> QED
    BY <1>1, <2>1, GoMoves DEF JumpCheck, Call, Quiet, InGate
<1>2. CASE StopSet(t)
  BY <1>2, GoMoves, SetStoppingEnds DEF StopSet, Quiet, InGate
<1>3. CASE TerminateSet(t)
  BY <1>3, GoMoves DEF TerminateSet, Quiet, InGate
<1> QED
  BY <1>1, <1>2, <1>3 DEF Jump

\* The steps at the end of start are quiet steps of the model thread.
LEMMA StartQuiet ==
    ASSUME GatewayAssumption, IInv, Start
    PROVE  Quiet(Main)
<1> USE DEF IInv
<1>1. CASE ModelEnds
  BY <1>1, GoMoves DEF ModelEnds, Quiet, InGate, TypeOK, GatewayAssumption
<1>2. CASE SetFinished
  BY <1>2, GoMoves DEF SetFinished, Quiet, InGate, GatewayAssumption
<1>3. CASE SetStopped
  BY <1>3, GoMoves DEF SetStopped, Quiet, InGate, GatewayAssumption
<1>4. CASE SendStop \/ Exit
  BY <1>4, GoMoves DEF SendStop, Exit, Quiet, InGate, GatewayAssumption
<1> QED
  BY <1>1, <1>2, <1>3, <1>4 DEF Start

\* The callback, the signal handler and the end move no thread.
LEMMA OthersQuiet ==
    ASSUME GatewayAssumption, IInv, NEW t \in Threads,
           Answer(t) \/ SigCheck \/ StopWeel \/ Terminated
    PROVE  Quiet(Main)
<1> USE DEF IInv, Goals, Kinship, Quiet
<1>1. CASE Answer(t)
  BY <1>1 DEF Answer
<1>2. CASE SigCheck
  BY <1>2 DEF SigCheck
<1>3. CASE SigSet
  BY <1>3, SetStoppingEnds DEF SigSet
<1>4. CASE SigRecv
  BY <1>4 DEF SigRecv
<1>5. CASE Terminated
  BY <1>5 DEF Terminated, vars
<1> QED
  BY <1>1, <1>2, <1>3, <1>4, <1>5 DEF StopWeel

\* A branch passes the barrier only when its gateway has been released.
LEMMA BarrierKeeps ==
    ASSUME GatewayAssumption, IInv, NEW t \in Threads, Barrier(t)
    PROVE  Goals'
<1> USE DEF IInv, Goals
<1>1. /\ pc[t] = "barrier" /\ pc'[t] = "branch_start"
      /\ \A x \in Threads \ {t} : pc'[x] = pc[x]
      /\ go[t]
  BY GoMoves DEF Barrier
<1>2. UNCHANGED <<wstate, branches, parent, go, todo, joining>>
  BY DEF Barrier
<1>3. Kinship'
  BY <1>1, <1>2 DEF Kinship, TypeOK, GatewayAssumption
<1>4. Unreleased'
  BY <1>1, <1>2 DEF Unreleased, TypeOK
<1>5. JoinCovers'
  BY <1>1, <1>2 DEF JoinCovers, HasExited, TypeOK
<1>6. StructuredParallelism'
  BY <1>1, <1>2 DEF StructuredParallelism, HasExited, InGate, TypeOK
<1>7. BarrierHolds'
  BY <1>1, <1>2 DEF BarrierHolds, Unreleased, TypeOK
<1> QED
  BY <1>3, <1>4, <1>5, <1>6, <1>7

\* The other steps of a branch are quiet.
LEMMA BranchKeeps ==
    ASSUME GatewayAssumption, IInv, NEW t \in Threads, Branch(t)
    PROVE  Goals'
<1>1. CASE Arrive(t)
  <2>1. /\ pc[t] = "born" /\ pc'[t] \in {"branch_start", "barrier"}
        /\ \A x \in Threads \ {t} : pc'[x] = pc[x]
        /\ wstate = "Running" => pc'[t] = "barrier"
    BY <1>1, GoMoves DEF Arrive, Terminating, IInv
  <2>2. t # Main
    BY <2>1 DEF IInv, Goals, Kinship
  <2>3. Quiet(t)
    BY <1>1, <2>1, <2>2 DEF Arrive, Quiet, InGate
  <2> QED
    BY <2>3, QuietKeeps
<1>2. CASE Barrier(t)
  BY <1>2, BarrierKeeps
<1>3. CASE BranchStart(t)
  <2>1. /\ pc[t] = "branch_start" /\ pc'[t] \in {"branch_end", "run"}
        /\ \A x \in Threads \ {t} : pc'[x] = pc[x]
    BY <1>3, GoMoves DEF BranchStart, IInv
  <2>2. t # Main
    BY <2>1 DEF IInv, Goals, Kinship
  <2>3. Quiet(t)
    BY <1>3, <2>1, <2>2 DEF BranchStart, Quiet, InGate
  <2> QED
    BY <2>3, QuietKeeps
<1>4. CASE LambdaEnds(t)
  BY <1>4, GoMoves, QuietKeeps DEF LambdaEnds, Quiet, InGate, IInv
<1>5. CASE BranchEnd(t)
  <2>1. /\ pc[t] = "branch_end" /\ pc'[t] = "exited"
        /\ \A x \in Threads \ {t} : pc'[x] = pc[x]
    BY <1>5, GoMoves DEF BranchEnd, IInv
  <2>2. UNCHANGED <<wstate, branches, parent, go, todo, joining>>
    BY <1>5 DEF BranchEnd
  <2>3. Quiet(t)
    BY <2>1, <2>2 DEF Quiet, InGate
  <2> QED
    BY <2>3, QuietKeeps
<1> QED
  BY <1>1, <1>2, <1>3, <1>4, <1>5 DEF Branch

\* recursive_join never forgets a branch that still runs.
LEMMA JoinKeeps ==
    ASSUME GatewayAssumption, IInv, NEW t \in Threads, Join(t)
    PROVE  Goals'
<1> USE DEF IInv, Goals
<1>1. UNCHANGED <<wstate, pc, branches, parent, go>>
  BY DEF Join, JoinVisit, JoinReturn
<1>2. JoinCovers'
  <2>1. ASSUME NEW u \in Threads, JoinVisit(t, u)
        PROVE  JoinCovers'
    BY <1>1, <2>1 DEF JoinVisit, JoinCovers, Kinship, HasExited, TypeOK
  <2>2. CASE JoinReturn(t)
    BY <1>1, <2>2 DEF JoinReturn, JoinCovers, HasExited, TypeOK
  <2> QED
    BY <2>1, <2>2 DEF Join
<1> QED
  BY <1>1, <1>2 DEF Kinship, Unreleased, StructuredParallelism, BarrierHolds, HasExited

\* A thread that enters a gateway has no branches.
LEMMA GateEnterKeeps ==
    ASSUME GatewayAssumption, IInv, NEW t \in Threads, GateEnter(t)
    PROVE  Goals'
<1> USE DEF IInv, Goals
<1>1. /\ pc[t] = "run" /\ pc'[t] = "gate_lambda"
      /\ \A x \in Threads \ {t} : pc'[x] = pc[x]
  BY GoMoves DEF GateEnter, Call
<1>2. /\ branches'[t] = {}
      /\ \A x \in Threads \ {t} : branches'[x] = branches[x]
  BY DEF GateEnter, TypeOK
<1>3. UNCHANGED <<wstate, parent, go, todo, joining>>
  BY DEF GateEnter
<1>4. Kinship'
  BY <1>1, <1>2, <1>3 DEF Kinship, TypeOK, GatewayAssumption
<1>5. Unreleased'
  BY <1>1, <1>2, <1>3 DEF Unreleased, TypeOK
<1>6. JoinCovers'
  BY <1>1, <1>2, <1>3 DEF JoinCovers, HasExited, TypeOK
<1>7. StructuredParallelism'
  BY <1>1, <1>2, <1>3 DEF StructuredParallelism, HasExited, InGate, TypeOK
<1>8. BarrierHolds'
  BY <1>1, <1>2, <1>3 DEF BarrierHolds, TypeOK
<1> QED
  BY <1>4, <1>5, <1>6, <1>7, <1>8

\* A new branch is nobody else's branch and not released.
LEMMA SpawnKeeps ==
    ASSUME GatewayAssumption, IInv, NEW t \in Threads, NEW c \in Threads, Spawn(t, c)
    PROVE  Goals'
<1> USE DEF IInv, Goals
<1>1. pc[t] = "spawn" /\ pc[c] = "unborn" /\ t # c /\ c # Main
  BY DEF Spawn, Kinship
<1>2. /\ pc'[t] = "gate_lambda" /\ pc'[c] = "born"
      /\ \A x \in Threads \ {t, c} : pc'[x] = pc[x]
  BY <1>1 DEF Spawn, TypeOK
<1>3. /\ branches'[t] = branches[t] \cup {c}
      /\ \A x \in Threads \ {t} : branches'[x] = branches[x]
      /\ parent'[c] = t
      /\ \A x \in Threads \ {c} : parent'[x] = parent[x]
  BY DEF Spawn, TypeOK
<1>4. UNCHANGED <<wstate, go, todo, joining>>
  BY DEF Spawn
<1>5. \A x \in Threads : c \notin branches[x]
  BY <1>1 DEF Kinship
<1>6. Kinship'
  BY <1>1, <1>2, <1>3, <1>5 DEF Kinship, TypeOK, GatewayAssumption
<1>7. Unreleased'
  BY <1>1, <1>2, <1>3, <1>4 DEF Unreleased, TypeOK
<1>8. JoinCovers'
  BY <1>1, <1>2, <1>3, <1>4, <1>5 DEF JoinCovers, HasExited, TypeOK
<1>9. StructuredParallelism'
  BY <1>1, <1>2, <1>3, <1>4, <1>5 DEF StructuredParallelism, HasExited, InGate, TypeOK
<1>10. BarrierHolds'
  BY <1>1, <1>2, <1>3, <1>4, <1>5 DEF BarrierHolds, TypeOK
<1> QED
  BY <1>6, <1>7, <1>8, <1>9, <1>10

\* The release of a gateway lets its own branches go and no others.
LEMMA GateReleaseKeeps ==
    ASSUME GatewayAssumption, IInv, NEW t \in Threads, NEW wait, NEW cancel,
           GateRelease(t, wait, cancel)
    PROVE  Goals'
<1> USE DEF IInv, Goals
<1>1. /\ pc[t] = "gate_lambda" /\ pc'[t] = "gate_check"
      /\ \A x \in Threads \ {t} : pc'[x] = pc[x]
  BY GoMoves DEF GateRelease
<1>2. \A x \in Threads : go'[x] = (go[x] \/ x \in branches[t])
  BY DEF GateRelease
<1>3. UNCHANGED <<wstate, branches, parent, todo, joining>>
  BY DEF GateRelease
<1>4. Kinship'
  BY <1>1, <1>3 DEF Kinship, TypeOK, GatewayAssumption
<1>5. Unreleased'
  BY <1>1, <1>2, <1>3 DEF Unreleased, Kinship, TypeOK
<1> QED
  BY <1>1, <1>3, <1>4, <1>5 DEF JoinCovers, StructuredParallelism,
     BarrierHolds, HasExited, InGate, TypeOK

\* A gateway that closes joins all of its branches.
LEMMA GateCloseKeeps ==
    ASSUME GatewayAssumption, IInv, NEW t \in Threads, GateClose(t)
    PROVE  Goals'
<1> USE DEF IInv, Goals
<1>1. /\ pc[t] = "gate_close" /\ pc'[t] \in {"run", "gate_join"}
      /\ \A x \in Threads \ {t} : pc'[x] = pc[x]
      /\ pc'[t] = "run" => wstate # "Running"
      /\ pc'[t] = "gate_join" => todo'[t] = branches[t]
      /\ \A x \in Threads \ {t} : todo'[x] = todo[x]
  <2>1. CASE Terminating /\ Go(t, "gate_close", "run") /\ UNCHANGED todo
    BY <2>1, GoMoves DEF Terminating
  <2>2. CASE Go(t, "gate_close", "gate_join") /\ todo' = [todo EXCEPT ![t] = branches[t]]
    BY <2>2, GoMoves DEF TypeOK
  <2> QED
    BY <2>1, <2>2 DEF GateClose
<1>2. UNCHANGED <<wstate, branches, parent, go, joining>>
  BY DEF GateClose
<1>3. JoinCovers'
  BY <1>1, <1>2 DEF JoinCovers, HasExited, TypeOK
<1>4. StructuredParallelism'
  BY <1>1, <1>2 DEF StructuredParallelism, HasExited, InGate, TypeOK
<1> QED
  BY <1>1, <1>2, <1>3, <1>4 DEF Kinship, Unreleased, BarrierHolds, TypeOK, GatewayAssumption

\* When there is nothing left to join, all branches have exited.
LEMMA GateJoinedKeeps ==
    ASSUME GatewayAssumption, IInv, NEW t \in Threads, GateJoined(t)
    PROVE  Goals'
<1> USE DEF IInv, Goals
<1>1. /\ pc[t] = "gate_join" /\ pc'[t] = "run"
      /\ \A x \in Threads \ {t} : pc'[x] = pc[x]
      /\ todo[t] = {} /\ joining[t] = NoThread
  BY GoMoves DEF GateJoined
<1>2. UNCHANGED <<wstate, branches, parent, go, todo, joining>>
  BY DEF GateJoined
<1>3. StructuredParallelism'
  BY <1>1, <1>2 DEF StructuredParallelism, JoinCovers, HasExited, InGate, TypeOK,
     GatewayAssumption
<1> QED
  BY <1>1, <1>2, <1>3 DEF Kinship, Unreleased, JoinCovers, BarrierHolds, HasExited,
     TypeOK, GatewayAssumption

\* All steps of a gateway.
LEMMA GateKeeps ==
    ASSUME GatewayAssumption, IInv, NEW t \in Threads, Gate(t)
    PROVE  Goals'
<1>1. CASE SpawnCheck(t)
  BY <1>1, GoMoves, QuietKeeps DEF SpawnCheck, Quiet, InGate, IInv
<1>2. CASE GateCheck(t)
  <2>1. /\ pc[t] = "gate_check" /\ pc'[t] \in {"gate_close", "gate_recv"}
        /\ \A x \in Threads \ {t} : pc'[x] = pc[x]
    BY <1>2, GoMoves DEF GateCheck, IInv
  <2>2. Quiet(t)
    BY <1>2, <2>1 DEF GateCheck, Quiet, InGate
  <2> QED
    BY <2>2, QuietKeeps
<1>3. CASE GateRecv(t)
  BY <1>3, GoMoves, QuietKeeps DEF GateRecv, Quiet, InGate, IInv
<1> QED
  BY <1>1, <1>2, <1>3, GateEnterKeeps, SpawnKeeps, GateReleaseKeeps,
     GateCloseKeeps, GateJoinedKeeps DEF Gate
-----------------------------------------------------------------------------
\* The initial state satisfies the strengthening.
LEMMA InitIInv ==
    ASSUME GatewayAssumption, Init
    PROVE  IInv
<1>1. TypeOK
  BY DEF Init, TypeOK, States, Points, InGate, GatewayAssumption
<1>2. Goals
  BY DEF Init, Goals, Kinship, Unreleased, JoinCovers, StructuredParallelism,
     BarrierHolds, InGate
<1> QED
  BY <1>1, <1>2 DEF IInv

\* Every step keeps it.
LEMMA NextIInv ==
    ASSUME GatewayAssumption, IInv, [Next]_vars
    PROVE  IInv'
<1> USE DEF IInv
<1>1. ASSUME NEW t \in Threads, Gate(t)
      PROVE  IInv'
  BY <1>1, GateType, GateKeeps
<1>2. ASSUME NEW t \in Threads, Join(t)
      PROVE  IInv'
  BY <1>2, JoinType, JoinKeeps
<1>3. ASSUME NEW t \in Threads, Branch(t)
      PROVE  IInv'
  <2>1. pc[t] = "branch_end" => parent[t] \in Threads
    BY DEF Goals, Kinship
  <2> QED
    BY <1>3, <2>1, BranchType, BranchKeeps
<1>4. ASSUME NEW t \in Threads, Activity(t)
      PROVE  IInv'
  BY <1>4, ActivityType, ActivityQuiet, QuietKeeps
<1>5. ASSUME NEW t \in Threads, Jump(t)
      PROVE  IInv'
  BY <1>5, EndingType, JumpQuiet, QuietKeeps
<1>6. CASE Start
  BY <1>6, EndingType, StartQuiet, QuietKeeps DEF GatewayAssumption
<1>7. ASSUME NEW t \in Threads, Answer(t)
      PROVE  IInv'
  BY <1>7, ActivityType, OthersQuiet, QuietKeeps DEF GatewayAssumption
<1>8. CASE SigCheck \/ StopWeel \/ Terminated
  BY <1>8, EndingType, OthersQuiet, QuietKeeps DEF GatewayAssumption
<1>9. CASE UNCHANGED vars
  <2>1. TypeOK'
    BY <1>9 DEF vars, TypeOK
  <2>2. Quiet(Main)
    BY <1>9 DEF vars, Quiet, Goals, Kinship
  <2> QED
    BY <2>1, <2>2, QuietKeeps DEF GatewayAssumption
<1> QED
  BY <1>1, <1>2, <1>3, <1>4, <1>5, <1>6, <1>7, <1>8, <1>9 DEF Next, Step

\* The strengthening is an invariant.
THEOREM Inductive == Spec => []IInv
BY GatewayAssumption, InitIInv, NextIInv, PTL DEF Spec

\* Every variable keeps its type, whatever the wait parameter and however the
\* gateways are nested (parallel_do, parallel_branch, weel_activity).
THEOREM TypeCorrect == Spec => []TypeOK
<1>1. IInv => TypeOK
  BY DEF IInv
<1> QED
  BY <1>1, Inductive, PTL

\* While the instance runs, nothing after a gateway overlaps with a branch of
\* it (the counter, the channel, the flags and recursive_join of parallel_do).
THEOREM GatewaysAreStructured == Spec => []StructuredParallelism
<1>1. IInv => StructuredParallelism
  BY DEF IInv, Goals
<1> QED
  BY <1>1, Inductive, PTL

\* While the instance runs, no branch runs before its gateway has spawned them
\* all (branch_barrier_start in parallel_do and parallel_branch).
THEOREM BarrierIsRespected == Spec => []BarrierHolds
<1>1. IInv => BarrierHolds
  BY DEF IInv, Goals
<1> QED
  BY <1>1, Inductive, PTL

=============================================================================
