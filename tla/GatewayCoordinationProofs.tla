--------------------- MODULE GatewayCoordinationProofs ----------------------
(***************************************************************************)
(* How the gateways and activities of ParallelGateway work together, in    *)
(* four parts: the two counters of a gateway agree with its branches and   *)
(* justify what is cancelled; the message in a gateway's channel, and the  *)
(* wake-up of an activity, have their cause in the tree of threads; and    *)
(* where only the model's thread runs gateways, a stopped instance has     *)
(* ended.  Each part has its inductive invariant, on top of the one of     *)
(* ParallelGatewayProofs.                                                  *)
(***************************************************************************)
EXTENDS ParallelGatewayProofs, WellFoundedInduction

USE DEF gateVars, branchVars, callVars, joinVars

Spawning == {"gate_lambda", "spawn"}
Waiting  == {"gate_check", "gate_recv"}

\* branches that have ended, and those whose first activity has won
Ended(p) == {c \in branches[p] : HasExited(c)}
Won(p)   == {c \in branches[p] : ~firstAct[c]}

\* Are the branches of the gateway p all the branches that count for it?  A
\* thread that leaves a gateway because the instance ends leaves some behind.
Counting(p) == ~Reported /\ (wstate = "Running" \/ pc[p] \in Spawning \cup Waiting)

\* start reports a state that is not Running, and only start sets Finished.
Reports == /\ Reported => wstate # "Running"
           /\ wstate = "Finished" => Reported

\* The model's thread is nobody's branch.  What has not passed the barrier has
\* won nothing; what is not yet born is not cancelled either.
Fresh ==
    /\ parent[Main] = NoThread
    /\ \A c \in Threads : pc[c] \in {"unborn", "born", "barrier"} => firstAct[c]
    /\ \A c \in Threads : pc[c] = "unborn" => ~unneeded[c]

\* Whoever runs is one of the branches that its gateway waits for.
Enrolled ==
    \A p \in Threads : \A c \in Threads \ {Main} :
        parent[c] = p /\ pc[c] \notin {"unborn", "exited"} /\ Counting(p)
        => c \in branches[p]

FinishedCounts ==
    \A p \in Threads : Counting(p) => finished[p] = Cardinality(Ended(p))

WinnersCount ==
    wstate = "Running" =>
        \A p \in Threads : pc[p] \in InGate \ Spawning =>
            /\ waitCount[p] = Cardinality(Won(p))
            /\ cond[p] = "last" => waitCount[p] = 0

\* Nobody cancels a branch of a gateway that still spawns.
Uncancelled ==
    wstate = "Running" =>
        \A p \in Threads : \A c \in branches[p] : pc[p] \in Spawning => ~unneeded[c]

\* The channel is open as long as the gateway listens, and the end of all its
\* branches is in it.
Signalled ==
    \A p \in Threads :
        /\ pc[p] \in Spawning \cup Waiting => sender[p]
        /\ pc[p] = "gate_recv" => branches[p] # {}
        /\ ~Reported /\ pc[p] \in Spawning \cup Waiting /\ branches[p] # {}
           /\ Ended(p) = branches[p] => event[p]

Counters == /\ Reports /\ Fresh /\ Enrolled /\ FinishedCounts /\ WinnersCount
            /\ Uncancelled /\ CancelJustified /\ Signalled

CInv == IInv /\ Counters
-----------------------------------------------------------------------------
\* One more branch counts one more.
LEMMA OneMore ==
    ASSUME GatewayAssumption, NEW S \in SUBSET Threads, NEW t \in Threads, t \notin S
    PROVE  Cardinality(S \cup {t}) = Cardinality(S) + 1
BY FS_Subset, FS_AddElement DEF GatewayAssumption

\* No branch counts nothing.
LEMMA NoneCounted == Cardinality({}) = 0
BY FS_EmptySet

\* Waking takes no message out of a channel.
LEMMA WakeKeepsEvents ==
    ASSUME NEW S, NEW G, Wake(S, G)
    PROVE  \A x \in Threads : event[x] => event'[x]
BY DEF Wake

\* A stop takes no message out of a channel.
LEMMA SetStoppingKeepsEvents ==
    ASSUME NEW t, SetStopping(t)
    PROVE  /\ wstate' = "Stopping"
           /\ \A x \in Threads : event[x] => event'[x]
BY WakeKeepsEvents DEF SetStopping, Continue

\* A step of at most the thread t that counts, cancels and spawns nothing.
Calm(t) ==
    /\ \A x \in Threads \ {t} : pc'[x] = pc[x]
    /\ UNCHANGED <<branches, parent, finished, waitCount, threshold, cond,
                   firstAct, unneeded, sender>>
    /\ \A x \in Threads : event[x] /\ pc'[x] \in Spawning \cup Waiting => event'[x]
    /\ pc'[t] # pc[t] => /\ pc[t] \notin {"unborn", "exited"}
                         /\ pc'[t] \notin {"unborn", "born"}
                         /\ pc'[t] = "exited" => t = Main
                         /\ pc'[t] = "barrier" => pc[t] = "born"
                         /\ pc'[t] \in Spawning => pc[t] \in Spawning
                         /\ pc'[t] \in Waiting => pc[t] \in Waiting
                         /\ pc'[t] \in InGate \ Spawning => pc[t] \in InGate \ Spawning
                         /\ pc'[t] = "gate_recv" => branches[t] # {}
    /\ wstate' = "Running" => wstate = "Running"
    /\ Reported => Reported'
    /\ Reported' => Reported \/ wstate' # "Running"
    /\ wstate' = "Finished" => wstate = "Finished" \/ Reported'

\* Such a step keeps the counters right.
LEMMA CalmKeeps ==
    ASSUME GatewayAssumption, CInv, NEW t \in Threads, Calm(t)
    PROVE  Counters'
<1> USE DEF CInv, IInv, Goals, Counters
<1>1. Reports'
  BY DEF Calm, Reports
<1>2. Fresh'
  BY DEF Calm, Fresh, TypeOK
<1>3. \A p \in Threads : Counting(p)' => Counting(p)
  BY DEF Calm, Counting, Spawning, Waiting
<1>4. Enrolled'
  BY <1>3 DEF Calm, Enrolled, Kinship, TypeOK
<1>5. \A p \in Threads : Ended(p)' = Ended(p) /\ Won(p)' = Won(p)
  <2>1. \A p \in Threads : \A c \in branches[p] : c # Main
    BY DEF Kinship, Fresh, GatewayAssumption
  <2> QED
    BY <2>1 DEF Calm, Ended, Won, HasExited, TypeOK
<1>6. FinishedCounts'
  BY <1>3, <1>5 DEF Calm, FinishedCounts
<1>7. WinnersCount'
  BY <1>5 DEF Calm, WinnersCount, InGate, Spawning
<1>8. Uncancelled'
  BY DEF Calm, Uncancelled
<1>9. CancelJustified'
  BY DEF Calm, CancelJustified, Waiting
<1>10. Signalled'
  BY <1>5 DEF Calm, Signalled, Spawning, Waiting
<1> QED
  BY <1>1, <1>2, <1>4, <1>6, <1>7, <1>8, <1>9, <1>10
-----------------------------------------------------------------------------
\* A step of a thread other than the model's, or of the model's that does not
\* come near the end of start, changes nothing in what is reported.
LEMMA NothingReported ==
    ASSUME GatewayAssumption, TypeOK, NEW t \in Threads, NEW from, NEW to, Go(t, from, to),
           from \notin {"send_stop", "sent", "exited"},
           to \notin {"send_stop", "sent", "exited"}
    PROVE  Reported' = Reported
BY GoMoves DEF Reported, GatewayAssumption

\* The steps of an activity before its last part are calm.
LEMMA ActivityCalm ==
    ASSUME GatewayAssumption, CInv, NEW t \in Threads, Activity(t), ~ActDone(t)
    PROVE  Calm(t)
<1> USE DEF CInv, IInv
<1>1. CASE ActBegin(t)
  BY <1>1, GoMoves, NothingReported DEF ActBegin, Call, Calm, InGate, Spawning, Waiting
<1>2. CASE ActPrepare(t)
  BY <1>2, GoMoves, NothingReported DEF ActPrepare, Calm, InGate, Spawning, Waiting
<1>3. CASE ActCall(t)
  BY <1>3, GoMoves, NothingReported DEF ActCall, Calm, InGate, Spawning, Waiting
<1>4. CASE ActCheck(t)
  BY <1>4, GoMoves, NothingReported DEF ActCheck, Calm, InGate, Spawning, Waiting
<1>5. CASE ActWake(t)
  BY <1>5, GoMoves, NothingReported DEF ActWake, Calm, InGate, Spawning, Waiting
<1>6. CASE ActWoken(t)
  BY <1>6, GoMoves, NothingReported DEF ActWoken, Calm, InGate, Spawning, Waiting
<1>7. CASE ActResume(t)
  BY <1>7, GoMoves, NothingReported DEF ActResume, Calm, InGate, Spawning, Waiting
<1>8. CASE ActError(t)
  BY <1>8, GoMoves, NothingReported, SetStoppingKeepsEvents
     DEF ActError, Calm, InGate, Spawning, Waiting
<1>9. CASE Failed(t)
  BY <1>9, GoMoves, NothingReported, SetStoppingKeepsEvents
     DEF Failed, Calm, InGate, Spawning, Waiting
<1> QED
  BY <1>1, <1>2, <1>3, <1>4, <1>5, <1>6, <1>7, <1>8, <1>9 DEF Activity

\* The steps of stop and terminate are calm.
LEMMA JumpCalm ==
    ASSUME GatewayAssumption, CInv, NEW t \in Threads, Jump(t)
    PROVE  Calm(t)
<1> USE DEF CInv, IInv
<1>1. ASSUME NEW jump \in Jumps, JumpCheck(t, jump)
      PROVE  Calm(t)
  <2>1. jump \in {"stop", "terminate"}
    BY DEF GatewayAssumption
  <2> QED
    BY <1>1, <2>1, GoMoves, NothingReported
       DEF JumpCheck, Call, Calm, InGate, Spawning, Waiting
<1>2. CASE StopSet(t)
  BY <1>2, GoMoves, NothingReported, SetStoppingKeepsEvents
     DEF StopSet, Calm, InGate, Spawning, Waiting
<1>3. CASE TerminateSet(t)
  BY <1>3, GoMoves, NothingReported DEF TerminateSet, Calm, InGate, Spawning, Waiting
<1> QED
  BY <1>1, <1>2, <1>3 DEF Jump

\* The steps at the end of start are calm: what is reported is not Running.
LEMMA StartCalm ==
    ASSUME GatewayAssumption, CInv, Start
    PROVE  Calm(Main)
<1> USE DEF CInv, IInv, GatewayAssumption
<1>1. CASE ModelEnds
  BY <1>1, GoMoves, NothingReported DEF ModelEnds, Calm, InGate, Spawning, Waiting
<1>2. CASE SetFinished
  BY <1>2, GoMoves DEF SetFinished, Calm, InGate, Spawning, Waiting, Reported
<1>3. CASE SetStopped
  BY <1>3, GoMoves DEF SetStopped, Calm, InGate, Spawning, Waiting, Reported
<1>4. CASE SendStop \/ Exit
  BY <1>4, GoMoves DEF SendStop, Exit, Calm, InGate, Spawning, Waiting, Reported
<1> QED
  BY <1>1, <1>2, <1>3, <1>4 DEF Start

\* The callback, the signal handler and the end move no thread.
LEMMA OthersCalm ==
    ASSUME GatewayAssumption, CInv, NEW t \in Threads,
           Answer(t) \/ SigCheck \/ StopWeel \/ Terminated \/ UNCHANGED vars
    PROVE  Calm(Main)
<1> USE DEF Calm, Reported
<1>1. CASE Answer(t)
  BY <1>1 DEF Answer
<1>2. CASE SigCheck
  BY <1>2 DEF SigCheck
<1>3. CASE SigSet
  BY <1>3, SetStoppingKeepsEvents DEF SigSet
<1>4. CASE SigRecv
  BY <1>4 DEF SigRecv
<1>5. CASE Terminated \/ UNCHANGED vars
  BY <1>5 DEF Terminated, vars
<1> QED
  BY <1>1, <1>2, <1>3, <1>4, <1>5 DEF StopWeel

\* recursive_join counts nothing.
LEMMA JoinCalm ==
    ASSUME GatewayAssumption, CInv, NEW t \in Threads, Join(t)
    PROVE  Calm(t)
BY DEF Join, JoinVisit, JoinReturn, Calm, Reported

\* The steps of a branch before its end are calm.
LEMMA BranchCalm ==
    ASSUME GatewayAssumption, CInv, NEW t \in Threads, Branch(t), ~BranchEnd(t)
    PROVE  Calm(t)
<1> USE DEF CInv, IInv
<1>1. CASE Arrive(t)
  BY <1>1, GoMoves, NothingReported DEF Arrive, Calm, InGate, Spawning, Waiting
<1>2. CASE Barrier(t)
  BY <1>2, GoMoves, NothingReported DEF Barrier, Calm, InGate, Spawning, Waiting
<1>3. CASE BranchStart(t)
  BY <1>3, GoMoves, NothingReported DEF BranchStart, Calm, InGate, Spawning, Waiting
<1>4. CASE LambdaEnds(t)
  BY <1>4, GoMoves, NothingReported DEF LambdaEnds, Calm, InGate, Spawning, Waiting
<1> QED
  BY <1>1, <1>2, <1>3, <1>4 DEF Branch
-----------------------------------------------------------------------------
\* A thread that enters a gateway has no branches left that could count.
LEMMA GateEnterCounts ==
    ASSUME GatewayAssumption, CInv, NEW t \in Threads, GateEnter(t)
    PROVE  Counters'
<1> USE DEF CInv, IInv, Goals, Counters
<1>1. /\ pc[t] = "run" /\ pc'[t] = "gate_lambda"
      /\ \A x \in Threads \ {t} : pc'[x] = pc[x]
  BY GoMoves DEF GateEnter, Call
<1>2. /\ branches'[t] = {} /\ finished'[t] = 0 /\ sender'[t] = TRUE
      /\ \A x \in Threads \ {t} : /\ branches'[x] = branches[x]
                                  /\ finished'[x] = finished[x]
                                  /\ sender'[x] = sender[x]
                                  /\ event'[x] = event[x]
  BY DEF GateEnter, TypeOK
<1>3. UNCHANGED <<wstate, parent, waitCount, threshold, cond, firstAct, unneeded>>
  BY DEF GateEnter
<1>4. Reported' = Reported
  BY <1>1 DEF Reported, GatewayAssumption
<1>5. ~Reported => wstate = "Running"
  BY DEF GateEnter, ShouldSkip, Terminating, Reports, TypeOK, States
<1>6. \A p \in Threads : Counting(p)' => Counting(p)
  BY <1>1, <1>3, <1>4, <1>5 DEF Counting
<1>7. Enrolled'
  <2> SUFFICES ASSUME NEW p \in Threads, NEW c \in Threads \ {Main}, parent[c] = p,
                      pc'[c] \notin {"unborn", "exited"}, Counting(p)'
               PROVE  c \in branches'[p]
    BY <1>3 DEF Enrolled
  <2>1. pc[c] \notin {"unborn", "exited"}
    BY <1>1
  <2>2. c \in branches[p]
    BY <1>6, <2>1 DEF Enrolled
  <2>3. p # t
    BY <1>1, <1>4, <1>5, <2>1, <2>2
       DEF Counting, StructuredParallelism, InGate, HasExited
  <2> QED
    BY <1>2, <2>2, <2>3
<1>8. FinishedCounts'
  <2> SUFFICES ASSUME NEW p \in Threads, Counting(p)'
               PROVE  finished'[p] = Cardinality(Ended(p)')
    BY DEF FinishedCounts
  <2>1. CASE p = t
    BY <1>2, <2>1, NoneCounted DEF Ended
  <2>2. CASE p # t
    <3>1. Ended(p)' = Ended(p)
      BY <1>1, <1>2, <2>2 DEF Ended, HasExited, TypeOK
    <3> QED
      BY <1>2, <1>6, <2>2, <3>1 DEF FinishedCounts
  <2> QED
    BY <2>1, <2>2
<1>9. WinnersCount'
  <2>1. \A p \in Threads \ {t} : Won(p)' = Won(p)
    BY <1>2, <1>3 DEF Won
  <2> QED
    BY <1>1, <1>3, <2>1 DEF WinnersCount, Spawning
<1>10. Signalled'
  <2>1. \A p \in Threads \ {t} : Ended(p)' = Ended(p)
    BY <1>1, <1>2 DEF Ended, HasExited, TypeOK
  <2> QED
    BY <1>1, <1>2, <1>4, <2>1 DEF Signalled
<1>11. Reports' /\ Fresh'
  BY <1>1, <1>3, <1>4 DEF Reports, Fresh
<1>12. Uncancelled'
  BY <1>1, <1>2, <1>3 DEF Uncancelled, Spawning
<1>13. CancelJustified'
  BY <1>1, <1>2, <1>3 DEF CancelJustified
<1> QED
  BY <1>7, <1>8, <1>9, <1>10, <1>11, <1>12, <1>13

\* A new branch has not ended, has won nothing and is not cancelled.
LEMMA SpawnCounts ==
    ASSUME GatewayAssumption, CInv, NEW t \in Threads, NEW c \in Threads, Spawn(t, c)
    PROVE  Counters'
<1> USE DEF CInv, IInv, Goals, Counters
<1>1. pc[t] = "spawn" /\ pc[c] = "unborn" /\ t # c /\ c # Main
  BY DEF Spawn, Kinship
<1>2. /\ pc'[t] = "gate_lambda" /\ pc'[c] = "born"
      /\ \A x \in Threads \ {t, c} : pc'[x] = pc[x]
  BY <1>1 DEF Spawn, TypeOK
<1>3. /\ branches'[t] = branches[t] \cup {c}
      /\ \A x \in Threads \ {t} : branches'[x] = branches[x]
      /\ parent'[c] = t
      /\ \A x \in Threads \ {c} : parent'[x] = parent[x]
  BY DEF Spawn, TypeOK
<1>4. UNCHANGED <<wstate, finished, waitCount, threshold, cond, firstAct, unneeded,
                  sender, event>>
  BY DEF Spawn
<1>5. Reported' = Reported
  BY <1>1, <1>2 DEF Reported, GatewayAssumption
<1>6. \A p \in Threads : Counting(p)' => Counting(p)
  BY <1>1, <1>2, <1>4, <1>5 DEF Counting, Spawning, Waiting
<1>7. \A p \in Threads : c \notin branches[p]
  BY <1>1 DEF Kinship
<1>8. \A p \in Threads : Ended(p)' = Ended(p)
  BY <1>1, <1>2, <1>3 DEF Ended, HasExited, TypeOK
<1>9. Enrolled'
  <2> SUFFICES ASSUME NEW p \in Threads, NEW x \in Threads \ {Main}, parent'[x] = p,
                      pc'[x] \notin {"unborn", "exited"}, Counting(p)'
               PROVE  x \in branches'[p]
    BY DEF Enrolled
  <2>1. CASE x = c
    BY <1>3, <2>1
  <2>2. CASE x # c
    <3>1. pc[x] \notin {"unborn", "exited"} /\ parent[x] = p
      BY <1>1, <1>2, <1>3, <2>2
    <3>2. x \in branches[p]
      BY <1>6, <3>1 DEF Enrolled
    <3> QED
      BY <1>3, <3>2
  <2> QED
    BY <2>1, <2>2
<1>10. FinishedCounts'
  BY <1>4, <1>6, <1>8 DEF FinishedCounts
<1>11. WinnersCount'
  <2>1. \A p \in Threads \ {t} : Won(p)' = Won(p)
    BY <1>3, <1>4 DEF Won
  <2> QED
    BY <1>1, <1>2, <1>4, <2>1 DEF WinnersCount, Spawning, InGate
<1>12. Signalled'
  <2>1. Ended(t)' # branches'[t]
    BY <1>3, <1>7, <1>8 DEF Ended
  <2> QED
    BY <1>1, <1>2, <1>3, <1>4, <1>5, <1>8, <2>1 DEF Signalled, Spawning, Waiting
<1>13. Reports' /\ Fresh'
  BY <1>1, <1>2, <1>3, <1>4, <1>5 DEF Reports, Fresh
<1>14. Uncancelled'
  BY <1>1, <1>2, <1>3, <1>4 DEF Uncancelled, Fresh, Spawning
<1>15. CancelJustified'
  BY <1>1, <1>2, <1>3, <1>4 DEF CancelJustified
<1> QED
  BY <1>9, <1>10, <1>11, <1>12, <1>13, <1>14, <1>15

\* A gateway is released with branches that have all yet to win.
LEMMA GateReleaseCounts ==
    ASSUME GatewayAssumption, CInv, NEW t \in Threads, NEW wait \in Waits,
           NEW cancel \in Conds, GateRelease(t, wait, cancel)
    PROVE  Counters'
<1> USE DEF CInv, IInv, Goals, Counters
<1>1. /\ pc[t] = "gate_lambda" /\ pc'[t] = "gate_check"
      /\ \A x \in Threads \ {t} : pc'[x] = pc[x]
  BY GoMoves DEF GateRelease
<1>2. /\ waitCount'[t] = 0
      /\ \A x \in Threads \ {t} : /\ waitCount'[x] = waitCount[x]
                                  /\ threshold'[x] = threshold[x]
                                  /\ cond'[x] = cond[x]
  BY DEF GateRelease, TypeOK
<1>3. UNCHANGED <<wstate, branches, sender, event, finished, parent, unneeded, firstAct>>
  BY DEF GateRelease
<1>4. Reported' = Reported
  BY <1>1 DEF Reported, GatewayAssumption
<1>5. \A p \in Threads : Counting(p)' => Counting(p)
  BY <1>1, <1>3, <1>4 DEF Counting, Spawning, Waiting
<1>6. \A p \in Threads : Ended(p)' = Ended(p)
  BY <1>1, <1>3 DEF Ended, HasExited, TypeOK
<1>7. Enrolled'
  BY <1>1, <1>3, <1>5 DEF Enrolled, Kinship
<1>8. FinishedCounts'
  BY <1>3, <1>5, <1>6 DEF FinishedCounts
<1>9. WinnersCount'
  <2>1. wstate = "Running" => Won(t) = {}
    BY <1>1 DEF Won, BarrierHolds, Fresh, TypeOK
  <2>2. \A p \in Threads : Won(p)' = Won(p)
    BY <1>3 DEF Won
  <2> QED
    BY <1>1, <1>2, <1>3, <2>1, <2>2, NoneCounted DEF WinnersCount
<1>10. Signalled'
  BY <1>1, <1>3, <1>4, <1>6 DEF Signalled, Spawning, Waiting
<1>11. Reports' /\ Fresh'
  BY <1>1, <1>3, <1>4 DEF Reports, Fresh
<1>12. Uncancelled' /\ CancelJustified'
  BY <1>1, <1>2, <1>3 DEF Uncancelled, CancelJustified, Spawning
<1> QED
  BY <1>7, <1>8, <1>9, <1>10, <1>11, <1>12

\* A gateway that closes cancels its own branches; it is past its wait.
LEMMA GateCloseCounts ==
    ASSUME GatewayAssumption, CInv, NEW t \in Threads, GateClose(t)
    PROVE  Counters'
<1> USE DEF CInv, IInv, Goals, Counters
<1>1. /\ pc[t] = "gate_close" /\ pc'[t] \in {"run", "gate_join"}
      /\ \A x \in Threads \ {t} : pc'[x] = pc[x]
      /\ pc'[t] = "run" => wstate # "Running"
  BY GoMoves DEF GateClose, Terminating
<1>2. \A c \in Threads : unneeded'[c] => unneeded[c] \/ c \in branches[t]
  BY DEF GateClose, TypeOK
<1>3. UNCHANGED <<wstate, branches, finished, waitCount, threshold, cond, parent, firstAct>>
  BY DEF GateClose
<1>4. /\ \A x \in Threads \ {t} : sender'[x] = sender[x]
      /\ \A x \in Threads : event[x] => event'[x]
  BY WakeKeepsEvents DEF GateClose, Continue, TypeOK
<1>5. Reported' = Reported
  BY <1>1 DEF Reported, GatewayAssumption
<1>6. \A p \in Threads : Counting(p)' => Counting(p)
  BY <1>1, <1>3, <1>5 DEF Counting, Spawning, Waiting
<1>7. \A p \in Threads : Ended(p)' = Ended(p) /\ Won(p)' = Won(p)
  BY <1>1, <1>3 DEF Ended, Won, HasExited, TypeOK
<1>8. \A p \in Threads \ {t} : \A c \in branches[p] : unneeded'[c] => unneeded[c]
  BY <1>2 DEF Kinship, TypeOK
<1>9. Enrolled'
  BY <1>1, <1>3, <1>6 DEF Enrolled
<1>10. FinishedCounts'
  BY <1>3, <1>6, <1>7 DEF FinishedCounts
<1>11. WinnersCount'
  BY <1>1, <1>3, <1>7 DEF WinnersCount, InGate, Spawning
<1>12. Reports' /\ Fresh'
  BY <1>1, <1>2, <1>3, <1>5 DEF Reports, Fresh, Kinship
<1>13. Uncancelled'
  BY <1>1, <1>3, <1>8 DEF Uncancelled, Spawning
<1>14. CancelJustified'
  BY <1>1, <1>3, <1>8 DEF CancelJustified
<1>15. Signalled'
  BY <1>1, <1>3, <1>4, <1>5, <1>7 DEF Signalled, Spawning, Waiting
<1> QED
  BY <1>9, <1>10, <1>11, <1>12, <1>13, <1>14, <1>15

\* A branch that ends counts once, for the gateway it belongs to; it cancels
\* its siblings when the wait is over, and tells the gateway when it is the
\* last one.
LEMMA BranchEndCounts ==
    ASSUME GatewayAssumption, CInv, NEW t \in Threads, BranchEnd(t)
    PROVE  Counters'
<1> USE DEF CInv, IInv, Goals, Counters
<1>1. /\ pc[t] = "branch_end" /\ pc'[t] = "exited"
      /\ \A x \in Threads \ {t} : pc'[x] = pc[x]
  BY GoMoves DEF BranchEnd
<1>2. PICK q \in Threads : t # Main /\ q = parent[t]
  BY <1>1 DEF Kinship
<1> DEFINE losers == IF SatisfiesLast(t) THEN NotDone(q) \ {t} ELSE {}
<1>3. /\ finished'[q] = finished[q] + 1
      /\ \A x \in Threads \ {q} : finished'[x] = finished[x]
      /\ finished[q] \in Nat /\ threshold[q] \in Nat
  BY <1>2 DEF BranchEnd, TypeOK
<1>4. UNCHANGED <<wstate, branches, sender, waitCount, threshold, cond, parent, firstAct>>
  BY DEF BranchEnd
<1>5. \A x \in Threads : event[x] => event'[x]
  BY WakeKeepsEvents DEF BranchEnd
<1>6. EndsLast(t) /\ sender[q] => event'[q]
  BY <1>2 DEF BranchEnd, Wake
<1>7. \A c \in Threads : unneeded'[c] => unneeded[c] \/ c \in losers
  BY <1>2 DEF BranchEnd, TypeOK
<1>8. losers \subseteq branches[q]
  BY DEF NotDone
<1>9. Reported' = Reported
  BY <1>1, <1>2 DEF Reported
<1>10. \A p \in Threads : Counting(p)' => Counting(p)
  BY <1>1, <1>4, <1>9 DEF Counting, Spawning, Waiting
<1>11. Counting(q) => t \in branches[q]
  BY <1>1, <1>2 DEF Enrolled
<1>12. \A p \in Threads \ {q} : t \notin branches[p]
  BY <1>2 DEF Kinship
<1>13. \A p \in Threads \ {q} : Ended(p)' = Ended(p)
  BY <1>1, <1>4, <1>12 DEF Ended, HasExited, TypeOK
<1>14. t \in branches[q] => /\ Ended(q)' = Ended(q) \cup {t}
                            /\ t \notin Ended(q)
                            /\ Cardinality(Ended(q)') = Cardinality(Ended(q)) + 1
  <2> SUFFICES ASSUME t \in branches[q]
               PROVE  /\ Ended(q)' = Ended(q) \cup {t}
                      /\ t \notin Ended(q)
                      /\ Cardinality(Ended(q)') = Cardinality(Ended(q)) + 1
    OBVIOUS
  <2>1. Ended(q)' = Ended(q) \cup {t} /\ t \notin Ended(q)
    BY <1>1, <1>4 DEF Ended, HasExited, TypeOK
  <2>2. Ended(q) \in SUBSET Threads
    BY <1>2 DEF Ended, TypeOK
  <2> QED
    BY <2>1, <2>2, OneMore
<1>15. \A p \in Threads : Won(p)' = Won(p)
  BY <1>4 DEF Won
<1>16. Enrolled'
  BY <1>1, <1>4, <1>10 DEF Enrolled
<1>17. FinishedCounts'
  <2> SUFFICES ASSUME NEW p \in Threads, Counting(p)'
               PROVE  finished'[p] = Cardinality(Ended(p)')
    BY DEF FinishedCounts
  <2>1. Counting(p) /\ finished[p] = Cardinality(Ended(p))
    BY <1>10 DEF FinishedCounts
  <2> QED
    BY <1>2, <1>3, <1>11, <1>13, <1>14, <2>1
<1>18. WinnersCount'
  BY <1>1, <1>4, <1>15 DEF WinnersCount, InGate, Spawning
<1>19. Reports' /\ Fresh'
  BY <1>1, <1>4, <1>7, <1>8, <1>9 DEF Reports, Fresh, Kinship
<1>20. wstate = "Running" /\ pc[q] \in Spawning => losers = {}
  BY <1>1, <1>2, <1>11 DEF Counting, BarrierHolds, Spawning, Reports
<1>21. Uncancelled'
  <2> SUFFICES ASSUME wstate' = "Running", NEW p \in Threads, NEW c \in branches'[p],
                      pc'[p] \in Spawning
               PROVE  ~unneeded'[c]
    BY DEF Uncancelled
  <2>1. wstate = "Running" /\ pc[p] \in Spawning /\ c \in branches[p] /\ c \in Threads
    BY <1>1, <1>4 DEF Spawning, TypeOK
  <2>2. c \notin losers
    BY <1>2, <1>8, <1>20, <2>1 DEF Kinship
  <2> QED
    BY <1>7, <2>1, <2>2 DEF Uncancelled
<1>22. CancelJustified'
  <2> SUFFICES ASSUME wstate' = "Running", NEW p \in Threads, NEW c \in branches'[p],
                      pc'[p] \in Waiting, unneeded'[c]
               PROVE  CASE cond'[p] = "last"  -> finished'[p] >= threshold'[p]
                        [] cond'[p] = "first" -> waitCount'[p] >= threshold'[p] /\ firstAct'[c]
    BY DEF CancelJustified, Waiting
  <2>1. wstate = "Running" /\ pc[p] \in Waiting /\ c \in branches[p] /\ c \in Threads
    BY <1>1, <1>4 DEF Waiting, TypeOK
  <2>2. finished'[p] >= finished[p] /\ finished[p] \in Nat /\ threshold[p] \in Nat
        /\ finished'[p] \in Nat
    BY <1>2, <1>3 DEF TypeOK
  <2>3. CASE unneeded[c]
    <3>1. CASE cond[p] = "last"
      <4>1. finished[p] >= threshold[p]
        BY <2>1, <2>3, <3>1 DEF CancelJustified, Waiting
      <4> QED
        BY <1>4, <2>2, <3>1, <4>1
    <3>2. CASE cond[p] = "first"
      BY <1>4, <2>1, <2>3, <3>2 DEF CancelJustified, Waiting
    <3> QED
      BY <3>1, <3>2 DEF TypeOK
  <2>4. CASE ~unneeded[c]
    <3>1. c \in losers
      BY <1>7, <2>1, <2>4
    <3>2. p = q
      BY <1>8, <1>2, <2>1, <3>1 DEF Kinship
    <3>3. SatisfiesLast(t)
      BY <3>1
    <3> QED
      BY <1>2, <1>3, <1>4, <3>2, <3>3 DEF SatisfiesLast
  <2> QED
    BY <2>3, <2>4
<1>23. Signalled'
  <2> SUFFICES ASSUME NEW p \in Threads
               PROVE  /\ pc'[p] \in Spawning \cup Waiting => sender'[p]
                      /\ pc'[p] = "gate_recv" => branches'[p] # {}
                      /\ ~Reported' /\ pc'[p] \in Spawning \cup Waiting
                         /\ branches'[p] # {} /\ Ended(p)' = branches'[p] => event'[p]
    BY DEF Signalled
  <2>1. pc'[p] \in Spawning \cup Waiting => pc[p] = pc'[p]
    BY <1>1 DEF Spawning, Waiting
  <2>2. /\ pc'[p] \in Spawning \cup Waiting => sender'[p]
        /\ pc'[p] = "gate_recv" => branches'[p] # {}
    BY <1>1, <1>4, <2>1 DEF Signalled
  <2>3. ASSUME ~Reported', pc'[p] \in Spawning \cup Waiting,
               branches'[p] # {}, Ended(p)' = branches'[p]
        PROVE  event'[p]
    <3>1. CASE p # q
      BY <1>4, <1>5, <1>9, <1>13, <2>1, <2>3, <3>1 DEF Signalled
    <3>2. CASE p = q
      <4>1. Counting(q) /\ sender[q]
        BY <1>9, <2>1, <2>3, <3>2 DEF Counting, Signalled
      <4>2. finished[q] + 1 = Cardinality(branches[q]) /\ t \in branches[q]
        BY <1>2, <1>4, <1>11, <1>14, <2>3, <3>2, <4>1 DEF FinishedCounts
      <4> QED
        BY <1>2, <1>6, <3>2, <4>1, <4>2 DEF EndsLast
    <3> QED
      BY <3>1, <3>2
  <2> QED
    BY <2>2, <2>3
<1> QED
  BY <1>16, <1>17, <1>18, <1>19, <1>21, <1>22, <1>23

\* The end of an activity makes at most its own branch a winner, while there
\* are winners to be found, and the last winner cancels who has not won.
LEMMA ActDoneCounts ==
    ASSUME GatewayAssumption, CInv, NEW t \in Threads, ActDone(t)
    PROVE  Counters'
<1> USE DEF CInv, IInv, Goals, Counters
<1>1. /\ pc[t] = "act_done" /\ pc'[t] = "run"
      /\ \A x \in Threads \ {t} : pc'[x] = pc[x]
  BY GoMoves DEF ActDone
<1>2. UNCHANGED <<wstate, branches, sender, finished, threshold, cond, parent>>
  BY DEF ActDone
<1>3. Reported' = Reported
  BY <1>1 DEF Reported, GatewayAssumption
<1>4. CASE parent[t] = NoThread
  <2>1. UNCHANGED <<waitCount, firstAct, unneeded, event>>
    BY <1>4 DEF ActDone
  <2>2. Calm(t)
    BY <1>1, <1>2, <1>3, <2>1 DEF Calm, InGate, Spawning, Waiting
  <2> QED
    BY <2>2, CalmKeeps
<1>5. CASE parent[t] # NoThread
  <2>1. PICK q \in Threads : t # Main /\ q = parent[t]
    BY <1>5 DEF Fresh, TypeOK
  <2>2. /\ firstAct'[t] = (firstAct[t] /\ ~Wins(t))
        /\ \A x \in Threads \ {t} : firstAct'[x] = firstAct[x]
    BY <1>5 DEF ActDone, TypeOK
  <2>3. /\ waitCount'[q] = Winners(t)
        /\ \A x \in Threads \ {q} : waitCount'[x] = waitCount[x]
        /\ waitCount[q] \in Nat /\ threshold[q] \in Nat
    BY <1>5, <2>1 DEF ActDone, TypeOK
  <2>4. \A c \in Threads : unneeded'[c] => unneeded[c] \/ c \in Losers(t)
    BY <1>5 DEF ActDone, TypeOK
  <2>5. \A x \in Threads : event[x] => event'[x]
    BY <1>5, WakeKeepsEvents DEF ActDone, Continue
  <2>6. \A c \in Losers(t) : /\ c \in branches[q] /\ c \in Threads
                            /\ firstAct'[c] = TRUE
                            /\ Winners(t) = threshold[q]
    BY <2>1, <2>2 DEF Losers, TypeOK
  <2>7. Wins(t) => cond[q] = "first" /\ firstAct[t] = TRUE /\ waitCount[q] < threshold[q]
    BY <2>1 DEF Wins, TypeOK
  <2>8. Winners(t) = waitCount[q] + (IF Wins(t) THEN 1 ELSE 0)
    BY <2>1 DEF Winners
  <2>9. \A p \in Threads : Counting(p)' => Counting(p)
    BY <1>1, <1>2, <1>3 DEF Counting, Spawning, Waiting
  <2>10. wstate = "Running" => /\ t \in branches[q]
                               /\ pc[q] \in InGate \ Spawning
    BY <1>1, <2>1 DEF Counting, Enrolled, Reports, StructuredParallelism, BarrierHolds,
       HasExited, Spawning
  <2>11. \A p \in Threads \ {q} : \A c \in branches[p] : c # t /\ c \notin Losers(t)
    BY <2>1, <2>6 DEF Kinship
  <2>12. \A p \in Threads : Ended(p)' = Ended(p)
    BY <1>1, <1>2 DEF Ended, HasExited, TypeOK
  <2>13. \A p \in Threads \ {q} : Won(p)' = Won(p)
    BY <1>2, <2>2, <2>11 DEF Won, TypeOK
  <2>14. t \in branches[q] => Cardinality(Won(q)') = Cardinality(Won(q)) + (IF Wins(t) THEN 1 ELSE 0)
    <3> SUFFICES ASSUME t \in branches[q]
                 PROVE  Cardinality(Won(q)') = Cardinality(Won(q)) + (IF Wins(t) THEN 1 ELSE 0)
      OBVIOUS
    <3>1. Won(q) \in SUBSET Threads /\ Cardinality(Won(q)) \in Nat
      BY BranchesCounted DEF Won, TypeOK
    <3>2. CASE Wins(t)
      <4>1. firstAct[t] /\ ~firstAct'[t]
        BY <2>2, <2>7, <3>2
      <4>2. Won(q)' = Won(q) \cup {t} /\ t \notin Won(q)
        BY <1>2, <2>2, <4>1 DEF Won, TypeOK
      <4> QED
        BY <3>1, <3>2, <4>2, OneMore
    <3>3. CASE ~Wins(t)
      <4>1. Won(q)' = Won(q)
        BY <1>2, <2>2, <3>3 DEF Won, TypeOK
      <4> QED
        BY <3>1, <3>3, <4>1
    <3> QED
      BY <3>2, <3>3
  <2>15. Enrolled'
    BY <1>1, <1>2, <2>9 DEF Enrolled
  <2>16. FinishedCounts'
    BY <1>2, <2>9, <2>12 DEF FinishedCounts
  <2>17. WinnersCount'
    <3> SUFFICES ASSUME wstate' = "Running", NEW p \in Threads, pc'[p] \in InGate \ Spawning
                 PROVE  /\ waitCount'[p] = Cardinality(Won(p)')
                        /\ cond'[p] = "last" => waitCount'[p] = 0
      BY DEF WinnersCount
    <3>1. /\ waitCount[p] = Cardinality(Won(p))
          /\ cond[p] = "last" => waitCount[p] = 0
      BY <1>1, <1>2 DEF WinnersCount, InGate
    <3>2. CASE p = q
      BY <1>2, <2>3, <2>7, <2>8, <2>10, <2>14, <3>1, <3>2
    <3>3. CASE p # q
      BY <1>2, <2>3, <2>13, <3>1, <3>3
    <3> QED
      BY <3>2, <3>3
  <2>18. Reports' /\ Fresh'
    <3>1. Reports'
      BY <1>2, <1>3 DEF Reports
    <3>2. Fresh'
      BY <1>1, <1>2, <2>2, <2>4, <2>6 DEF Fresh, Kinship
    <3> QED
      BY <3>1, <3>2
  <2>19. Uncancelled'
    BY <1>1, <1>2, <2>4, <2>10, <2>11 DEF Uncancelled, Spawning, TypeOK
  <2>20. CancelJustified'
    <3> SUFFICES ASSUME wstate' = "Running", NEW p \in Threads, NEW c \in branches'[p],
                        pc'[p] \in Waiting, unneeded'[c]
                 PROVE  CASE cond'[p] = "last"  -> finished'[p] >= threshold'[p]
                          [] cond'[p] = "first" -> waitCount'[p] >= threshold'[p] /\ firstAct'[c]
      BY DEF CancelJustified, Waiting
    <3>1. /\ wstate = "Running" /\ pc[p] \in Waiting
          /\ c \in branches[p] /\ c \in Threads
          /\ cond'[p] = cond[p] /\ threshold'[p] = threshold[p] /\ finished'[p] = finished[p]
      BY <1>1, <1>2 DEF Waiting, TypeOK
    <3>2. CASE cond[p] = "last"
      <4>1. finished[p] >= threshold[p]
        <5>1. CASE unneeded[c]
          BY <3>1, <3>2, <5>1 DEF CancelJustified, Waiting
        <5>2. CASE ~unneeded[c]
          <6>1. p = q /\ Winners(t) = threshold[q]
            BY <2>4, <2>6, <2>11, <3>1, <5>2
          <6>2. waitCount[q] = 0
            BY <2>10, <3>1, <3>2, <6>1 DEF WinnersCount
          <6>3. threshold[q] = 0
            BY <2>7, <2>8, <3>2, <6>1, <6>2
          <6> QED
            BY <6>1, <6>3 DEF TypeOK
        <5> QED
          BY <5>1, <5>2
      <4> QED
        BY <3>1, <3>2, <4>1
    <3>3. CASE cond[p] = "first"
      <4>1. waitCount'[p] >= threshold[p] /\ firstAct'[c]
        <5>1. CASE unneeded[c]
          <6>1. waitCount[p] >= threshold[p] /\ firstAct[c]
            BY <3>1, <3>3, <5>1 DEF CancelJustified, Waiting
          <6>2. waitCount[p] \in Nat /\ threshold[p] \in Nat /\ waitCount'[p] >= waitCount[p]
                /\ waitCount'[p] \in Nat
            BY <2>3, <2>8 DEF TypeOK
          <6>3. c = t => p = q
            BY <2>11, <3>1
          <6>4. c = t => ~Wins(t)
            BY <2>7, <6>1, <6>2, <6>3
          <6>5. firstAct'[c]
            BY <2>2, <3>1, <6>1, <6>4
          <6> QED
            BY <2>3, <6>1, <6>2, <6>5 DEF TypeOK
        <5>2. CASE ~unneeded[c]
          BY <2>3, <2>4, <2>6, <2>11, <3>1, <5>2
        <5> QED
          BY <5>1, <5>2
      <4> QED
        BY <3>1, <3>3, <4>1
    <3> QED
      BY <3>2, <3>3 DEF TypeOK
  <2>21. Signalled'
    BY <1>1, <1>2, <1>3, <2>5, <2>12 DEF Signalled, Spawning, Waiting
  <2> QED
    BY <2>15, <2>16, <2>17, <2>18, <2>19, <2>20, <2>21
<1> QED
  BY <1>4, <1>5
-----------------------------------------------------------------------------
\* The steps of a gateway that count, cancel and spawn nothing.
LEMMA GateCounts ==
    ASSUME GatewayAssumption, CInv, NEW t \in Threads, Gate(t)
    PROVE  Counters'
<1> USE DEF CInv, IInv
<1>1. CASE SpawnCheck(t)
  BY <1>1, GoMoves, NothingReported, CalmKeeps DEF SpawnCheck, Calm, InGate, Spawning, Waiting
<1>2. CASE GateCheck(t)
  <2>1. Calm(t)
    BY <1>2, GoMoves, NothingReported DEF GateCheck, Calm, InGate, Spawning, Waiting
  <2> QED
    BY <2>1, CalmKeeps
<1>3. CASE GateRecv(t)
  <2>1. pc[t] = "gate_recv" /\ pc'[t] = "gate_close" /\ \A x \in Threads \ {t} : event'[x] = event[x]
    BY <1>3, GoMoves DEF GateRecv, TypeOK
  <2>2. Calm(t)
    BY <1>3, <2>1, GoMoves, NothingReported DEF GateRecv, Calm, InGate, Spawning, Waiting
  <2> QED
    BY <2>2, CalmKeeps
<1>4. CASE GateJoined(t)
  BY <1>4, GoMoves, NothingReported, CalmKeeps DEF GateJoined, Calm, InGate, Spawning, Waiting
<1> QED
  BY <1>1, <1>2, <1>3, <1>4, GateEnterCounts, SpawnCounts, GateReleaseCounts, GateCloseCounts
     DEF Gate

\* The initial state satisfies the invariant.
LEMMA InitCInv ==
    ASSUME GatewayAssumption, Init
    PROVE  CInv
<1>1. \A p \in Threads : Ended(p) = {} /\ finished[p] = 0
  BY DEF Init, Ended
<1>2. FinishedCounts
  BY <1>1, NoneCounted DEF FinishedCounts
<1>3. Counters
  BY <1>2 DEF Init, Counters, Reports, Reported, Fresh, Enrolled, Counting, WinnersCount,
     Uncancelled, CancelJustified, Signalled, InGate, Spawning, Waiting, GatewayAssumption
<1> QED
  BY <1>3, InitIInv DEF CInv

\* Every step keeps it.
LEMMA NextCInv ==
    ASSUME GatewayAssumption, CInv, [Next]_vars
    PROVE  CInv'
<1>1. IInv'
  BY NextIInv DEF CInv
<1> SUFFICES Counters'
  BY <1>1 DEF CInv
<1>2. ASSUME NEW t \in Threads, Gate(t)
      PROVE  Counters'
  BY <1>2, GateCounts
<1>3. ASSUME NEW t \in Threads, Join(t)
      PROVE  Counters'
  BY <1>3, JoinCalm, CalmKeeps
<1>4. ASSUME NEW t \in Threads, Branch(t)
      PROVE  Counters'
  BY <1>4, BranchCalm, CalmKeeps, BranchEndCounts
<1>5. ASSUME NEW t \in Threads, Activity(t)
      PROVE  Counters'
  BY <1>5, ActivityCalm, CalmKeeps, ActDoneCounts
<1>6. ASSUME NEW t \in Threads, Jump(t)
      PROVE  Counters'
  BY <1>6, JumpCalm, CalmKeeps
<1>7. CASE Start
  BY <1>7, StartCalm, CalmKeeps DEF GatewayAssumption
<1>8. ASSUME NEW t \in Threads, Answer(t)
      PROVE  Counters'
  BY <1>8, OthersCalm, CalmKeeps DEF GatewayAssumption
<1>9. CASE SigCheck \/ StopWeel \/ Terminated \/ UNCHANGED vars
  BY <1>9, OthersCalm, CalmKeeps DEF GatewayAssumption
<1> QED
  BY <1>2, <1>3, <1>4, <1>5, <1>6, <1>7, <1>8, <1>9 DEF Next, Step

\* The invariant of the counters holds throughout.
THEOREM CountersInductive == Spec => []CInv
BY GatewayAssumption, InitCInv, NextCInv, PTL DEF Spec

\* While the instance runs, the two counters of every gateway, also of a later
\* one of the same thread, agree with its branches (branch_finished_count and
\* branch_wait_count in parallel_branch and parallel_gateway_update).
THEOREM CountersAreRight == Spec => []CountersAgree
<1>1. CInv => CountersAgree
  <2> SUFFICES ASSUME CInv, wstate = "Running", NEW t \in Threads
               PROVE  /\ finished[t] = Cardinality(Ended(t))
                      /\ pc[t] \in InGate \ Spawning => waitCount[t] = Cardinality(Won(t))
    BY DEF CountersAgree, Ended, Won, Spawning
  <2> QED
    BY DEF CInv, Counters, Reports, Counting, FinishedCounts, WinnersCount
<1> QED
  BY <1>1, CountersInductive, PTL

\* A branch is cancelled by its siblings only when its gateway's wait is over,
\* and never a winner of a "first" gateway (parallel_gateway_update and the
\* last critical section of parallel_branch).
THEOREM CancelIsJustified == Spec => []CancelJustified
<1>1. CInv => CancelJustified
  BY DEF CInv, Counters
<1> QED
  BY <1>1, CountersInductive, PTL

\* No gateway waits for a message that its last branch failed to send, however
\* the branches end and the instance is stopped (branch_event_sender).
THEOREM EndSignalReachesGateway == Spec => []EndIsSignalled
<1>1. CInv => EndIsSignalled
  BY DEF CInv, Counters, Signalled, EndIsSignalled, Ended, Waiting
<1> QED
  BY <1>1, CountersInductive, PTL
-----------------------------------------------------------------------------
\* A set of numbers with 0 and with the next of each has them all.
LEMMA AllNumbers ==
    ASSUME NEW S, 0 \in S, \A n \in Nat : n \in S => n + 1 \in S
    PROVE  Nat \subseteq S
<1> DEFINE T == Nat \ S
<1> SUFFICES ASSUME T # {}
             PROVE  FALSE
  OBVIOUS
<1>1. PICK x \in T : \A y \in T : ~ (<<y, x>> \in OpToRel(<, Nat))
  BY NatLessThanWellFounded, WFMin
<1>2. x \in Nat /\ x # 0 /\ x - 1 \in Nat /\ x - 1 < x
  OBVIOUS
<1>3. x - 1 \notin T
  BY <1>1, <1>2 DEF OpToRel
<1> QED
  BY <1>2, <1>3

\* A set of threads and their branches
WithBranches(B, S) == S \cup UNION {B[u] : u \in S}

\* Members of that set
LEMMA InWithBranches ==
    ASSUME NEW B, NEW S, NEW x
    PROVE  x \in WithBranches(B, S) <=> x \in S \/ \E u \in S : x \in B[u]
BY DEF WithBranches

\* The threads that are at most n steps below t when B are the branches
IsReach(B, t, k, r) ==
    r = [n \in 0 .. k |-> IF n = 0 THEN {t} ELSE WithBranches(B, r[n-1])]

\* What the threads at most n + 1 steps below are, from those at most n below
LEMMA ReachSteps ==
    ASSUME NEW B, NEW t, NEW k \in Nat, NEW r, IsReach(B, t, k, r)
    PROVE  /\ r[0] = {t}
           /\ \A n \in Nat : n + 1 \in 0 .. k => n \in 0 .. k /\ r[n+1] = WithBranches(B, r[n])
<1>1. r[0] = {t}
  BY DEF IsReach
<1>2. ASSUME NEW n \in Nat, n + 1 \in 0 .. k
      PROVE  n \in 0 .. k /\ r[n+1] = WithBranches(B, r[n])
  <2>1. r[n+1] = WithBranches(B, r[(n+1)-1])
    <3>1. n + 1 # 0
      OBVIOUS
    <3> QED
      BY <1>2, <3>1 DEF IsReach
  <2>2. (n + 1) - 1 = n /\ n \in 0 .. k
    BY <1>2
  <2> QED
    BY <2>1, <2>2
<1> QED
  BY <1>1, <1>2

\* The recursion has a solution, for any branches and any number of steps.
LEMMA ReachExists ==
    ASSUME NEW B, NEW t
    PROVE  \A k \in Nat : \E r : IsReach(B, t, k, r)
<1> DEFINE S == {k \in Nat : \E r : IsReach(B, t, k, r)}
<1>1. 0 \in S
  <2> DEFINE r == [n \in 0 .. 0 |-> {t}]
  <2>1. IsReach(B, t, 0, r)
    BY DEF IsReach
  <2> QED
    BY <2>1
<1>2. ASSUME NEW k \in Nat, k \in S
      PROVE  k + 1 \in S
  <2>1. PICK r : IsReach(B, t, k, r)
    BY <1>2
  <2> DEFINE q == [n \in 0 .. k + 1 |-> IF n <= k THEN r[n]
                                        ELSE WithBranches(B, r[k])]
  <2>2. ASSUME NEW n \in 0 .. k + 1
        PROVE  q[n] = IF n = 0 THEN {t} ELSE WithBranches(B, q[n-1])
    <3>1. CASE n = 0
      BY <2>1, <3>1 DEF IsReach
    <3>2. CASE n # 0 /\ n <= k
      <4>1. n \in 0 .. k /\ n - 1 \in 0 .. k /\ n - 1 \in 0 .. k + 1 /\ n - 1 <= k
        BY <3>2
      <4>2. r[n] = WithBranches(B, r[n-1])
        BY <2>1, <3>2, <4>1 DEF IsReach
      <4>3. q[n] = r[n] /\ q[n-1] = r[n-1]
        BY <3>2, <4>1
      <4> QED
        BY <3>2, <4>2, <4>3
    <3>3. CASE n = k + 1
      <4>1. q[n] = WithBranches(B, r[k])
        BY <3>3
      <4>2. n - 1 = k /\ k \in 0 .. k + 1
        BY <3>3
      <4>3. q[n-1] = r[k]
        BY <4>2
      <4> QED
        BY <3>3, <4>1, <4>3
    <3> QED
      BY <3>1, <3>2, <3>3
  <2>3. q = [n \in 0 .. k + 1 |-> q[n]]
    OBVIOUS
  <2> HIDE DEF q
  <2>4. IsReach(B, t, k + 1, q)
    BY <2>2, <2>3 DEF IsReach
  <2> QED
    BY <2>4
<1>3. Nat \subseteq S
  BY <1>1, <1>2, AllNumbers
<1> QED
  BY <1>3

\* What Subtree computes, for any branches
Reached(B, t) == LET k == Cardinality(Threads)
                 IN  (CHOOSE r : IsReach(B, t, k, r))[k]

\* Subtree computes it, before and after a step.
LEMMA SubtreeReached ==
    ASSUME GatewayAssumption, NEW t \in Threads
    PROVE  /\ Subtree(t) = Reached(branches, t)
           /\ Subtree(t)' = Reached(branches', t)
BY DEF Subtree, IsReach, WithBranches, Reached

\* What Subtree computes is such a solution.
LEMMA ReachedIsReach ==
    ASSUME GatewayAssumption, NEW B, NEW t, NEW k, k = Cardinality(Threads)
    PROVE  k \in Nat /\ \E r : IsReach(B, t, k, r) /\ Reached(B, t) = r[k]
<1>1. k \in Nat
  BY BranchesCounted
<1> DEFINE reach == CHOOSE r : IsReach(B, t, k, r)
<1>2. IsReach(B, t, k, reach)
  BY <1>1, ReachExists
<1>3. Reached(B, t) = reach[k]
  BY DEF Reached
<1> QED
  BY <1>1, <1>2, <1>3

\* A set that is closed under branches is not left.
LEMMA ReachedInside ==
    ASSUME GatewayAssumption, NEW B, NEW X, NEW t \in X, \A u \in X : B[u] \subseteq X
    PROVE  Reached(B, t) \subseteq X
<1>1. PICK k : k = Cardinality(Threads) /\ k \in Nat
  BY BranchesCounted
<1>2. PICK r : IsReach(B, t, k, r) /\ Reached(B, t) = r[k]
  BY <1>1, ReachedIsReach
<1>3. /\ r[0] = {t}
      /\ \A n \in Nat : n + 1 \in 0 .. k => n \in 0 .. k /\ r[n+1] = WithBranches(B, r[n])
  BY <1>1, <1>2, ReachSteps
<1> DEFINE S == {n \in Nat : n \in 0 .. k => r[n] \subseteq X}
<1>4. 0 \in S
  BY <1>3
<1>5. ASSUME NEW n \in Nat, n \in S
      PROVE  n + 1 \in S
  BY <1>3, <1>5, InWithBranches
<1>6. Nat \subseteq S
  BY <1>4, <1>5, AllNumbers
<1> QED
  BY <1>1, <1>2, <1>6

\* If only what is in Gone is cut off, everything else is reached as before.
LEMMA ReachedKept ==
    ASSUME GatewayAssumption, NEW B, NEW C, NEW Gone, NEW t \in Threads,
           \A u \in Threads : B[u] \subseteq Threads,
           \A u \in Threads : \A x \in B[u] \ Gone : u \notin Gone /\ x \in C[u]
    PROVE  Reached(B, t) \ Gone \subseteq Reached(C, t)
<1>1. PICK k : k = Cardinality(Threads) /\ k \in Nat
  BY BranchesCounted
<1>2. PICK r : IsReach(B, t, k, r) /\ Reached(B, t) = r[k]
  BY <1>1, ReachedIsReach
<1>3. PICK q : IsReach(C, t, k, q) /\ Reached(C, t) = q[k]
  BY <1>1, ReachedIsReach
<1>4. /\ r[0] = {t}
      /\ \A n \in Nat : n + 1 \in 0 .. k => n \in 0 .. k /\ r[n+1] = WithBranches(B, r[n])
  BY <1>1, <1>2, ReachSteps
<1>5. /\ q[0] = {t}
      /\ \A n \in Nat : n + 1 \in 0 .. k => n \in 0 .. k /\ q[n+1] = WithBranches(C, q[n])
  BY <1>1, <1>3, ReachSteps
<1> DEFINE S == {n \in Nat : n \in 0 .. k => r[n] \subseteq Threads /\ r[n] \ Gone \subseteq q[n]}
<1>6. 0 \in S
  BY <1>4, <1>5
<1>7. ASSUME NEW n \in Nat, n \in S
      PROVE  n + 1 \in S
  <2> SUFFICES ASSUME n + 1 \in 0 .. k
               PROVE  r[n+1] \subseteq Threads /\ r[n+1] \ Gone \subseteq q[n+1]
    OBVIOUS
  <2>1. r[n] \subseteq Threads /\ r[n] \ Gone \subseteq q[n]
    BY <1>4, <1>7
  <2> QED
    BY <1>4, <1>5, <2>1, InWithBranches
<1>8. Nat \subseteq S
  BY <1>6, <1>7, AllNumbers
<1> QED
  BY <1>1, <1>2, <1>3, <1>8

-----------------------------------------------------------------------------
\* Has somebody cancelled the thread or one that it runs for?
Cancelled(t) == \E a \in Ancestry(t) : unneeded[a]

\* What is in the channel of a gateway comes from its last branch or from a
\* cancellation.
EventExplained ==
    wstate = "Running" =>
        \A t \in Threads :
            /\ pc[t] \in Spawning /\ event[t] => Cancelled(t)
            /\ pc[t] \in Waiting /\ event[t] => Cancelled(t) \/ Ended(t) = branches[t]

EInv == CInv /\ EventExplained

\* Outside of a gateway only ended threads are below a thread.
LEMMA BelowHasEnded ==
    ASSUME GatewayAssumption, CInv, wstate = "Running", NEW t \in Threads, pc[t] \notin InGate
    PROVE  \A x \in Subtree(t) : x = t \/ HasExited(x)
<1> USE DEF CInv, IInv, Goals
<1> DEFINE X == {x \in Threads : x = t \/ HasExited(x)}
<1>1. \A u \in X : branches[u] \subseteq X
  BY DEF StructuredParallelism, HasExited, InGate, TypeOK
<1>2. Reached(branches, t) \subseteq X
  BY <1>1, ReachedInside
<1> QED
  BY <1>2, SubtreeReached

\* A thread that runs stays below those it was below.
LEMMA AncestryKept ==
    ASSUME GatewayAssumption, CInv, wstate = "Running",
           \A u \in Threads : \A x \in branches[u] : ~HasExited(x) => x \in branches'[u],
           NEW t \in Threads, ~HasExited(t)
    PROVE  Ancestry(t) \subseteq Ancestry(t)'
<1> USE DEF CInv, IInv, Goals
<1> DEFINE Gone == {x \in Threads : HasExited(x)}
<1> SUFFICES ASSUME NEW a \in Threads, t \in Subtree(a)
             PROVE  t \in Subtree(a)'
  BY DEF Ancestry
<1>1. \A u \in Threads : branches[u] \subseteq Threads
  BY DEF TypeOK
<1>2. \A u \in Threads : \A x \in branches[u] \ Gone : u \notin Gone /\ x \in branches'[u]
  BY <1>1 DEF StructuredParallelism, HasExited, InGate
<1>3. Reached(branches, a) \ Gone \subseteq Reached(branches', a)
  BY <1>1, <1>2, ReachedKept
<1> QED
  BY <1>3, SubtreeReached

\* Nobody takes a cancellation back.
LEMMA CancelledKept ==
    ASSUME GatewayAssumption, CInv, wstate = "Running",
           \A u \in Threads : \A x \in branches[u] : ~HasExited(x) => x \in branches'[u],
           \A x \in Threads : unneeded[x] => unneeded'[x],
           NEW t \in Threads, ~HasExited(t), Cancelled(t)
    PROVE  Cancelled(t)'
<1>1. PICK a \in Ancestry(t) : unneeded[a]
  BY DEF Cancelled
<1>2. a \in Threads
  BY <1>1 DEF Ancestry
<1> QED
  BY <1>1, <1>2, AncestryKept DEF Cancelled

\* The threads below those that a step cancels are cancelled with it.
LEMMA BelowIsCancelled ==
    ASSUME NEW S \in SUBSET Threads, \A c \in S : unneeded'[c],
           UNCHANGED branches, NEW t \in Threads, t \in Subtrees(S)
    PROVE  Cancelled(t)'
<1>1. PICK c \in S : t \in Subtree(c)
  BY DEF Subtrees
<1>2. Subtree(c)' = Subtree(c)
  BY DEF Subtree
<1> QED
  BY <1>1, <1>2 DEF Cancelled, Ancestry

\* A step whose messages are explained keeps the channels explained.
LEMMA ExplainedKept ==
    ASSUME GatewayAssumption, EInv,
           wstate' = "Running" =>
              /\ wstate = "Running"
              /\ \A u \in Threads : \A x \in branches[u] : ~HasExited(x) => x \in branches'[u]
              /\ \A x \in Threads : unneeded[x] => unneeded'[x]
              /\ \A x \in Threads : pc[x] = "exited" => pc'[x] = "exited"
              /\ \A x \in Threads : event'[x] /\ pc'[x] \in Spawning \cup Waiting =>
                    \/ event[x] /\ \/ pc'[x] \in Spawning /\ pc[x] \in Spawning
                                   \/ /\ pc'[x] \in Waiting /\ pc[x] \in Spawning \cup Waiting
                                      /\ branches'[x] = branches[x]
                    \/ Cancelled(x)'
                    \/ pc'[x] \in Waiting /\ Ended(x)' = branches'[x]
    PROVE  EventExplained'
<1> USE DEF EInv
<1> SUFFICES ASSUME wstate' = "Running", NEW t \in Threads, event'[t],
                    pc'[t] \in Spawning \cup Waiting, ~Cancelled(t)'
             PROVE  pc'[t] \in Waiting /\ Ended(t)' = branches'[t]
  BY DEF EventExplained, Spawning, Waiting
<1>1. CASE pc'[t] \in Waiting /\ Ended(t)' = branches'[t]
  BY <1>1
<1>2. CASE event[t] /\ \/ pc'[t] \in Spawning /\ pc[t] \in Spawning
                       \/ /\ pc'[t] \in Waiting /\ pc[t] \in Spawning \cup Waiting
                          /\ branches'[t] = branches[t]
  <2>1. ~HasExited(t) /\ wstate = "Running"
    BY <1>2 DEF HasExited, Spawning, Waiting
  <2>2. ~Cancelled(t)
    BY <2>1, CancelledKept
  <2>3. /\ pc[t] \in Waiting /\ pc'[t] \in Waiting
        /\ Ended(t) = branches[t] /\ branches'[t] = branches[t]
    BY <1>2, <2>1, <2>2 DEF EventExplained, Spawning, Waiting
  <2>4. \A x \in branches[t] : x \in Threads /\ HasExited(x)
    BY <2>3 DEF Ended, CInv, IInv, TypeOK
  <2>5. \A x \in branches[t] : pc'[x] = "exited"
    BY <2>4 DEF HasExited
  <2> QED
    BY <2>3, <2>5 DEF Ended, HasExited
<1> QED
  BY <1>1, <1>2

\* Waking puts messages into the channels of those it is meant for only.
LEMMA WakeMeans ==
    ASSUME NEW S, NEW G, Wake(S, G), NEW x \in Threads
    PROVE  /\ event'[x] => event[x] \/ x \in G
           /\ signal'[x] => signal[x] \/ (x \in S /\ Listening(x))
BY DEF Wake

\* A calm step that sends nothing while the instance runs.
Silent(t) == /\ Calm(t)
             /\ wstate' = "Running" => \A x \in Threads : event'[x] => event[x]

\* Such steps keep the channels explained.
LEMMA SilentExplained ==
    ASSUME GatewayAssumption, EInv, NEW t \in Threads, Silent(t)
    PROVE  EventExplained'
<1> USE DEF EInv
<1>1. ASSUME wstate' = "Running"
      PROVE  /\ wstate = "Running"
             /\ \A u \in Threads : \A x \in branches[u] : ~HasExited(x) => x \in branches'[u]
             /\ \A x \in Threads : unneeded[x] => unneeded'[x]
             /\ \A x \in Threads : pc[x] = "exited" => pc'[x] = "exited"
             /\ \A x \in Threads : event'[x] /\ pc'[x] \in Spawning \cup Waiting =>
                   event[x] /\ \/ pc'[x] \in Spawning /\ pc[x] \in Spawning
                               \/ /\ pc'[x] \in Waiting /\ pc[x] \in Spawning \cup Waiting
                                  /\ branches'[x] = branches[x]
  BY <1>1 DEF Silent, Calm
<1> QED
  BY <1>1, ExplainedKept

\* The steps of an activity before its last part
LEMMA ActivitySilent ==
    ASSUME GatewayAssumption, EInv, NEW t \in Threads, Activity(t), ~ActDone(t)
    PROVE  EventExplained'
<1>1. wstate' = "Running" => event' = event
  BY SetStoppingEnds DEF Activity, ActBegin, ActPrepare, ActCall, ActCheck, ActWake,
     ActWoken, ActResume, ActError, Failed
<1>2. Silent(t)
  BY <1>1, ActivityCalm DEF EInv, Silent
<1> QED
  BY <1>2, SilentExplained

\* stop and terminate
LEMMA JumpSilent ==
    ASSUME GatewayAssumption, EInv, NEW t \in Threads, Jump(t)
    PROVE  EventExplained'
<1>1. wstate' = "Running" => event' = event
  BY SetStoppingEnds DEF Jump, JumpCheck, StopSet, TerminateSet
<1>2. Silent(t)
  BY <1>1, JumpCalm DEF EInv, Silent
<1> QED
  BY <1>2, SilentExplained

\* The end of start
LEMMA StartSilent ==
    ASSUME GatewayAssumption, EInv, Start
    PROVE  EventExplained'
<1>1. event' = event
  BY DEF Start, ModelEnds, SetFinished, SetStopped, SendStop, Exit
<1>2. Silent(Main)
  BY <1>1, StartCalm DEF EInv, Silent
<1> QED
  BY <1>2, SilentExplained DEF GatewayAssumption

\* The callback thread, the thread of the signals and the end
LEMMA OthersSilent ==
    ASSUME GatewayAssumption, EInv, NEW t \in Threads,
           Answer(t) \/ SigCheck \/ StopWeel \/ Terminated \/ UNCHANGED vars
    PROVE  EventExplained'
<1>1. wstate' = "Running" => event' = event
  BY SetStoppingEnds DEF Answer, SigCheck, StopWeel, SigSet, SigRecv, Terminated, vars
<1>2. Silent(Main)
  BY <1>1, OthersCalm DEF EInv, Silent
<1> QED
  BY <1>2, SilentExplained DEF GatewayAssumption

\* recursive_join
LEMMA JoinSilent ==
    ASSUME GatewayAssumption, EInv, NEW t \in Threads, Join(t)
    PROVE  EventExplained'
<1>1. event' = event
  BY DEF Join, JoinVisit, JoinReturn
<1>2. Silent(t)
  BY <1>1, JoinCalm DEF EInv, Silent
<1> QED
  BY <1>2, SilentExplained

\* A branch before its end
LEMMA BranchSilent ==
    ASSUME GatewayAssumption, EInv, NEW t \in Threads, Branch(t), ~BranchEnd(t)
    PROVE  EventExplained'
<1>1. event' = event
  BY DEF Branch, Arrive, Barrier, BranchStart, LambdaEnds
<1>2. Silent(t)
  BY <1>1, BranchCalm DEF EInv, Silent
<1> QED
  BY <1>2, SilentExplained

\* The last branch of a gateway tells it so, and whom it cancels.
LEMMA BranchEndExplained ==
    ASSUME GatewayAssumption, EInv, NEW t \in Threads, BranchEnd(t)
    PROVE  EventExplained'
<1> USE DEF EInv, CInv, IInv, Goals, Counters
<1>1. /\ pc[t] = "branch_end" /\ pc'[t] = "exited"
      /\ \A x \in Threads \ {t} : pc'[x] = pc[x]
  BY GoMoves DEF BranchEnd
<1>2. PICK p \in Threads : p = parent[t]
  BY <1>1 DEF Kinship
<1> DEFINE losers == IF SatisfiesLast(t) THEN NotDone(p) \ {t} ELSE {}
<1>3. UNCHANGED <<wstate, branches>>
  BY DEF BranchEnd
<1>4. losers \in SUBSET Threads
  BY <1>2 DEF NotDone, TypeOK
<1>5. \A c \in Threads : unneeded'[c] = (unneeded[c] \/ c \in losers)
  BY <1>2 DEF BranchEnd
<1>6. \A x \in Threads : event'[x] => event[x] \/ x \in Subtrees(losers) \/ (EndsLast(t) /\ x = p)
  <2>1. Wake(Subtrees(losers), Subtrees(losers) \cup (IF EndsLast(t) THEN {p} ELSE {}))
    BY <1>2 DEF BranchEnd
  <2> HIDE DEF losers
  <2> QED
    BY <2>1, WakeMeans
<1> HIDE DEF losers
<1>7. ASSUME wstate = "Running", EndsLast(t), pc'[p] \in Spawning \cup Waiting
      PROVE  pc'[p] \in Waiting /\ Ended(p)' = branches'[p]
  <2>1. t \in branches[p] /\ finished[p] + 1 = Cardinality(branches[p])
    BY <1>2, <1>7 DEF EndsLast
  <2>2. p # t /\ pc'[p] = pc[p]
    BY <1>1, <1>2, <2>1 DEF Kinship
  <2>3. pc[p] \notin Spawning
    BY <1>1, <1>2, <1>7, <2>1 DEF BarrierHolds, Spawning
  <2>4. Counting(p)
    BY <1>7 DEF Counting, Reports
  <2>5. finished[p] = Cardinality(Ended(p))
    BY <1>2, <2>4 DEF FinishedCounts
  <2>6. Ended(p) \in SUBSET Threads /\ branches[p] \in SUBSET Threads
    BY <1>2 DEF Ended, TypeOK
  <2>7. t \notin Ended(p)
    BY <1>1 DEF Ended, HasExited
  <2>8. Cardinality(Ended(p) \cup {t}) = Cardinality(branches[p])
    BY <2>1, <2>5, <2>6, <2>7, OneMore
  <2>9. Ended(p) \cup {t} \subseteq branches[p]
    BY <2>1 DEF Ended
  <2>10. IsFiniteSet(branches[p])
    BY <2>6, FS_Subset DEF GatewayAssumption
  <2>11. Ended(p) \cup {t} = branches[p]
    BY <2>8, <2>9, <2>10, FS_Subset
  <2>12. \A c \in branches[p] : pc'[c] = "exited"
    BY <1>1, <2>6, <2>11 DEF Ended, HasExited
  <2>13. Ended(p)' = branches'[p]
    BY <1>3, <2>12 DEF Ended, HasExited
  <2> QED
    BY <1>7, <2>2, <2>3, <2>13
<1>8. ASSUME wstate' = "Running"
      PROVE  /\ wstate = "Running"
             /\ \A u \in Threads : \A x \in branches[u] : ~HasExited(x) => x \in branches'[u]
             /\ \A x \in Threads : unneeded[x] => unneeded'[x]
             /\ \A x \in Threads : pc[x] = "exited" => pc'[x] = "exited"
  BY <1>1, <1>3, <1>5, <1>8
<1>9. ASSUME wstate' = "Running", NEW x \in Threads, event'[x], pc'[x] \in Spawning \cup Waiting
      PROVE  \/ event[x] /\ \/ pc'[x] \in Spawning /\ pc[x] \in Spawning
                            \/ /\ pc'[x] \in Waiting /\ pc[x] \in Spawning \cup Waiting
                               /\ branches'[x] = branches[x]
             \/ Cancelled(x)'
             \/ pc'[x] \in Waiting /\ Ended(x)' = branches'[x]
  <2>1. x # t /\ pc'[x] = pc[x]
    BY <1>1, <1>9 DEF Spawning, Waiting
  <2>2. CASE event[x]
    BY <1>3, <1>9, <2>1, <2>2
  <2>3. CASE x \in Subtrees(losers)
    BY <1>3, <1>4, <1>5, <2>3, BelowIsCancelled
  <2>4. CASE EndsLast(t) /\ x = p
    BY <1>3, <1>7, <1>9, <2>4
  <2> QED
    BY <1>6, <1>9, <2>2, <2>3, <2>4
<1> QED
  BY <1>8, <1>9, ExplainedKept

\* An activity that ends wakes nobody who is in a gateway.
LEMMA ActDoneExplained ==
    ASSUME GatewayAssumption, EInv, NEW t \in Threads, ActDone(t)
    PROVE  EventExplained'
<1> USE DEF EInv, CInv, IInv, Goals, Counters
<1>1. /\ pc[t] = "act_done" /\ pc'[t] = "run"
      /\ \A x \in Threads \ {t} : pc'[x] = pc[x]
  BY GoMoves DEF ActDone
<1>2. UNCHANGED <<wstate, branches>>
  BY DEF ActDone
<1>3. \A x \in Threads : unneeded[x] => unneeded'[x]
  BY DEF ActDone
<1>4. \A x \in Threads : event'[x] => event[x] \/ x \in Subtree(t)
  BY WakeMeans DEF ActDone, Continue
<1>5. ASSUME wstate' = "Running", NEW x \in Threads, event'[x], pc'[x] \in Spawning \cup Waiting
      PROVE  event[x] /\ pc'[x] = pc[x]
  <2>1. x # t /\ ~HasExited(x)
    BY <1>1, <1>5 DEF HasExited, Spawning, Waiting
  <2>2. x \notin Subtree(t)
    BY <1>1, <1>2, <1>5, <2>1, BelowHasEnded DEF InGate
  <2> QED
    BY <1>1, <1>4, <1>5, <2>1, <2>2
<1> QED
  BY <1>1, <1>2, <1>3, <1>5, ExplainedKept

\* A gateway that closes cancels whom it wakes.
LEMMA GateCloseExplained ==
    ASSUME GatewayAssumption, EInv, NEW t \in Threads, GateClose(t)
    PROVE  EventExplained'
<1> USE DEF EInv, CInv, IInv, Goals, Counters
<1> SUFFICES ASSUME wstate' = "Running"
             PROVE  EventExplained'
  BY DEF EventExplained
<1>1. ~Terminating /\ UNCHANGED <<wstate, branches>>
  BY DEF GateClose, Terminating
<1>2. /\ pc[t] = "gate_close" /\ pc'[t] = "gate_join"
      /\ \A x \in Threads \ {t} : pc'[x] = pc[x]
  BY <1>1, GoMoves DEF GateClose
<1>3. /\ \A x \in Threads : unneeded'[x] = (unneeded[x] \/ x \in branches[t])
      /\ \A x \in Threads : event'[x] => event[x] \/ x \in Subtrees(branches[t])
  BY <1>1, WakeMeans DEF GateClose, Continue
<1>4. branches[t] \in SUBSET Threads
  BY DEF TypeOK
<1>5. ASSUME NEW x \in Threads, event'[x], pc'[x] \in Spawning \cup Waiting
      PROVE  (event[x] /\ pc'[x] = pc[x]) \/ Cancelled(x)'
  BY <1>1, <1>2, <1>3, <1>4, <1>5, BelowIsCancelled DEF Spawning, Waiting
<1> QED
  BY <1>1, <1>2, <1>3, <1>5, ExplainedKept

\* All steps of a gateway: one that enters empties its channel.
LEMMA GateExplained ==
    ASSUME GatewayAssumption, EInv, NEW t \in Threads, Gate(t)
    PROVE  EventExplained'
<1> USE DEF EInv, CInv, IInv, Goals, Counters
<1>1. CASE GateEnter(t)
  <2>1. /\ pc[t] = "run" /\ pc'[t] = "gate_lambda"
        /\ \A x \in Threads \ {t} : pc'[x] = pc[x]
    BY <1>1, GoMoves DEF GateEnter, Call
  <2>2. /\ ~event'[t]
        /\ \A x \in Threads \ {t} : branches'[x] = branches[x] /\ event'[x] = event[x]
        /\ UNCHANGED <<wstate, unneeded>>
    BY <1>1 DEF GateEnter, TypeOK
  <2>3. wstate' = "Running" => \A x \in branches[t] : HasExited(x)
    BY <2>1, <2>2 DEF StructuredParallelism, InGate
  <2> QED
    BY <2>1, <2>2, <2>3, ExplainedKept
<1>2. ASSUME NEW c \in Threads, Spawn(t, c)
      PROVE  EventExplained'
  <2>1. /\ pc[t] = "spawn" /\ pc[c] = "unborn" /\ t # c
        /\ pc'[t] = "gate_lambda" /\ pc'[c] = "born"
        /\ \A x \in Threads \ {t, c} : pc'[x] = pc[x]
    BY <1>2 DEF Spawn, TypeOK
  <2>2. /\ branches'[t] = branches[t] \cup {c}
        /\ \A x \in Threads \ {t} : branches'[x] = branches[x]
        /\ UNCHANGED <<wstate, unneeded, event>>
    BY <1>2 DEF Spawn, TypeOK
  <2>3. ASSUME NEW x \in Threads, event'[x], pc'[x] \in Spawning \cup Waiting
        PROVE  event[x] /\ \/ pc'[x] \in Spawning /\ pc[x] \in Spawning
                           \/ /\ pc'[x] \in Waiting /\ pc[x] \in Spawning \cup Waiting
                              /\ branches'[x] = branches[x]
    BY <2>1, <2>2, <2>3 DEF Spawning, Waiting
  <2>4. /\ \A u \in Threads : \A x \in branches[u] : ~HasExited(x) => x \in branches'[u]
        /\ \A x \in Threads : pc[x] = "exited" => pc'[x] = "exited"
    BY <2>1, <2>2
  <2> QED
    BY <2>2, <2>3, <2>4, ExplainedKept
<1>3. ASSUME NEW wait \in Waits, NEW cancel \in Conds, GateRelease(t, wait, cancel)
      PROVE  EventExplained'
  <2>1. /\ pc[t] = "gate_lambda" /\ pc'[t] = "gate_check"
        /\ \A x \in Threads \ {t} : pc'[x] = pc[x]
    BY <1>3, GoMoves DEF GateRelease
  <2>2. UNCHANGED <<wstate, branches, unneeded, event>>
    BY <1>3 DEF GateRelease
  <2> QED
    BY <2>1, <2>2, ExplainedKept DEF Spawning, Waiting
<1>4. ASSUME SpawnCheck(t) \/ GateCheck(t) \/ GateRecv(t) \/ GateJoined(t)
      PROVE  EventExplained'
  <2>1. Calm(t)
    <3>1. CASE SpawnCheck(t)
      BY <3>1, GoMoves, NothingReported DEF SpawnCheck, Calm, InGate, Spawning, Waiting
    <3>2. CASE GateCheck(t)
      BY <3>2, GoMoves, NothingReported DEF GateCheck, Calm, InGate, Spawning, Waiting
    <3>3. CASE GateRecv(t)
      <4>1. /\ pc[t] = "gate_recv" /\ pc'[t] = "gate_close"
            /\ \A x \in Threads \ {t} : event'[x] = event[x]
        BY <3>3, GoMoves DEF GateRecv, TypeOK
      <4> QED
        BY <3>3, <4>1, GoMoves, NothingReported DEF GateRecv, Calm, InGate, Spawning, Waiting
    <3>4. CASE GateJoined(t)
      BY <3>4, GoMoves, NothingReported DEF GateJoined, Calm, InGate, Spawning, Waiting
    <3> QED
      BY <1>4, <3>1, <3>2, <3>3, <3>4
  <2>2. \A x \in Threads : event'[x] => event[x]
    BY <1>4 DEF SpawnCheck, GateCheck, GateRecv, GateJoined, TypeOK
  <2> QED
    BY <2>1, <2>2, SilentExplained DEF Silent
<1> QED
  BY <1>1, <1>2, <1>3, <1>4, GateCloseExplained DEF Gate

\* The initial state satisfies the strengthening.
LEMMA InitEInv ==
    ASSUME GatewayAssumption, Init
    PROVE  EInv
<1>1. EventExplained
  BY DEF Init, EventExplained
<1> QED
  BY <1>1, InitCInv DEF EInv

\* Every step keeps it.
LEMMA NextEInv ==
    ASSUME GatewayAssumption, EInv, [Next]_vars
    PROVE  EInv'
<1>1. CInv'
  BY NextCInv DEF EInv
<1> SUFFICES EventExplained'
  BY <1>1 DEF EInv
<1>2. ASSUME NEW t \in Threads, Step(t)
      PROVE  EventExplained'
  <2>1. CASE Branch(t)
    BY <2>1, BranchSilent, BranchEndExplained
  <2>2. CASE Activity(t)
    BY <2>2, ActivitySilent, ActDoneExplained
  <2> QED
    BY <1>2, <2>1, <2>2, GateExplained, JoinSilent, JumpSilent DEF Step
<1>3. ASSUME NEW t \in Threads, Answer(t)
      PROVE  EventExplained'
  BY <1>3, OthersSilent
<1>4. CASE SigCheck \/ StopWeel \/ Terminated \/ UNCHANGED vars
  BY <1>4, OthersSilent DEF GatewayAssumption
<1> QED
  BY <1>2, <1>3, <1>4, StartSilent DEF Next

\* Only a message leads a thread on from the channel to the end of its wait.
LEMMA OpensByMessage ==
    ASSUME GatewayAssumption, CInv, [Next]_vars, NEW t \in Threads,
           pc[t] = "gate_recv", pc'[t] = "gate_close"
    PROVE  event[t]
<1> USE DEF CInv, IInv
<1>1. ASSUME NEW x \in Threads, Gate(x)
      PROVE  event[t]
  <2>1. CASE GateRecv(x)
    <3>1. x = t
      BY <2>1, GoMoves DEF GateRecv
    <3> QED
      BY <2>1, <3>1 DEF GateRecv
  <2>2. CASE \E c \in Threads : Spawn(x, c)
    BY <2>2 DEF Spawn, TypeOK
  <2>3. CASE GateClose(x)
    BY <2>3, GoMoves DEF GateClose
  <2>4. CASE GateCheck(x)
    BY <2>4, GoMoves DEF GateCheck
  <2>5. CASE GateEnter(x)
    BY <2>5, GoMoves DEF GateEnter, Call
  <2>6. CASE SpawnCheck(x)
    BY <2>6, GoMoves DEF SpawnCheck
  <2>7. CASE \E wait \in Waits, cancel \in Conds : GateRelease(x, wait, cancel)
    BY <2>7, GoMoves DEF GateRelease
  <2>8. CASE GateJoined(x)
    BY <2>8, GoMoves DEF GateJoined
  <2> QED
    BY <1>1, <2>1, <2>2, <2>3, <2>4, <2>5, <2>6, <2>7, <2>8 DEF Gate
<1>2. ASSUME NEW x \in Threads, \/ Activity(x) /\ ~ActDone(x)
                                \/ Branch(x) /\ ~BranchEnd(x)
                                \/ Jump(x) \/ Join(x)
      PROVE  FALSE
  <2>1. Calm(x)
    BY <1>2, ActivityCalm, JumpCalm, BranchCalm, JoinCalm
  <2>2. x = t
    BY <2>1 DEF Calm
  <2>3. UNCHANGED pc \/ \E from, to : Go(t, from, to) /\ from # "gate_recv"
    BY <1>2, <2>2
       DEF Join, JoinVisit, JoinReturn, Branch, Arrive, Barrier, BranchStart, LambdaEnds,
           Activity, ActBegin, ActPrepare, ActCall, ActCheck, ActWake, ActWoken, ActResume,
           ActError, Failed, Jump, JumpCheck, StopSet, TerminateSet, Call
  <2> QED
    BY <2>3 DEF Go
<1>3. ASSUME NEW x \in Threads, ActDone(x) \/ BranchEnd(x)
      PROVE  FALSE
  BY <1>3, GoMoves DEF ActDone, BranchEnd
<1>4. ASSUME Start
      PROVE  FALSE
  BY <1>4 DEF Start, ModelEnds, SetFinished, SetStopped, SendStop, Exit, Go, TypeOK,
     GatewayAssumption
<1>5. ASSUME \/ \E x \in Threads : Answer(x)
             \/ SigCheck \/ StopWeel \/ Terminated \/ UNCHANGED vars
      PROVE  FALSE
  BY <1>5 DEF Answer, SigCheck, StopWeel, SigSet, SigRecv, Terminated, vars
<1> QED
  BY <1>1, <1>2, <1>3, <1>4, <1>5 DEF Next, Step

\* However gateways are nested: a gateway of the running instance whose threads
\* nobody has cancelled goes on only when all of its branches have ended
\* (branch_event_sender and branch_event_receiver in parallel_do and
\* parallel_branch).
THEOREM GatewayWaits == Spec => GateWaitsForBranches
<1>1. EInv /\ [Next]_vars =>
        [\A t \in Threads :
            /\ pc[t] = "gate_recv" /\ pc'[t] = "gate_close"
            /\ wstate = "Running"
            /\ \A a \in Ancestry(t) : ~unneeded[a]
            => \A c \in branches[t] : HasExited(c)]_vars
  <2> SUFFICES ASSUME EInv, [Next]_vars, NEW t \in Threads,
                      pc[t] = "gate_recv", pc'[t] = "gate_close", wstate = "Running",
                      \A a \in Ancestry(t) : ~unneeded[a]
               PROVE  \A c \in branches[t] : HasExited(c)
    OBVIOUS
  <2>1. event[t]
    BY GatewayAssumption, OpensByMessage DEF EInv
  <2>2. Ended(t) = branches[t]
    BY <2>1 DEF EInv, EventExplained, Cancelled, Waiting
  <2> QED
    BY <2>2 DEF Ended
<1> QED
  BY <1>1, GatewayAssumption, InitEInv, NextEInv, PTL DEF Spec, GateWaitsForBranches
-----------------------------------------------------------------------------
\* Has a thread above been cancelled?  It was woken then, but not marked.
Abandoned(t) == \E a \in Ancestry(t) \ {t} : unneeded[a]

\* What the activity of a thread has been woken for is the answer to its call or
\* the cancellation of its thread or of one above.
WokenFor(t) ==
    /\ pc[t] \in {"act_prepare", "act_call"} => ~pending[t]
    /\ wstate = "Running" /\ ~Abandoned(t) =>
          /\ pc[t] \in {"act_prepare", "act_call"} /\ signal[t] => unneeded[t]
          /\ pc[t] \in {"act_check", "act_wait"} /\ signal[t] => unneeded[t] \/ ~pending[t]
          /\ pc[t] = "act_woken" => unneeded[t] \/ ~pending[t]
          /\ pc[t] = "act_resume" => ~pending[t]

WakeUpsExplained == ~unneeded[Main] /\ \A t \in Threads : WokenFor(t)

AInv == CInv /\ WakeUpsExplained

InActivity == {"act_prepare", "act_call", "act_check", "act_wait", "act_woken", "act_resume"}

\* A step keeps whoever is below a cancelled thread there.
LEMMA AbandonedKept ==
    ASSUME GatewayAssumption, CInv, wstate = "Running",
           \A u \in Threads : \A x \in branches[u] : ~HasExited(x) => x \in branches'[u],
           \A x \in Threads : unneeded[x] => unneeded'[x],
           NEW t \in Threads, ~HasExited(t), Abandoned(t)
    PROVE  Abandoned(t)'
<1>1. PICK a \in Ancestry(t) \ {t} : unneeded[a]
  BY DEF Abandoned
<1>2. a \in Threads
  BY <1>1 DEF Ancestry
<1> QED
  BY <1>1, <1>2, AncestryKept DEF Abandoned

\* Whoever a step wakes below those it cancels is cancelled or abandoned.
LEMMA BelowIsAbandoned ==
    ASSUME NEW S \in SUBSET Threads, \A c \in S : unneeded'[c],
           UNCHANGED branches, NEW t \in Threads, t \in Subtrees(S)
    PROVE  unneeded'[t] \/ Abandoned(t)'
<1>1. PICK c \in S : t \in Subtree(c)
  BY DEF Subtrees
<1>2. Subtree(c)' = Subtree(c)
  BY DEF Subtree
<1> QED
  BY <1>1, <1>2 DEF Abandoned, Ancestry

\* A step that moves no thread into an activity, answers nothing and wakes
\* whom it cancels, and who is below, keeps the wake-ups explained.
LEMMA WokenKept ==
    ASSUME GatewayAssumption, AInv, NEW t \in Threads,
           pc'[t] = pc[t] \/ pc'[t] \notin InActivity,
           pending'[t] => pending[t],
           wstate' = "Running" =>
              /\ wstate = "Running"
              /\ \A u \in Threads : \A x \in branches[u] : ~HasExited(x) => x \in branches'[u]
              /\ \A x \in Threads : unneeded[x] => unneeded'[x]
              /\ signal'[t] => \/ signal[t] \/ ~Listening(t)
                               \/ unneeded'[t] \/ Abandoned(t)'
    PROVE  WokenFor(t)'
<1>1. WokenFor(t)
  BY DEF AInv, WakeUpsExplained
<1>2. CASE pc'[t] \notin InActivity
  BY <1>2 DEF WokenFor, InActivity
<1>3. CASE pc'[t] = pc[t] /\ pc[t] \in InActivity
  <2>1. pc[t] \in {"act_prepare", "act_call"} => ~pending'[t]
    BY <1>1 DEF WokenFor
  <2>2. ~HasExited(t)
    BY <1>3 DEF HasExited, InActivity
  <2>3. wstate' = "Running" /\ Abandoned(t) => Abandoned(t)'
    BY <2>2, AbandonedKept DEF AInv
  <2> HIDE DEF AInv
  <2> QED
    BY <1>1, <1>3, <2>1, <2>3 DEF WokenFor, Listening
<1> QED
  BY <1>2, <1>3

\* The steps of the activity itself, and the callback that answers it
LEMMA ActivityWoken ==
    ASSUME GatewayAssumption, AInv, NEW t \in Threads, Activity(t) \/ Answer(t), ~ActDone(t)
    PROVE  WokenFor(t)'
<1> USE DEF AInv, CInv, IInv
<1>1. WokenFor(t)
  BY DEF WakeUpsExplained
<1>2. ASSUME wstate' = "Running"
      PROVE  /\ wstate = "Running" /\ UNCHANGED <<branches, unneeded>>
             /\ Abandoned(t)' = Abandoned(t)
  <2>1. wstate = "Running" /\ UNCHANGED <<branches, unneeded>>
    BY <1>2, SetStoppingEnds
       DEF Activity, Answer, ActBegin, ActPrepare, ActCall, ActCheck, ActWake, ActWoken,
           ActResume, ActError, Failed
  <2> QED
    BY <2>1 DEF Abandoned, Ancestry, Subtree
<1>3. CASE ActBegin(t)
  <2>1. pc[t] = "run" /\ pc'[t] \in {"act_done", "act_prepare"}
    BY <1>3, GoMoves DEF ActBegin, Call
  <2>2. pc'[t] = "act_prepare" => ~signal'[t] /\ ~pending'[t]
    BY <1>3, <2>1 DEF ActBegin, TypeOK, Call, Go
  <2> QED
    BY <2>1, <2>2 DEF WokenFor
<1>4. CASE ActPrepare(t)
  BY <1>1, <1>2, <1>4, GoMoves DEF ActPrepare, WokenFor
<1>5. CASE ActCall(t)
  <2>1. /\ pc[t] = "act_call" /\ pc'[t] \in {"act_check", "failed"}
        /\ ~pending'[t] \/ signal'[t] = signal[t]
    BY <1>1, <1>5, GoMoves DEF ActCall, WokenFor
  <2> QED
    BY <1>1, <1>2, <2>1 DEF WokenFor
<1>6. CASE ActCheck(t)
  <2>1. /\ pc[t] = "act_check" /\ pc'[t] \in {"act_woken", "act_wait"}
        /\ UNCHANGED <<wstate, callVars>>
    BY <1>6, GoMoves DEF ActCheck
  <2>2. pc'[t] = "act_woken" => ShouldSkip(t)
    BY <1>6, <2>1, GoMoves DEF ActCheck
  <2> QED
    BY <1>1, <1>2, <2>1, <2>2 DEF WokenFor, ShouldSkip, Terminating
<1>7. CASE ActWake(t)
  BY <1>1, <1>2, <1>7, GoMoves DEF ActWake, WokenFor
<1>8. CASE ActWoken(t)
  <2>1. /\ pc[t] = "act_woken" /\ pc'[t] \in {"act_done", "act_resume"}
        /\ pc'[t] = "act_resume" => ~unneeded[t]
        /\ UNCHANGED <<wstate, callVars>>
    BY <1>8, GoMoves DEF ActWoken
  <2> QED
    BY <1>1, <1>2, <2>1 DEF WokenFor
<1>9. CASE ActResume(t)
  BY <1>9, GoMoves DEF ActResume, WokenFor
<1>10. CASE ActError(t)
  BY <1>10, GoMoves DEF ActError, WokenFor
<1>11. CASE Failed(t)
  <2>1. pc'[t] \in {"run", "set_stopped", "branch_end"}
    BY <1>11, GoMoves DEF Failed
  <2> QED
    BY <2>1 DEF WokenFor
<1>12. CASE Answer(t)
  <2>1. pc' = pc /\ ~pending'[t]
    BY <1>12 DEF Answer, TypeOK
  <2>2. pending[t]
    BY <1>12 DEF Answer
  <2> QED
    BY <1>1, <1>2, <2>1, <2>2 DEF WokenFor
<1> QED
  BY <1>3, <1>4, <1>5, <1>6, <1>7, <1>8, <1>9, <1>10, <1>11, <1>12 DEF Activity

\* They concern no other activity while the instance runs.
LEMMA ActivityWokenOthers ==
    ASSUME GatewayAssumption, AInv, NEW t \in Threads, Activity(t) \/ Answer(t), ~ActDone(t),
           NEW x \in Threads \ {t}
    PROVE  WokenFor(x)'
<1>1. TypeOK /\ CInv
  BY DEF AInv, CInv, IInv
<1>2. pc'[x] = pc[x]
  BY <1>1, ActivityCalm DEF Calm, Answer
<1>3. pending'[x] = pending[x]
  BY <1>1 DEF Activity, Answer, ActBegin, ActPrepare, ActCall, ActCheck, ActWake, ActWoken,
     ActResume, ActError, Failed, TypeOK
<1>4. wstate' = "Running" => /\ wstate = "Running" /\ UNCHANGED <<branches, unneeded>>
                             /\ signal'[x] = signal[x]
  BY <1>1, SetStoppingEnds
     DEF Activity, Answer, ActBegin, ActPrepare, ActCall, ActCheck, ActWake, ActWoken,
         ActResume, ActError, Failed, TypeOK
<1> QED
  BY <1>2, <1>3, <1>4, WokenKept

\* The end of an activity wakes nobody who waits.
LEMMA ActDoneWoken ==
    ASSUME GatewayAssumption, AInv, NEW t \in Threads, ActDone(t)
    PROVE  WakeUpsExplained'
<1> USE DEF CInv, IInv, Goals
<1>1. CInv
  BY DEF AInv
<1>2. /\ pc[t] = "act_done" /\ pc'[t] = "run"
      /\ \A y \in Threads \ {t} : pc'[y] = pc[y]
  BY <1>1, GoMoves DEF ActDone
<1>3. UNCHANGED <<wstate, branches>> /\ pending' = [pending EXCEPT ![t] = FALSE]
  BY DEF ActDone
<1>4. /\ \A x \in Threads : unneeded[x] => unneeded'[x]
      /\ ~unneeded'[Main]
  <2>1. CASE UNCHANGED unneeded
    BY <1>1, <2>1 DEF AInv, WakeUpsExplained
  <2>2. CASE /\ unneeded' = [c \in Threads |-> unneeded[c] \/ c \in Losers(t)]
             /\ parent[t] # NoThread
    <3>1. PICK p \in Threads : p = parent[t]
      BY <1>1, <2>2 DEF TypeOK
    <3>2. Main \notin Losers(t)
      BY <1>1, <3>1 DEF Losers, Kinship, Counters, Fresh, TypeOK, GatewayAssumption
    <3> QED
      BY <1>1, <2>2, <3>2 DEF AInv, WakeUpsExplained, TypeOK, GatewayAssumption
  <2> QED
    BY <2>1, <2>2 DEF ActDone
<1>5. ASSUME NEW x \in Threads, wstate' = "Running", signal'[x], ~signal[x]
      PROVE  ~Listening(x)
  <2>1. PICK S : Continue(S) /\ S \subseteq Subtree(t)
    BY <1>5 DEF ActDone
  <2>2. x \in Subtree(t)
    BY <1>5, <2>1, WakeMeans DEF Continue
  <2>3. x = t \/ HasExited(x)
    BY <1>1, <1>2, <1>3, <1>5, <2>2, BelowHasEnded DEF InGate
  <2> QED
    BY <1>2, <2>3 DEF HasExited, Listening
<1>6. ASSUME NEW x \in Threads
      PROVE  WokenFor(x)'
  <2>1. pc'[x] = pc[x] \/ pc'[x] \notin InActivity
    BY <1>2 DEF InActivity
  <2>2. pending'[x] => pending[x]
    BY <1>1, <1>3 DEF TypeOK
  <2> QED
    BY <1>3, <1>4, <1>5, <2>1, <2>2, WokenKept
<1> QED
  BY <1>4, <1>6 DEF WakeUpsExplained

\* The end of a branch wakes the branches it cancels, and who is below them.
LEMMA BranchEndWoken ==
    ASSUME GatewayAssumption, AInv, NEW t \in Threads, BranchEnd(t)
    PROVE  WakeUpsExplained'
<1> USE DEF CInv, IInv, Goals
<1>1. CInv
  BY DEF AInv
<1>2. /\ pc[t] = "branch_end" /\ pc'[t] = "exited"
      /\ \A y \in Threads \ {t} : pc'[y] = pc[y]
  BY <1>1, GoMoves DEF BranchEnd
<1>3. PICK p \in Threads : p = parent[t]
  BY <1>1, <1>2 DEF Kinship
<1> DEFINE losers == IF SatisfiesLast(t) THEN NotDone(p) \ {t} ELSE {}
<1>4. losers \in SUBSET Threads /\ Main \notin losers
  BY <1>1, <1>3 DEF NotDone, TypeOK, Counters, Fresh, Kinship, GatewayAssumption
<1>5. /\ UNCHANGED <<wstate, branches, pending>>
      /\ unneeded' = [c \in Threads |-> unneeded[c] \/ c \in losers]
  BY <1>3 DEF BranchEnd
<1>6. PICK G : Wake(Subtrees(losers), G)
  BY <1>3 DEF BranchEnd
<1> HIDE DEF losers
<1>7. ASSUME NEW x \in Threads
      PROVE  signal'[x] => signal[x] \/ unneeded'[x] \/ Abandoned(x)'
  BY <1>4, <1>5, <1>6, WakeMeans, BelowIsAbandoned
<1>8. ASSUME NEW x \in Threads
      PROVE  WokenFor(x)'
  <2>1. pc'[x] = pc[x] \/ pc'[x] \notin InActivity
    BY <1>2 DEF InActivity
  <2> QED
    BY <1>5, <1>7, <2>1, WokenKept
<1>9. ~unneeded'[Main]
  BY <1>1, <1>4, <1>5 DEF AInv, WakeUpsExplained, TypeOK, GatewayAssumption
<1> QED
  BY <1>8, <1>9 DEF WakeUpsExplained

\* So does a gateway that closes.
LEMMA GateCloseWoken ==
    ASSUME GatewayAssumption, AInv, NEW t \in Threads, GateClose(t)
    PROVE  WakeUpsExplained'
<1> USE DEF CInv, IInv, Goals
<1>1. CInv
  BY DEF AInv
<1>2. /\ pc[t] = "gate_close" /\ pc'[t] \in {"run", "gate_join"}
      /\ \A y \in Threads \ {t} : pc'[y] = pc[y]
  BY <1>1, GoMoves DEF GateClose
<1>3. UNCHANGED <<wstate, branches, pending>>
  BY DEF GateClose
<1>4. branches[t] \in SUBSET Threads /\ Main \notin branches[t]
  BY <1>1 DEF TypeOK, Counters, Fresh, Kinship, GatewayAssumption
<1>5. \/ UNCHANGED <<unneeded, signal>>
      \/ /\ unneeded' = [c \in Threads |-> unneeded[c] \/ c \in branches[t]]
         /\ Wake(Subtrees(branches[t]), Subtrees(branches[t]))
  BY DEF GateClose, Continue
<1>6. /\ \A x \in Threads : unneeded[x] => unneeded'[x]
      /\ ~unneeded'[Main]
  BY <1>1, <1>4, <1>5 DEF AInv, WakeUpsExplained, TypeOK, GatewayAssumption
<1>7. ASSUME NEW x \in Threads
      PROVE  signal'[x] => signal[x] \/ unneeded'[x] \/ Abandoned(x)'
  BY <1>3, <1>4, <1>5, WakeMeans, BelowIsAbandoned
<1>8. ASSUME NEW x \in Threads
      PROVE  WokenFor(x)'
  <2>1. pc'[x] = pc[x] \/ pc'[x] \notin InActivity
    BY <1>2 DEF InActivity
  <2> QED
    BY <1>3, <1>6, <1>7, <2>1, WokenKept
<1> QED
  BY <1>6, <1>8 DEF WakeUpsExplained

\* Everything else leaves the calls alone or makes the instance stop.
LEMMA OthersWoken ==
    ASSUME GatewayAssumption, AInv, NEW x \in Threads, NEW t \in Threads,
           \/ Gate(t) /\ ~GateClose(t)
           \/ Branch(t) /\ ~BranchEnd(t)
           \/ Join(t) \/ Jump(t) \/ Start
           \/ SigCheck \/ StopWeel \/ Terminated \/ UNCHANGED vars
    PROVE  WokenFor(x)' /\ UNCHANGED unneeded
<1> USE DEF Gate, GateEnter, SpawnCheck, Spawn, GateRelease, GateCheck, GateRecv, GateJoined,
        Branch, Arrive, Barrier, BranchStart, LambdaEnds, Join, JoinVisit, JoinReturn,
        Jump, JumpCheck, StopSet, TerminateSet, Start, ModelEnds, SetFinished, SetStopped,
        SendStop, Exit, SigCheck, StopWeel, SigSet, SigRecv, Terminated, vars
<1>1. TypeOK /\ StructuredParallelism /\ Jumps \subseteq {"stop", "terminate"}
  BY DEF AInv, CInv, IInv, Goals, GatewayAssumption
<1>2. pc'[x] = pc[x] \/ pc'[x] \notin InActivity
  BY <1>1 DEF Call, Go, TypeOK, InActivity
<1>3. UNCHANGED <<pending, unneeded>>
  OBVIOUS
<1>4. wstate' = "Running" => wstate = "Running" /\ UNCHANGED signal
  BY SetStoppingEnds
<1>5. ASSUME wstate' = "Running", NEW u \in Threads, NEW y \in branches[u], ~HasExited(y)
      PROVE  y \in branches'[u]
  <2>1. CASE GateEnter(t)
    BY <1>1, <1>4, <1>5, <2>1 DEF StructuredParallelism, InGate, Call, Go, TypeOK
  <2>2. CASE \E c \in Threads : Spawn(t, c)
    BY <1>1, <2>2 DEF TypeOK
  <2>3. CASE UNCHANGED branches
    BY <2>3
  <2> QED
    BY <2>1, <2>2, <2>3
<1> QED
  BY <1>2, <1>3, <1>4, <1>5, WokenKept

\* The initial state satisfies the strengthening.
LEMMA InitAInv ==
    ASSUME GatewayAssumption, Init
    PROVE  AInv
<1>1. WakeUpsExplained
  BY DEF Init, WakeUpsExplained, WokenFor, GatewayAssumption
<1> QED
  BY <1>1, InitCInv DEF AInv

\* Every step keeps it.
LEMMA NextAInv ==
    ASSUME GatewayAssumption, AInv, [Next]_vars
    PROVE  AInv'
<1>1. CInv'
  BY NextCInv DEF AInv
<1> SUFFICES WakeUpsExplained'
  BY <1>1 DEF AInv
<1>2. Main \in Threads /\ ~unneeded[Main]
  BY DEF GatewayAssumption, AInv, WakeUpsExplained
<1>3. ASSUME NEW t \in Threads, Activity(t) \/ Answer(t), ~ActDone(t)
      PROVE  WakeUpsExplained'
  <2>1. UNCHANGED unneeded
    BY <1>3 DEF Activity, Answer, ActBegin, ActPrepare, ActCall, ActCheck, ActWake, ActWoken,
       ActResume, ActError, Failed
  <2> QED
    BY <1>2, <1>3, <2>1, ActivityWoken, ActivityWokenOthers DEF WakeUpsExplained
<1>4. ASSUME NEW t \in Threads,
             \/ Gate(t) /\ ~GateClose(t)
             \/ Branch(t) /\ ~BranchEnd(t)
             \/ Join(t) \/ Jump(t) \/ Start
             \/ SigCheck \/ StopWeel \/ Terminated \/ UNCHANGED vars
      PROVE  WakeUpsExplained'
  BY <1>2, <1>4, OthersWoken DEF WakeUpsExplained
<1>5. ASSUME NEW t \in Threads, Step(t) \/ Answer(t)
      PROVE  WakeUpsExplained'
  <2>1. CASE ActDone(t) \/ BranchEnd(t) \/ GateClose(t)
    BY <2>1, ActDoneWoken, BranchEndWoken, GateCloseWoken
  <2> QED
    BY <1>3, <1>4, <1>5, <2>1 DEF Step
<1> QED
  BY <1>2, <1>4, <1>5 DEF Next

\* The wake-ups are explained throughout.
LEMMA CallsInductive == Spec => []AInv
BY GatewayAssumption, InitAInv, NextAInv, PTL DEF Spec

\* However gateways are nested: an activity of the running instance takes a
\* wake-up for the answer to its call only below a thread that was cancelled,
\* whose subtree recursive_continue wakes without marking it.
THEOREM UnansweredAreAbandoned == Spec => OnlyAbandonedUnanswered
<1>1. AInv /\ [Next]_vars =>
        [\A t \in Threads :
            pc[t] = "act_resume" /\ pc'[t] # "act_resume" /\ wstate = "Running" /\ pending[t]
            => \E a \in Ancestry(t) \ {t} : unneeded[a]]_vars
  BY DEF AInv, WakeUpsExplained, WokenFor, Abandoned
<1> QED
  BY <1>1, CallsInductive, PTL DEF Spec, OnlyAbandonedUnanswered
-----------------------------------------------------------------------------
\* Gateways that are not nested: only the model's thread runs them.
Flat == Forks \subseteq {Main}

OnlyModelForks ==
    \A t \in Threads \ {Main} : branches[t] = {} /\ pc[t] \notin InGate

\* Every thread that runs is a branch of the gateway the model is in or was in.
NobodyElse ==
    \A t \in Threads \ {Main} : HasExited(t) \/ pc[t] = "unborn" \/ t \in branches[Main]

\* Points of the model's thread that it reaches only with its gateway joined
Alone == {"act_prepare", "act_call", "failed", "set_stopped"}

AllEnded == \A c \in branches[Main] : HasExited(c)

ModelAlone == pc[Main] \in Alone => AllEnded

\* What recursive_join still has to do covers the branches that still run.
StopCovers ==
    pc[Main] = "stop_join" =>
        \/ Main \in todo[Main]
        \/ \A c \in branches[Main] : HasExited(c) \/ c \in todo[Main] \/ c = joining[Main]

Levels == /\ OnlyModelForks /\ NobodyElse /\ ModelAlone /\ StopCovers
          /\ wstate = "Stopped" => Reported
          /\ StoppedMeansEnded

FInv == CInv /\ Levels

\* A step of at most the thread t that opens no gateway and joins nothing.
Level(t) ==
    /\ \A x \in Threads \ {t} : pc'[x] = pc[x]
    /\ branches' = branches
    /\ pc'[t] # pc[t] => pc[t] \notin {"unborn", "exited"} /\ pc'[t] # "unborn"
    /\ pc'[t] \in InGate => pc[t] \in InGate
    /\ pc'[Main] \in Alone => pc[Main] \in Alone \/ (pc[Main] = "run" /\ wstate = "Running")
    /\ pc'[Main] = "stop_join" => \/ todo'[Main] = {Main}
                                  \/ /\ pc[Main] = "stop_join"
                                     /\ todo'[Main] = todo[Main] /\ joining' = joining
    /\ Reported => Reported'
    /\ wstate' = "Stopped" => wstate = "Stopped" \/ (t = Main /\ AllEnded /\ Reported')

\* Such steps keep the strengthening.
LEMMA LevelKeeps ==
    ASSUME GatewayAssumption, FInv, NEW t \in Threads, Level(t)
    PROVE  Levels'
<1> USE DEF FInv, CInv, IInv, Goals, Levels, GatewayAssumption
<1>1. \A x \in Threads : /\ HasExited(x) => pc'[x] = "exited"
                         /\ pc'[x] = "unborn" => pc[x] = "unborn"
                         /\ x # t => pc'[x] = pc[x]
  BY DEF Level, HasExited
<1>2. \A c \in branches[Main] : c \in Threads
  BY DEF TypeOK
<1>3. OnlyModelForks'
  BY DEF Level, OnlyModelForks
<1>4. NobodyElse'
  <2> SUFFICES ASSUME NEW x \in Threads \ {Main}
               PROVE  pc'[x] = "exited" \/ pc'[x] = "unborn" \/ x \in branches'[Main]
    BY DEF NobodyElse, HasExited
  <2>1. HasExited(x) \/ pc[x] = "unborn" \/ x \in branches[Main]
    BY DEF NobodyElse
  <2> QED
    BY <1>1, <2>1 DEF Level
<1>5. AllEnded => AllEnded'
  BY <1>1, <1>2 DEF Level, AllEnded, HasExited
<1>6. ModelAlone'
  <2>1. pc[Main] = "run" /\ wstate = "Running" => AllEnded
    BY DEF StructuredParallelism, InGate, AllEnded
  <2> QED
    BY <1>5, <2>1 DEF Level, ModelAlone
<1>7. StopCovers'
  BY <1>1, <1>2 DEF Level, StopCovers, HasExited
<1>8. (wstate = "Stopped" => Reported)'
  BY DEF Level
<1>9. StoppedMeansEnded'
  <2> SUFFICES ASSUME wstate' = "Stopped", NEW x \in Threads \ {Main}
               PROVE  pc'[x] \in {"unborn", "exited"}
    BY DEF StoppedMeansEnded
  <2>1. CASE wstate = "Stopped"
    BY <2>1 DEF Level, StoppedMeansEnded
  <2>2. CASE t = Main /\ AllEnded
    BY <1>1, <2>2 DEF NobodyElse, AllEnded, HasExited
  <2> QED
    BY <2>1, <2>2 DEF Level
<1> QED
  BY <1>3, <1>4, <1>6, <1>7, <1>8, <1>9

\* The steps of an activity
LEMMA ActivityLevel ==
    ASSUME GatewayAssumption, FInv, NEW t \in Threads, Activity(t)
    PROVE  Level(t)
<1> USE DEF FInv, CInv, IInv, Levels, Level, Alone, InGate, GatewayAssumption
<1>1. CASE ActBegin(t)
  <2>1. /\ pc[t] = "run" /\ pc'[t] \in {"act_done", "act_prepare"}
        /\ pc'[t] = "act_prepare" => ~ShouldSkip(t)
        /\ \A x \in Threads \ {t} : pc'[x] = pc[x]
    BY <1>1, GoMoves DEF ActBegin, Call
  <2>2. t = Main /\ ~ShouldSkip(t) => wstate = "Running"
    BY <2>1 DEF ShouldSkip, Terminating, Counters, Reports, Reported, TypeOK, States
  <2>3. Reported' = Reported
    BY <2>1 DEF Reported, GatewayAssumption
  <2>4. UNCHANGED <<wstate, branches, joinVars>>
    BY <1>1 DEF ActBegin
  <2> QED
    BY <2>1, <2>2, <2>3, <2>4
<1>2. CASE ActPrepare(t)
  BY <1>2, GoMoves, NothingReported DEF ActPrepare
<1>3. CASE ActCall(t)
  BY <1>3, GoMoves, NothingReported DEF ActCall
<1>4. CASE ActCheck(t)
  BY <1>4, GoMoves, NothingReported DEF ActCheck
<1>5. CASE ActWake(t)
  BY <1>5, GoMoves, NothingReported DEF ActWake
<1>6. CASE ActWoken(t)
  BY <1>6, GoMoves, NothingReported DEF ActWoken
<1>7. CASE ActResume(t)
  BY <1>7, GoMoves, NothingReported DEF ActResume
<1>8. CASE ActError(t)
  BY <1>8, GoMoves, NothingReported, SetStoppingKeepsEvents DEF ActError
<1>9. CASE ActDone(t)
  <2>1. /\ pc[t] = "act_done" /\ pc'[t] = "run"
        /\ \A x \in Threads \ {t} : pc'[x] = pc[x]
    BY <1>9, GoMoves DEF ActDone
  <2>2. Reported' = Reported
    BY <2>1 DEF Reported, GatewayAssumption
  <2>3. UNCHANGED <<wstate, branches, joinVars>>
    BY <1>9 DEF ActDone
  <2> QED
    BY <2>1, <2>2, <2>3
<1>10. CASE Failed(t)
  <2>1. /\ pc[t] = "failed" /\ pc'[t] \in {"run", "set_stopped", "branch_end"}
        /\ \A x \in Threads \ {t} : pc'[x] = pc[x]
    BY <1>10, GoMoves DEF Failed
  <2>2. Reported' = Reported
    BY <2>1 DEF Reported, GatewayAssumption
  <2>3. UNCHANGED <<branches, joinVars>> /\ wstate' # "Stopped"
    BY <1>10, SetStoppingKeepsEvents DEF Failed
  <2> QED
    BY <2>1, <2>2, <2>3
<1> QED
  BY <1>1, <1>2, <1>3, <1>4, <1>5, <1>6, <1>7, <1>8, <1>9, <1>10 DEF Activity

\* stop and terminate
LEMMA JumpLevel ==
    ASSUME GatewayAssumption, FInv, NEW t \in Threads, Jump(t)
    PROVE  Level(t)
<1> USE DEF FInv, CInv, IInv, Levels, Level, Alone, InGate, GatewayAssumption
<1>1. ASSUME NEW jump \in Jumps, JumpCheck(t, jump)
      PROVE  Level(t)
  <2>1. jump \in {"stop", "terminate"}
    BY DEF GatewayAssumption
  <2> QED
    BY <1>1, <2>1, GoMoves, NothingReported DEF JumpCheck, Call
<1>2. CASE StopSet(t)
  BY <1>2, GoMoves, NothingReported, SetStoppingKeepsEvents DEF StopSet
<1>3. CASE TerminateSet(t)
  BY <1>3, GoMoves, NothingReported DEF TerminateSet
<1> QED
  BY <1>1, <1>2, <1>3 DEF Jump

\* start only sets Stopped once it has joined the branches.
LEMMA StartLevel ==
    ASSUME GatewayAssumption, FInv, Start
    PROVE  Level(Main)
<1> USE DEF FInv, CInv, IInv, Levels, Level, Alone, InGate, GatewayAssumption
<1>1. CASE ModelEnds
  BY <1>1, GoMoves, NothingReported DEF ModelEnds, TypeOK
<1>2. CASE SetFinished
  BY <1>2, GoMoves DEF SetFinished, Reported
<1>3. CASE SetStopped
  <2>1. /\ pc'[Main] = "send_stop" /\ pc[Main] \in {"stop_join", "set_stopped"}
        /\ \A x \in Threads \ {Main} : pc'[x] = pc[x]
        /\ pc[Main] = "stop_join" => todo[Main] = {} /\ joining[Main] = NoThread
    BY <1>3, GoMoves DEF SetStopped
  <2>2. AllEnded
    BY <2>1 DEF StopCovers, ModelAlone, AllEnded, TypeOK
  <2>3. UNCHANGED branches
    BY <1>3 DEF SetStopped
  <2> QED
    BY <2>1, <2>2, <2>3 DEF Reported
<1>4. CASE SendStop \/ Exit
  BY <1>4, GoMoves DEF SendStop, Exit, Reported
<1> QED
  BY <1>1, <1>2, <1>3, <1>4 DEF Start

\* The callback thread, the thread of the signals and the end
LEMMA OthersLevel ==
    ASSUME GatewayAssumption, FInv, NEW t \in Threads,
           Answer(t) \/ SigCheck \/ StopWeel \/ Terminated \/ UNCHANGED vars
    PROVE  Level(Main)
<1> USE DEF Level, Reported
<1>1. UNCHANGED <<pc, branches, joinVars>>
  BY DEF Answer, SigCheck, StopWeel, SigSet, SigRecv, Terminated, vars
<1>2. wstate' = wstate \/ wstate' # "Stopped"
  BY SetStoppingKeepsEvents DEF Answer, SigCheck, StopWeel, SigSet, SigRecv, Terminated, vars
<1> QED
  BY <1>1, <1>2

\* The steps of a branch
LEMMA BranchLevel ==
    ASSUME GatewayAssumption, FInv, NEW t \in Threads, Branch(t)
    PROVE  Level(t)
<1> USE DEF FInv, CInv, IInv, Goals, Levels, Level, Alone, InGate, GatewayAssumption
<1>1. CASE Arrive(t)
  BY <1>1, GoMoves, NothingReported DEF Arrive
<1>2. CASE Barrier(t)
  BY <1>2, GoMoves, NothingReported DEF Barrier
<1>3. CASE BranchStart(t)
  BY <1>3, GoMoves, NothingReported DEF BranchStart
<1>4. CASE LambdaEnds(t)
  BY <1>4, GoMoves, NothingReported DEF LambdaEnds
<1>5. CASE BranchEnd(t)
  <2>1. /\ pc[t] = "branch_end" /\ pc'[t] = "exited"
        /\ \A x \in Threads \ {t} : pc'[x] = pc[x]
    BY <1>5, GoMoves DEF BranchEnd
  <2>2. t # Main
    BY <2>1 DEF Kinship
  <2>3. UNCHANGED <<wstate, branches, joinVars>>
    BY <1>5 DEF BranchEnd
  <2> QED
    BY <2>1, <2>2, <2>3 DEF Reported, GatewayAssumption
<1> QED
  BY <1>1, <1>2, <1>3, <1>4, <1>5 DEF Branch

\* recursive_join visits all branches of the model's thread.
LEMMA JoinLevels ==
    ASSUME GatewayAssumption, FInv, NEW t \in Threads, Join(t)
    PROVE  Levels'
<1> USE DEF FInv, CInv, IInv, Levels, GatewayAssumption
<1>1. UNCHANGED <<wstate, pc, branches>>
  BY DEF Join, JoinVisit, JoinReturn
<1>2. StopCovers'
  <2>1. ASSUME NEW u \in Threads, JoinVisit(t, u)
        PROVE  StopCovers'
    BY <1>1, <2>1 DEF JoinVisit, StopCovers, HasExited, TypeOK
  <2>2. CASE JoinReturn(t)
    BY <1>1, <2>2 DEF JoinReturn, StopCovers, HasExited, TypeOK
  <2> QED
    BY <2>1, <2>2 DEF Join
<1> QED
  BY <1>1, <1>2 DEF OnlyModelForks, NobodyElse, ModelAlone, AllEnded, HasExited,
     StoppedMeansEnded, Reported

\* Only the model's thread enters a gateway, when its branches have ended.
LEMMA GateLevels ==
    ASSUME GatewayAssumption, Flat, FInv, NEW t \in Threads, Gate(t)
    PROVE  Levels'
<1> USE DEF FInv, CInv, IInv, Goals, Levels, GatewayAssumption
<1>1. CASE GateEnter(t)
  <2>1. /\ t = Main /\ pc[t] = "run" /\ pc'[t] = "gate_lambda" /\ ~ShouldSkip(t)
        /\ \A x \in Threads \ {t} : pc'[x] = pc[x]
    BY <1>1, GoMoves DEF GateEnter, Call, Flat
  <2>2. wstate = "Running"
    BY <2>1 DEF ShouldSkip, Terminating, Counters, Reports, Reported, TypeOK, States
  <2>3. AllEnded
    BY <2>1, <2>2 DEF StructuredParallelism, InGate, AllEnded
  <2>4. /\ branches'[Main] = {} /\ wstate' = wstate
        /\ \A x \in Threads \ {Main} : branches'[x] = branches[x]
    BY <1>1, <2>1 DEF GateEnter, TypeOK
  <2> QED
    BY <2>1, <2>2, <2>3, <2>4 DEF OnlyModelForks, NobodyElse, ModelAlone, AllEnded, Alone,
       HasExited, StoppedMeansEnded, Reported, StopCovers
<1>2. ASSUME NEW c \in Threads, Spawn(t, c)
      PROVE  Levels'
  <2>1. /\ pc[t] = "spawn" /\ t = Main /\ pc[c] = "unborn" /\ c # Main
        /\ pc'[t] = "gate_lambda" /\ pc'[c] = "born"
        /\ \A x \in Threads \ {t, c} : pc'[x] = pc[x]
    BY <1>2 DEF Spawn, TypeOK, OnlyModelForks, InGate, Kinship
  <2>2. /\ branches'[Main] = branches[Main] \cup {c} /\ wstate' = wstate
        /\ \A x \in Threads \ {Main} : branches'[x] = branches[x]
    BY <1>2, <2>1 DEF Spawn, TypeOK
  <2>3. wstate # "Stopped"
    BY <2>1 DEF Reported
  <2> QED
    BY <2>1, <2>2, <2>3 DEF OnlyModelForks, NobodyElse, ModelAlone, AllEnded, Alone,
       HasExited, StoppedMeansEnded, Reported, StopCovers, InGate
<1>3. ASSUME ~GateEnter(t), \A c \in Threads : ~Spawn(t, c)
      PROVE  Level(t)
  <2> USE DEF Level, Alone, InGate
  <2>1. CASE SpawnCheck(t)
    BY <2>1, GoMoves, NothingReported DEF SpawnCheck
  <2>2. CASE \E wait \in Waits, cancel \in Conds : GateRelease(t, wait, cancel)
    BY <2>2, GoMoves, NothingReported DEF GateRelease
  <2>3. CASE GateCheck(t)
    BY <2>3, GoMoves, NothingReported DEF GateCheck
  <2>4. CASE GateRecv(t)
    BY <2>4, GoMoves, NothingReported DEF GateRecv
  <2>5. CASE GateClose(t)
    <3>1. /\ pc[t] = "gate_close" /\ pc'[t] \in {"run", "gate_join"}
          /\ \A x \in Threads \ {t} : pc'[x] = pc[x] /\ todo'[x] = todo[x]
      BY <2>5, GoMoves DEF GateClose, TypeOK
    <3>2. UNCHANGED <<wstate, branches, joining>>
      BY <2>5 DEF GateClose
    <3> QED
      BY <3>1, <3>2 DEF Reported
  <2>6. CASE GateJoined(t)
    BY <2>6, GoMoves, NothingReported DEF GateJoined
  <2> QED
    BY <1>3, <2>1, <2>2, <2>3, <2>4, <2>5, <2>6 DEF Gate
<1> QED
  BY <1>1, <1>2, <1>3, LevelKeeps

\* The initial state satisfies the strengthening.
LEMMA InitFInv ==
    ASSUME GatewayAssumption, Init
    PROVE  FInv
<1>1. Levels
  BY DEF Init, Levels, OnlyModelForks, NobodyElse, ModelAlone, StopCovers, StoppedMeansEnded,
     Alone, InGate, GatewayAssumption
<1> QED
  BY <1>1, InitCInv DEF FInv

\* Every step keeps it if only the model's thread runs gateways.
LEMMA NextFInv ==
    ASSUME GatewayAssumption, Flat, FInv, [Next]_vars
    PROVE  FInv'
<1>1. CInv'
  BY NextCInv DEF FInv
<1> SUFFICES Levels'
  BY <1>1 DEF FInv
<1>2. Main \in Threads
  BY DEF GatewayAssumption
<1>3. ASSUME NEW t \in Threads, Step(t)
      PROVE  Levels'
  BY <1>3, GateLevels, JoinLevels, BranchLevel, ActivityLevel, JumpLevel, LevelKeeps DEF Step
<1>4. ASSUME NEW t \in Threads, Answer(t)
      PROVE  Levels'
  BY <1>2, <1>4, OthersLevel, LevelKeeps
<1>5. CASE SigCheck \/ StopWeel \/ Terminated \/ UNCHANGED vars
  BY <1>2, <1>5, OthersLevel, LevelKeeps
<1>6. CASE Start
  BY <1>2, <1>6, StartLevel, LevelKeeps
<1> QED
  BY <1>3, <1>4, <1>5, <1>6 DEF Next

\* Without nested gateways the strengthening is an invariant.
LEMMA FlatInductive ==
    ASSUME Forks \subseteq {Main}
    PROVE  Spec => []FInv
BY GatewayAssumption, InitFInv, NextFInv, PTL DEF Spec, Flat

\* Where gateways are not nested, all branches have ended when start reports the
\* instance as stopped (recursive_join in start and in parallel_do).
THEOREM StoppedAfterAll ==
    ASSUME Forks \subseteq {Main}
    PROVE  Spec => []StoppedMeansEnded
<1>1. FInv => StoppedMeansEnded
  BY DEF FInv, Levels
<1> QED
  BY <1>1, FlatInductive, PTL

\* A branch that forks nothing has nobody below it.
LEMMA OnlyModelAbove ==
    ASSUME GatewayAssumption, FInv, NEW t \in Threads
    PROVE  Ancestry(t) \subseteq {t, Main}
<1> SUFFICES ASSUME NEW a \in Threads \ {Main}, t \in Subtree(a)
             PROVE  t = a
  BY DEF Ancestry
<1>1. \A u \in {a} : branches[u] \subseteq {a}
  BY DEF FInv, Levels, OnlyModelForks
<1>2. Reached(branches, a) \subseteq {a}
  BY <1>1, ReachedInside
<1> QED
  BY <1>2, SubtreeReached

\* Where gateways are not nested, no activity of the running instance takes a
\* cancellation or any other wake-up for the answer to its call.
THEOREM ResultsAreAnswered ==
    ASSUME Forks \subseteq {Main}
    PROVE  Spec => ResultIsAnswered
<1>1. AInv /\ FInv /\ [Next]_vars =>
        [\A t \in Threads :
            pc[t] = "act_resume" /\ pc'[t] # "act_resume" /\ wstate = "Running"
            => ~pending[t]]_vars
  <2> SUFFICES ASSUME AInv, FInv, NEW t \in Threads, pc[t] = "act_resume", wstate = "Running"
               PROVE  ~pending[t]
    OBVIOUS
  <2>1. ~Abandoned(t)
    BY GatewayAssumption, OnlyModelAbove DEF Abandoned, AInv, WakeUpsExplained
  <2> QED
    BY <2>1 DEF AInv, WakeUpsExplained, WokenFor
<1> QED
  BY <1>1, FlatInductive, CallsInductive, PTL DEF Spec, ResultIsAnswered
=============================================================================
