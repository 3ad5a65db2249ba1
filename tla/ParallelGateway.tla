-------------------------- MODULE ParallelGateway --------------------------
(***************************************************************************)
(* Execution of one process instance by weel_lib: the model thread and the *)
(* branches of (nested) parallel gateways, the activities they run, the    *)
(* cancellation of branches, and the stop of the instance from inside and  *)
(* from outside (dsl_realization.rs).                                      *)
(*                                                                         *)
(* Every critical section under the mutex thread_information is one        *)
(* action; a state that is read or written outside of one is a step of its *)
(* own.  set_state holds the mutex state until it has woken the waiters,   *)
(* so nobody can read the new state before that and it is one action, too; *)
(* that its lock order can deadlock is LockOrder's subject.                *)
(***************************************************************************)
EXTENDS Naturals, FiniteSets

CONSTANTS Threads,    \* thread ids, every spawned branch takes a fresh one
          Main,       \* the thread that runs the model
          NoThread,
          All,        \* the parameter wait of parallel_do when it is None
          Waits,      \* the values of wait: numbers of branches, or All
          Conds,      \* its parameter cancel: subset of {"first", "last"}
          Outcomes,   \* of a call: subset of {"sync", "async", "refused", "error"}
          Jumps,      \* dsl calls that end the instance: subset of {"stop", "terminate"}
          Signals,    \* does the process get a SIGINT, SIGTERM or SIGHUP?
          Forks,      \* bound on nesting: the threads that may run a gateway
          MaxOps      \* bound on the dsl calls of each thread

ASSUME GatewayAssumption ==
    /\ IsFiniteSet(Threads)
    /\ Main \in Threads
    /\ NoThread \notin Threads
    /\ Waits \subseteq Nat \cup {All}
    /\ Conds \subseteq {"first", "last"}
    /\ Jumps \subseteq {"stop", "terminate"}
    /\ Signals \in BOOLEAN
    /\ Forks \subseteq Threads
    /\ MaxOps \in [Threads -> Nat]

VARIABLES
    wstate,      \* Weel::state
    pc,          \* where each thread is
    ops,         \* dsl calls each thread has made
    \* ThreadInfo of a thread as a gateway
    branches,    \* branches
    sender,      \* branch_event_sender is Some
    event,       \* a message waits in the branch event channel
    finished,    \* branch_finished_count
    waitCount,   \* branch_wait_count
    threshold,   \* branch_wait_threshold
    cond,        \* parallel_wait_condition
    \* ThreadInfo of a thread as a branch
    parent,      \* parent_thread
    go,          \* there is an element for it in branch_barrier_start
    unneeded,    \* no_longer_necessary
    firstAct,    \* first_activity_in_thread
    \* the service call of the activity a thread is in
    signal,      \* callback_signals is not empty
    pending,     \* handler_passthrough is Some: accepted, not yet answered
    \* recursive_join
    todo,        \* threads it still has to visit
    joining,     \* the thread in whose JoinHandle::join it is
    sigpc        \* where the signal handling thread is in stop_weel

gateVars   == <<branches, sender, event, finished, waitCount, threshold, cond>>
branchVars == <<parent, go, unneeded, firstAct>>
callVars   == <<signal, pending>>
joinVars   == <<todo, joining>>
vars == <<wstate, pc, ops, gateVars, branchVars, callVars, joinVars, sigpc>>

Init == /\ wstate = "Running"
        /\ pc = [t \in Threads |-> IF t = Main THEN "run" ELSE "unborn"]
        /\ ops = [t \in Threads |-> 0]
        /\ branches = [t \in Threads |-> {}]
        /\ sender = [t \in Threads |-> FALSE]
        /\ event = [t \in Threads |-> FALSE]
        /\ finished = [t \in Threads |-> 0]
        /\ waitCount = [t \in Threads |-> 0]
        /\ threshold = [t \in Threads |-> 0]
        /\ cond = [t \in Threads |-> "first"]
        /\ parent = [t \in Threads |-> NoThread]
        /\ go = [t \in Threads |-> FALSE]
        /\ unneeded = [t \in Threads |-> FALSE]
        /\ firstAct = [t \in Threads |-> TRUE]
        /\ signal = [t \in Threads |-> FALSE]
        /\ pending = [t \in Threads |-> FALSE]
        /\ todo = [t \in Threads |-> {}]
        /\ joining = [t \in Threads |-> NoThread]
        /\ sigpc = "idle"
-----------------------------------------------------------------------------
Terminating == wstate \in {"Stopping", "Stopped", "Finishing"}

\* Several places of the code look for these two states only.
StoppingOrFinishing == wstate \in {"Stopping", "Finishing"}

ShouldSkip(t) == Terminating \/ unneeded[t]

\* The process is gone once the model thread has left main.
Alive == pc[Main] # "exited"

Go(t, from, to) == Alive /\ pc[t] = from /\ pc' = [pc EXCEPT ![t] = to]

\* A thread makes its next dsl call.
Call(t, to) == /\ Go(t, "run", to)
               /\ ops[t] < MaxOps[t]
               /\ ops' = [ops EXCEPT ![t] = @ + 1]

SubtreeWithoutDescent(t) == {t}

\* The threads that recursive_continue visits.
Subtree(t) ==
    LET reach[n \in 0 .. Cardinality(Threads)] ==
            IF n = 0 THEN {t}
            ELSE reach[n-1] \cup UNION {branches[u] : u \in reach[n-1]}
    IN  reach[Cardinality(Threads)]

Subtrees(S) == UNION {Subtree(t) : t \in S}

\* A signal sent to a thread that is not in an activity ends up in a queue
\* that the thread's next activity replaces.
Listening(t) == pc[t] \in {"act_prepare", "act_call", "act_check", "act_wait"}

\* Send a signal to the activities of the threads in S and a message to the
\* gateways of the threads in G that have a branch event channel.
Wake(S, G) ==
    /\ signal' = [t \in Threads |-> signal[t] \/ (t \in S /\ Listening(t))]
    /\ event' = [t \in Threads |-> event[t] \/ (t \in G /\ sender[t])]

\* recursive_continue for the threads in S, which are closed under branches
Continue(S) == Wake(S, S)

\* set_state(Stopping) called for the thread t
SetStopping(t) ==
    \/ /\ wstate = "Stopping"
       /\ UNCHANGED <<wstate, signal, event>>
    \/ /\ wstate # "Stopping"
       /\ wstate' = "Stopping"
       /\ Continue(Subtree(t))
-----------------------------------------------------------------------------
\* Mutant: the branches of the last gateway stay counted
GateEnterUncleared(t) ==
    /\ t \in Forks
    /\ ~ShouldSkip(t)
    /\ Call(t, "gate_lambda")
    /\ branches' = [branches EXCEPT ![t] = {}]
    /\ sender' = [sender EXCEPT ![t] = TRUE]
    /\ event' = [event EXCEPT ![t] = FALSE]
    /\ UNCHANGED <<wstate, finished, waitCount, threshold, cond, branchVars, callVars,
                   joinVars, sigpc>>

\* parallel_do up to the call of its lambda
GateEnter(t) ==
    /\ t \in Forks
    /\ ~ShouldSkip(t)
    /\ Call(t, "gate_lambda")
    /\ branches' = [branches EXCEPT ![t] = {}]
    /\ finished' = [finished EXCEPT ![t] = 0]
    /\ sender' = [sender EXCEPT ![t] = TRUE]
    /\ event' = [event EXCEPT ![t] = FALSE]
    /\ UNCHANGED <<wstate, waitCount, threshold, cond, branchVars, callVars,
                   joinVars, sigpc>>

\* Bound: a thread id is left for everybody who is about to spawn.
ThreadsLeft == Cardinality({t \in Threads : pc[t] = "spawn"})
                   < Cardinality({t \in Threads : pc[t] = "unborn"})

\* The lambda calls parallel_branch; a skipped call does nothing.
SpawnCheck(t) ==
    /\ ThreadsLeft
    /\ ~ShouldSkip(t)
    /\ Go(t, "gate_lambda", "spawn")
    /\ UNCHANGED <<wstate, ops, gateVars, branchVars, callVars, joinVars, sigpc>>

\* The first critical section of the new thread; its parent waits for it.
Spawn(t, c) ==
    /\ Alive
    /\ pc[t] = "spawn"
    /\ pc[c] = "unborn"
    /\ pc' = [pc EXCEPT ![t] = "gate_lambda", ![c] = "born"]
    /\ branches' = [branches EXCEPT ![t] = @ \cup {c}]
    /\ parent' = [parent EXCEPT ![c] = t]
    /\ UNCHANGED <<wstate, ops, sender, event, finished, waitCount, threshold,
                   cond, go, unneeded, firstAct, callVars, joinVars, sigpc>>

ThresholdWithoutDefault(wait, spawned) == wait
Threshold(wait, spawned) == IF wait = All THEN spawned ELSE wait

\* The gateway starts its branches: one element for each in the barrier queue.
GateRelease(t, wait, cancel) ==
    /\ Go(t, "gate_lambda", "gate_check")
    /\ waitCount' = [waitCount EXCEPT ![t] = 0]
    /\ threshold' = [threshold EXCEPT ![t] = Threshold(wait, Cardinality(branches[t]))]
    /\ cond' = [cond EXCEPT ![t] = cancel]
    /\ go' = [c \in Threads |-> go[c] \/ c \in branches[t]]
    /\ UNCHANGED <<wstate, ops, branches, sender, event, finished, parent,
                   unneeded, firstAct, callVars, joinVars, sigpc>>

GateCheck(t) ==
    /\ \/ /\ Terminating \/ branches[t] = {}
          /\ Go(t, "gate_check", "gate_close")
       \/ /\ ~(Terminating \/ branches[t] = {})
          /\ Go(t, "gate_check", "gate_recv")
    /\ UNCHANGED <<wstate, ops, gateVars, branchVars, callVars, joinVars, sigpc>>

GateRecv(t) ==
    /\ Go(t, "gate_recv", "gate_close")
    /\ event[t]
    /\ event' = [event EXCEPT ![t] = FALSE]
    /\ UNCHANGED <<wstate, ops, branches, sender, finished, waitCount, threshold,
                   cond, branchVars, callVars, joinVars, sigpc>>

\* After the wait: leave at once if the instance ends, else cancel all
\* branches, wake what is below them and join them.
GateClose(t) ==
    /\ sender' = [sender EXCEPT ![t] = FALSE]
    /\ \/ /\ Terminating
          /\ Go(t, "gate_close", "run")
          /\ UNCHANGED <<event, unneeded, signal, todo>>
       \/ /\ ~Terminating
          /\ Go(t, "gate_close", "gate_join")
          /\ unneeded' = [c \in Threads |-> unneeded[c] \/ c \in branches[t]]
          /\ Continue(Subtrees(branches[t]))
          /\ todo' = [todo EXCEPT ![t] = branches[t]]
    /\ UNCHANGED <<wstate, ops, branches, finished, waitCount, threshold, cond,
                   parent, go, firstAct, pending, joining, sigpc>>

\* recursive_join reads the children of a thread before it joins the thread.
\* Its JoinHandle may be taken already; then the thread has exited, because
\* only the thread's gateway can have taken it and that joins before it ends.
JoinVisit(t, u) ==
    /\ Alive
    /\ pc[t] \in {"gate_join", "stop_join"}
    /\ joining[t] = NoThread
    /\ u \in todo[t]
    /\ todo' = [todo EXCEPT ![t] = (@ \ {u}) \cup branches[u]]
    /\ joining' = [joining EXCEPT ![t] = IF u = t THEN NoThread ELSE u]
    /\ UNCHANGED <<wstate, pc, ops, gateVars, branchVars, callVars, sigpc>>

HasExited(u) == pc[u] = "exited"

JoinReturnAtOnce(t) ==
    /\ Alive
    /\ joining[t] # NoThread
    /\ joining' = [joining EXCEPT ![t] = NoThread]
    /\ UNCHANGED <<wstate, pc, ops, gateVars, branchVars, callVars, todo, sigpc>>

JoinReturn(t) ==
    /\ Alive
    /\ joining[t] # NoThread
    /\ HasExited(joining[t])
    /\ joining' = [joining EXCEPT ![t] = NoThread]
    /\ UNCHANGED <<wstate, pc, ops, gateVars, branchVars, callVars, todo, sigpc>>

GateJoined(t) ==
    /\ Go(t, "gate_join", "run")
    /\ todo[t] = {} /\ joining[t] = NoThread
    /\ UNCHANGED <<wstate, ops, gateVars, branchVars, callVars, joinVars, sigpc>>
-----------------------------------------------------------------------------
\* The rest of the branch thread of parallel_branch.
Arrive(t) ==
    /\ \/ Terminating /\ Go(t, "born", "branch_start")
       \/ ~Terminating /\ Go(t, "born", "barrier")
    /\ UNCHANGED <<wstate, ops, gateVars, branchVars, callVars, joinVars, sigpc>>

BarrierAlwaysOpen(t) ==
    /\ Go(t, "barrier", "branch_start")
    /\ UNCHANGED <<wstate, ops, gateVars, branchVars, callVars, joinVars, sigpc>>

Barrier(t) ==
    /\ go[t]
    /\ Go(t, "barrier", "branch_start")
    /\ UNCHANGED <<wstate, ops, gateVars, branchVars, callVars, joinVars, sigpc>>

BranchStart(t) ==
    /\ \/ ShouldSkip(t) /\ Go(t, "branch_start", "branch_end")
       \/ ~ShouldSkip(t) /\ Go(t, "branch_start", "run")
    /\ UNCHANGED <<wstate, ops, gateVars, branchVars, callVars, joinVars, sigpc>>

LambdaEnds(t) ==
    /\ t # Main
    /\ Go(t, "run", "branch_end")
    /\ UNCHANGED <<wstate, ops, gateVars, branchVars, callVars, joinVars, sigpc>>

SatisfiesAny(t) ==
    finished[parent[t]] + 1 = threshold[parent[t]] /\ ~StoppingOrFinishing

SatisfiesTooLate(t) ==
    LET p == parent[t]
    IN  /\ cond[p] = "last"
        /\ finished[p] = threshold[p]
        /\ ~StoppingOrFinishing

\* The branch whose end satisfies a "last" gateway
SatisfiesLast(t) ==
    LET p == parent[t]
    IN  /\ cond[p] = "last"
        /\ finished[p] + 1 = threshold[p]
        /\ ~StoppingOrFinishing

EndsAtThreshold(t) ==
    LET p == parent[t]
    IN  t \in branches[p] /\ finished[p] + 1 >= threshold[p]

EndsBeforeCounting(t) ==
    LET p == parent[t]
    IN  t \in branches[p] /\ finished[p] = Cardinality(branches[p])

\* The branch with whose end all branches of the gateway have ended
EndsLast(t) ==
    LET p == parent[t]
    IN  t \in branches[p] /\ finished[p] + 1 = Cardinality(branches[p])

\* branches that have not sent their termination message
NotDone(p) == {c \in branches[p] : ~HasExited(c)}

\* The last critical section of a branch.  Its own termination message is
\* sent first; a branch without one is cancelled if the wait is over.  The
\* event goes to the channel of the gateway that spawned the branch.
BranchEnd(t) ==
    LET p == parent[t]
        losers == IF SatisfiesLast(t) THEN NotDone(p) \ {t} ELSE {}
        woken == Subtrees(losers)
    IN  /\ Go(t, "branch_end", "exited")
        /\ finished' = [finished EXCEPT ![p] = @ + 1]
        /\ unneeded' = [c \in Threads |-> unneeded[c] \/ c \in losers]
        /\ Wake(woken, woken \cup (IF EndsLast(t) THEN {p} ELSE {}))
        /\ UNCHANGED <<wstate, ops, branches, sender, waitCount, threshold, cond,
                       parent, go, firstAct, pending, joinVars, sigpc>>
-----------------------------------------------------------------------------
\* weel_activity of a service call.  An activity that is skipped still runs
\* its last part.  It gets a new signal queue and a new connection wrapper.
ActBegin(t) ==
    /\ \/ ShouldSkip(t) /\ Call(t, "act_done") /\ UNCHANGED callVars
       \/ /\ ~ShouldSkip(t)
          /\ Call(t, "act_prepare")
          /\ signal' = [signal EXCEPT ![t] = FALSE]
          /\ pending' = [pending EXCEPT ![t] = FALSE]
    /\ UNCHANGED <<wstate, gateVars, branchVars, joinVars, sigpc>>

ActPrepare(t) ==
    /\ \/ StoppingOrFinishing /\ Go(t, "act_prepare", "act_done")
       \/ ~StoppingOrFinishing /\ Go(t, "act_prepare", "act_call")
    /\ UNCHANGED <<wstate, ops, gateVars, branchVars, callVars, joinVars, sigpc>>

\* activity_handle: the answer is in the response, announced for later, or
\* there is none and the error leaves weel_activity without its last part.
ActCall(t) ==
    /\ \/ /\ "sync" \in Outcomes
          /\ Go(t, "act_call", "act_check")
          /\ signal' = [signal EXCEPT ![t] = TRUE]
          /\ UNCHANGED pending
       \/ /\ "async" \in Outcomes
          /\ Go(t, "act_call", "act_check")
          /\ pending' = [pending EXCEPT ![t] = TRUE]
          /\ UNCHANGED signal
       \/ /\ "refused" \in Outcomes
          /\ Go(t, "act_call", "failed")
          /\ UNCHANGED callVars
    /\ UNCHANGED <<wstate, ops, gateVars, branchVars, joinVars, sigpc>>

\* The callback thread delivers the answer.
Answer(t) ==
    /\ Alive
    /\ pending[t]
    /\ pending' = [pending EXCEPT ![t] = FALSE]
    /\ signal' = [signal EXCEPT ![t] = signal[t] \/ Listening(t)]
    /\ UNCHANGED <<wstate, pc, ops, gateVars, branchVars, joinVars, sigpc>>

\* Before the wait: is there a reason not to block?
ActCheck(t) ==
    /\ \/ ShouldSkip(t) /\ Go(t, "act_check", "act_woken")
       \/ ~ShouldSkip(t) /\ Go(t, "act_check", "act_wait")
    /\ UNCHANGED <<wstate, ops, gateVars, branchVars, callVars, joinVars, sigpc>>

ActWake(t) ==
    /\ signal[t]
    /\ Go(t, "act_wait", "act_woken")
    /\ signal' = [signal EXCEPT ![t] = FALSE]
    /\ UNCHANGED <<wstate, ops, gateVars, branchVars, pending, joinVars, sigpc>>

ActWokenUnchecked(t) ==
    /\ Go(t, "act_woken", "act_resume")
    /\ UNCHANGED <<wstate, ops, gateVars, branchVars, callVars, joinVars, sigpc>>

\* After the wait: a cancelled activity is done.
ActWoken(t) ==
    /\ \/ unneeded[t] /\ Go(t, "act_woken", "act_done")
       \/ ~unneeded[t] /\ Go(t, "act_woken", "act_resume")
    /\ UNCHANGED <<wstate, ops, gateVars, branchVars, callVars, joinVars, sigpc>>

\* Leave with the call still open if the instance ends, else run the code that
\* takes the result, which may fail.
ActResume(t) ==
    /\ \/ Go(t, "act_resume", "act_done")
       \/ /\ "error" \in Outcomes
          /\ ~(Terminating /\ pending[t])
          /\ Go(t, "act_resume", "act_error")
    /\ UNCHANGED <<wstate, ops, gateVars, branchVars, callVars, joinVars, sigpc>>

ActError(t) ==
    /\ Go(t, "act_error", "act_done")
    /\ SetStopping(t)
    /\ UNCHANGED <<ops, branches, sender, finished, waitCount, threshold, cond,
                   branchVars, pending, joinVars, sigpc>>

\* Is t the next winner of a "first" gateway?
Wins(t) == LET p == parent[t]
           IN  /\ cond[p] = "first"
               /\ firstAct[t]
               /\ waitCount[p] < threshold[p]

\* branch_wait_count after the end of an activity of t
Winners(t) == waitCount[parent[t]] + (IF Wins(t) THEN 1 ELSE 0)

\* With the last winner, the branches whose first activity has not won lose.
Losers(t) == IF Winners(t) = threshold[parent[t]] /\ ~StoppingOrFinishing
             THEN {c \in branches[parent[t]] : firstAct[c] /\ ~(c = t /\ Wins(t))}
             ELSE {}

\* finalize_call_activity and parallel_gateway_update.  The code wakes the
\* thread itself where it means the branches it cancels.
ActDone(t) ==
    /\ Go(t, "act_done", "run")
    /\ IF parent[t] = NoThread
       THEN UNCHANGED <<waitCount, firstAct, unneeded, signal, event>>
       ELSE /\ firstAct' = [firstAct EXCEPT ![t] = @ /\ ~Wins(t)]
            /\ waitCount' = [waitCount EXCEPT ![parent[t]] = Winners(t)]
            /\ unneeded' = [c \in Threads |-> unneeded[c] \/ c \in Losers(t)]
            /\ Continue(IF Losers(t) = {} THEN {} ELSE Subtree(t))
    /\ pending' = [pending EXCEPT ![t] = FALSE]
    /\ UNCHANGED <<wstate, ops, branches, sender, finished, threshold, cond,
                   parent, go, joinVars, sigpc>>

\* A call that could not be made stops the instance in the innermost
\* execute_lambda: that of a loop or a choice, in which case the thread goes
\* on, that of the branch, or, for the model itself, in start.
Failed(t) ==
    /\ \/ Go(t, "failed", "run")
       \/ t = Main /\ Go(t, "failed", "set_stopped")
       \/ t # Main /\ Go(t, "failed", "branch_end")
    /\ SetStopping(t)
    /\ UNCHANGED <<ops, branches, sender, finished, waitCount, threshold, cond,
                   branchVars, pending, joinVars, sigpc>>
-----------------------------------------------------------------------------
\* stop and terminate: both look first and write the state in another step.
JumpCheck(t, jump) ==
    /\ ~ShouldSkip(t)
    /\ Call(t, jump)
    /\ UNCHANGED <<wstate, gateVars, branchVars, callVars, joinVars, sigpc>>

StopSet(t) ==
    /\ Go(t, "stop", "run")
    /\ SetStopping(t)
    /\ UNCHANGED <<ops, branches, sender, finished, waitCount, threshold, cond,
                   branchVars, pending, joinVars, sigpc>>

TerminateSet(t) ==
    /\ Go(t, "terminate", "run")
    /\ wstate' = "Finishing"
    /\ UNCHANGED <<ops, gateVars, branchVars, callVars, joinVars, sigpc>>

\* start after the model has returned.  Between the look at the state and
\* set_state(Finished) the mutex is free.
ModelEnds ==
    /\ \/ wstate \in {"Running", "Finishing"} /\ Go(Main, "run", "set_finished")
          /\ UNCHANGED todo
       \/ wstate = "Stopping" /\ Go(Main, "run", "stop_join")
          /\ todo' = [todo EXCEPT ![Main] = {Main}]
    /\ UNCHANGED <<wstate, ops, gateVars, branchVars, callVars, joining, sigpc>>

SetFinished ==
    /\ Go(Main, "set_finished", "send_stop")
    /\ wstate' = "Finished"
    /\ UNCHANGED <<ops, gateVars, branchVars, callVars, joinVars, sigpc>>

SetStoppedWithoutJoin ==
    /\ Go(Main, "stop_join", "send_stop")
    /\ wstate' = "Stopped"
    /\ UNCHANGED <<ops, gateVars, branchVars, callVars, joinVars, sigpc>>

SetStopped ==
    /\ \/ /\ Go(Main, "stop_join", "send_stop")
          /\ todo[Main] = {} /\ joining[Main] = NoThread
       \/ Go(Main, "set_stopped", "send_stop")
    /\ wstate' = "Stopped"
    /\ UNCHANGED <<ops, gateVars, branchVars, callVars, joinVars, sigpc>>

\* The stop signal is sent, then main returns and the process is gone.
SendStop ==
    /\ Go(Main, "send_stop", "sent")
    /\ UNCHANGED <<wstate, ops, gateVars, branchVars, callVars, joinVars, sigpc>>

Exit ==
    /\ Go(Main, "sent", "exited")
    /\ UNCHANGED <<wstate, ops, gateVars, branchVars, callVars, joinVars, sigpc>>

\* The signal handling thread in stop_weel: one signal.
SigCheck ==
    /\ Signals /\ Alive
    /\ sigpc = "idle"
    /\ sigpc' = IF wstate = "Running" THEN "set" ELSE "done"
    /\ UNCHANGED <<wstate, pc, ops, gateVars, branchVars, callVars, joinVars>>

SigSet ==
    /\ Alive
    /\ sigpc = "set"
    /\ sigpc' = "recv"
    /\ SetStopping(Main)
    /\ UNCHANGED <<pc, ops, branches, sender, finished, waitCount, threshold, cond,
                   branchVars, pending, joinVars>>

SigRecv ==
    /\ Alive
    /\ sigpc = "recv"
    /\ pc[Main] = "sent"
    /\ sigpc' = "done"
    /\ UNCHANGED <<wstate, pc, ops, gateVars, branchVars, callVars, joinVars>>

\* Nothing is left to run.
Terminated == ~Alive /\ UNCHANGED vars
-----------------------------------------------------------------------------
Gate(t) == \/ GateEnter(t) \/ SpawnCheck(t)
           \/ \E c \in Threads : Spawn(t, c)
           \/ \E wait \in Waits, cancel \in Conds : GateRelease(t, wait, cancel)
           \/ GateCheck(t) \/ GateRecv(t) \/ GateClose(t) \/ GateJoined(t)

Join(t) == (\E u \in Threads : JoinVisit(t, u)) \/ JoinReturn(t)

Branch(t) == Arrive(t) \/ Barrier(t) \/ BranchStart(t) \/ LambdaEnds(t) \/ BranchEnd(t)

Activity(t) == \/ ActBegin(t) \/ ActPrepare(t) \/ ActCall(t) \/ ActCheck(t)
               \/ ActWake(t) \/ ActWoken(t) \/ ActResume(t) \/ ActError(t)
               \/ ActDone(t) \/ Failed(t)

Jump(t) == (\E jump \in Jumps : JumpCheck(t, jump)) \/ StopSet(t) \/ TerminateSet(t)

Start == ModelEnds \/ SetFinished \/ SetStopped \/ SendStop \/ Exit

StopWeel == SigSet \/ SigRecv

Step(t) == Gate(t) \/ Join(t) \/ Branch(t) \/ Activity(t) \/ Jump(t)

Next == \/ \E t \in Threads : Step(t) \/ Answer(t)
        \/ Start
        \/ SigCheck \/ StopWeel
        \/ Terminated

\* Threads keep running and requests return; nobody has to answer a call that
\* was accepted for later, and no signal has to come.
Fairness == /\ \A t \in Threads : WF_vars(Step(t))
            /\ WF_vars(Start)
            /\ WF_vars(StopWeel)

Spec == Init /\ [][Next]_vars /\ Fairness
-----------------------------------------------------------------------------
States == {"Running", "Stopping", "Stopped", "Finishing", "Finished"}

InGate == {"gate_lambda", "spawn", "gate_check", "gate_recv", "gate_close", "gate_join"}

Points == {"unborn", "born", "barrier", "branch_start", "run", "branch_end", "exited",
           "act_prepare", "act_call", "act_check", "act_wait", "act_woken",
           "act_resume", "act_error", "act_done", "failed", "stop", "terminate",
           "set_finished", "stop_join", "set_stopped", "send_stop", "sent"} \cup InGate

\* Every variable has its type: counters are numbers, also when wait is None,
\* and parents, branches and the targets of joins are threads.
TypeOK ==
    /\ wstate \in States
    /\ pc \in [Threads -> Points]
    /\ ops \in [Threads -> Nat]
    /\ branches \in [Threads -> SUBSET Threads]
    /\ sender \in [Threads -> BOOLEAN] /\ event \in [Threads -> BOOLEAN]
    /\ finished \in [Threads -> Nat] /\ waitCount \in [Threads -> Nat]
    /\ threshold \in [Threads -> Nat] /\ cond \in [Threads -> {"first", "last"}]
    /\ parent \in [Threads -> Threads \cup {NoThread}]
    /\ go \in [Threads -> BOOLEAN] /\ unneeded \in [Threads -> BOOLEAN]
    /\ firstAct \in [Threads -> BOOLEAN]
    /\ signal \in [Threads -> BOOLEAN] /\ pending \in [Threads -> BOOLEAN]
    /\ todo \in [Threads -> SUBSET Threads]
    /\ joining \in [Threads -> Threads \cup {NoThread}]
    /\ sigpc \in {"idle", "set", "recv", "done"}

\* Structured parallelism: as long as nobody has ended the instance, a thread
\* outside of its gateway has no branch that still runs, so the steps after
\* the gateway never overlap with a branch.  What parallel_do has to achieve
\* with a channel, a counter, flags and recursive_join.
StructuredParallelism ==
    wstate = "Running" =>
        \A t \in Threads : pc[t] \notin InGate => \A c \in branches[t] : HasExited(c)

\* While a gateway still spawns, none of its branches has passed the barrier,
\* so every branch takes its snapshot of the data before any of them runs.
BarrierHolds ==
    wstate = "Running" =>
        \A t \in Threads : \A c \in branches[t] :
            pc[t] \in {"gate_lambda", "spawn"} => pc[c] \in {"born", "barrier"}

\* The two counters of a gateway agree with its branches, also for the second
\* gateway of a thread: finished counts the branches that ended, waitCount
\* those whose first activity won a "first" gateway.
CountersAgree ==
    wstate = "Running" =>
        \A t \in Threads :
            /\ finished[t] = Cardinality({c \in branches[t] : HasExited(c)})
            /\ pc[t] \in InGate \ {"gate_lambda", "spawn"} =>
                  waitCount[t] = Cardinality({c \in branches[t] : ~firstAct[c]})

\* A branch is cancelled by its siblings only when the gateway's wait is over:
\* enough branches ended, or enough first activities, not its own, are done.
CancelJustified ==
    wstate = "Running" =>
        \A t \in Threads : \A c \in branches[t] :
            pc[t] \in {"gate_check", "gate_recv"} /\ unneeded[c] =>
                CASE cond[t] = "last"  -> finished[t] >= threshold[t]
                  [] cond[t] = "first" -> waitCount[t] >= threshold[t] /\ firstAct[c]

\* start has set the last state of the instance.
Reported == pc[Main] \in {"send_stop", "sent", "exited"}

\* When all its branches have ended, the gateway has its message, or it would
\* wait on the channel for good.  Once the instance has reported its end this
\* fails: a branch that was left running can begin a gateway in the state
\* Finished, and late branches of its gateway before are counted in that.
EndIsSignalled ==
    ~Reported =>
        \A t \in Threads :
            pc[t] = "gate_recv" /\ (\A c \in branches[t] : HasExited(c)) => event[t]

Ancestry(t) == {a \in Threads : t \in Subtree(a)}

\* The gateway goes on before all of its branches have ended only if it is
\* cancelled itself, or the instance is being ended.
GateWaitsForBranches ==
    [][\A t \in Threads :
          /\ pc[t] = "gate_recv" /\ pc'[t] = "gate_close"
          /\ wstate = "Running"
          /\ \A a \in Ancestry(t) : ~unneeded[a]
          => \A c \in branches[t] : HasExited(c)]_vars

\* An activity does not take a wake-up for the answer to its call: as long as
\* the instance runs, it only gets to its result once the call is answered.
ResultIsAnswered ==
    [][\A t \in Threads :
          pc[t] = "act_resume" /\ pc'[t] # "act_resume" /\ wstate = "Running"
          => ~pending[t]]_vars

\* However gateways are nested: an activity of the running instance gets to its
\* result without an answer only below a thread that was cancelled.
OnlyAbandonedUnanswered ==
    [][\A t \in Threads :
          pc[t] = "act_resume" /\ pc'[t] # "act_resume" /\ wstate = "Running" /\ pending[t]
          => \E a \in Ancestry(t) \ {t} : unneeded[a]]_vars

\* A stop by signal comes to its end without anybody answering a call.
StopCompletes == sigpc = "recv" ~> pc[Main] = "exited"

\* Once enough branches of a "last" gateway have ended, the gateway opens
\* without anybody answering the calls of the others.
LastGatewayOpens ==
    \A t \in Forks :
        pc[t] = "gate_recv" /\ cond[t] = "last" /\ finished[t] >= threshold[t]
            ~> pc[t] # "gate_recv"

\* Likewise a "first" gateway once enough branches have won.
FirstGatewayOpens ==
    \A t \in Forks :
        pc[t] = "gate_recv" /\ cond[t] = "first" /\ waitCount[t] >= threshold[t]
            ~> pc[t] # "gate_recv"

\* Once the instance is stopping, whoever asked for it, it comes to its end
\* without anybody answering a call.
AnyStopCompletes == wstate = "Stopping" ~> pc[Main] = "exited"

\* When the instance reports that it has stopped, all its branches have ended.
StoppedMeansEnded ==
    wstate = "Stopped" => \A t \in Threads \ {Main} : pc[t] \in {"unborn", "exited"}
=============================================================================
