------------------------------ MODULE LockOrder ------------------------------
(***************************************************************************)
(* The order in which weel_lib takes its mutexes.  Every procedure of the  *)
(* code is a program: the sequence of the locks it takes and releases on   *)
(* the way through it that takes most of them, without the repetition of   *)
(* one that is taken and released with the same locks held.  What else a   *)
(* thread waits for, a channel or a queue, is left out.                    *)
(*                                                                         *)
(* The process model calls these procedures one after the other and inside *)
(* of each other.  Only critical_do has a mutex locked while it executes   *)
(* the lambda it was given, the mutex of the section: there a thread calls *)
(* whatever the model may call.  A call from another lambda is as one      *)
(* after it, for what is locked is the same.                               *)
(*                                                                         *)
(* A wrapper's mutex is named by the thread whose activity it belongs to,  *)
(* and that thread runs one activity.  The mutexes inside of a Position    *)
(* are left out: who waits for one may hold others, but who holds one only *)
(* waits for a wrapper, callback_keys, redis and queue (during the call).  *)
(* A thread that panics is left out too.                                   *)
(***************************************************************************)
EXTENDS Sequences

CONSTANTS Workers,    \* the model thread and branches
          Callback,   \* the callback thread
          Sections,   \* the ids of critical sections
          Nobody

Threads == Workers \cup {Callback}

\* The mutexes of the fields of Weel and of its statics
Fields == {"thread_information", "state", "status", "positions", "search_positions",
           "context", "redis", "callback_keys", "open_votes", "evaluation", "queue",
           "loop_guard", "stop_signal_receiver"}

Mutexes == Workers \cup Fields \cup Sections

ASSUME LockAssumption ==
    /\ Workers \cap Fields = {}
    /\ Sections \cap (Workers \cup Fields) = {}
    /\ Callback \notin Workers
    /\ Nobody \notin Threads

VARIABLES
    todo,        \* the rest of the program each thread is in
    owner,       \* who holds each mutex
    begun,       \* workers that have begun their activity
    registered   \* workers whose wrapper is in callback_keys

vars == <<todo, owner, begun, registered>>
-----------------------------------------------------------------------------
Lock(m)     == <<[op |-> "lock", mutex |-> m]>>
Unlock(m)   == <<[op |-> "unlock", mutex |-> m]>>
Register(t) == <<[op |-> "register", mutex |-> t]>>

\* Locked for a moment in which nothing else is locked
Brief(m)    == <<[op |-> "brief", mutex |-> m]>>

\* The lambda of a critical section
Lambda      == <<[op |-> "lambda"]>>

Under(m, body) == Lock(m) \o body \o Unlock(m)

Inform == Brief("redis")

Terminating == Brief("state")

ShouldSkipLocking == Terminating \o Brief("thread_information")

\* Mutant: the two locks in the other order
InSearchModeSearchFirst == Under("search_positions", Brief("thread_information"))

InSearchMode == Under("thread_information", Brief("search_positions"))

\* It wakes all threads with the state still locked.
SetState ==
    Under("state",
          Under("status", Brief("queue") \o Under("thread_information", Brief("queue")))
          \o Inform)

Vote == Brief("open_votes") \o Inform

ExecuteReadOnly == Brief("context") \o Brief("status")

ExecuteCode == Under("evaluation", ExecuteReadOnly)

RegisterCallback(t) == Inform \o Under("callback_keys", Register(t))

WeelProgress ==
    Under("thread_information",
          Brief("positions")
          \o Under("search_positions", Brief("positions"))
          \o Brief("positions") \o Inform)

\* handle_callback; its caller has locked the wrapper
HandleCallback == Inform \o Brief("queue")
-----------------------------------------------------------------------------
ParallelDo ==
    Under("thread_information", Terminating)
    \o Under("thread_information", Inform \o Terminating \o Brief("queue"))
    \o Terminating \o Brief("thread_information")

\* parallel_branch: the thread that calls it ...
Spawn == ShouldSkipLocking \o Brief("thread_information")

\* ... and the new one, before its lambda and after it
Branch ==
    Under("thread_information", Brief("search_positions") \o Brief("context"))
    \o ShouldSkipLocking
    \o Under("thread_information",
             Terminating \o Brief("queue") \o Brief("positions") \o Inform)

\* The context stays locked until the CPEE knows the result.
EvaluateCondition == Brief("thread_information") \o Under("context", Inform)
                     \o SetState \o Inform

Choose == Under("thread_information", Terminating) \o Inform

\* otherwise, terminate and escape take some of these.
Alternative == ShouldSkipLocking \o EvaluateCondition \o InSearchMode

Loop == ShouldSkipLocking \o InSearchMode \o EvaluateCondition \o Brief("loop_guard")

CriticalDo(id) == ShouldSkipLocking \o Under(id, Lambda \o SetState \o Inform)

StopHere == InSearchMode \o Under("thread_information", Terminating)
            \o WeelProgress \o SetState

\* start, but for the model
Start == Vote \o Brief("positions") \o Under("state", Brief("positions") \o Inform)
         \o SetState

StopWeel == Terminating \o SetState \o Brief("stop_signal_receiver")
            \o Under("redis", Brief("open_votes"))

\* weel_activity for the worker t that calls a service: before the loop ...
Prepare(t) ==
    InSearchMode
    \o Lock("thread_information") \o Terminating
    \o Lock(t) \o Unlock("thread_information") \o WeelProgress \o Unlock(t)
    \o Lock("thread_information") \o Lock(t) \o ExecuteReadOnly \o Terminating
    \o Unlock("thread_information") \o Vote \o Unlock(t)

\* ... activity_handle and curl ...
Handle(t) ==
    Under(t, RegisterCallback(t) \o RegisterCallback(t) \o HandleCallback)

\* ... the wait for the answer and the code that follows ...
React(t) ==
    Under("thread_information", Terminating) \o Brief("queue")
    \o Lock("thread_information") \o Lock(t) \o Unlock("thread_information")
    \o Terminating \o ExecuteCode \o Inform \o Unlock(t)

\* ... and after it, with the wrapper locked throughout.
Leave(t) ==
    Under(t, Terminating \o Vote \o SetState
             \o Brief("positions") \o Under("thread_information", Inform)
             \o Under("thread_information", Terminating \o Brief("queue")))

Activity(t) == Prepare(t) \o Handle(t) \o React(t) \o Leave(t)

\* What the model may call; the activity is begun below
Calls == {ParallelDo, Spawn, Choose, Alternative, Loop, StopHere}
         \cup {CriticalDo(id) : id \in Sections}

\* What a thread does outside of the model
Outside == {Branch, Start, StopWeel}

\* The callback thread, for the wrapper of t
Answer(t) == Under("callback_keys", Under(t, HandleCallback))
-----------------------------------------------------------------------------
Init == /\ todo = [t \in Threads |-> <<>>]
        /\ owner = [m \in Mutexes |-> Nobody]
        /\ begun = {}
        /\ registered = {}

\* Outside of all procedures
Idle(t) == todo[t] = <<>>

\* In the model, or in the lambda of a critical section
MayCall(t) == ~Idle(t) => Head(todo[t]).op = "lambda"

Run(t, program) == todo' = [todo EXCEPT ![t] = program \o @]

Begin(t) == /\ t \notin begun
            /\ MayCall(t)
            /\ Run(t, Activity(t))
            /\ begun' = begun \cup {t}
            /\ UNCHANGED <<owner, registered>>

Call(t) == /\ MayCall(t)
           /\ \E p \in Calls : Run(t, p)
           /\ UNCHANGED <<owner, begun, registered>>

Work(t) == /\ Idle(t)
           /\ \E p \in Outside : Run(t, p)
           /\ UNCHANGED <<owner, begun, registered>>

Listen == /\ Idle(Callback)
          /\ \/ \E t \in registered : Run(Callback, Answer(t))
             \/ Run(Callback, Brief("callback_keys"))
          /\ UNCHANGED <<owner, begun, registered>>

Step(t) ==
    /\ ~Idle(t)
    /\ todo' = [todo EXCEPT ![t] = Tail(@)]
    /\ LET s == Head(todo[t])
       IN  \/ /\ s.op = "lock" /\ owner[s.mutex] = Nobody
              /\ owner' = [owner EXCEPT ![s.mutex] = t]
              /\ UNCHANGED registered
           \/ /\ s.op = "unlock"
              /\ owner' = [owner EXCEPT ![s.mutex] = Nobody]
              /\ UNCHANGED registered
           \/ /\ s.op = "brief" /\ owner[s.mutex] = Nobody
              /\ UNCHANGED <<owner, registered>>
           \/ /\ s.op = "register"
              /\ registered' = registered \cup {s.mutex}
              /\ UNCHANGED owner
           \/ s.op = "lambda" /\ UNCHANGED <<owner, registered>>
    /\ UNCHANGED begun

Next == \/ \E t \in Workers : Begin(t) \/ Call(t) \/ Work(t)
        \/ Listen
        \/ \E t \in Threads : Step(t)

Spec == Init /\ [][Next]_vars
-----------------------------------------------------------------------------
WaitsFor(t, m) == /\ ~Idle(t)
                  /\ Head(todo[t]).op \in {"lock", "brief"}
                  /\ Head(todo[t]).mutex = m

\* Each of the threads wants a mutex that one of them holds: stuck for good
CircularWait(S) ==
    /\ S # {}
    /\ \A t \in S : \E m \in Mutexes : WaitsFor(t, m) /\ owner[m] \in S

\* set_state with the state locked, on its way to wake the threads
WakesWithState(t) == owner["state"] = t /\ WaitsFor(t, "thread_information")

\* An activity whose code has said again registers its callback once more,
\* with its wrapper locked.
RegistersAgain(t) == owner[t] = t /\ WaitsFor(t, "callback_keys")

\* The process model enters a section inside of a section, in an order of its
\* own, or once more inside of itself.
NestsSections(t) == \E id, other \in Sections : owner[id] = t /\ WaitsFor(t, other)

\* Threads wait for each other in a circle only if one of them is inside of
\* set_state, registers a callback for the second time or nests the sections of
\* critical_do; all other nestings of the mutexes are in a consistent order.
OnlyKnownCircles ==
    \A S \in SUBSET Threads :
        CircularWait(S) =>
            \E t \in S : WakesWithState(t) \/ RegistersAgain(t) \/ NestsSections(t)
=============================================================================
