-------------------------- MODULE LifecycleProofs --------------------------
(***************************************************************************)
(* Proofs about Lifecycle, for any number of clients, panics and signals:  *)
(* a stop outlasts the model, the process does not end without a final     *)
(* state that the CPEE knows of, and who may take a final state back.      *)
(***************************************************************************)
EXTENDS Lifecycle, SequenceTheorems, TLAPS

LEMMA Assumptions == Faults \in BOOLEAN /\ MaxPanics \in Nat /\ MaxSignals \in Nat
BY LifecycleAssumption

Hooks == Seq({"stop", "exit"})

LEMMA HookTypes ==
    /\ <<>> \in Hooks
    /\ \A h \in Hooks : /\ <<"stop">> \o h \in Hooks
                        /\ h \o <<"exit">> \in Hooks
                        /\ h # <<>> => Head(h) \in {"stop", "exit"} /\ Tail(h) \in Hooks
<1>1. <<"stop">> \in Hooks /\ <<"exit">> \in Hooks
  BY DEF Hooks
<1> QED BY <1>1, ConcatProperties, HeadTailProperties DEF Hooks

LEMMA TypeInit == Init => TypeOK
<1> SUFFICES ASSUME Init PROVE TypeOK
  OBVIOUS
<1>1. pc \in [Threads -> Points]
  BY DEF Init, Points
<1>2. saved \in [{Main, Callback} -> Hooks] /\ rest \in [Threads -> Hooks] /\ hook \in Hooks
  BY HookTypes DEF Init
<1> QED BY <1>1, <1>2 DEF Init, TypeOK, Hooks, States, Final

\* The variables a step may leave alone as a whole
USE DEF voteVars, installVars, panicVars, hookVars, endVars, stateVars

\* A step of one thread that changes nothing else
LEMMA GoType ==
    ASSUME TypeOK, NEW t \in Threads, NEW from, NEW to \in Points, Go(t, from, to)
    PROVE  pc' \in [Threads -> Points]
BY DEF TypeOK, Go

LEMMA SetStateType ==
    ASSUME TypeOK, NEW s \in States, NEW published \in BOOLEAN, NEW id, SetState(s, published, id)
    PROVE  state' \in States /\ reported' \subseteq Final /\ woken' \in BOOLEAN
BY DEF TypeOK, SetState, States, Final

LEMMA PanicType ==
    ASSUME TypeOK, NEW t \in Threads, Panic(t)
    PROVE  /\ pc' \in [Threads -> Points]
           /\ panicking' \subseteq Threads
           /\ rest' \in [Threads -> Seq({"stop", "exit"})]
BY DEF TypeOK, Panic, Points

LEMMA ResultsAreTruths == Results \subseteq BOOLEAN
BY Assumptions DEF Results

\* Steps that only change where a thread is
OnlyGoes ==
    \/ Unopposed \/ VoteMessage \/ VoteFails
    \/ AwaitBranch \/ LeaveGateway \/ JoinInGateway \/ ModelFails \/ ModelEnds
    \/ BeginCall \/ EndBranch \/ Conclude
    \/ \E t \in {Main, Branch}, to \in {"terminating", "halting"} : BeginEnd(t, to)
    \/ \E t \in Threads : ReadState(t)

LEMMA OnlyGoesType ==
    ASSUME TypeOK, OnlyGoes
    PROVE  /\ pc' \in [Threads -> Points]
           /\ UNCHANGED <<stateVars, voteVars, hookVars, endVars>>
<1>1. PICK t \in Threads, from \in Points, to \in Points : Go(t, from, to)
  BY DEF OnlyGoes, Unopposed, VoteMessage, VoteFails, AwaitBranch, LeaveGateway, JoinInGateway,
         ModelFails, ModelEnds, BeginCall, EndBranch, Conclude, BeginEnd, ReadState,
         Home, Threads, Main, Branch, Points
<1>2. UNCHANGED <<stateVars, voteVars, hookVars, endVars>>
  BY DEF OnlyGoes, Unopposed, VoteMessage, VoteFails, AwaitBranch, LeaveGateway, JoinInGateway,
         ModelFails, ModelEnds, BeginCall, EndBranch, Conclude, BeginEnd, ReadState
<1> QED BY <1>1, <1>2, GoType

\* Steps of the vote
LEMMA VoteType ==
    ASSUME TypeOK,
           \/ \E id \in handlers : Ask(id)
           \/ OpenVotes
           \/ Subscribe
           \/ \E id \in handlers, channel \in {Protocol, Bare} : Respond(id, channel)
    PROVE  TypeOK'
<1>1. pc' \in [Threads -> Points]
  <2>1. pc' = pc \/ \E to \in Points : pc' = [pc EXCEPT ![Main] = to]
    BY DEF Ask, OpenVotes, Subscribe, Respond, Go, Points
  <2> QED BY <2>1 DEF TypeOK
<1>2. /\ handlers' = handlers
      /\ asked' \subseteq handlers /\ openVotes' \subseteq handlers
      /\ subscribed' \subseteq handlers /\ answered' \subseteq handlers
      /\ inbox' \subseteq handlers
  BY DEF TypeOK, Ask, OpenVotes, Subscribe, Respond, Received
<1>3. UNCHANGED <<stateVars, hookVars, endVars>>
  BY DEF Ask, OpenVotes, Subscribe, Respond
<1> QED BY <1>1, <1>2, <1>3 DEF TypeOK

\* Steps of the hooks
LEMMA TakeHookType ==
    ASSUME TypeOK, NEW t \in {Main, Callback}, TakeHook(t) \/ SetHook(t)
    PROVE  TypeOK'
<1>1. pc' \in [Threads -> Points]
  BY DEF TypeOK, TakeHook, SetHook, Go, Points, Threads
<1>2. hook \in Hooks /\ saved \in [{Main, Callback} -> Hooks]
  BY DEF TypeOK, Hooks
<1>3. hook' \in Hooks
  BY <1>2, HookTypes DEF TakeHook, SetHook
<1>4. saved' \in [{Main, Callback} -> Hooks]
  BY <1>2 DEF TakeHook, SetHook
<1>5. UNCHANGED <<stateVars, voteVars, panicVars, endVars>>
  BY DEF TakeHook, SetHook
<1> QED BY <1>1, <1>3, <1>4, <1>5 DEF TypeOK, Hooks

LEMMA RunHookType ==
    ASSUME TypeOK, NEW t \in Threads, RunHook(t) \/ Unwind(t)
    PROVE  TypeOK'
<1>1. pc' \in [Threads -> Points]
  BY DEF TypeOK, RunHook, Unwind, Go, Points
<1>2. rest \in [Threads -> Hooks]
  BY DEF TypeOK, Hooks
<1>3. rest' \in [Threads -> Hooks]
  BY <1>2, HookTypes DEF RunHook, Unwind
<1>4. /\ keys' \in {"free", "held", "poisoned"}
      /\ exited' \in {"no", "done", "killed", "panicked"}
  BY DEF TypeOK, RunHook, Unwind
<1>5. UNCHANGED <<panicking, stateVars, voteVars, installVars, messages, sender, signals>>
  BY DEF RunHook, Unwind
<1> QED BY <1>1, <1>3, <1>4, <1>5 DEF TypeOK, Hooks

LEMMA StopFailsType ==
    ASSUME TypeOK, NEW t \in Threads, StopFails(t)
    PROVE  /\ pc' \in [Threads -> Points]
           /\ panicking' \subseteq Threads
           /\ rest' \in [Threads -> Seq({"stop", "exit"})]
<1>1. CASE t \in panicking
  BY <1>1 DEF TypeOK, StopFails, Points
<1>2. CASE t \notin panicking
  BY <1>2, PanicType DEF StopFails
<1> QED BY <1>1, <1>2

\* Panics that are not a failed stop
LEMMA StartPanicType ==
    ASSUME TypeOK, (\E t \in Threads : StartPanic(t)) \/ PanicOnMessage
    PROVE  TypeOK'
<1>1. PICK t \in Threads : Panic(t)
  BY DEF StartPanic, PanicOnMessage, Threads
<1>2. UNCHANGED <<stateVars, voteVars, installVars, endVars>>
  BY DEF StartPanic, PanicOnMessage
<1>3. keys' \in {"free", "held", "poisoned"}
  BY DEF TypeOK, StartPanic, PanicOnMessage
<1> QED BY <1>1, <1>2, <1>3, PanicType DEF TypeOK

\* Steps that set the state, or may, and those that end the model and start
SetsState ==
    \/ Run \/ Finish \/ SetStopped
    \/ HandleModelError \/ HandleVoteError \/ HandleStartError
    \/ SetStoppedAfterVote \/ SetStoppedInMain
    \/ \E t \in {Main, Branch} : Terminate(t) \/ Stop(t)
    \/ \E t \in Threads : SetStopping(t)

LEMMA SetsStateType ==
    ASSUME TypeOK, SetsState
    PROVE  TypeOK'
<1>1. \/ \E s \in States, published \in BOOLEAN, id \in Threads : SetState(s, published, id)
      \/ state' = "Finishing" /\ UNCHANGED <<reported, woken>>
  BY ResultsAreTruths DEF SetsState, Run, Finish, SetStopped, SetLast, HandleModelError,
     HandleVoteError, HandleStartError, HandleError, SetStoppedAfterVote, SetStoppedInMain,
     Terminate, Stop, SetStopping, States, Threads
<1>2. state' \in States /\ reported' \subseteq Final /\ woken' \in BOOLEAN
  BY <1>1, SetStateType DEF TypeOK, States
<1>3. \/ \E t \in Threads, to \in Points : pc' = [pc EXCEPT ![t] = to] /\ UNCHANGED <<panicking, rest>>
      \/ \E t \in Threads : StopFails(t)
      \/ Panic(Main)
  BY DEF SetsState, Run, Finish, SetStopped, SetLast, HandleModelError, HandleVoteError,
     HandleStartError, HandleError, SetStoppedAfterVote, SetStoppedInMain, Terminate, Stop,
     SetStopping, Go, Home, Points, Threads, Main, Branch
<1>4. /\ pc' \in [Threads -> Points]
      /\ panicking' \subseteq Threads
      /\ rest' \in [Threads -> Seq({"stop", "exit"})]
  BY <1>3, StopFailsType, PanicType DEF TypeOK, Threads
<1>5. /\ UNCHANGED <<keys, voteVars, installVars, messages, signals, exited>>
      /\ sender' \in BOOLEAN
  BY DEF TypeOK, SetsState, Run, Finish, SetStopped, SetLast, HandleModelError, HandleVoteError,
     HandleStartError, HandleError, SetStoppedAfterVote, SetStoppedInMain, Terminate, Stop,
     SetStopping, Succeeds
<1> QED BY <1>2, <1>4, <1>5 DEF TypeOK

\* The other steps
MoreSteps ==
    \/ Fork \/ Join \/ SendStopSignal \/ DropSender \/ Exit \/ Signal
    \/ \E t \in Threads : ReceiveStopSignal(t)

LEMMA MoreStepsType ==
    ASSUME TypeOK, MoreSteps
    PROVE  TypeOK'
<1>1. \/ \E t \in Threads, to \in Points : pc' = [pc EXCEPT ![t] = to]
      \/ pc' = [pc EXCEPT ![Main] = "forked", ![Branch] = "run"]
  BY DEF MoreSteps, Fork, Join, SendStopSignal, DropSender, Exit, Signal, ReceiveStopSignal,
     Go, Points, Threads, Main, Branch, Signals
<1>2. pc' \in [Threads -> Points]
  <2>1. "forked" \in Points /\ "run" \in Points
    BY DEF Points
  <2> QED BY <1>1, <2>1 DEF TypeOK
<1>3. UNCHANGED <<stateVars, voteVars, hookVars>>
  BY DEF MoreSteps, Fork, Join, SendStopSignal, DropSender, Exit, Signal, ReceiveStopSignal
<1>4. messages' \in Nat /\ signals' \in Nat
  BY DEF TypeOK, MoreSteps, Fork, Join, SendStopSignal, DropSender, Exit, Signal, ReceiveStopSignal
<1>5. sender' \in BOOLEAN
  <2>1. sender' = sender \/ sender' = FALSE \/ sender' \in Results
    BY DEF MoreSteps, Fork, Join, SendStopSignal, DropSender, Exit, Signal, ReceiveStopSignal
  <2> QED BY <2>1, ResultsAreTruths DEF TypeOK
<1>6. exited' \in {"no", "done", "killed", "panicked"}
  BY DEF TypeOK, MoreSteps, Fork, Join, SendStopSignal, DropSender, Exit, Signal, ReceiveStopSignal
<1> QED BY <1>2, <1>3, <1>4, <1>5, <1>6 DEF TypeOK

LEMMA AnswerVotesType ==
    ASSUME TypeOK, NEW t \in Threads, AnswerVotes(t)
    PROVE  TypeOK'
<1>1. \/ /\ \E to \in Points : pc' = [pc EXCEPT ![t] = to]
         /\ UNCHANGED <<panicking, rest>>
      \/ StopFails(t)
  BY DEF AnswerVotes, Go, Points
<1>2. /\ pc' \in [Threads -> Points]
      /\ panicking' \subseteq Threads
      /\ rest' \in [Threads -> Seq({"stop", "exit"})]
  BY <1>1, StopFailsType DEF TypeOK
<1>3. inbox' \subseteq handlers
  BY DEF TypeOK, AnswerVotes, Received
<1>4. UNCHANGED <<keys, stateVars, handlers, asked, openVotes, subscribed, answered, installVars, endVars>>
  BY DEF AnswerVotes
<1> QED BY <1>2, <1>3, <1>4 DEF TypeOK

LEMMA RegisterType == ASSUME TypeOK, Register PROVE TypeOK'
<1>1. \/ /\ Go(Branch, "registering", "run")
         /\ UNCHANGED <<stateVars, voteVars, hookVars, endVars>>
      \/ /\ Panic(Branch)
         /\ UNCHANGED <<keys, stateVars, voteVars, installVars, endVars>>
  BY DEF Register
<1>2. CASE Go(Branch, "registering", "run") /\ UNCHANGED <<stateVars, voteVars, hookVars, endVars>>
  <2>1. pc' \in [Threads -> Points]
    BY <1>2, GoType DEF Threads, Points
  <2> QED BY <1>2, <2>1 DEF TypeOK
<1>3. CASE Panic(Branch) /\ UNCHANGED <<keys, stateVars, voteVars, installVars, endVars>>
  BY <1>3, PanicType DEF TypeOK, Threads
<1> QED BY <1>1, <1>2, <1>3

LEMMA StepsByShape ==
    ASSUME Next
    PROVE  \/ OnlyGoes \/ SetsState \/ MoreSteps \/ Register
           \/ \E id \in handlers : Ask(id)
           \/ OpenVotes
           \/ Subscribe
           \/ \E id \in handlers, channel \in {Protocol, Bare} : Respond(id, channel)
           \/ \E t \in {Main, Callback} : TakeHook(t) \/ SetHook(t)
           \/ \E t \in Threads : RunHook(t) \/ Unwind(t) \/ AnswerVotes(t)
           \/ (\E t \in Threads : StartPanic(t)) \/ PanicOnMessage
BY DEF Next, MainThread, Vote, Model, StopWeel, OnlyGoes, SetsState, MoreSteps

LEMMA TypeNext == TypeOK /\ [Next]_vars => TypeOK'
<1> SUFFICES ASSUME TypeOK, [Next]_vars PROVE TypeOK'
  OBVIOUS
<1>1. CASE UNCHANGED vars
  BY <1>1 DEF TypeOK, vars
<1>2. CASE OnlyGoes
  BY <1>2, OnlyGoesType DEF TypeOK
<1>3. CASE Next
  BY <1>2, <1>3, StepsByShape, SetsStateType, MoreStepsType, RegisterType, VoteType, TakeHookType,
     RunHookType, AnswerVotesType, StartPanicType
<1> QED BY <1>1, <1>3

\* Every variable keeps its type.
THEOREM TypeCorrect == Spec => []TypeOK
BY TypeInit, TypeNext, PTL DEF Spec
-----------------------------------------------------------------------------
(***************************************************************************)
(* The inductive invariant follows main: what is known of the state, of    *)
(* the CPEE and of the stop signal at each point of start.                 *)
(***************************************************************************)

\* Points of main before the last set_state of start
BeforeEnd == {"take", "set", "voting", "subscribing", "awaiting", "voted", "voteHandle",
              "voteStopped", "model", "forked", "gateway", "gatewayJoin", "terminating",
              "halting", "modelHandle", "ended", "finishing", "joining", "stopping",
              "mainStopped"}

\* Points of main's own panic hook
InHook == {"hook", "stop", "setStopping", "waiting", "answering"}

NotFinalYet == pc[Main] \in BeforeEnd => state \notin Final
ToldAtReturn == pc[Main] \in {"signal", "return", "exit"} => reported # {}
SignalledLate == messages > 0 \/ ~sender =>
                     /\ pc[Main] \in ModelOver
                     /\ pc[Main] \in InHook => state # "Running"
HookPanics == pc[Main] \in InHook => Main \in panicking

Safe == /\ TypeOK
        /\ EndIsTold /\ ToldAtReturn /\ NotFinalYet
        /\ SignalledLate /\ HookPanics

\* Steps of the other threads and of the clients
OtherSteps ==
    \/ \E t \in {Branch, Callback, Signals} : StopWeel(t) \/ StartPanic(t)
    \/ BeginCall \/ Register \/ Model(Branch) \/ EndBranch
    \/ TakeHook(Callback) \/ SetHook(Callback) \/ PanicOnMessage
    \/ Signal
    \/ \E id \in handlers, channel \in {Protocol, Bare} : Respond(id, channel)

LEMMA OthersLeave ==
    ASSUME TypeOK, OtherSteps
    PROVE  /\ pc'[Main] = pc[Main]
           /\ UNCHANGED sender
           /\ messages' = messages \/ messages > 0
           /\ reported \subseteq reported' /\ panicking \subseteq panicking'
           /\ state' = state \/ state' \in {"Stopping", "Finishing"}
           /\ exited' = "done" => exited = "done"
<1>1. pc'[Main] = pc[Main]
  <2>1. \/ pc' = pc
        \/ \E t \in {Branch, Callback, Signals}, to \in Points : pc' = [pc EXCEPT ![t] = to]
    BY DEF OtherSteps, StopWeel, StartPanic, BeginCall, Register, Model, EndBranch, TakeHook,
       SetHook, PanicOnMessage, Signal, Respond, BeginEnd, Terminate, Stop, ReadState, SetStopping,
       ReceiveStopSignal, AnswerVotes, RunHook, Unwind, StopFails, Panic, Go, Home, Points,
       Main, Branch, Callback, Signals
  <2> QED BY <2>1 DEF TypeOK, Threads, Main, Branch, Callback, Signals
<1>2. UNCHANGED sender /\ (messages' = messages \/ messages > 0)
  <2>1. CASE \E t \in {Branch, Callback, Signals} : ReceiveStopSignal(t)
    <3>1. messages \in Nat
      BY DEF TypeOK
    <3> QED BY <2>1, <3>1 DEF ReceiveStopSignal
  <2>2. CASE ~ \E t \in {Branch, Callback, Signals} : ReceiveStopSignal(t)
    BY <2>2
       DEF OtherSteps, StopWeel, StartPanic, BeginCall, Register, Model, EndBranch, TakeHook,
           SetHook, PanicOnMessage, Signal, Respond, BeginEnd, Terminate, Stop, ReadState,
           SetStopping, AnswerVotes, RunHook, Unwind
  <2> QED BY <2>1, <2>2
<1>3. reported \subseteq reported' /\ (state' = state \/ state' \in {"Stopping", "Finishing"})
  BY DEF OtherSteps, StopWeel, StartPanic, BeginCall, Register, Model, EndBranch, TakeHook,
     SetHook, PanicOnMessage, Signal, Respond, BeginEnd, Terminate, Stop, ReadState, SetStopping,
     ReceiveStopSignal, AnswerVotes, RunHook, Unwind, SetState
<1>4. panicking \subseteq panicking'
  BY DEF OtherSteps, StopWeel, StartPanic, BeginCall, Register, Model, EndBranch, TakeHook,
     SetHook, PanicOnMessage, Signal, Respond, BeginEnd, Terminate, Stop, ReadState, SetStopping,
     ReceiveStopSignal, AnswerVotes, RunHook, Unwind, StopFails, Panic
<1>5. exited' = "done" => exited = "done"
  BY DEF OtherSteps, StopWeel, StartPanic, BeginCall, Register, Model, EndBranch, TakeHook,
     SetHook, PanicOnMessage, Signal, Respond, BeginEnd, Terminate, Stop, ReadState, SetStopping,
     ReceiveStopSignal, AnswerVotes, RunHook, Unwind
<1> QED BY <1>1, <1>2, <1>3, <1>4, <1>5

LEMMA OthersSafe ==
    ASSUME Safe, OtherSteps, TypeOK'
    PROVE  Safe'
<1>1. TypeOK
  BY DEF Safe
<1>2. EndIsTold' /\ ToldAtReturn' /\ NotFinalYet'
  BY <1>1, OthersLeave
     DEF Safe, EndIsTold, ToldAtReturn, NotFinalYet, Final
<1>3. HookPanics'
  BY <1>1, OthersLeave DEF Safe, HookPanics
<1>4. SignalledLate'
  <2>1. (messages > 0 \/ ~sender)' => messages > 0 \/ ~sender
    BY <1>1, OthersLeave
  <2>2. pc'[Main] = pc[Main] /\ (state' = "Running" => state = "Running")
    BY <1>1, OthersLeave
  <2> QED BY <2>1, <2>2 DEF Safe, SignalledLate
<1> QED BY <1>2, <1>3, <1>4 DEF Safe

\* Steps of main that leave the state, the CPEE and the stop signal alone
MainQuiet ==
    \/ TakeHook(Main) \/ SetHook(Main) \/ Vote
    \/ \E to \in {"terminating", "halting"} : BeginEnd(Main, to)
    \/ Fork \/ AwaitBranch \/ LeaveGateway \/ JoinInGateway \/ ModelFails \/ ModelEnds
    \/ Conclude
    \/ ReadState(Main) \/ AnswerVotes(Main) \/ RunHook(Main) \/ Unwind(Main) \/ StartPanic(Main)

\* How far such a step takes main
LEMMA MainQuietMoves ==
    ASSUME TypeOK, HookPanics, MainQuiet
    PROVE  /\ UNCHANGED <<state, reported, sender, messages>>
           /\ panicking \subseteq panicking'
           /\ exited' # "done"
           /\ pc'[Main] \in BeforeEnd => pc[Main] \in BeforeEnd
           /\ pc'[Main] \notin {"signal", "return", "exit"}
           /\ pc[Main] \in ModelOver => /\ pc[Main] \in InHook
                                        /\ state = "Running" \/ pc'[Main] \in ModelOver
           /\ pc'[Main] \in InHook => Main \in panicking'
<1>1. UNCHANGED <<state, reported, sender, messages>>
  BY DEF MainQuiet, TakeHook, SetHook, Vote, Ask, Unopposed, OpenVotes, Subscribe, VoteMessage,
     VoteFails, BeginEnd, Fork, AwaitBranch, LeaveGateway, JoinInGateway, ModelFails, ModelEnds,
     Conclude, ReadState, AnswerVotes, RunHook, Unwind, StartPanic
<1>2. exited' # "done"
  BY DEF MainQuiet, TakeHook, SetHook, Vote, Ask, Unopposed, OpenVotes, Subscribe, VoteMessage,
     VoteFails, BeginEnd, Fork, AwaitBranch, LeaveGateway, JoinInGateway, ModelFails, ModelEnds,
     Conclude, ReadState, AnswerVotes, RunHook, Unwind, StartPanic, Panic, Go
<1>3. panicking \subseteq panicking'
  BY DEF MainQuiet, TakeHook, SetHook, Vote, Ask, Unopposed, OpenVotes, Subscribe, VoteMessage,
     VoteFails, BeginEnd, Fork, AwaitBranch, LeaveGateway, JoinInGateway, ModelFails, ModelEnds,
     Conclude, ReadState, AnswerVotes, StopFails, RunHook, Unwind, StartPanic, Panic
<1>4. Main \in DOMAIN pc /\ Branch # Main /\ pc \in [Threads -> Points]
  BY DEF TypeOK, Threads, Main, Branch
<1>5. CASE \/ TakeHook(Main) \/ SetHook(Main) \/ Vote
           \/ \E to \in {"terminating", "halting"} : BeginEnd(Main, to)
           \/ Fork \/ AwaitBranch \/ LeaveGateway \/ JoinInGateway \/ ModelFails \/ ModelEnds
           \/ Conclude
  <2>1. /\ pc[Main] \in {"take", "set", "voting", "subscribing", "awaiting", "model", "forked",
                         "gateway", "gatewayJoin", "ended"}
        /\ pc'[Main] \in {"set", "voting", "voted", "subscribing", "awaiting", "voteHandle",
                          "terminating", "halting", "forked", "model", "gateway", "gatewayJoin",
                          "modelHandle", "ended", "finishing", "joining"}
    BY <1>4, <1>5
       DEF TakeHook, SetHook, Vote, Ask, Unopposed, OpenVotes, Subscribe, VoteMessage,
           VoteFails, BeginEnd, Fork, AwaitBranch, LeaveGateway, JoinInGateway, ModelFails, ModelEnds,
           Conclude, Go, Home
  <2> QED BY <1>1, <1>2, <1>3, <2>1 DEF BeforeEnd, ModelOver, InHook
<1>6. CASE ReadState(Main) \/ AnswerVotes(Main) \/ RunHook(Main) \/ Unwind(Main)
  <2>1. pc[Main] \in {"stop", "answering", "hook"}
    BY <1>6 DEF ReadState, AnswerVotes, RunHook, Unwind, Go
  <2>2. Main \in panicking
    BY <2>1 DEF HookPanics, InHook
  <2>3. pc'[Main] \in {"setStopping", "answering", "hook", "stop", "gone", "dead"}
    BY <1>4, <1>6, <2>2 DEF ReadState, AnswerVotes, StopFails, RunHook, Unwind, Go
  <2>4. pc'[Main] = "setStopping" => state = "Running"
    BY <1>4, <1>6, <2>2 DEF ReadState, AnswerVotes, StopFails, RunHook, Unwind, Go
  <2> QED BY <1>1, <1>2, <1>3, <2>1, <2>2, <2>3, <2>4 DEF BeforeEnd, ModelOver, InHook
<1>7. CASE StartPanic(Main)
  BY <1>1, <1>2, <1>4, <1>7 DEF StartPanic, MayPanic, Panic, BeforeEnd, ModelOver, InHook
<1> QED BY <1>5, <1>6, <1>7 DEF MainQuiet

LEMMA MainQuietSafe ==
    ASSUME Safe, MainQuiet, TypeOK'
    PROVE  Safe'
<1> USE DEF Safe
<1>1. EndIsTold' /\ ToldAtReturn' /\ NotFinalYet' /\ HookPanics'
  BY MainQuietMoves
     DEF EndIsTold, ToldAtReturn, NotFinalYet, HookPanics
<1>2. SignalledLate'
  <2>1. (messages > 0 \/ ~sender)' => messages > 0 \/ ~sender
    BY MainQuietMoves
  <2>2. state' = state /\ (pc[Main] \in ModelOver =>
            pc[Main] \in InHook /\ (state = "Running" \/ pc'[Main] \in ModelOver))
    BY MainQuietMoves
  <2> QED BY <2>1, <2>2 DEF SignalledLate
<1> QED BY <1>1, <1>2

\* Steps of main that set the state before the end of start
LEMMA MainRunsSafe ==
    ASSUME Safe, Run \/ Terminate(Main) \/ Stop(Main) \/ HandleModelError \/ HandleVoteError
                 \/ SetStopping(Main),
           TypeOK'
    PROVE  Safe'
<1>1. Main \in DOMAIN pc
  BY DEF Safe, TypeOK, Threads
<1>2. /\ UNCHANGED <<messages, exited>> /\ reported \subseteq reported'
      /\ panicking \subseteq panicking'
  BY DEF Run, Terminate, Stop, HandleModelError, HandleVoteError, HandleError, SetStopping,
     StopFails, Panic, SetState
<1>3. /\ pc[Main] \in {"voted", "terminating", "halting", "modelHandle", "voteHandle", "setStopping"}
      /\ pc'[Main] \in {"model", "mainHandle", "modelHandle", "stopping", "voteStopped",
                        "waiting", "hook"}
      /\ pc'[Main] \in {"waiting", "hook"} => pc[Main] = "setStopping"
      /\ state' \in {"Running", "Stopping", "Finishing"}
      /\ state' = "Running" => pc[Main] = "voted"
  BY <1>1 DEF Run, Terminate, Stop, HandleModelError, HandleVoteError, HandleError, SetStopping,
     StopFails, Panic, Go, Home, SetState
<1>4. ~(messages > 0 \/ ~sender)
  BY <1>3 DEF Safe, SignalledLate, ModelOver
<1>5. pc'[Main] = "mainHandle" \/ sender'
  BY <1>1, <1>4 DEF Run, Terminate, Stop, HandleModelError, HandleVoteError, HandleError, SetStopping, Go
<1>6. SignalledLate'
  <2>1. CASE pc'[Main] = "mainHandle"
    BY <2>1 DEF SignalledLate, ModelOver, InHook
  <2>2. CASE pc'[Main] # "mainHandle"
    <3>1. ~(messages > 0 \/ ~sender)'
      BY <1>2, <1>4, <1>5, <2>2
    <3> QED BY <3>1 DEF SignalledLate
  <2> QED BY <2>1, <2>2
<1>7. EndIsTold' /\ ToldAtReturn' /\ NotFinalYet'
  BY <1>2, <1>3 DEF Safe, EndIsTold, ToldAtReturn, NotFinalYet, Final
<1>8. HookPanics'
  BY <1>2, <1>3 DEF Safe, HookPanics, InHook
<1> QED BY <1>6, <1>7, <1>8 DEF Safe

\* Steps at the end of start
LEMMA MainEndsSafe ==
    ASSUME Safe, Finish \/ SetStopped \/ SetStoppedAfterVote \/ Join \/ HandleStartError,
           TypeOK'
    PROVE  Safe'
<1>1. Main \in DOMAIN pc
  BY DEF Safe, TypeOK, Threads
<1>2. /\ UNCHANGED <<messages, exited>> /\ reported \subseteq reported'
      /\ UNCHANGED panicking /\ exited = "no"
  BY DEF Finish, SetStopped, SetLast, SetStoppedAfterVote, Join, HandleStartError, HandleError,
     SetState, Go
<1>3. /\ pc[Main] \in {"finishing", "stopping", "voteStopped", "joining", "mainHandle"}
      /\ pc'[Main] \in {"signal", "return", "mainHandle", "stopping", "mainStopped"}
      /\ state' = "Running" => state = "Running"
  BY <1>1 DEF Finish, SetStopped, SetLast, SetStoppedAfterVote, Join, HandleStartError, HandleError,
     SetState, Go
<1>4. /\ pc'[Main] = "mainStopped" => pc[Main] = "mainHandle" /\ state' = "Stopping"
      /\ pc'[Main] = "stopping" => pc[Main] = "joining" /\ state' = state
  BY <1>1 DEF Finish, SetStopped, SetLast, SetStoppedAfterVote, Join, HandleStartError, HandleError,
     SetState, Go
<1>5. pc'[Main] \in {"signal", "return"} => reported' # {}
  <2>1. SUFFICES ASSUME pc'[Main] \in {"signal", "return"} PROVE reported' # {}
    OBVIOUS
  <2>2. pc[Main] \in {"finishing", "stopping", "voteStopped"}
    BY <1>1, <2>1 DEF Finish, SetStopped, SetLast, SetStoppedAfterVote, Join, HandleStartError,
       HandleError, Go
  <2>3. state \notin Final
    BY <2>2 DEF Safe, NotFinalYet, BeforeEnd
  <2>4. PICK s \in Final, published \in Results : Succeeds(s, published) /\ SetState(s, published, Main)
    BY <1>1, <2>1 DEF Finish, SetStopped, SetLast, SetStoppedAfterVote, Join, HandleStartError,
       HandleError, Go, Final
  <2> QED BY <2>3, <2>4 DEF Succeeds, SetState
<1>6. SignalledLate'
  <2>1. CASE pc'[Main] \in {"return", "mainHandle", "mainStopped"}
    BY <2>1 DEF SignalledLate, ModelOver, InHook
  <2>2. CASE pc'[Main] \in {"signal", "stopping"}
    <3>1. pc[Main] \notin ModelOver
      BY <1>1, <1>3, <1>4, <2>2 DEF ModelOver, Finish, SetStopped, SetLast, SetStoppedAfterVote, Join,
         HandleStartError, HandleError, Go
    <3>2. ~(messages > 0 \/ ~sender)
      BY <3>1 DEF Safe, SignalledLate
    <3>3. sender'
      BY <1>1, <2>2, <3>2 DEF Finish, SetStopped, SetLast, SetStoppedAfterVote, Join,
         HandleStartError, HandleError, Go
    <3> QED BY <1>2, <3>2, <3>3 DEF SignalledLate
  <2> QED BY <1>3, <2>1, <2>2
<1>7. EndIsTold' /\ ToldAtReturn' /\ NotFinalYet'
  BY <1>2, <1>3, <1>4, <1>5 DEF Safe, EndIsTold, ToldAtReturn, NotFinalYet, Final, BeforeEnd
<1>8. HookPanics'
  BY <1>3 DEF HookPanics, InHook
<1> QED BY <1>6, <1>7, <1>8 DEF Safe

\* The steps with which start, main and the process end
LEMMA MainReturnsSafe ==
    ASSUME Safe, SetStoppedInMain \/ SendStopSignal \/ DropSender \/ Exit \/ ReceiveStopSignal(Main),
           TypeOK'
    PROVE  Safe'
<1>1. Main \in DOMAIN pc
  BY DEF Safe, TypeOK, Threads
<1>2. /\ reported \subseteq reported' /\ exited = "no"
      /\ state' = "Running" => state = "Running"
  BY DEF SetStoppedInMain, SendStopSignal, DropSender, Exit, ReceiveStopSignal, SetState, Go, Panic
<1>3. ~ReceiveStopSignal(Main)
  BY DEF ReceiveStopSignal, Go, Safe, SignalledLate, ModelOver
<1>4. CASE SetStoppedInMain
  <2>1. pc[Main] = "mainStopped" /\ state \notin Final
    BY <1>4 DEF SetStoppedInMain, Go, Safe, NotFinalYet, BeforeEnd
  <2>2. /\ pc'[Main] \in {"return", "hook"} /\ state' = "Stopped" /\ exited' = exited
        /\ pc'[Main] = "hook" => Main \in panicking'
    BY <1>1, <1>4 DEF SetStoppedInMain, Go, SetState, Panic
  <2>3. pc'[Main] = "return" => reported' # {}
    <3>1. SUFFICES ASSUME pc'[Main] = "return" PROVE reported' # {}
      OBVIOUS
    <3>2. PICK published \in Results : Succeeds("Stopped", published) /\ SetState("Stopped", published, Main)
      BY <1>1, <1>4, <3>1 DEF SetStoppedInMain, Go, Panic
    <3> QED BY <2>1, <3>2 DEF Succeeds, SetState, Final
  <2> QED BY <1>2, <2>2, <2>3
      DEF Safe, EndIsTold, ToldAtReturn, NotFinalYet, SignalledLate,
          HookPanics, BeforeEnd, ModelOver, InHook
<1>5. CASE SendStopSignal \/ DropSender \/ Exit
  <2>1. /\ pc[Main] \in {"signal", "return", "exit"}
        /\ pc'[Main] \in {"return", "exit", "gone"}
    BY <1>1, <1>5 DEF SendStopSignal, DropSender, Exit, Go
  <2> QED BY <1>2, <2>1
      DEF Safe, EndIsTold, ToldAtReturn, NotFinalYet, SignalledLate,
          HookPanics, BeforeEnd, ModelOver, InHook
<1> QED BY <1>3, <1>4, <1>5

LEMMA StepsByThread ==
    ASSUME Next
    PROVE  \/ OtherSteps \/ MainQuiet
           \/ Run \/ Terminate(Main) \/ Stop(Main) \/ HandleModelError \/ HandleVoteError
           \/ SetStopping(Main)
           \/ Finish \/ SetStopped \/ SetStoppedAfterVote \/ Join \/ HandleStartError
           \/ SetStoppedInMain \/ SendStopSignal \/ DropSender \/ Exit \/ ReceiveStopSignal(Main)
BY DEF Next, MainThread, Model, StopWeel, OtherSteps, MainQuiet, Threads

LEMMA SafeInit == Init => Safe
<1> SUFFICES ASSUME Init PROVE Safe
  OBVIOUS
<1>1. pc[Main] = "take"
  BY DEF Init, Threads, Main, Branch, Signals
<1> QED BY <1>1, TypeInit
    DEF Init, Safe, EndIsTold, ToldAtReturn, NotFinalYet, Final,
        SignalledLate, HookPanics, InHook

LEMMA SafeNext == Safe /\ [Next]_vars => Safe'
<1> SUFFICES ASSUME Safe, [Next]_vars PROVE Safe'
  OBVIOUS
<1>1. TypeOK'
  BY TypeNext DEF Safe
<1>2. CASE UNCHANGED vars
  BY <1>1, <1>2
     DEF vars, Safe, EndIsTold, ToldAtReturn, NotFinalYet,
         SignalledLate, HookPanics
<1>3. CASE Next
  BY <1>1, <1>3, StepsByThread, OthersSafe, MainQuietSafe, MainRunsSafe, MainEndsSafe, MainReturnsSafe
<1> QED BY <1>2, <1>3

\* The inductive invariant
LEMMA AlwaysSafe == Spec => []Safe
BY SafeInit, SafeNext, PTL DEF Spec

\* When main has returned, the CPEE has been told of a final state.
THEOREM EndAlwaysTold == Spec => []EndIsTold
<1>1. Safe => EndIsTold
  BY DEF Safe
<1> QED BY <1>1, AlwaysSafe, PTL

\* A thread that waits for the stop signal goes on with a message or without the sender.
LEMMA OnlySignalAnswers ==
    ASSUME Next
    PROVE  \/ messages > 0 \/ ~sender
           \/ pc' = pc
           \/ \E u \in Threads, to \in Points :
                  pc' = [pc EXCEPT ![u] = to] /\ (to # "answering" \/ pc[u] # "waiting")
           \/ pc' = [pc EXCEPT ![Main] = "forked", ![Branch] = "run"]
<1>1. CASE OnlyGoes
  BY <1>1
     DEF OnlyGoes, Unopposed, VoteMessage, VoteFails, AwaitBranch, LeaveGateway, JoinInGateway,
         ModelFails, ModelEnds, BeginCall, EndBranch, Conclude, BeginEnd, ReadState, Go,
         Home, Threads, Main, Branch, Points
<1>2. CASE SetsState
  BY <1>2
     DEF SetsState, Run, Finish, SetStopped, SetLast, HandleModelError, HandleVoteError,
         HandleStartError, HandleError, SetStoppedAfterVote, SetStoppedInMain, Terminate, Stop,
         SetStopping, StopFails, Panic, Go, Home, Threads, Main, Branch, Points
<1>3. CASE MoreSteps
  BY <1>3
     DEF MoreSteps, Fork, Join, SendStopSignal, DropSender, Exit, Signal, ReceiveStopSignal, Go,
         Threads, Main, Branch, Signals, Points
<1>4. CASE Register \/ \E u \in Threads : AnswerVotes(u)
  BY <1>4 DEF Register, AnswerVotes, StopFails, Panic, Go, Threads, Branch, Points
<1>5. CASE \/ \E id \in handlers : Ask(id)
           \/ OpenVotes
           \/ Subscribe
           \/ \E id \in handlers, channel \in {Protocol, Bare} : Respond(id, channel)
  BY <1>5 DEF Ask, OpenVotes, Subscribe, Respond, Go, Threads, Main, Points
<1>6. CASE \E u \in {Main, Callback} : TakeHook(u) \/ SetHook(u)
  BY <1>6 DEF TakeHook, SetHook, Go, Threads, Points
<1>7. CASE (\E u \in Threads : RunHook(u) \/ Unwind(u) \/ StartPanic(u)) \/ PanicOnMessage
  BY <1>7 DEF RunHook, Unwind, StartPanic, PanicOnMessage, Panic, Go, Threads, Points
<1> QED BY <1>1, <1>2, <1>3, <1>4, <1>5, <1>6, <1>7, StepsByShape

\* Nobody who waits for the stop signal goes on before the model is over.
THEOREM StopsOutlastModel == Spec => StopOutlastsModel
<1>1. ASSUME Safe, Next, NEW t \in Threads, pc[t] = "waiting", pc'[t] = "answering"
      PROVE  pc[Main] \in ModelOver
  <2>1. pc \in [Threads -> Points] /\ (messages > 0 \/ ~sender => pc[Main] \in ModelOver)
    BY <1>1 DEF Safe, TypeOK, SignalledLate
  <2> QED BY <1>1, <2>1, OnlySignalAnswers
<1>2. Safe /\ [Next]_vars
        => [\A t \in Threads : pc[t] = "waiting" /\ pc'[t] = "answering" => pc[Main] \in ModelOver]_vars
  BY <1>1
<1> QED BY <1>2, AlwaysSafe, PTL DEF Spec, StopOutlastsModel

\* A final state is only taken back by main after an error, by a stop that read
\* Running before, or by a branch that is left behind.
THEOREM FinalStatesKept == Spec => FinalStateKept
<1>1. ASSUME Safe, Next, state \in Final, state' # state
      PROVE  \/ pc[Main] \in {"mainHandle", "mainStopped"}
             \/ pc[Branch] \in {"terminating", "halting"}
             \/ \E t \in Threads : pc[t] = "setStopping"
  <2>1. pc[Main] \notin BeforeEnd
    BY <1>1 DEF Safe, NotFinalYet
  <2>2. OnlyGoes => state' = state
    BY <1>1, OnlyGoesType DEF Safe
  <2>3. SetsState
    BY <1>1, <2>2, StepsByShape
       DEF MoreSteps, Fork, Join, SendStopSignal, DropSender, Exit, Signal, ReceiveStopSignal,
           Register, Ask, OpenVotes, Subscribe, Respond, TakeHook, SetHook, RunHook, Unwind,
           AnswerVotes, StartPanic, PanicOnMessage
  <2> QED BY <2>1, <2>3
      DEF SetsState, Run, Finish, SetStopped, SetLast, HandleModelError, HandleVoteError,
          HandleStartError, HandleError, SetStoppedAfterVote, SetStoppedInMain, Terminate, Stop,
          SetStopping, Go, BeforeEnd
<1>2. Safe /\ [Next]_vars
        => [(state \in Final /\ state' # state) =>
              (pc[Main] \in {"mainHandle", "mainStopped"}
               \/ pc[Branch] \in {"terminating", "halting"}
               \/ \E t \in Threads : pc[t] = "setStopping")]_vars
  BY <1>1
<1> QED BY <1>2, AlwaysSafe, PTL DEF Spec, FinalStateKept
=============================================================================
