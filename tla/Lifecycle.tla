------------------------------ MODULE Lifecycle ------------------------------
(***************************************************************************)
(* One process instance from main to exit: the panic hooks that main and   *)
(* the callback thread install, the vote before the start, the model, its  *)
(* end, and everybody who may stop it: a signal, the panic hook on any     *)
(* thread, an error, the model itself.                                     *)
(*                                                                         *)
(* The model is abstract: it opens at most one gateway with one branch that*)
(* calls services; both threads may stop, terminate and panic.  Gateways   *)
(* with several branches are the subject of ParallelGateway.               *)
(* set_state holds the mutex state to its end, so it is one action; no     *)
(* other mutex than callback_keys is held while a thread panics.           *)
(*                                                                         *)
(* State::Ready is never set by the code, and a vote never returns false   *)
(* (see VoteMessage), so stop_weel's case Ready and abort_start are out of *)
(* reach and left out.                                                     *)
(***************************************************************************)
EXTENDS Naturals, Sequences, FiniteSets

CONSTANTS Clients,      \* who may have registered for the vote on the start
          Faults,       \* may publishing to redis fail?
          MaxPanics,    \* bound on the threads that panic, but for panics that follow on others
          MaxSignals    \* bound on the signals the process gets

ASSUME LifecycleAssumption ==
    /\ Faults \in BOOLEAN
    /\ MaxPanics \in Nat
    /\ MaxSignals \in Nat

Main == "main"              \* runs start and the model
Branch == "branch"          \* a branch of the model's gateway
Callback == "callback"      \* the subscription thread
Signals == "signals"        \* the thread of ctrlc that calls the handler
Threads == {Main, Branch, Callback, Signals}

States == {"Starting", "Running", "Stopping", "Stopped", "Finishing", "Finished"}

Final == {"Stopped", "Finished"}

VARIABLES
    state,       \* Weel::state
    reported,    \* the final states the CPEE has been told
    pc,          \* where each thread is
    \* the vote on the start
    handlers,    \* the clients redis returns for the key of the vote; each gets a vote of its own
    asked,       \* votes published
    openVotes,   \* Weel::open_votes
    subscribed,  \* votes whose responses are subscribed to
    answered,    \* votes a client has answered
    inbox,       \* responses the subscription has received
    \* the panic hook of the process
    hook,        \* what it does, in order
    saved,       \* what take_hook returned to main and to the callback thread
    panicking,   \* threads that have panicked
    rest,        \* what the hook still has to do on a thread
    keys,        \* the mutex callback_keys: "free", "held", "poisoned"
    \* the end
    woken,       \* the model's gateway has been sent a branch event
    messages,    \* messages in the channel of stop_signal_sender
    sender,      \* stop_signal_sender exists
    signals,     \* signals received
    exited       \* how the process has ended, "no" while it runs

voteVars == <<handlers, asked, openVotes, subscribed, answered, inbox>>
installVars == <<hook, saved>>
panicVars == <<panicking, rest, keys>>
hookVars == <<installVars, panicVars>>
endVars == <<messages, sender, signals, exited>>
stateVars == <<state, reported, woken>>
vars == <<stateVars, pc, voteVars, hookVars, endVars>>

Init == /\ state = "Starting"
        /\ reported = {}
        /\ pc = [t \in Threads |-> IF t = Branch THEN "unborn"
                                   ELSE IF t = Signals THEN "idle" ELSE "take"]
        /\ handlers \in SUBSET Clients
        /\ asked = {} /\ openVotes = {} /\ subscribed = {}
        /\ answered = {} /\ inbox = {}
        /\ hook = <<>>
        /\ saved = [t \in {Main, Callback} |-> <<>>]
        /\ panicking = {}
        /\ rest = [t \in Threads |-> <<>>]
        /\ keys = "free"
        /\ woken = FALSE
        /\ messages = 0 /\ sender = TRUE /\ signals = 0
        /\ exited = "no"
-----------------------------------------------------------------------------
Results == IF Faults THEN BOOLEAN ELSE {TRUE}

Go(t, from, to) == exited = "no" /\ pc[t] = from /\ pc' = [pc EXCEPT ![t] = to]

Terminating == state \in {"Stopping", "Stopped", "Finishing"}

\* Does set_state(s) return Ok if publishing does?  An unchanged state is not published.
Succeeds(s, published) == published \/ state = s

\* set_state(s); called with the id of main it also sends a branch event to the gateway.
SetState(s, published, id) ==
    /\ state' = s
    /\ reported' = IF published /\ state # s THEN reported \cup ({s} \cap Final) ELSE reported
    /\ woken' = (woken \/ /\ s \in {"Stopping", "Finishing"} /\ state # s /\ id = Main
                          /\ pc[Main] \in {"forked", "gateway"})

\* The thread t panics: the hook runs on it, with its locks held.
Panic(t) ==
    /\ exited = "no"
    /\ pc' = [pc EXCEPT ![t] = "hook"]
    /\ panicking' = panicking \cup {t}
    /\ rest' = [rest EXCEPT ![t] = hook]
-----------------------------------------------------------------------------
\* panic::take_hook; main and the callback thread do it in any order
TakeHook(t) ==
    /\ Go(t, "take", "set")
    /\ panicking = {}     \* a hook that runs keeps the hook locked
    /\ saved' = [saved EXCEPT ![t] = hook]
    /\ hook' = <<>>
    /\ UNCHANGED <<stateVars, voteVars, panicVars, endVars>>

\* panic::set_hook: main stops the instance and goes on to what was there
\* before; the callback thread does what was there before and exits.
SetHook(t) ==
    /\ Go(t, "set", IF t = Main THEN "voting" ELSE "listen")
    /\ panicking = {}
    /\ hook' = IF t = Main THEN <<"stop">> \o saved[t] ELSE saved[t] \o <<"exit">>
    /\ UNCHANGED <<saved, stateVars, voteVars, panicVars, endVars>>
-----------------------------------------------------------------------------
\* vote: publish the vote of one client
Ask(id) ==
    /\ Go(Main, "voting", "voting")
    /\ id \in handlers \ asked
    /\ asked' = asked \cup {id}
    /\ UNCHANGED <<stateVars, handlers, openVotes, subscribed, answered, inbox,
                   hookVars, endVars>>

\* Nobody is registered: vote returns true.
Unopposed ==
    /\ Go(Main, "voting", "voted")
    /\ handlers = {}
    /\ UNCHANGED <<stateVars, voteVars, hookVars, endVars>>

OpenVotes ==
    /\ Go(Main, "voting", "subscribing")
    /\ handlers # {} /\ asked = handlers
    /\ openVotes' = openVotes \cup handlers
    /\ UNCHANGED <<stateVars, handlers, asked, subscribed, answered, inbox,
                   hookVars, endVars>>

Subscribe ==
    /\ Go(Main, "subscribing", "awaiting")
    /\ subscribed' = handlers
    /\ UNCHANGED <<stateVars, handlers, asked, openVotes, answered, inbox,
                   hookVars, endVars>>

\* Channels of redis for a vote id: RedisHelper::send publishes on "type:worker:id",
\* vote subscribes to "vote-response: id".
Protocol == "type:worker:id"
Bare == "vote-response: id"
Subscription == Bare

\* What a publication of responses to the votes in S adds to the subscription;
\* pub-sub keeps nothing for later.
Received(S, channel) == IF channel = Subscription THEN S \cap subscribed ELSE {}

\* A client answers its vote.
Respond(id, channel) ==
    /\ exited = "no"
    /\ id \in asked \ answered
    /\ answered' = answered \cup {id}
    /\ inbox' = inbox \cup Received({id}, channel)
    /\ UNCHANGED <<stateVars, pc, handlers, asked, openVotes, subscribed,
                   hookVars, endVars>>

\* A message on the subscribed channel: split_topic demands three parts of its name
\* and finds two, so blocking_pub_sub and vote return the error before anything
\* looks at the message.
VoteMessage ==
    /\ inbox # {}
    /\ Go(Main, "awaiting", "voteHandle")
    /\ UNCHANGED <<stateVars, voteVars, hookVars, endVars>>

\* Connecting, publishing or subscribing fails: vote returns an error.
VoteFails ==
    /\ Faults
    /\ \E from \in {"voting", "subscribing"} : Go(Main, from, "voteHandle")
    /\ UNCHANGED <<stateVars, voteVars, hookVars, endVars>>
-----------------------------------------------------------------------------
\* The vote has passed: set_state(Running), then the model runs.  An error leaves
\* start, which drops the stop signal sender.
Run ==
    \E published \in Results :
        LET ok == Succeeds("Running", published)
        IN  /\ Go(Main, "voted", IF ok THEN "model" ELSE "mainHandle")
            /\ SetState("Running", published, Main)
            /\ sender' = ok
            /\ UNCHANGED <<voteVars, hookVars, messages, signals, exited>>

\* Where a thread is between two operations of the model
Home(t) == IF t = Main THEN "model" ELSE "run"

\* parallel_do with one parallel_branch, up to the check before the wait
Fork ==
    /\ exited = "no"
    /\ pc[Main] = "model" /\ pc[Branch] = "unborn"
    /\ ~Terminating
    /\ pc' = [pc EXCEPT ![Main] = "forked", ![Branch] = "run"]
    /\ UNCHANGED <<stateVars, voteVars, hookVars, endVars>>

AwaitBranch ==
    /\ Go(Main, "forked", IF Terminating THEN "model" ELSE "gateway")
    /\ UNCHANGED <<stateVars, voteVars, hookVars, endVars>>

\* Mutant: the end of the branch sends no event
LeaveGatewayWhenWoken ==
    /\ woken
    /\ Go(Main, "gateway", IF Terminating THEN "model" ELSE "gatewayJoin")
    /\ UNCHANGED <<stateVars, voteVars, hookVars, endVars>>

\* A branch event has come: from the branch's end or from set_state.
LeaveGateway ==
    /\ pc[Branch] = "done" \/ woken
    /\ Go(Main, "gateway", IF Terminating THEN "model" ELSE "gatewayJoin")
    /\ UNCHANGED <<stateVars, voteVars, hookVars, endVars>>

BranchEnded == pc[Branch] \in {"unborn", "done", "dead"}

\* recursive_join at the end of parallel_do; it returns the error a branch returned.
JoinInGateway ==
    /\ BranchEnded
    /\ \E ok \in Results : Go(Main, "gatewayJoin", IF ok THEN "model" ELSE "modelHandle")
    /\ UNCHANGED <<stateVars, voteVars, hookVars, endVars>>

\* The branch's lambda has returned, or is cut short as the instance is terminating.
EndBranch ==
    /\ Go(Branch, "run", "done")
    /\ UNCHANGED <<stateVars, voteVars, hookVars, endVars>>

\* An activity of the branch is about to register its callback.
BeginCall ==
    /\ ~Terminating
    /\ Go(Branch, "run", "registering")
    /\ UNCHANGED <<stateVars, voteVars, hookVars, endVars>>

\* register_callback locks callback_keys; a poisoned mutex makes it panic.
Register ==
    \/ /\ keys = "free"
       /\ Go(Branch, "registering", "run")
       /\ UNCHANGED <<stateVars, voteVars, hookVars, endVars>>
    \/ /\ keys = "poisoned"
       /\ pc[Branch] = "registering"
       /\ Panic(Branch)
       /\ UNCHANGED <<keys, stateVars, voteVars, installVars, endVars>>

\* stop and terminate check first ...
BeginEnd(t, to) ==
    /\ ~Terminating
    /\ Go(t, Home(t), to)
    /\ UNCHANGED <<stateVars, voteVars, hookVars, endVars>>

\* ... and set the state later: terminate without set_state,
Terminate(t) ==
    /\ Go(t, "terminating", Home(t))
    /\ state' = "Finishing"
    /\ UNCHANGED <<reported, woken, voteVars, hookVars, endVars>>

\* stop with it; its error ends the lambda of a branch and the model of main.
Stop(t) ==
    \E published \in Results :
        /\ Go(t, "halting", IF Succeeds("Stopping", published) THEN Home(t)
                            ELSE IF t = Main THEN "modelHandle" ELSE "run")
        /\ SetState("Stopping", published, t)
        /\ UNCHANGED <<voteVars, hookVars, endVars>>

\* An error reaches the top of the model.
ModelFails ==
    /\ Go(Main, "model", "modelHandle")
    /\ UNCHANGED <<stateVars, voteVars, hookVars, endVars>>

ModelEnds ==
    /\ Go(Main, "model", "ended")
    /\ UNCHANGED <<stateVars, voteVars, hookVars, endVars>>
-----------------------------------------------------------------------------
\* start after the model: what it does depends on the state
Conclude ==
    \/ /\ state \in {"Running", "Finishing"}
       /\ \E informed \in Results :
              Go(Main, "ended", IF informed THEN "finishing" ELSE "modelHandle")
       /\ UNCHANGED <<stateVars, voteVars, hookVars, endVars>>
    \/ /\ state = "Stopping"
       /\ Go(Main, "ended", "joining")
       /\ UNCHANGED <<stateVars, voteVars, hookVars, endVars>>

\* set_state(s) at the end of start; its error leaves start
SetLast(from, s) ==
    \E published \in Results :
        LET ok == Succeeds(s, published)
        IN  /\ Go(Main, from, IF ok THEN "signal" ELSE "mainHandle")
            /\ SetState(s, published, Main)
            /\ sender' = ok
            /\ UNCHANGED <<voteVars, hookVars, messages, signals, exited>>

\* Mutant: an error of it is handled like one of the model
FinishHandled ==
    \E published \in Results :
        /\ Go(Main, "finishing", IF published THEN "signal" ELSE "modelHandle")
        /\ SetState("Finished", published, Main)
        /\ UNCHANGED <<voteVars, hookVars, endVars>>

Finish == SetLast("finishing", "Finished")

\* recursive_join
Join ==
    /\ BranchEnded
    /\ \E ok \in Results :
           /\ Go(Main, "joining", IF ok THEN "stopping" ELSE "mainHandle")
           /\ sender' = ok
    /\ UNCHANGED <<stateVars, voteVars, hookVars, messages, signals, exited>>

SetStopped == SetLast("stopping", "Stopped")

\* handle_error sets Stopping and only logs when that fails.
HandleError(from, to) ==
    \E published \in Results :
        /\ Go(Main, from, to)
        /\ SetState("Stopping", published, Main)
        /\ UNCHANGED <<voteVars, hookVars, endVars>>

HandleModelError == HandleError("modelHandle", "stopping")
HandleVoteError == HandleError("voteHandle", "voteStopped")
HandleStartError == HandleError("mainHandle", "mainStopped")

\* After a failed vote no stop signal is sent.
SetStoppedAfterVote ==
    \E published \in Results :
        LET ok == Succeeds("Stopped", published)
        IN  /\ Go(Main, "voteStopped", IF ok THEN "return" ELSE "mainHandle")
            /\ SetState("Stopped", published, Main)
            /\ sender' = FALSE
            /\ UNCHANGED <<voteVars, hookVars, messages, signals, exited>>

\* Mutant: main does not set Stopped after an error of start
SetStoppedInMainOmitted ==
    /\ Go(Main, "mainStopped", "return")
    /\ UNCHANGED <<stateVars, voteVars, hookVars, endVars>>

\* main sets Stopped after an error of start, and panics when that fails.
SetStoppedInMain ==
    \/ \E published \in Results :
           /\ Succeeds("Stopped", published)
           /\ Go(Main, "mainStopped", "return")
           /\ SetState("Stopped", published, Main)
           /\ UNCHANGED <<voteVars, hookVars, endVars>>
    \/ /\ Faults /\ ~Succeeds("Stopped", FALSE)
       /\ pc[Main] = "mainStopped"
       /\ Panic(Main)
       /\ SetState("Stopped", FALSE, Main)
       /\ UNCHANGED <<keys, voteVars, installVars, endVars>>

\* stop_signal_sender.send
SendStopSignal ==
    /\ Go(Main, "signal", "return")
    /\ messages' = messages + 1
    /\ UNCHANGED <<stateVars, voteVars, hookVars, sender, signals, exited>>

\* start has returned.  The process ends when main does, whatever the others do.
DropSender ==
    /\ Go(Main, "return", "exit")
    /\ sender' = FALSE
    /\ UNCHANGED <<stateVars, voteVars, hookVars, messages, signals, exited>>

Exit ==
    /\ Go(Main, "exit", "gone")
    /\ exited' = "done"
    /\ UNCHANGED <<stateVars, voteVars, hookVars, messages, sender, signals>>
-----------------------------------------------------------------------------
\* The process gets SIGINT, SIGTERM or SIGHUP: the handler calls stop_weel.
Signal ==
    /\ signals < MaxSignals
    /\ Go(Signals, "idle", "stop")
    /\ signals' = signals + 1
    /\ UNCHANGED <<stateVars, voteVars, hookVars, messages, sender, exited>>

\* stop_weel reads the state and unlocks it.
ReadState(t) ==
    /\ Go(t, "stop", IF state = "Running" THEN "setStopping" ELSE "answering")
    /\ UNCHANGED <<stateVars, voteVars, hookVars, endVars>>

\* stop_weel fails: the signal handler panics, the hook logs the error.
StopFails(t) ==
    IF t \in panicking
    THEN pc' = [pc EXCEPT ![t] = "hook"] /\ UNCHANGED <<panicking, rest>>
    ELSE Panic(t)

SetStopping(t) ==
    /\ exited = "no" /\ pc[t] = "setStopping"
    /\ \E published \in Results :
           /\ SetState("Stopping", published, Main)
           /\ IF Succeeds("Stopping", published)
              THEN Go(t, "setStopping", "waiting") /\ UNCHANGED <<panicking, rest>>
              ELSE StopFails(t)
    /\ UNCHANGED <<keys, voteVars, installVars, endVars>>

\* Mutant: a stop does not wait for the end of the model
ReceiveStopSignalAtOnce(t) ==
    /\ Go(t, "waiting", "answering")
    /\ UNCHANGED <<stateVars, voteVars, hookVars, endVars>>

\* Mutant: without the sender a message is counted, too
ReceiveStopSignalMiscounted(t) ==
    /\ messages > 0 \/ ~sender
    /\ Go(t, "waiting", "answering")
    /\ messages' = messages - 1
    /\ UNCHANGED <<stateVars, voteVars, hookVars, sender, signals, exited>>

\* stop_signal_receiver.recv: a message, or an error without the sender
ReceiveStopSignal(t) ==
    /\ messages > 0 \/ ~sender
    /\ Go(t, "waiting", "answering")
    /\ messages' = IF messages > 0 THEN messages - 1 ELSE 0
    /\ UNCHANGED <<stateVars, voteVars, hookVars, sender, signals, exited>>

\* The open votes are answered, and the handler or the hook goes on.
AnswerVotes(t) ==
    /\ exited = "no" /\ pc[t] = "answering"
    /\ \E published \in IF openVotes = {} THEN {TRUE} ELSE Results :
           IF published
           THEN /\ Go(t, "answering", IF t \in panicking THEN "hook" ELSE "idle")
                /\ inbox' = inbox \cup Received(openVotes, Protocol)
                /\ UNCHANGED <<panicking, rest>>
           ELSE StopFails(t) /\ UNCHANGED inbox
    /\ UNCHANGED <<keys, stateVars, handlers, asked, openVotes, subscribed, answered,
                   installVars, endVars>>
-----------------------------------------------------------------------------
\* Where each thread may panic: without its connection to redis while it votes
\* or listens, and anywhere in the model.
MayPanic(t) == IF t = Main THEN {"voting", "awaiting", "model"}
               ELSE IF t = Branch THEN {"run"}
               ELSE IF t = Callback THEN {"listen"} ELSE {}

StartPanic(t) ==
    /\ Cardinality(panicking) < MaxPanics
    /\ pc[t] \in MayPanic(t)
    /\ Panic(t)
    /\ UNCHANGED <<keys, stateVars, voteVars, installVars, endVars>>

\* A message that the callback thread cannot read makes it panic with callback_keys locked.
PanicOnMessage ==
    /\ Cardinality(panicking) < MaxPanics
    /\ pc[Callback] = "listen"
    /\ Panic(Callback)
    /\ keys' = "held"
    /\ UNCHANGED <<stateVars, voteVars, installVars, endVars>>

\* Mutant: the hook does not go on to the one before it
RunHookAlone(t) ==
    /\ rest[t] # <<>>
    /\ rest' = [rest EXCEPT ![t] = <<>>]
    /\ Go(t, "hook", IF Head(rest[t]) = "stop" THEN "stop" ELSE "gone")
    /\ exited' = IF Head(rest[t]) = "stop" THEN exited ELSE "killed"
    /\ UNCHANGED <<keys, panicking, stateVars, voteVars, installVars,
                   messages, sender, signals>>

RunHook(t) ==
    /\ rest[t] # <<>>
    /\ rest' = [rest EXCEPT ![t] = Tail(@)]
    /\ Go(t, "hook", IF Head(rest[t]) = "stop" THEN "stop" ELSE "gone")
    /\ exited' = IF Head(rest[t]) = "stop" THEN exited ELSE "killed"
    /\ UNCHANGED <<keys, panicking, stateVars, voteVars, installVars,
                   messages, sender, signals>>

\* The thread unwinds; with main the process ends.
Unwind(t) ==
    /\ rest[t] = <<>>
    /\ Go(t, "hook", "dead")
    /\ exited' = IF t = Main THEN "panicked" ELSE "no"
    /\ keys' = IF t = Callback /\ keys = "held" THEN "poisoned" ELSE keys
    /\ UNCHANGED <<panicking, rest, stateVars, voteVars, installVars,
                   messages, sender, signals>>
-----------------------------------------------------------------------------
Vote == \/ \E id \in handlers : Ask(id)
        \/ Unopposed \/ OpenVotes \/ Subscribe \/ VoteMessage \/ VoteFails

Model(t) == \/ \E to \in {"terminating", "halting"} : BeginEnd(t, to)
            \/ Terminate(t) \/ Stop(t)

MainThread ==
    \/ TakeHook(Main) \/ SetHook(Main)
    \/ Vote \/ Run \/ Model(Main)
    \/ Fork \/ AwaitBranch \/ LeaveGateway \/ JoinInGateway \/ ModelFails \/ ModelEnds
    \/ Conclude \/ Finish \/ Join \/ SetStopped
    \/ HandleModelError \/ HandleVoteError \/ HandleStartError
    \/ SetStoppedAfterVote \/ SetStoppedInMain
    \/ SendStopSignal \/ DropSender \/ Exit

StopWeel(t) ==
    \/ ReadState(t) \/ SetStopping(t) \/ ReceiveStopSignal(t) \/ AnswerVotes(t)
    \/ RunHook(t) \/ Unwind(t)

Next ==
    \/ MainThread
    \/ BeginCall \/ Register \/ Model(Branch) \/ EndBranch
    \/ TakeHook(Callback) \/ SetHook(Callback) \/ PanicOnMessage
    \/ Signal
    \/ \E t \in Threads : StopWeel(t) \/ StartPanic(t)
    \/ \E id \in handlers, channel \in {Protocol, Bare} : Respond(id, channel)

Spec == Init /\ [][Next]_vars

\* Everybody goes on, except that nobody has to send signals, to fail or to answer
\* a vote, and that the model and its branch only have to end when the instance is
\* terminating: until then they may wait for services.
MainMust ==
    \/ TakeHook(Main) \/ SetHook(Main)
    \/ (Vote /\ ~VoteFails) \/ Run
    \/ Terminate(Main) \/ Stop(Main)
    \/ AwaitBranch \/ LeaveGateway \/ JoinInGateway \/ (Terminating /\ ModelEnds)
    \/ Conclude \/ Finish \/ Join \/ SetStopped
    \/ HandleModelError \/ HandleVoteError \/ HandleStartError
    \/ SetStoppedAfterVote \/ SetStoppedInMain
    \/ SendStopSignal \/ DropSender \/ Exit
    \/ StopWeel(Main)

BranchMust ==
    \/ Register \/ Terminate(Branch) \/ Stop(Branch)
    \/ (Terminating /\ EndBranch)
    \/ StopWeel(Branch)

CallbackMust == TakeHook(Callback) \/ SetHook(Callback) \/ StopWeel(Callback)

Fairness == /\ WF_vars(MainMust)
            /\ WF_vars(BranchMust)
            /\ WF_vars(CallbackMust)

LiveSpec == Spec /\ Fairness

\* Every client answers in the end, on whatever channel, and none casts a veto.
AnsweringSpec ==
    /\ LiveSpec
    /\ \A id \in Clients : WF_vars(\E channel \in {Protocol, Bare} : Respond(id, channel))
-----------------------------------------------------------------------------
Points == {"take", "set", "voting", "subscribing", "awaiting", "voted", "voteHandle",
           "voteStopped", "model", "forked", "gateway", "gatewayJoin", "unborn", "run",
           "registering", "done", "terminating", "halting", "modelHandle", "ended",
           "finishing", "joining", "stopping", "signal", "mainHandle", "mainStopped",
           "return", "exit", "gone", "idle", "listen", "stop", "setStopping", "waiting",
           "answering", "hook", "dead"}

TypeOK ==
    /\ state \in States
    /\ reported \subseteq Final
    /\ pc \in [Threads -> Points]
    /\ handlers \subseteq Clients
    /\ asked \subseteq handlers
    /\ openVotes \subseteq handlers
    /\ subscribed \subseteq handlers
    /\ answered \subseteq handlers
    /\ inbox \subseteq handlers
    /\ hook \in Seq({"stop", "exit"})
    /\ saved \in [{Main, Callback} -> Seq({"stop", "exit"})]
    /\ panicking \subseteq Threads
    /\ rest \in [Threads -> Seq({"stop", "exit"})]
    /\ keys \in {"free", "held", "poisoned"}
    /\ woken \in BOOLEAN
    /\ messages \in Nat
    /\ sender \in BOOLEAN
    /\ signals \in Nat
    /\ exited \in {"no", "done", "killed", "panicked"}

\* main only returns after the CPEE has been told that the instance is stopped or
\* finished, whatever publishing failed on the way (start's arms and main's match).
EndIsTold == exited = "done" => reported # {}

\* A final state is only taken back by a stop_weel that has read Running before, by main
\* after a failure to report, or by a branch that a terminated gateway has left
\* behind: for it Finished is not terminating.
FinalStateKept ==
    [][(state \in Final /\ state' # state) =>
          (pc[Main] \in {"mainHandle", "mainStopped"}
           \/ pc[Branch] \in {"terminating", "halting"}
           \/ \E t \in Threads : pc[t] = "setStopping")]_vars

\* Where main is when the model and everything start does after it are over
ModelOver == {"return", "exit", "gone", "mainHandle", "mainStopped", "hook", "stop",
              "answering", "dead"}

\* A stop_weel that waits for the end of the model goes on no earlier than that, also
\* when several wait and there is one message.
StopOutlastsModel ==
    [][\A t \in Threads :
          pc[t] = "waiting" /\ pc'[t] = "answering" => pc[Main] \in ModelOver]_vars

\* Once the state is Stopping the process ends, unless a thread panics: a panic hook
\* waits for the end of the model with its thread not ended.
StopEnds == state = "Stopping" ~> exited # "no" \/ panicking # {}

\* "We will terminate the process if callback thread panics": so it is if the hook of
\* the callback thread was not lost between main's take_hook and set_hook, if it
\* does not hold callback_keys, and if nobody else panics.
CallbackPanicEnds ==
    /\ "exit" \in {rest[Callback][i] : i \in DOMAIN rest[Callback]}
    /\ keys = "free"
    ~> exited # "no" \/ panicking # {Callback}

\* "will return true if no veto was cast" (vote): a vote that has begun to listen
\* before the first client answers passes when all of them have.
UnvetoedVotePasses == pc[Main] = "awaiting" /\ answered = {} ~> pc[Main] = "voted"
=============================================================================
