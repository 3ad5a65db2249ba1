----------------------------- MODULE ServiceCall -----------------------------
(***************************************************************************)
(* One activity that calls a service (weel_activity with                   *)
(* ActivityType::Call in dsl_realization.rs, ConnectionWrapper in          *)
(* connection_wrapper.rs): the thread of the activity, the callback thread *)
(* that brings the answers of the service (redis_helper.rs), the service   *)
(* itself, and the rest of the instance, which may stop it or cancel it.   *)
(*                                                                         *)
(* The mutex of the connection wrapper makes the steps.  Evaluating the    *)
(* code of the activity is part of the step that holds it, the vote and    *)
(* the HTTP request are not: the wrapper stays locked from one step to the *)
(* next one (Locked).  A redirected request (status 561) sends the same    *)
(* call again, which changes nothing here.                                 *)
(*                                                                         *)
(* A vote never returns false (Lifecycle has its messages): it passes at   *)
(* once, waits for good, or fails.  Panics are left to Lifecycle, too.     *)
(***************************************************************************)
EXTENDS Naturals, Sequences

CONSTANTS Ids,         \* callback ids, every request takes a fresh one
          NoId,
          Resumed,     \* the call an earlier run may have left open, or NoId
          Kinds,       \* what services send
          Codes,       \* how evaluating code ends: subset of {"ok", "again", "raise"}
          Rescues,     \* may the activity have rescue code? subset of BOOLEAN
          Voters,      \* may clients be registered for a vote? subset of BOOLEAN
          Interrupts,  \* subset of {"Stopping", "Finishing", "cancel"}
          Faults,      \* can the request, and telling the CPEE, fail?
          MaxRounds,   \* bound on how often code says again
          MaxUpdates   \* bound on the updates that services send

AllKinds == {"update", "status", "ok", "event", "stop", "failed"}

ASSUME CallAssumption ==
    /\ NoId \notin Ids
    /\ "callback-end" \notin Ids     \* ids are random numbers
    /\ Resumed \in Ids \cup {NoId}
    /\ Kinds \subseteq AllKinds
    /\ Codes \subseteq {"ok", "again", "raise"}
    /\ Rescues \subseteq BOOLEAN
    /\ Voters \subseteq BOOLEAN
    /\ Interrupts \subseteq {"Stopping", "Finishing", "cancel"}
    /\ Faults \in BOOLEAN
    /\ MaxRounds \in Nat
    /\ MaxUpdates \in Nat

VARIABLES
    wstate,        \* Weel::state
    unneeded,      \* no_longer_necessary
    pc,            \* where the activity is, in the end how it was left
    stopSeen,      \* state_stopping_or_finishing, read before the vote
    signals,       \* callback_signals
    waitResult,    \* wait_result
    passthrough,   \* handler_passthrough of the wrapper
    value,         \* what handler_return_value was filled from
    code,          \* code_type of the code that ran last
    position,      \* handler_passthrough of the position
    registry,      \* callback_keys
    bus,           \* published and not yet seen by the callback thread
    service,       \* what the services know of each call
    answer,        \* history: the final answer to the current call
    rounds,        \* bounded by MaxRounds
    updates        \* bounded by MaxUpdates

instVars    == <<wstate, unneeded>>
wrapperVars == <<signals, passthrough, value, answer>>
boundVars   == <<rounds, updates>>
vars == <<instVars, pc, stopSeen, waitResult, code, position, wrapperVars,
          registry, bus, service, boundVars>>

Init == /\ wstate = "Running"
        /\ unneeded = FALSE
        /\ pc = "start"
        /\ stopSeen = FALSE
        /\ signals = <<>>
        /\ waitResult = "nothing"
        /\ passthrough = NoId
        /\ value = "empty"
        /\ code = "none"
        /\ position \in {NoId, Resumed}
        /\ registry = {}
        /\ bus = <<>>
        /\ service = [id \in Ids |-> IF id = position THEN "accepted" ELSE "unused"]
        /\ answer = "none"
        /\ rounds = 0
        /\ updates = 0
-----------------------------------------------------------------------------
Terminating == wstate \in {"Stopping", "Stopped", "Finishing"}

StoppingOrFinishing == wstate \in {"Stopping", "Finishing"}

\* The activity has been left: the last two by an error that ? passes on, past
\* everything that weel_activity does about errors.
Left == {"skipped", "stopped", "cancelled", "raised", "done", "broken", "lost"}

\* Is the wrapper locked by the activity between two of its steps?
Locked == pc \in {"vote", "ballot", "request"}

Go(from, to) == pc = from /\ pc' = to

\* A step with a message to the CPEE; weel_activity returns the error of that.
Tell(from, to) == Go(from, to) \/ (Faults /\ Go(from, "broken"))

\* vote: without clients it returns true, with clients it waits for their responses.
Poll(from, to) == \/ FALSE \in Voters /\ Tell(from, to)
                  \/ TRUE \in Voters /\ Tell(from, "ballot")

IsUpdate(kind) == kind \in {"update", "status"}

\* A message about a status or an event carries no result.
ValueOf(kind) == IF kind \in {"status", "event"} THEN "empty" ELSE kind

SignalOf(kind) == IF IsUpdate(kind) THEN "UpdateAgain"
                  ELSE IF kind = "failed" THEN "Salvage"
                  ELSE IF kind = "stop" THEN "Stop"
                  ELSE "None"

Response(id, kind) == [type |-> "callback-response", event |-> id, kind |-> kind]
End(id) == [type |-> "callback-end", event |-> id, kind |-> "none"]

\* cancel_callback for the id the wrapper holds, if it holds one
Cancel == IF passthrough = NoId THEN <<>> ELSE <<End(passthrough)>>

\* set_state(Stopping) by the activity's own thread; recursive_continue
\* leaves a signal in the thread's own queue
SetStopping ==
    /\ wstate' = "Stopping"
    /\ signals' = IF wstate = "Stopping" THEN signals ELSE Append(signals, "None")

\* A bounded choice of what a service sends next
Choice(kind) ==
    /\ kind \in Kinds
    /\ IsUpdate(kind) => updates < MaxUpdates
    /\ updates' = IF IsUpdate(kind) THEN updates + 1 ELSE updates

AfterMessage(kind) == IF IsUpdate(kind) THEN "accepted" ELSE "answered"

\* Mutant: a message without a value wakes nobody.
HandleCallbackSkipsEmpty(kind, pending) ==
    /\ value' = ValueOf(kind)
    /\ signals' = IF ValueOf(kind) = "empty" THEN signals
                  ELSE Append(signals, SignalOf(kind))
    /\ IF IsUpdate(kind)
       THEN /\ bus' = pending
            /\ UNCHANGED <<passthrough, answer>>
       ELSE /\ bus' = pending \o Cancel
            /\ passthrough' = NoId
            /\ answer' = kind

\* handle_callback; the messages in pending precede the one it publishes
HandleCallback(kind, pending) ==
    /\ value' = ValueOf(kind)
    /\ signals' = Append(signals, SignalOf(kind))
    /\ IF IsUpdate(kind)
       THEN /\ bus' = pending
            /\ UNCHANGED <<passthrough, answer>>
       ELSE /\ bus' = pending \o Cancel
            /\ passthrough' = NoId
            /\ answer' = kind
-----------------------------------------------------------------------------
\* Mutant: weel_progress does not take over the id of the search position.
BeginAnew ==
    /\ Go("start", "prepare")
    /\ signals' = <<>>
    /\ position' = NoId
    /\ UNCHANGED <<instVars, stopSeen, waitResult, passthrough, value, answer,
                   code, registry, bus, service, boundVars>>

\* weel_activity up to the loop: a fresh queue, weel_progress
Begin ==
    /\ \/ /\ Terminating \/ unneeded
          /\ Go("start", "skipped")
          /\ UNCHANGED signals
       \/ /\ ~Terminating /\ ~unneeded
          /\ Tell("start", "prepare")
          /\ signals' = <<>>
    /\ UNCHANGED <<instVars, stopSeen, waitResult, passthrough, value, answer,
                   code, position, registry, bus, service, boundVars>>

\* Code has raised an error or a signal: some of them stop the instance.
Raise(from) ==
    /\ "raise" \in Codes
    /\ Go(from, "raised")
    /\ SetStopping \/ UNCHANGED <<wstate, signals>>

\* code has said again
Again(from) ==
    /\ "again" \in Codes
    /\ rounds < MaxRounds
    /\ Go(from, "prepare")
    /\ rounds' = rounds + 1

\* prepare, and the state is read before the vote
Prepare ==
    /\ \/ /\ "ok" \in Codes
          /\ Go("prepare", "vote")
          /\ stopSeen' = StoppingOrFinishing
          /\ UNCHANGED <<wstate, signals, rounds>>
       \/ Again("prepare") /\ UNCHANGED <<wstate, signals, stopSeen>>
       \/ Raise("prepare") /\ UNCHANGED <<stopSeen, rounds>>
    /\ UNCHANGED <<unneeded, waitResult, passthrough, value, answer, code,
                   position, registry, bus, service, updates>>

\* vote_sync_before; the wrapper is locked meanwhile
Vote ==
    /\ Poll("vote", IF stopSeen THEN "skipped" ELSE "handle")
    /\ UNCHANGED <<instVars, stopSeen, waitResult, wrapperVars, code, position,
                   registry, bus, service, boundVars>>

\* A response on the channel that the vote listens to is an error of the vote;
\* one on any other channel goes unheard, and a stop does not end it either.
VoteFails ==
    /\ Go("ballot", "broken")
    /\ UNCHANGED <<instVars, stopSeen, waitResult, wrapperVars, code, position,
                   registry, bus, service, boundVars>>

\* activity_handle for a call that is open already
Register ==
    /\ position # NoId
    /\ Go("handle", "note")
    /\ registry' = registry \cup {position}
    /\ passthrough' = position
    /\ UNCHANGED <<instVars, stopSeen, waitResult, signals, value, answer, code,
                   position, bus, service, boundVars>>

\* Mutant: the callback is registered under the wrapper's previous id.
CurlRegistersFirst ==
    /\ position = NoId
    /\ Go("handle", "request")
    /\ \E id \in Ids :
          /\ service[id] = "unused"
          /\ service' = [service EXCEPT ![id] = "asked"]
          /\ passthrough' = id
    /\ registry' = registry \cup {passthrough}
    /\ answer' = "none"
    /\ UNCHANGED <<instVars, stopSeen, waitResult, signals, value, code,
                   position, bus, boundVars>>

\* Mutant: the callback is not registered.
CurlUnregistered ==
    /\ position = NoId
    /\ Go("handle", "request")
    /\ \E id \in Ids :
          /\ service[id] = "unused"
          /\ service' = [service EXCEPT ![id] = "asked"]
          /\ passthrough' = id
    /\ answer' = "none"
    /\ UNCHANGED <<instVars, stopSeen, waitResult, signals, value, code,
                   position, registry, bus, boundVars>>

\* activity_handle, curl: register under a fresh id, then send the request
Curl ==
    /\ position = NoId
    /\ Go("handle", "request")
    /\ \E id \in Ids :
          /\ service[id] = "unused"
          /\ service' = [service EXCEPT ![id] = "asked"]
          /\ passthrough' = id
          /\ registry' = registry \cup {id}
    /\ answer' = "none"
    /\ UNCHANGED <<instVars, stopSeen, waitResult, signals, value, code,
                   position, bus, boundVars>>

\* The response to the request is the answer, or an update ...
Respond ==
    /\ Go("request", "note")
    /\ \E kind \in Kinds :
          /\ service[passthrough] = "asked" \/ IsUpdate(kind)
          /\ Choice(kind)
          /\ HandleCallback(kind, bus)
          /\ service' = [service EXCEPT ![passthrough] =
                            IF @ = "asked" THEN AfterMessage(kind) ELSE @]
    /\ UNCHANGED <<instVars, stopSeen, waitResult, code, position, registry, rounds>>

\* ... or the service will answer later.
Accepted ==
    /\ Go("request", "note")
    /\ service' = [service EXCEPT ![passthrough] = IF @ = "asked" THEN "accepted" ELSE @]
    /\ UNCHANGED <<instVars, stopSeen, waitResult, wrapperVars, code, position,
                   registry, bus, boundVars>>

\* activity_handle(..)? fails before the request, or in it: then nobody knows
\* whether the service has the call.
Break ==
    /\ Faults
    /\ Go("handle", "broken") \/ Go("request", "lost")
    /\ UNCHANGED <<instVars, stopSeen, waitResult, wrapperVars, code, position,
                   registry, bus, service, boundVars>>

\* After the call: its id is kept in the position.
Note ==
    /\ Tell("note", "check")
    /\ position' = passthrough
    /\ UNCHANGED <<instVars, stopSeen, waitResult, wrapperVars, code, registry,
                   bus, service, boundVars>>

\* should_block
Check ==
    /\ \/ ~Terminating /\ ~unneeded /\ Go("check", "wait") /\ UNCHANGED waitResult
       \/ /\ Terminating \/ unneeded
          /\ Go("check", "react")
          /\ waitResult' = "nothing"
    /\ UNCHANGED <<instVars, stopSeen, wrapperVars, code, position, registry,
                   bus, service, boundVars>>

\* thread_queue.dequeue()
Dequeue ==
    /\ Go("wait", "react")
    /\ signals # <<>>
    /\ waitResult' = Head(signals)
    /\ signals' = Tail(signals)
    /\ UNCHANGED <<instVars, stopSeen, passthrough, value, answer, code,
                   position, registry, bus, service, boundVars>>

\* NoLongerNecessary
LeaveCancelled ==
    /\ unneeded
    /\ \/ /\ Go("react", "cancelled")
          /\ bus' = bus \o Cancel
          /\ position' = NoId
       \/ /\ Faults /\ Go("react", "broken")
          /\ bus' \in {bus, bus \o Cancel}
          /\ UNCHANGED position
    /\ UNCHANGED <<instVars, stopSeen, waitResult, wrapperVars, code, registry,
                   service, boundVars>>

\* A stop while the call is open: the position keeps its id.
LeaveStopped ==
    /\ ~unneeded /\ Terminating /\ passthrough # NoId
    /\ \/ Go("react", "stopped") /\ bus' = bus \o Cancel /\ position' = passthrough
       \/ Faults /\ Go("react", "broken") /\ UNCHANGED <<bus, position>>
    /\ UNCHANGED <<instVars, stopSeen, waitResult, wrapperVars, code, registry,
                   service, boundVars>>

\* Mutant: a stop is not looked at after the wait.
ResumeAnyway == pc = "react" /\ ~unneeded /\ UNCHANGED position

\* Neither of them: go on.
Resume == /\ pc = "react" /\ ~unneeded
          /\ Terminating => passthrough = NoId
          /\ position' = IF Terminating THEN passthrough ELSE position

\* An update without a value is ignored.
IgnoreUpdate ==
    /\ Resume
    /\ waitResult = "UpdateAgain" /\ value = "empty"
    /\ Go("react", "check")
    /\ UNCHANGED <<instVars, stopSeen, waitResult, wrapperVars, code, registry,
                   bus, service, boundVars>>

CodeType == IF waitResult = "UpdateAgain" THEN "update"
            ELSE IF waitResult = "Salvage" THEN "rescue"
            ELSE "finalize"

\* Run the update, rescue or finalize code.
RunCode ==
    /\ Resume
    /\ ~(waitResult = "UpdateAgain" /\ value = "empty")
    /\ CodeType = "rescue" => TRUE \in Rescues
    /\ code' = CodeType
    /\ \/ /\ "ok" \in Codes
          /\ Tell("react", IF CodeType = "update" THEN "check" ELSE "complete")
          /\ UNCHANGED <<wstate, signals, rounds>>
       \/ Again("react") /\ UNCHANGED <<wstate, signals>>
       \/ Raise("react") /\ UNCHANGED rounds
    /\ UNCHANGED <<unneeded, stopSeen, waitResult, passthrough, value, answer,
                   registry, bus, service, updates>>

\* A failed call without rescue code is an error of the instance.
LeaveFailed ==
    /\ Resume
    /\ CodeType = "rescue" /\ FALSE \in Rescues
    /\ Go("react", "raised")
    /\ SetStopping
    /\ UNCHANGED <<unneeded, stopSeen, waitResult, passthrough, value, answer,
                   code, registry, bus, service, boundVars>>

\* The end of the loop; an answered call is forgotten.
Complete ==
    /\ \/ passthrough # NoId /\ Go("complete", "after") /\ UNCHANGED position
       \/ passthrough = NoId /\ Go("complete", "after") /\ position' = NoId
       \/ /\ passthrough = NoId /\ Faults /\ Go("complete", "broken")
          /\ position' \in {position, NoId}
    /\ UNCHANGED <<instVars, stopSeen, waitResult, wrapperVars, code, registry,
                   bus, service, boundVars>>

\* vote_sync_after, with the wrapper locked again
VoteAfter ==
    /\ \/ StoppingOrFinishing /\ Go("after", "done")
       \/ ~StoppingOrFinishing /\ Poll("after", "done")
    /\ UNCHANGED <<instVars, stopSeen, waitResult, wrapperVars, code, position,
                   registry, bus, service, boundVars>>

Activity == \/ Begin \/ Prepare \/ Vote \/ Register \/ Curl
            \/ Respond \/ Accepted \/ Break \/ Note \/ Check \/ Dequeue
            \/ LeaveCancelled \/ LeaveStopped \/ IgnoreUpdate \/ RunCode
            \/ LeaveFailed \/ Complete \/ VoteAfter
-----------------------------------------------------------------------------
\* The callback thread handles an answer of a service ...
Deliver ==
    LET m == Head(bus)
    IN  /\ bus # <<>>
        /\ m.type = "callback-response"
        /\ IF m.event \in registry
           THEN ~Locked /\ HandleCallback(m.kind, Tail(bus))
           ELSE bus' = Tail(bus) /\ UNCHANGED <<signals, passthrough, value, answer>>
        /\ UNCHANGED <<instVars, pc, stopSeen, waitResult, code, position,
                       registry, service, boundVars>>

\* ... or the end of a callback: it removes the key topic.type_.
Unregister ==
    LET m == Head(bus)
    IN  /\ bus # <<>>
        /\ m.type = "callback-end"
        /\ registry' = registry \ {m.type}
        /\ bus' = Tail(bus)
        /\ UNCHANGED <<instVars, pc, stopSeen, waitResult, code, position,
                       wrapperVars, service, boundVars>>

CallbackThread == Deliver \/ Unregister

\* A service that has accepted a call, even while it has yet to say so,
\* sends updates and one final answer.
Send(id) ==
    /\ service[id] \in {"asked", "accepted"}
    /\ \E kind \in Kinds :
          /\ Choice(kind)
          /\ bus' = Append(bus, Response(id, kind))
          /\ service' = [service EXCEPT ![id] = AfterMessage(kind)]
    /\ UNCHANGED <<instVars, pc, stopSeen, waitResult, code, position,
                   wrapperVars, registry, rounds>>

\* Mutant: set_state does not wake the thread.
StopSilently ==
    /\ wstate = "Running"
    /\ wstate' \in Interrupts \ {"cancel"}
    /\ UNCHANGED <<unneeded, signals, pc, stopSeen, waitResult, passthrough,
                   value, answer, code, position, registry, bus, service, boundVars>>

\* set_state by another thread, or terminate, which wakes nobody
Stop ==
    /\ wstate = "Running"
    /\ \/ /\ "Stopping" \in Interrupts
          /\ wstate' = "Stopping"
          /\ signals' = Append(signals, "None")
       \/ /\ "Finishing" \in Interrupts
          /\ wstate' = "Finishing"
          /\ UNCHANGED signals
    /\ UNCHANGED <<unneeded, pc, stopSeen, waitResult, passthrough, value, answer,
                   code, position, registry, bus, service, boundVars>>

\* A sibling ends and the gateway needs this branch no longer.
CancelBranch ==
    /\ "cancel" \in Interrupts /\ ~unneeded
    /\ unneeded' = TRUE
    /\ signals' = Append(signals, "None")
    /\ UNCHANGED <<wstate, pc, stopSeen, waitResult, passthrough, value, answer,
                   code, position, registry, bus, service, boundVars>>

Next == \/ Activity \/ VoteFails \/ CallbackThread
        \/ \E id \in Ids : Send(id)
        \/ Stop \/ CancelBranch

Spec == Init /\ [][Next]_vars

\* Threads that can go on do; a request ends by its timeout of 20 seconds.  A
\* vote that waits for its clients has no end (VoteFails is not fair).
FairThreads == WF_vars(Activity) /\ WF_vars(CallbackThread)

LiveSpec == Spec /\ FairThreads

\* Every service gives a final answer in the end.  Only Completes asks for it.
Answered(id) == Send(id) /\ service'[id] = "answered"
ServicesAnswer == \A id \in Ids : WF_vars(Answered(id))
-----------------------------------------------------------------------------
Signals == {"None", "UpdateAgain", "Salvage", "Stop"}

Messages == [type : {"callback-response"}, event : Ids, kind : AllKinds]
            \cup [type : {"callback-end"}, event : Ids, kind : {"none"}]

TypeOK ==
    /\ wstate \in {"Running", "Stopping", "Finishing"}
    /\ unneeded \in BOOLEAN
    /\ pc \in {"start", "prepare", "vote", "ballot", "handle", "request", "note",
               "check", "wait", "react", "complete", "after"} \cup Left
    /\ stopSeen \in BOOLEAN
    /\ signals \in Seq(Signals)
    /\ waitResult \in Signals \cup {"nothing"}
    /\ passthrough \in Ids \cup {NoId}
    /\ value \in AllKinds \cup {"empty"}
    /\ code \in {"none", "update", "rescue", "finalize"}
    /\ position \in Ids \cup {NoId}
    /\ registry \subseteq Ids
    /\ bus \in Seq(Messages)
    /\ service \in [Ids -> {"unused", "asked", "accepted", "answered"}]
    /\ answer \in AllKinds \cup {"none"}
    /\ rounds \in 0 .. MaxRounds
    /\ updates \in 0 .. MaxUpdates

(***************************************************************************)
(* However the activity is left, by a stop, by an error of its code or     *)
(* because the CPEE cannot be told of something, a call that the service   *)
(* has accepted and not yet answered is not forgotten: the position that   *)
(* is kept for the restart has its id.  Dropping a call on purpose (a      *)
(* cancelled branch) and a request that fails are the exceptions.          *)
(***************************************************************************)
OpenCallIsRemembered ==
    pc \in Left \ {"cancelled", "lost"} =>
        \A id \in Ids : service[id] = "accepted" => position = id

\* Unless code has said again: the finalize and the rescue code run for an
\* answer of the service, never for an update or the wake-up of a stop; they see
\* the value of that answer; only failures are rescued, and all of them are
\* unless the instance is being ended.
CodeFitsAnswer ==
    pc = "complete" /\ rounds = 0 =>
        /\ answer # "none"
        /\ value = ValueOf(answer)
        /\ code = "rescue" => answer = "failed"
        /\ answer = "failed" /\ ~Terminating => code = "rescue"

\* The activity waits for a call that its service has yet to answer, for an answer
\* on its way, or for a signal in its queue.
HasReason ==
    \/ signals # <<>>
    \/ \E id \in Ids : service[id] = "accepted" /\ id \in registry
    \/ \E i \in DOMAIN bus : bus[i].type = "callback-response" /\ bus[i].event \in registry

\* An activity that made its call itself, and whose code has not said again, never
\* waits for nothing, however it is stopped or cancelled meanwhile.
WaitIsJustified == position = NoId => [](pc = "wait" /\ rounds = 0 => HasReason)

\* Nobody interrupts the activity, and nothing fails, raises or asks clients.
Undisturbed ==
    /\ wstate = "Running" /\ ~unneeded
    /\ rounds = 0
    /\ pc \notin {"ballot", "broken", "lost", "raised"}

\* Such an activity is done in the end if its service answers, whatever the order
\* of the response, the updates and the answer.
Completes ==
    position = NoId /\ ServicesAnswer /\ [](Undisturbed \/ pc = "done") => <>(pc = "done")

\* A stop ends the activity, whatever the service does, unless clients are
\* registered for one of its votes: for their responses it waits for good.
StopEnds == wstate = "Stopping" ~> pc \in Left \cup {"ballot"}
=============================================================================
