------------------------- MODULE ServiceCallProofs -------------------------
(***************************************************************************)
(* Theorems of ServiceCall for any ids, any messages of the services, any  *)
(* code, voters, faults and interruptions, and any bounds.                  *)
(***************************************************************************)
EXTENDS ServiceCall, SequenceTheorems, TLAPS

\* Queues that the steps below leave behind
LEMMA QueueType ==
    ASSUME TypeOK, NEW s \in Signals
    PROVE  /\ <<>> \in Seq(Signals)
           /\ Append(signals, s) \in Seq(Signals)
<1>1. signals \in Seq(Signals)
  BY DEF TypeOK
<1> QED
  BY <1>1, AppendProperties

\* The message that cancel_callback sends
LEMMA CancelType ==
    ASSUME TypeOK
    PROVE  Cancel \in Seq(Messages)
<1>1. CASE passthrough = NoId
  BY <1>1 DEF Cancel
<1>2. CASE passthrough # NoId
  <2>1. End(passthrough) \in Messages
    BY <1>2 DEF TypeOK, End, Messages
  <2>2. Cancel = <<End(passthrough)>>
    BY <1>2 DEF Cancel
  <2> QED
    BY <2>1, <2>2
<1> QED
  BY <1>1, <1>2

\* What handle_callback does keeps the types of what it changes.
LEMMA HandleCallbackType ==
    ASSUME CallAssumption, TypeOK, NEW kind \in AllKinds,
           NEW pending \in Seq(Messages), HandleCallback(kind, pending)
    PROVE  /\ signals' \in Seq(Signals)
           /\ passthrough' \in Ids \cup {NoId}
           /\ value' \in AllKinds \cup {"empty"}
           /\ bus' \in Seq(Messages)
           /\ answer' \in AllKinds \cup {"none"}
<1>1. SignalOf(kind) \in Signals
  BY DEF SignalOf, Signals
<1>2. signals' \in Seq(Signals)
  BY <1>1, QueueType DEF HandleCallback
<1>4. pending \o Cancel \in Seq(Messages)
  BY CancelType, ConcatProperties
<1>5. value' \in AllKinds \cup {"empty"}
  BY DEF HandleCallback, ValueOf
<1>6. CASE IsUpdate(kind)
  BY <1>2, <1>5, <1>6 DEF HandleCallback, TypeOK
<1>7. CASE ~IsUpdate(kind)
  <2>1. bus' = pending \o Cancel /\ passthrough' = NoId /\ answer' = kind
    BY <1>7 DEF HandleCallback
  <2> QED
    BY <1>2, <1>4, <1>5, <2>1
<1> QED
  BY <1>6, <1>7

\* set_state(Stopping) by the activity
LEMMA SetStoppingType ==
    ASSUME TypeOK, SetStopping
    PROVE  /\ wstate' \in {"Running", "Stopping", "Finishing"}
           /\ signals' \in Seq(Signals)
<1>1. Append(signals, "None") \in Seq(Signals)
  BY QueueType DEF Signals
<1> QED
  BY <1>1 DEF SetStopping, TypeOK

\* What a service may send
LEMMA ChoiceType ==
    ASSUME CallAssumption, TypeOK, NEW kind, Choice(kind)
    PROVE  kind \in AllKinds /\ updates' \in 0 .. MaxUpdates
BY DEF CallAssumption, TypeOK, Choice

USE DEF instVars, wrapperVars, boundVars, Tell, Poll

\* Every step of the activity keeps the types.
LEMMA ActivityType ==
    ASSUME CallAssumption, TypeOK, Activity \/ VoteFails
    PROVE  TypeOK'
<1> USE DEF Go, Left
<1>1. CASE Begin
  <2>1. signals' \in Seq(Signals)
    BY <1>1, QueueType DEF Begin, TypeOK, Signals
  <2> QED
    BY <1>1, <2>1 DEF Begin, TypeOK
<1>2. CASE Prepare
  <2>1. stopSeen' \in BOOLEAN
    <3>1. StoppingOrFinishing \in BOOLEAN
      BY DEF StoppingOrFinishing
    <3> QED
      BY <1>2, <3>1 DEF Prepare, TypeOK
  <2>2. wstate' \in {"Running", "Stopping", "Finishing"} /\ signals' \in Seq(Signals)
    BY <1>2, SetStoppingType DEF Prepare, Raise, TypeOK
  <2>3. rounds' \in 0 .. MaxRounds
    BY <1>2 DEF Prepare, Again, TypeOK, CallAssumption
  <2> QED
    BY <1>2, <2>1, <2>2, <2>3 DEF Prepare, Again, Raise, TypeOK
<1>3. CASE Vote \/ VoteAfter \/ VoteFails
  <2>1. /\ pc' \in {"skipped", "handle", "broken", "ballot", "done"}
        /\ UNCHANGED <<instVars, stopSeen, waitResult, wrapperVars, code, position,
                       registry, bus, service, boundVars>>
    BY <1>3 DEF Vote, VoteAfter, VoteFails
  <2> QED
    BY <2>1 DEF TypeOK
<1>4. CASE Register
  BY <1>4 DEF Register, TypeOK
<1>5. CASE Curl
  BY <1>5 DEF Curl, TypeOK
<1>6. CASE Respond
  <2>1. PICK kind \in Kinds :
          /\ Choice(kind)
          /\ HandleCallback(kind, bus)
          /\ service' = [service EXCEPT ![passthrough] =
                            IF @ = "asked" THEN AfterMessage(kind) ELSE @]
    BY <1>6 DEF Respond
  <2>2. kind \in AllKinds /\ updates' \in 0 .. MaxUpdates
    BY <2>1, ChoiceType
  <2>3. service' \in [Ids -> {"unused", "asked", "accepted", "answered"}]
    BY <2>1 DEF TypeOK, AfterMessage
  <2>4. bus \in Seq(Messages)
    BY DEF TypeOK
  <2>5. /\ signals' \in Seq(Signals)
        /\ passthrough' \in Ids \cup {NoId}
        /\ value' \in AllKinds \cup {"empty"}
        /\ bus' \in Seq(Messages)
        /\ answer' \in AllKinds \cup {"none"}
    BY <2>1, <2>2, <2>4, HandleCallbackType
  <2> QED
    BY <1>6, <2>2, <2>3, <2>5 DEF Respond, TypeOK
<1>7. CASE Accepted
  BY <1>7 DEF Accepted, TypeOK
<1>8. CASE Break
  BY <1>8 DEF Break, TypeOK
<1>9. CASE Note
  BY <1>9 DEF Note, TypeOK
<1>10. CASE Check
  BY <1>10 DEF Check, TypeOK
<1>11. CASE Dequeue
  <2>1. Head(signals) \in Signals /\ Tail(signals) \in Seq(Signals)
    BY <1>11, HeadTailProperties DEF Dequeue, TypeOK
  <2> QED
    BY <1>11, <2>1 DEF Dequeue, TypeOK
<1>12. CASE LeaveCancelled \/ LeaveStopped
  <2>1. bus \o Cancel \in Seq(Messages)
    BY CancelType, ConcatProperties DEF TypeOK
  <2> QED
    BY <1>12, <2>1 DEF LeaveCancelled, LeaveStopped, TypeOK
<1>13. CASE IgnoreUpdate
  BY <1>13 DEF IgnoreUpdate, Resume, TypeOK
<1>14. CASE RunCode
  <2>1. wstate' \in {"Running", "Stopping", "Finishing"} /\ signals' \in Seq(Signals)
    BY <1>14, SetStoppingType DEF RunCode, Raise, TypeOK
  <2>2. rounds' \in 0 .. MaxRounds
    BY <1>14 DEF RunCode, Again, TypeOK, CallAssumption
  <2>3. position' \in Ids \cup {NoId} /\ code' \in {"none", "update", "rescue", "finalize"}
    BY <1>14 DEF RunCode, Resume, CodeType, TypeOK
  <2> QED
    BY <1>14, <2>1, <2>2, <2>3 DEF RunCode, Again, Raise, TypeOK
<1>15. CASE LeaveFailed
  BY <1>15, SetStoppingType DEF LeaveFailed, Resume, TypeOK
<1>16. CASE Complete
  BY <1>16 DEF Complete, TypeOK
<1> QED
  BY <1>1, <1>2, <1>3, <1>4, <1>5, <1>6, <1>7, <1>8, <1>9, <1>10, <1>11, <1>12,
     <1>13, <1>14, <1>15, <1>16 DEF Activity

\* So does the rest of the instance and of the world.
LEMMA WorldType ==
    ASSUME CallAssumption, TypeOK,
           CallbackThread \/ (\E id \in Ids : Send(id)) \/ Stop \/ CancelBranch
    PROVE  TypeOK'
<1>1. CASE Deliver
  <2>1. /\ Head(bus) \in Messages
        /\ Head(bus).type = "callback-response"
        /\ Tail(bus) \in Seq(Messages)
    BY <1>1, HeadTailProperties DEF Deliver, TypeOK
  <2>2. Head(bus).kind \in AllKinds
    BY <2>1 DEF Messages
  <2>3. CASE HandleCallback(Head(bus).kind, Tail(bus))
    <3>1. /\ signals' \in Seq(Signals)
          /\ passthrough' \in Ids \cup {NoId}
          /\ value' \in AllKinds \cup {"empty"}
          /\ bus' \in Seq(Messages)
          /\ answer' \in AllKinds \cup {"none"}
      BY <2>1, <2>2, <2>3, HandleCallbackType
    <3> QED
      BY <1>1, <3>1 DEF Deliver, TypeOK
  <2>4. CASE bus' = Tail(bus) /\ UNCHANGED <<signals, passthrough, value, answer>>
    BY <1>1, <2>1, <2>4 DEF Deliver, TypeOK
  <2> QED
    BY <1>1, <2>3, <2>4 DEF Deliver
<1>2. CASE Unregister
  BY <1>2, HeadTailProperties DEF Unregister, TypeOK
<1>3. ASSUME NEW id \in Ids, Send(id)
      PROVE  TypeOK'
  <2>1. PICK kind \in Kinds :
          /\ Choice(kind)
          /\ bus' = Append(bus, Response(id, kind))
          /\ service' = [service EXCEPT ![id] = AfterMessage(kind)]
    BY <1>3 DEF Send
  <2>2. kind \in AllKinds /\ updates' \in 0 .. MaxUpdates
    BY <2>1, ChoiceType
  <2>3. bus' \in Seq(Messages)
    BY <2>1, <2>2, AppendProperties DEF Response, Messages, TypeOK
  <2>4. service' \in [Ids -> {"unused", "asked", "accepted", "answered"}]
    BY <2>1 DEF TypeOK, AfterMessage
  <2> QED
    BY <1>3, <2>2, <2>3, <2>4 DEF Send, TypeOK
<1>4. CASE Stop
  <2>1. Append(signals, "None") \in Seq(Signals)
    BY QueueType DEF Signals
  <2>2. signals' \in Seq(Signals) /\ wstate' \in {"Running", "Stopping", "Finishing"}
    BY <1>4, <2>1 DEF Stop, TypeOK
  <2> QED
    BY <1>4, <2>2 DEF Stop, TypeOK
<1>5. CASE CancelBranch
  <2>1. Append(signals, "None") \in Seq(Signals)
    BY QueueType DEF Signals
  <2> QED
    BY <1>5, <2>1 DEF CancelBranch, TypeOK
<1> QED
  BY <1>1, <1>2, <1>3, <1>4, <1>5 DEF CallbackThread

\* The initial state is well typed.
LEMMA InitType ==
    ASSUME CallAssumption, Init
    PROVE  TypeOK
<1>1. <<>> \in Seq(Signals) /\ <<>> \in Seq(Messages)
  OBVIOUS
<1>2. service \in [Ids -> {"unused", "asked", "accepted", "answered"}]
  BY DEF Init
<1>3. 0 \in 0 .. MaxRounds /\ 0 \in 0 .. MaxUpdates
  BY DEF CallAssumption
<1>4. position \in Ids \cup {NoId}
  BY DEF Init, CallAssumption
<1> QED
  BY <1>1, <1>2, <1>3, <1>4 DEF Init, TypeOK

\* Every variable keeps its type: the state of the activity, its queue and its
\* wrapper, the registry of callbacks and the messages on their way.
THEOREM TypeCorrect == Spec => []TypeOK
<1> USE CallAssumption
<1>1. Init => TypeOK
  BY InitType
<1>2. TypeOK /\ [Next]_vars => TypeOK'
  <2>1. CASE Next
    BY <2>1, ActivityType, WorldType DEF Next
  <2>2. CASE UNCHANGED vars
    BY <2>2 DEF vars, TypeOK
  <2> QED
    BY <2>1, <2>2
<1> QED
  BY <1>1, <1>2, PTL DEF Spec
-----------------------------------------------------------------------------
(***************************************************************************)
(* An open call is remembered.  The invariant says where its id is: in the *)
(* position, while the request is sent in the wrapper, and in both from    *)
(* then on until the answer has been handled.  It speaks of calls whose    *)
(* answer is still to be handled (Due), because the callback thread clears *)
(* the wrapper for any answer that it finds registered, and it needs that  *)
(* every call is answered once, or a second answer could clear the wrapper *)
(* for a later call.                                                       *)
(***************************************************************************)
Final(m, id) ==
    m.type = "callback-response" /\ m.event = id /\ ~IsUpdate(m.kind)

FinalIn(b, id) == \E i \in DOMAIN b : Final(b[i], id)

OnceIn(b, id) ==
    \A i \in DOMAIN b : \A j \in DOMAIN b :
        Final(b[i], id) /\ Final(b[j], id) => i = j

AnsweredOnce ==
    \A id \in Ids :
        /\ FinalIn(bus, id) => service[id] = "answered"
        /\ OnceIn(bus, id)

Open(id) == service[id] \in {"asked", "accepted"}

Due(id) == Open(id) \/ FinalIn(bus, id)

InPosition == {"start", "prepare", "vote", "ballot", "handle", "check", "wait", "react",
               "complete", "after"} \cup (Left \ {"cancelled", "lost"})

InWrapper == {"request", "note", "check", "wait", "react", "complete"}

DueIsKnown ==
    \A id \in Ids :
        Due(id) => /\ pc \in InPosition => position = id
                   /\ pc \in InWrapper => passthrough = id

RequestHasId == pc = "request" => passthrough \in Ids

IInv == TypeOK /\ AnsweredOnce /\ DueIsKnown /\ RequestHasId

\* Taking the first message off the bus
LEMMA TailFinal ==
    ASSUME NEW b \in Seq(Messages), b # <<>>, NEW id \in Ids
    PROVE  /\ FinalIn(Tail(b), id) => FinalIn(b, id)
           /\ OnceIn(b, id) => OnceIn(Tail(b), id)
           /\ Final(Head(b), id) => FinalIn(b, id)
           /\ OnceIn(b, id) /\ Final(Head(b), id) => ~FinalIn(Tail(b), id)
<1>1. /\ Tail(b) \in Seq(Messages)
      /\ Len(b) \in Nat \ {0}
      /\ Len(Tail(b)) = Len(b) - 1
      /\ \A i \in 1 .. Len(Tail(b)) : Tail(b)[i] = b[i + 1]
      /\ Head(b) = b[1]
  BY HeadTailProperties, EmptySeq, LenProperties
<1>2. DOMAIN b = 1 .. Len(b) /\ DOMAIN Tail(b) = 1 .. Len(Tail(b))
  BY <1>1, LenProperties
<1>3. \A i \in DOMAIN Tail(b) : i + 1 \in DOMAIN b /\ Tail(b)[i] = b[i + 1] /\ i + 1 # 1
  BY <1>1, <1>2
<1>4. 1 \in DOMAIN b
  BY <1>1, <1>2
<1>5. FinalIn(Tail(b), id) => FinalIn(b, id)
  BY <1>3 DEF FinalIn
<1>6. OnceIn(b, id) => OnceIn(Tail(b), id)
  <2> SUFFICES ASSUME OnceIn(b, id), NEW i \in DOMAIN Tail(b), NEW j \in DOMAIN Tail(b),
                      Final(Tail(b)[i], id), Final(Tail(b)[j], id)
               PROVE  i = j
    BY DEF OnceIn
  <2>1. i + 1 = j + 1
    BY <1>3 DEF OnceIn
  <2> QED
    BY <2>1, <1>1, <1>2
<1>7. Final(Head(b), id) => FinalIn(b, id)
  BY <1>1, <1>4 DEF FinalIn
<1>8. OnceIn(b, id) /\ Final(Head(b), id) => ~FinalIn(Tail(b), id)
  BY <1>1, <1>3, <1>4 DEF FinalIn, OnceIn
<1> QED
  BY <1>5, <1>6, <1>7, <1>8

\* Adding a message
LEMMA AppendFinal ==
    ASSUME NEW b \in Seq(Messages), NEW m \in Messages, NEW id \in Ids
    PROVE  /\ FinalIn(Append(b, m), id) <=> FinalIn(b, id) \/ Final(m, id)
           /\ OnceIn(b, id) /\ ~(Final(m, id) /\ FinalIn(b, id))
                 => OnceIn(Append(b, m), id)
<1>1. /\ Append(b, m) \in Seq(Messages)
      /\ Len(b) \in Nat
      /\ Len(Append(b, m)) = Len(b) + 1
      /\ \A i \in 1 .. Len(b) : Append(b, m)[i] = b[i]
      /\ Append(b, m)[Len(b) + 1] = m
  BY AppendProperties, LenProperties
<1>2. DOMAIN b = 1 .. Len(b) /\ DOMAIN Append(b, m) = 1 .. (Len(b) + 1)
  BY <1>1, LenProperties
<1>3. \A i \in DOMAIN Append(b, m) :
          \/ i \in DOMAIN b /\ Append(b, m)[i] = b[i]
          \/ i = Len(b) + 1 /\ Append(b, m)[i] = m
  BY <1>1, <1>2
<1>4. /\ DOMAIN b \subseteq DOMAIN Append(b, m)
      /\ \A i \in DOMAIN b : Append(b, m)[i] = b[i]
      /\ Len(b) + 1 \in DOMAIN Append(b, m)
  BY <1>1, <1>2
<1>5. FinalIn(Append(b, m), id) <=> FinalIn(b, id) \/ Final(m, id)
  BY <1>1, <1>3, <1>4 DEF FinalIn
<1>6. OnceIn(b, id) /\ ~(Final(m, id) /\ FinalIn(b, id)) => OnceIn(Append(b, m), id)
  BY <1>3 DEF FinalIn, OnceIn
<1> QED
  BY <1>5, <1>6

\* Adding what cancel_callback sends changes nothing about answers.
LEMMA CancelFinal ==
    ASSUME TypeOK, NEW b \in Seq(Messages), NEW id \in Ids
    PROVE  /\ FinalIn(b \o Cancel, id) <=> FinalIn(b, id)
           /\ OnceIn(b, id) => OnceIn(b \o Cancel, id)
<1>1. CASE passthrough = NoId
  <2>1. b \o Cancel = b
    BY <1>1, ConcatEmptySeq DEF Cancel
  <2> QED
    BY <2>1
<1>2. CASE passthrough # NoId
  <2>1. End(passthrough) \in Messages
    BY <1>2 DEF TypeOK, End, Messages
  <2>2. b \o Cancel = Append(b, End(passthrough))
    BY <1>2, <2>1, AppendIsConcat DEF Cancel
  <2>3. ~Final(End(passthrough), id)
    BY DEF Final, End
  <2> QED
    BY <2>1, <2>2, <2>3, AppendFinal
<1> QED
  BY <1>1, <1>2

\* A step that adds no answer to the bus and handles none: only where the ids
\* are has to be looked at.
LEMMA Quiet ==
    ASSUME IInv, UNCHANGED service,
           bus' = bus \/ bus' = bus \o Cancel
    PROVE  AnsweredOnce' /\ \A id \in Ids : Due(id)' <=> Due(id)
<1>1. \A id \in Ids : (FinalIn(bus', id) <=> FinalIn(bus, id))
                      /\ (OnceIn(bus, id) => OnceIn(bus', id))
  <2>1. CASE bus' = bus
    BY <2>1
  <2>2. CASE bus' = bus \o Cancel
    BY <2>2, CancelFinal DEF IInv, TypeOK
  <2> QED
    BY <2>1, <2>2
<1>2. AnsweredOnce'
  BY <1>1 DEF IInv, AnsweredOnce
<1>3. \A id \in Ids : Due(id)' <=> Due(id)
  BY <1>1 DEF Due, Open
<1> QED
  BY <1>2, <1>3

\* At most one call is due while the activity handles it.
LEMMA OneDue ==
    ASSUME IInv, NEW id \in Ids, Due(id), NEW other \in Ids, Due(other),
           pc \in InPosition \cup InWrapper
    PROVE  id = other
BY DEF IInv, DueIsKnown

\* Every step of the activity keeps the ids where they can be found.
LEMMA ActivityRemembers ==
    ASSUME CallAssumption, IInv, Activity \/ VoteFails
    PROVE  AnsweredOnce' /\ DueIsKnown' /\ RequestHasId'
<1> USE DEF Go, InPosition, InWrapper, Left
<1>1. CASE Begin \/ Prepare \/ Vote \/ VoteAfter \/ VoteFails \/ Check \/ Dequeue
  <2>1. /\ UNCHANGED <<bus, service, position, passthrough>>
        /\ pc' \in InPosition /\ pc \in InPosition
        /\ pc' # "request"
        /\ pc' \in InWrapper => pc \in InWrapper
    BY <1>1 DEF Begin, Prepare, Again, Raise, Vote, VoteAfter, VoteFails, Check, Dequeue
  <2> QED
    BY <2>1, Quiet DEF IInv, DueIsKnown, RequestHasId
<1>2. CASE Register
  <2>1. /\ UNCHANGED <<bus, service, position>>
        /\ pc = "handle" /\ pc' = "note" /\ passthrough' = position
    BY <1>2 DEF Register
  <2> QED
    BY <2>1, Quiet DEF IInv, DueIsKnown, RequestHasId
<1>3. CASE Curl
  <2>1. PICK id \in Ids :
          /\ service[id] = "unused"
          /\ service' = [service EXCEPT ![id] = "asked"]
          /\ passthrough' = id
    BY <1>3 DEF Curl
  <2>2. pc = "handle" /\ pc' = "request" /\ position = NoId /\ UNCHANGED bus
    BY <1>3 DEF Curl
  <2>3. \A other \in Ids : ~Due(other)
    BY <2>2 DEF IInv, DueIsKnown, CallAssumption
  <2>4. \A other \in Ids : ~FinalIn(bus', other) /\ OnceIn(bus', other)
    BY <2>2, <2>3 DEF IInv, AnsweredOnce, Due
  <2>5. \A other \in Ids : Open(other)' => other = id
    BY <2>1, <2>3 DEF Due, Open, IInv, TypeOK
  <2> QED
    BY <2>1, <2>2, <2>4, <2>5 DEF AnsweredOnce, DueIsKnown, RequestHasId, Due
<1>4. CASE Break \/ LeaveCancelled
  <2>1. /\ UNCHANGED <<service, passthrough>>
        /\ bus' = bus \/ bus' = bus \o Cancel
        /\ \/ pc' \in {"lost", "cancelled"}
           \/ pc \in {"handle", "react"} /\ pc' = "broken" /\ UNCHANGED position
    BY <1>4 DEF Break, LeaveCancelled
  <2> QED
    BY <2>1, Quiet DEF IInv, DueIsKnown, RequestHasId
<1>5. CASE Note
  <2>1. /\ UNCHANGED <<bus, service, passthrough>>
        /\ pc = "note" /\ pc' \in {"check", "broken"} /\ position' = passthrough
    BY <1>5 DEF Note
  <2> QED
    BY <2>1, Quiet DEF IInv, DueIsKnown, RequestHasId
<1>6. CASE LeaveStopped
  <2>1. /\ UNCHANGED <<service, passthrough>>
        /\ bus' = bus \/ bus' = bus \o Cancel
        /\ pc = "react" /\ pc' \in {"stopped", "broken"}
        /\ position' = passthrough \/ position' = position
    BY <1>6 DEF LeaveStopped
  <2> QED
    BY <2>1, Quiet DEF IInv, DueIsKnown, RequestHasId
<1>7. CASE IgnoreUpdate \/ RunCode \/ LeaveFailed
  <2>1. /\ UNCHANGED <<bus, service, passthrough>>
        /\ pc = "react" /\ pc' \in InPosition /\ pc' # "request"
        /\ Resume
    BY <1>7 DEF IgnoreUpdate, RunCode, LeaveFailed, Again, Raise
  <2>2. position' = position \/ (passthrough = NoId /\ position' = NoId)
    BY <2>1 DEF Resume
  <2>3. \A id \in Ids : Due(id) => position = id /\ passthrough = id
    BY <2>1 DEF IInv, DueIsKnown
  <2> QED
    BY <2>1, <2>2, <2>3, Quiet DEF DueIsKnown, RequestHasId, CallAssumption
<1>8. CASE Complete
  <2>1. /\ UNCHANGED <<bus, service, passthrough>>
        /\ pc = "complete" /\ pc' \in {"after", "broken"}
        /\ position' = position \/ (passthrough = NoId /\ position' = NoId)
    BY <1>8 DEF Complete
  <2>2. \A id \in Ids : Due(id) => position = id /\ passthrough = id
    BY <2>1 DEF IInv, DueIsKnown
  <2> QED
    BY <2>1, <2>2, Quiet DEF DueIsKnown, RequestHasId, CallAssumption
<1>9. CASE Accepted
  <2>1. /\ pc = "request" /\ pc' = "note" /\ UNCHANGED <<bus, passthrough>>
        /\ service' = [service EXCEPT ![passthrough] = IF @ = "asked" THEN "accepted" ELSE @]
    BY <1>9 DEF Accepted
  <2>2. \A id \in Ids : /\ Open(id)' => Open(id)
                        /\ service[id] = "answered" => service'[id] = "answered"
    BY <2>1 DEF Open, IInv, TypeOK
  <2> QED
    BY <2>1, <2>2 DEF IInv, AnsweredOnce, DueIsKnown, RequestHasId, Due
<1>10. CASE Respond
  <2>1. PICK kind \in Kinds :
          /\ service[passthrough] = "asked" \/ IsUpdate(kind)
          /\ HandleCallback(kind, bus)
          /\ service' = [service EXCEPT ![passthrough] =
                            IF @ = "asked" THEN AfterMessage(kind) ELSE @]
    BY <1>10 DEF Respond
  <2>2. pc = "request" /\ pc' = "note" /\ passthrough \in Ids
    BY <1>10 DEF Respond, IInv, RequestHasId
  <2>3. \A id \in Ids : (FinalIn(bus', id) <=> FinalIn(bus, id))
                        /\ (OnceIn(bus, id) => OnceIn(bus', id))
    <3>1. bus' = bus \/ bus' = bus \o Cancel
      BY <2>1 DEF HandleCallback
    <3>2. bus \in Seq(Messages)
      BY DEF IInv, TypeOK
    <3>3. CASE bus' = bus
      BY <3>3
    <3>4. CASE bus' = bus \o Cancel
      BY <3>2, <3>4, CancelFinal DEF IInv
    <3> QED
      BY <3>1, <3>3, <3>4
  <2>4. \A id \in Ids : /\ Open(id)' => Open(id)
                        /\ service[id] = "answered" => service'[id] = "answered"
    BY <2>1 DEF Open, AfterMessage, IInv, TypeOK
  <2>5. AnsweredOnce'
    BY <2>3, <2>4 DEF IInv, AnsweredOnce
  <2>6. \A id \in Ids : Due(id)' => passthrough' = id
    <3> SUFFICES ASSUME NEW id \in Ids, Due(id)'
                 PROVE  passthrough' = id
      OBVIOUS
    <3>1. Due(id)
      BY <2>3, <2>4 DEF Due
    <3>2. passthrough = id
      BY <2>2, <3>1 DEF IInv, DueIsKnown
    <3>3. CASE IsUpdate(kind)
      BY <2>1, <3>2, <3>3 DEF HandleCallback
    <3>4. CASE ~IsUpdate(kind)
      <4>1. service'[id] = "answered"
        BY <2>1, <3>2, <3>4 DEF AfterMessage, IInv, TypeOK
      <4>2. ~FinalIn(bus, id)
        BY <2>1, <3>2, <3>4 DEF IInv, AnsweredOnce
      <4> QED
        BY <2>3, <4>1, <4>2 DEF Due, Open
    <3> QED
      BY <3>3, <3>4
  <2> QED
    BY <2>2, <2>5, <2>6 DEF DueIsKnown, RequestHasId
<1> QED
  BY <1>1, <1>2, <1>3, <1>4, <1>5, <1>6, <1>7, <1>8, <1>9, <1>10 DEF Activity

\* So do the callback thread and the services.
LEMMA WorldRemembers ==
    ASSUME CallAssumption, IInv,
           CallbackThread \/ (\E id \in Ids : Send(id)) \/ Stop \/ CancelBranch
    PROVE  AnsweredOnce' /\ DueIsKnown' /\ RequestHasId'
<1>1. CASE Stop \/ CancelBranch
  <2>1. UNCHANGED <<bus, service, position, passthrough, pc>>
    BY <1>1 DEF Stop, CancelBranch
  <2> QED
    BY <2>1, Quiet DEF IInv, DueIsKnown, RequestHasId
<1>2. ASSUME bus # <<>>, UNCHANGED <<service, position, pc, passthrough>>,
             bus' = Tail(bus)
      PROVE  AnsweredOnce' /\ DueIsKnown' /\ RequestHasId'
  <2>1. \A id \in Ids : (FinalIn(bus', id) => FinalIn(bus, id))
                        /\ (OnceIn(bus, id) => OnceIn(bus', id))
    BY <1>2, TailFinal DEF IInv, TypeOK
  <2>2. \A id \in Ids : Due(id)' => Due(id)
    BY <1>2, <2>1 DEF Due, Open
  <2> QED
    BY <1>2, <2>1, <2>2 DEF IInv, AnsweredOnce, DueIsKnown, RequestHasId
<1>3. CASE Unregister
  BY <1>2, <1>3 DEF Unregister
<1>4. CASE Deliver
  <2>1. /\ bus # <<>> /\ Head(bus).type = "callback-response"
        /\ UNCHANGED <<service, position, pc>>
    BY <1>4 DEF Deliver
  <2>2. CASE Head(bus).event \notin registry
    BY <1>2, <1>4, <2>1, <2>2 DEF Deliver
  <2>3. CASE Head(bus).event \in registry
    <3> DEFINE kind == Head(bus).kind
    <3>1. ~Locked /\ HandleCallback(kind, Tail(bus))
      BY <1>4, <2>3 DEF Deliver
    <3>2. CASE IsUpdate(kind)
      BY <1>2, <2>1, <3>1, <3>2 DEF HandleCallback
    <3>3. CASE ~IsUpdate(kind)
      <4>1. bus' = Tail(bus) \o Cancel
        BY <3>1, <3>3 DEF HandleCallback
      <4>2. Tail(bus) \in Seq(Messages) /\ Head(bus) \in Messages
        BY <2>1, HeadTailProperties DEF IInv, TypeOK
      <4>3. PICK answered \in Ids : Final(Head(bus), answered)
        BY <2>1, <3>3, <4>2 DEF Messages, Final
      <4>4. \A id \in Ids : (FinalIn(bus', id) <=> FinalIn(Tail(bus), id))
                            /\ (OnceIn(Tail(bus), id) => OnceIn(bus', id))
        BY <4>1, <4>2, CancelFinal DEF IInv
      <4>5. \A id \in Ids : (FinalIn(bus', id) => FinalIn(bus, id))
                            /\ (OnceIn(bus, id) => OnceIn(bus', id))
        BY <2>1, <4>4, TailFinal DEF IInv, TypeOK
      <4>6. AnsweredOnce'
        BY <2>1, <4>5 DEF IInv, AnsweredOnce
      <4>7. ~Due(answered)' /\ Due(answered)
        <5>1. FinalIn(bus, answered) /\ ~FinalIn(Tail(bus), answered)
          BY <2>1, <4>3, TailFinal DEF IInv, TypeOK, AnsweredOnce
        <5>2. service'[answered] = "answered"
          BY <2>1, <4>3, <5>1 DEF IInv, AnsweredOnce
        <5> QED
          BY <4>3, <4>4, <5>1, <5>2 DEF Due, Open
      <4>8. \A id \in Ids : Due(id)' => Due(id) /\ id # answered
        BY <2>1, <4>5, <4>7 DEF Due, Open
      <4>9. \A id \in Ids : Due(id)' => pc \notin InPosition \cup InWrapper
        BY <4>3, <4>7, <4>8, OneDue
      <4>10. RequestHasId'
        BY <2>1, <3>1 DEF Locked, RequestHasId
      <4> QED
        BY <2>1, <4>6, <4>9, <4>10 DEF DueIsKnown
    <3> QED
      BY <3>2, <3>3
  <2> QED
    BY <2>2, <2>3
<1>5. ASSUME NEW id \in Ids, Send(id)
      PROVE  AnsweredOnce' /\ DueIsKnown' /\ RequestHasId'
  <2>1. PICK kind \in Kinds :
          /\ bus' = Append(bus, Response(id, kind))
          /\ service' = [service EXCEPT ![id] = AfterMessage(kind)]
    BY <1>5 DEF Send
  <2>2. Open(id) /\ UNCHANGED <<position, pc, passthrough>>
    BY <1>5 DEF Send, Open
  <2>3. Response(id, kind) \in Messages /\ bus \in Seq(Messages)
    BY DEF Response, Messages, CallAssumption, IInv, TypeOK
  <2>4. \A other \in Ids :
          Final(Response(id, kind), other) <=> other = id /\ ~IsUpdate(kind)
    BY DEF Final, Response
  <2>5. \A other \in Ids :
          FinalIn(bus', other) <=> FinalIn(bus, other) \/ (other = id /\ ~IsUpdate(kind))
    BY <2>1, <2>3, <2>4, AppendFinal
  <2>6. ~FinalIn(bus, id)
    BY <2>2 DEF IInv, AnsweredOnce, Open
  <2>7. \A other \in Ids : OnceIn(bus', other)
    BY <2>1, <2>3, <2>4, <2>6, AppendFinal DEF IInv, AnsweredOnce
  <2>8. \A other \in Ids : FinalIn(bus', other) => service'[other] = "answered"
    BY <2>1, <2>5, <2>6 DEF IInv, AnsweredOnce, AfterMessage, TypeOK
  <2>9. \A other \in Ids : Due(other)' => Due(other)
    BY <2>1, <2>2, <2>5 DEF Due, Open, IInv, TypeOK
  <2> QED
    BY <2>2, <2>7, <2>8, <2>9 DEF IInv, AnsweredOnce, DueIsKnown, RequestHasId
<1> QED
  BY <1>1, <1>3, <1>4, <1>5 DEF CallbackThread

\* The invariant holds in every reachable state.
THEOREM Inductive == Spec => []IInv
<1> USE CallAssumption
<1>1. Init => IInv
  <2> SUFFICES ASSUME Init PROVE IInv
    OBVIOUS
  <2>1. TypeOK
    BY InitType
  <2>2. \A id \in Ids : ~FinalIn(bus, id) /\ OnceIn(bus, id)
    <3>1. bus = <<>> /\ DOMAIN <<>> = {}
      BY DEF Init
    <3> QED
      BY <3>1 DEF FinalIn, OnceIn
  <2>3. \A id \in Ids : Open(id) => position = id
    BY DEF Init, Open
  <2> QED
    BY <2>1, <2>2, <2>3
    DEF Init, IInv, AnsweredOnce, DueIsKnown, RequestHasId, Due, InWrapper
<1>2. IInv /\ [Next]_vars => IInv'
  <2> SUFFICES ASSUME IInv, [Next]_vars PROVE IInv'
    OBVIOUS
  <2>1. CASE Next
    BY <2>1, ActivityType, WorldType, ActivityRemembers, WorldRemembers
    DEF Next, IInv
  <2>2. CASE UNCHANGED vars
    <3>1. TypeOK'
      BY <2>2 DEF vars, IInv, TypeOK
    <3>2. UNCHANGED <<bus, service, position, passthrough, pc>>
      BY <2>2 DEF vars
    <3> QED
      BY <3>1, <3>2, Quiet DEF IInv, DueIsKnown, RequestHasId
  <2> QED
    BY <2>1, <2>2
<1> QED
  BY <1>1, <1>2, PTL DEF Spec

\* However the activity is left, by a stop, an error or its end, a call
\* that its service has accepted and not yet answered has its id in the position
\* that is kept for the restart.
THEOREM OpenCallsAreKept == Spec => []OpenCallIsRemembered
<1>1. IInv => OpenCallIsRemembered
  BY DEF IInv, DueIsKnown, Due, Open, OpenCallIsRemembered, InPosition
<1> QED
  BY <1>1, Inductive, PTL

-----------------------------------------------------------------------------
(***************************************************************************)
(* The code that an activity runs in the end fits the answer of the        *)
(* service.  This is about the first round of the activity, before code    *)
(* has said again.  The invariant follows the one call of that round and   *)
(* explains every signal in the queue: by an answer, by a stop or by a     *)
(* cancellation.                                                           *)
(***************************************************************************)
USE DEF instVars, wrapperVars, boundVars, Tell, Poll

\* Is there a response to the call id on the bus?
ResponseIn(b, id) ==
    \E i \in DOMAIN b : b[i].type = "callback-response" /\ b[i].event = id

\* No response follows a final one.
FinalIsLast(b) ==
    \A i \in DOMAIN b : \A j \in DOMAIN b :
        /\ b[i].type = "callback-response" /\ ~IsUpdate(b[i].kind)
        /\ b[j].type = "callback-response"
        => j <= i

Used(id) == service[id] # "unused"

BeforeCall == {"start", "prepare", "vote", "handle"}
AfterCall  == {"note", "check", "wait", "react", "complete"}

\* There is one call, nobody listens before it is made, and its messages come
\* in the order in which they were sent.
OneCall ==
    /\ \A id \in Ids : \A other \in Ids : Used(id) /\ Used(other) => id = other
    /\ pc \in BeforeCall => /\ registry = {}
                            /\ position = NoId => \A id \in Ids : ~Used(id)
    /\ \A id \in Ids : ResponseIn(bus, id) => service[id] \in {"accepted", "answered"}
    /\ FinalIsLast(bus)

\* The answer is the last thing the activity hears of its call, and the
\* wrapper is empty only when it is there.
AnswerStays ==
    /\ pc \in BeforeCall \cup {"request"} => answer = "none"
    /\ pc \in AfterCall /\ passthrough = NoId => answer # "none"
    /\ answer # "none" => /\ value = ValueOf(answer)
                          /\ \A id \in Ids : ~ResponseIn(bus, id) /\ ~Open(id)

Ending == wstate # "Running" \/ unneeded

Explained(s) ==
    /\ s = "Salvage" => answer = "failed"
    /\ s = "Stop" => answer = "stop"
    /\ s = "None" => Ending \/ answer \in {"ok", "event"}

Queued(s) == \E i \in DOMAIN signals : signals[i] = s

SignalsExplained ==
    /\ \A s \in Signals : Queued(s) \/ (pc = "react" /\ waitResult = s) => Explained(s)
    /\ pc = "react" /\ waitResult = "nothing" => Ending

CodeExplained ==
    pc = "complete" => /\ answer # "none"
                       /\ code = "rescue" => answer = "failed"
                       /\ answer = "failed" /\ wstate = "Running" => code = "rescue"

Round == OneCall /\ AnswerStays /\ SignalsExplained /\ CodeExplained

\* After its loop the activity does nothing more about the call, and from a
\* vote with clients it does not come back to it.
Over == Left \cup {"ballot", "after"}

FirstRound == rounds = 0 /\ pc \notin Over => Round

-----------------------------------------------------------------------------
\* What is in a sequence with one more element
LEMMA OneMoreElement ==
    ASSUME NEW S, NEW q \in Seq(S), NEW e \in S
    PROVE  /\ \A i \in DOMAIN q : i \in DOMAIN Append(q, e) /\ Append(q, e)[i] = q[i]
           /\ \A i \in DOMAIN Append(q, e) :
                 \/ i \in DOMAIN q /\ Append(q, e)[i] = q[i]
                 \/ Append(q, e)[i] = e /\ \A j \in DOMAIN Append(q, e) : j <= i
           /\ \E i \in DOMAIN Append(q, e) : Append(q, e)[i] = e
<1>1. /\ Len(q) \in Nat
      /\ Len(Append(q, e)) = Len(q) + 1
      /\ \A i \in 1 .. Len(q) : Append(q, e)[i] = q[i]
      /\ Append(q, e)[Len(q) + 1] = e
  BY AppendProperties, LenProperties
<1>2. DOMAIN q = 1 .. Len(q) /\ DOMAIN Append(q, e) = 1 .. (Len(q) + 1)
  BY <1>1, AppendProperties, LenProperties
<1> QED
  BY <1>1, <1>2

\* What is in a sequence without its first element
LEMMA OneLessElement ==
    ASSUME NEW S, NEW q \in Seq(S), q # <<>>
    PROVE  /\ 1 \in DOMAIN q /\ Head(q) = q[1]
           /\ \A i \in DOMAIN Tail(q) : /\ i \in Nat \ {0}
                                       /\ i + 1 \in DOMAIN q
                                       /\ Tail(q)[i] = q[i + 1]
<1>1. /\ Tail(q) \in Seq(S)
      /\ Len(q) \in Nat \ {0}
      /\ Len(Tail(q)) = Len(q) - 1
      /\ \A i \in 1 .. Len(Tail(q)) : Tail(q)[i] = q[i + 1]
      /\ Head(q) = q[1]
  BY HeadTailProperties, EmptySeq, LenProperties
<1>2. DOMAIN q = 1 .. Len(q) /\ DOMAIN Tail(q) = 1 .. Len(Tail(q))
  BY <1>1, LenProperties
<1> QED
  BY <1>1, <1>2

\* Taking the first message off the bus
LEMMA TailResponse ==
    ASSUME NEW b \in Seq(Messages), b # <<>>
    PROVE  /\ \A id \in Ids : ResponseIn(Tail(b), id) => ResponseIn(b, id)
           /\ FinalIsLast(b) => FinalIsLast(Tail(b))
           /\ Head(b).type = "callback-response" => ResponseIn(b, Head(b).event)
           /\ Head(b).type = "callback-response" /\ ~IsUpdate(Head(b).kind) /\ FinalIsLast(b)
                 => \A id \in Ids : ~ResponseIn(Tail(b), id)
<1>1. /\ 1 \in DOMAIN b /\ Head(b) = b[1]
      /\ \A i \in DOMAIN Tail(b) : /\ i \in Nat \ {0}
                                  /\ i + 1 \in DOMAIN b
                                  /\ Tail(b)[i] = b[i + 1]
  BY OneLessElement
<1>2. \A id \in Ids : ResponseIn(Tail(b), id) => ResponseIn(b, id)
  BY <1>1 DEF ResponseIn
<1>3. FinalIsLast(b) => FinalIsLast(Tail(b))
  <2> SUFFICES ASSUME FinalIsLast(b), NEW i \in DOMAIN Tail(b), NEW j \in DOMAIN Tail(b),
                      Tail(b)[i].type = "callback-response", ~IsUpdate(Tail(b)[i].kind),
                      Tail(b)[j].type = "callback-response"
               PROVE  j <= i
    BY DEF FinalIsLast
  <2>1. j + 1 <= i + 1
    BY <1>1 DEF FinalIsLast
  <2> QED
    BY <1>1, <2>1
<1>4. Head(b).type = "callback-response" => ResponseIn(b, Head(b).event)
  BY <1>1 DEF ResponseIn
<1>5. ASSUME Head(b).type = "callback-response", ~IsUpdate(Head(b).kind), FinalIsLast(b),
             NEW i \in DOMAIN Tail(b)
      PROVE  Tail(b)[i].type # "callback-response"
  <2>1. i + 1 > 1 /\ i + 1 \in DOMAIN b
    BY <1>1
  <2>2. b[i + 1].type = "callback-response" => i + 1 <= 1
    BY <1>1, <1>5, <2>1 DEF FinalIsLast
  <2> QED
    BY <1>1, <2>1, <2>2
<1> QED
  BY <1>2, <1>3, <1>4, <1>5 DEF ResponseIn

\* Adding a message
LEMMA AppendResponse ==
    ASSUME NEW b \in Seq(Messages), NEW m \in Messages
    PROVE  /\ \A id \in Ids : ResponseIn(Append(b, m), id)
                 <=> ResponseIn(b, id) \/ (m.type = "callback-response" /\ m.event = id)
           /\ FinalIsLast(b) /\ (m.type # "callback-response" \/ \A id \in Ids : ~FinalIn(b, id))
                 => FinalIsLast(Append(b, m))
<1> DEFINE c == Append(b, m)
<1>1. /\ \A i \in DOMAIN b : i \in DOMAIN c /\ c[i] = b[i]
      /\ \A i \in DOMAIN c : \/ i \in DOMAIN b /\ c[i] = b[i]
                             \/ c[i] = m /\ \A j \in DOMAIN c : j <= i
      /\ \E i \in DOMAIN c : c[i] = m
  BY OneMoreElement
<1> HIDE DEF c
<1>2. \A id \in Ids : ResponseIn(c, id)
         <=> ResponseIn(b, id) \/ (m.type = "callback-response" /\ m.event = id)
  BY <1>1 DEF ResponseIn
<1>3. ASSUME FinalIsLast(b), m.type # "callback-response" \/ \A id \in Ids : ~FinalIn(b, id)
      PROVE  FinalIsLast(c)
  <2> SUFFICES ASSUME NEW i \in DOMAIN c, NEW j \in DOMAIN c,
                      c[i].type = "callback-response", ~IsUpdate(c[i].kind),
                      c[j].type = "callback-response"
               PROVE  j <= i
    BY DEF FinalIsLast
  <2>1. CASE c[i] = m /\ \A k \in DOMAIN c : k <= i
    BY <2>1
  <2>2. CASE i \in DOMAIN b /\ c[i] = b[i]
    <3>1. b[i] \in Messages
      BY <2>2, ElementOfSeq, LenProperties
    <3>2. b[i].event \in Ids
      BY <3>1 DEF Messages
    <3>3. FinalIn(b, b[i].event)
      BY <2>2, <3>2 DEF FinalIn, Final
    <3>4. m.type # "callback-response"
      BY <1>3, <3>2, <3>3
    <3>5. j \in DOMAIN b /\ c[j] = b[j]
      BY <1>1, <3>4
    <3> QED
      BY <1>3, <2>2, <3>5 DEF FinalIsLast
  <2> QED
    BY <1>1, <2>1, <2>2
<1> QED
  BY <1>2, <1>3 DEF c

\* What cancel_callback sends is no response.
LEMMA CancelResponse ==
    ASSUME TypeOK, NEW b \in Seq(Messages)
    PROVE  /\ \A id \in Ids : ResponseIn(b \o Cancel, id) <=> ResponseIn(b, id)
           /\ FinalIsLast(b) => FinalIsLast(b \o Cancel)
<1>1. CASE passthrough = NoId
  <2>1. b \o Cancel = b
    BY <1>1, ConcatEmptySeq DEF Cancel
  <2> QED
    BY <2>1
<1>2. CASE passthrough # NoId
  <2>1. End(passthrough) \in Messages /\ End(passthrough).type # "callback-response"
    BY <1>2 DEF TypeOK, End, Messages
  <2>2. b \o Cancel = Append(b, End(passthrough))
    BY <1>2, <2>1, AppendIsConcat DEF Cancel
  <2> QED
    BY <2>1, <2>2, AppendResponse
<1> QED
  BY <1>1, <1>2
-----------------------------------------------------------------------------
\* What explains a signal goes on to explain it.
LEMMA ExplainedStays ==
    ASSUME NEW s, Explained(s), Ending => Ending', answer' = answer \/ answer = "none"
    PROVE  Explained(s)'
BY DEF Explained

\* A signal is put into the queue, or taken out of it.
LEMMA QueuedOne ==
    ASSUME TypeOK, NEW e \in Signals, signals' = Append(signals, e)
    PROVE  \A s \in Signals : Queued(s)' => Queued(s) \/ s = e
<1>1. \A i \in DOMAIN Append(signals, e) :
          \/ i \in DOMAIN signals /\ Append(signals, e)[i] = signals[i]
          \/ Append(signals, e)[i] = e
  BY OneMoreElement DEF TypeOK
<1> QED
  BY <1>1 DEF Queued

LEMMA DequeuedOne ==
    ASSUME TypeOK, signals # <<>>, signals' = Tail(signals)
    PROVE  /\ Queued(Head(signals))
           /\ \A s \in Signals : Queued(s)' => Queued(s)
<1>1. /\ 1 \in DOMAIN signals /\ Head(signals) = signals[1]
      /\ \A i \in DOMAIN Tail(signals) :
            i + 1 \in DOMAIN signals /\ Tail(signals)[i] = signals[i + 1]
  BY OneLessElement DEF TypeOK
<1> QED
  BY <1>1 DEF Queued

\* handle_callback while no answer is there: the signal fits the message.
LEMMA CallbackExplained ==
    ASSUME TypeOK, NEW kind \in AllKinds, NEW b, HandleCallback(kind, b), answer = "none",
           SignalsExplained, UNCHANGED <<wstate, unneeded, waitResult>>,
           pc' = "react" => pc = "react"
    PROVE  SignalsExplained'
<1>1. SignalOf(kind) \in Signals
  BY DEF SignalOf, Signals
<1>2. \A s \in Signals : Queued(s)' => Queued(s) \/ s = SignalOf(kind)
  BY <1>1, QueuedOne DEF HandleCallback
<1>3. answer' = IF IsUpdate(kind) THEN "none" ELSE kind
  BY DEF HandleCallback
<1>4. Explained(SignalOf(kind))'
  BY <1>3 DEF Explained, SignalOf, IsUpdate, AllKinds
<1>5. \A s \in Signals : Explained(s) => Explained(s)'
  BY ExplainedStays DEF Ending
<1>6. \A s \in Signals : s = SignalOf(kind) => Explained(s)'
  BY <1>3 DEF Explained, SignalOf, IsUpdate, AllKinds
<1>7. Ending' = Ending
  BY DEF Ending
<1> QED
  BY <1>2, <1>5, <1>6, <1>7 DEF SignalsExplained

\* The steps of the activity before it makes the call
LEMMA BeforeKeeps ==
    ASSUME CallAssumption, IInv, Round, rounds' = 0, rounds = 0, pc' \notin Over,
           Begin \/ Prepare \/ Vote
    PROVE  Round'
<1> USE DEF Go, Over, Left, IInv
<1>1. /\ pc \in {"start", "prepare", "vote"} /\ pc' \in BeforeCall
      /\ UNCHANGED <<wstate, unneeded, position, registry, bus, service, answer, value>>
      /\ signals' = signals \/ signals' = <<>>
  BY DEF Begin, Prepare, Again, Raise, Vote, BeforeCall
<1>2. OneCall'
  BY <1>1 DEF Round, OneCall, Used, BeforeCall
<1>3. AnswerStays'
  BY <1>1 DEF Round, AnswerStays, BeforeCall, AfterCall, Open
<1>4. SignalsExplained'
  <2>1. \A s \in Signals : Queued(s)' => Queued(s)
    BY <1>1 DEF Queued
  <2>2. \A s \in Signals : Explained(s) => Explained(s)'
    BY <1>1, ExplainedStays DEF Ending
  <2> QED
    BY <1>1, <2>1, <2>2 DEF Round, SignalsExplained, BeforeCall
<1> QED
  BY <1>1, <1>2, <1>3, <1>4 DEF Round, CodeExplained, BeforeCall

\* The steps of the activity that make the call
LEMMA CallKeeps ==
    ASSUME CallAssumption, IInv, Round, Register \/ Curl \/ Accepted
    PROVE  Round'
<1> USE DEF Go, IInv
<1>1. /\ pc \in {"handle", "request"} /\ pc' \in {"note", "request"}
      /\ UNCHANGED <<wstate, unneeded, position, bus, value, signals>>
      /\ answer = "none" /\ answer' = "none"
      /\ pc' = "note" => passthrough' # NoId
  BY DEF Register, Curl, Accepted, Round, AnswerStays, BeforeCall, RequestHasId, CallAssumption
<1>2. OneCall'
  <2>1. CASE Register
    BY <1>1, <2>1 DEF Register, Round, OneCall, Used, BeforeCall
  <2>2. CASE Curl
    <3>1. PICK id \in Ids : service' = [service EXCEPT ![id] = "asked"]
      BY <2>2 DEF Curl
    <3>2. \A other \in Ids : ~Used(other)
      BY <2>2 DEF Curl, Round, OneCall, BeforeCall
    <3>3. \A other \in Ids : Used(other)' => other = id
      BY <3>1, <3>2 DEF Used, TypeOK
    <3>4. \A other \in Ids : ~ResponseIn(bus', other)
      BY <1>1, <3>2 DEF Round, OneCall, Used
    <3> QED
      BY <1>1, <3>3, <3>4 DEF Round, OneCall, BeforeCall
  <2>3. CASE Accepted
    <3>1. service' = [service EXCEPT ![passthrough] = IF @ = "asked" THEN "accepted" ELSE @]
      BY <2>3 DEF Accepted
    <3>2. \A id \in Ids : /\ Used(id)' => Used(id)
                          /\ service[id] \in {"accepted", "answered"}
                                => service'[id] \in {"accepted", "answered"}
      BY <3>1 DEF Used, TypeOK
    <3> QED
      BY <1>1, <3>2 DEF Round, OneCall, BeforeCall
  <2> QED
    BY <2>1, <2>2, <2>3
<1>3. AnswerStays'
  BY <1>1 DEF AnswerStays, AfterCall
<1>4. SignalsExplained'
  <2>1. \A s \in Signals : Queued(s)' => Queued(s)
    BY <1>1 DEF Queued
  <2>2. \A s \in Signals : Explained(s) => Explained(s)'
    BY <1>1, ExplainedStays DEF Ending
  <2> QED
    BY <1>1, <2>1, <2>2 DEF Round, SignalsExplained
<1> QED
  BY <1>1, <1>2, <1>3, <1>4 DEF Round, CodeExplained

\* The response to the request is the answer only if nothing else has come.
LEMMA RespondKeeps ==
    ASSUME CallAssumption, IInv, Round, Respond
    PROVE  Round'
<1> USE DEF Go, IInv
<1>1. PICK kind \in Kinds :
        /\ service[passthrough] = "asked" \/ IsUpdate(kind)
        /\ HandleCallback(kind, bus)
        /\ service' = [service EXCEPT ![passthrough] =
                          IF @ = "asked" THEN AfterMessage(kind) ELSE @]
  BY DEF Respond
<1>2. /\ pc = "request" /\ pc' = "note" /\ passthrough \in Ids
      /\ UNCHANGED <<wstate, unneeded, waitResult, position, registry>>
      /\ answer = "none" /\ kind \in AllKinds
  BY DEF Respond, RequestHasId, Round, AnswerStays, CallAssumption
<1>3. bus' = bus \/ bus' = bus \o Cancel
  BY <1>1 DEF HandleCallback
<1>4. /\ \A id \in Ids : ResponseIn(bus', id) <=> ResponseIn(bus, id)
      /\ FinalIsLast(bus) => FinalIsLast(bus')
  <2>1. CASE bus' = bus
    BY <2>1
  <2>2. CASE bus' = bus \o Cancel
    BY <2>2, CancelResponse DEF TypeOK
  <2> QED
    BY <1>3, <2>1, <2>2
<1>5. \A id \in Ids : /\ Used(id)' => Used(id)
                      /\ service[id] \in {"accepted", "answered"}
                            => service'[id] \in {"accepted", "answered"}
  BY <1>1 DEF Used, AfterMessage, TypeOK
<1>6. OneCall'
  BY <1>2, <1>4, <1>5 DEF Round, OneCall, BeforeCall
<1>7. AnswerStays'
  <2>1. CASE IsUpdate(kind)
    BY <1>1, <1>2, <2>1, CallAssumption DEF HandleCallback, AnswerStays, BeforeCall, AfterCall
  <2>2. CASE ~IsUpdate(kind)
    <3>1. answer' = kind /\ value' = ValueOf(kind)
      BY <1>1, <2>2 DEF HandleCallback
    <3>2. service[passthrough] = "asked" /\ service'[passthrough] = "answered"
      BY <1>1, <1>2, <2>2 DEF AfterMessage, TypeOK
    <3>3. \A id \in Ids : Used(id) => id = passthrough
      BY <1>2, <3>2 DEF Round, OneCall, Used
    <3>4. \A id \in Ids : ~ResponseIn(bus', id)
      BY <1>4, <3>2, <3>3 DEF Round, OneCall, Used
    <3>5. \A id \in Ids : ~Open(id)'
      BY <1>5, <3>2, <3>3 DEF Open, Used
    <3>6. kind # "none"
      BY <1>2 DEF AllKinds
    <3> QED
      BY <1>2, <3>1, <3>4, <3>5, <3>6 DEF AnswerStays, BeforeCall, AfterCall
  <2> QED
    BY <2>1, <2>2
<1>8. SignalsExplained'
  BY <1>1, <1>2, CallbackExplained DEF Round
<1> QED
  BY <1>2, <1>6, <1>7, <1>8 DEF Round, CodeExplained

\* The steps of the activity after the call, up to the code
LEMMA AfterKeeps ==
    ASSUME CallAssumption, IInv, Round, pc' \notin Over,
           Note \/ Check \/ Dequeue \/ IgnoreUpdate
    PROVE  Round'
<1> USE DEF Go, IInv
<1>1. /\ pc \in AfterCall \ {"complete"} /\ pc' \in AfterCall \ {"complete"}
      /\ UNCHANGED <<wstate, unneeded, passthrough, registry, bus, service, answer, value>>
  BY DEF Note, Check, Dequeue, IgnoreUpdate, Resume, AfterCall, Over, Left
<1>2. OneCall'
  BY <1>1 DEF Round, OneCall, Used, BeforeCall, AfterCall
<1>3. AnswerStays'
  BY <1>1 DEF Round, AnswerStays, BeforeCall, AfterCall, Open
<1>4. \A s \in Signals : Explained(s) => Explained(s)'
  BY <1>1, ExplainedStays DEF Ending
<1>5. SignalsExplained'
  <2>1. CASE Dequeue
    <3>1. /\ Queued(Head(signals)) /\ waitResult' = Head(signals) /\ Head(signals) \in Signals
          /\ \A s \in Signals : Queued(s)' => Queued(s)
      BY <2>1, DequeuedOne, HeadTailProperties DEF Dequeue, TypeOK
    <3>2. waitResult' # "nothing"
      BY <3>1 DEF Signals
    <3> QED
      BY <1>4, <3>1, <3>2 DEF Round, SignalsExplained
  <2>2. CASE Check
    <3>1. /\ UNCHANGED signals
          /\ pc' = "react" => waitResult' = "nothing" /\ Ending'
      BY <2>2 DEF Check, Ending, Terminating
    <3>2. \A s \in Signals : Queued(s)' => Queued(s)
      BY <3>1 DEF Queued
    <3>3. "nothing" \notin Signals
      BY DEF Signals
    <3> QED
      BY <1>4, <3>1, <3>2, <3>3 DEF Round, SignalsExplained
  <2>3. CASE Note \/ IgnoreUpdate
    <3>1. UNCHANGED signals /\ pc' # "react"
      BY <2>3 DEF Note, IgnoreUpdate
    <3>2. \A s \in Signals : Queued(s)' => Queued(s)
      BY <3>1 DEF Queued
    <3> QED
      BY <1>4, <3>1, <3>2 DEF Round, SignalsExplained
  <2> QED
    BY <2>1, <2>2, <2>3
<1> QED
  BY <1>1, <1>2, <1>3, <1>5 DEF Round, CodeExplained

\* The code that ends the activity is chosen by what the wait has brought.
LEMMA RunCodeKeeps ==
    ASSUME CallAssumption, IInv, Round, rounds' = 0, rounds = 0, pc' \notin Over, RunCode
    PROVE  Round'
<1> USE DEF Go, IInv
<1>1. /\ pc = "react" /\ pc' = IF CodeType = "update" THEN "check" ELSE "complete"
      /\ code' = CodeType /\ Resume
      /\ UNCHANGED <<wstate, unneeded, passthrough, registry, bus, service, answer, value, signals>>
  BY DEF RunCode, Again, Raise, Over, Left
<1>2. OneCall'
  BY <1>1 DEF Round, OneCall, Used, BeforeCall
<1>3. AnswerStays'
  BY <1>1 DEF Round, AnswerStays, BeforeCall, AfterCall, Open
<1>4. SignalsExplained'
  <2>1. \A s \in Signals : Explained(s) => Explained(s)'
    BY <1>1, ExplainedStays DEF Ending
  <2>2. \A s \in Signals : Queued(s)' => Queued(s)
    BY <1>1 DEF Queued
  <2> QED
    BY <1>1, <2>1, <2>2 DEF Round, SignalsExplained
<1>5. CodeExplained'
  <2> SUFFICES ASSUME waitResult # "UpdateAgain"
               PROVE  /\ answer # "none"
                      /\ code' = "rescue" => answer = "failed"
                      /\ answer = "failed" /\ wstate = "Running" => code' = "rescue"
    BY <1>1 DEF CodeExplained, CodeType
  <2>1. waitResult \in {"None", "Salvage", "Stop"} => Explained(waitResult)
    BY <1>1 DEF Round, SignalsExplained, Signals
  <2>2. waitResult \in {"None", "Salvage", "Stop", "nothing"}
    BY DEF TypeOK, Signals
  <2>3. ~unneeded /\ (wstate # "Running" => answer # "none")
    BY <1>1 DEF Resume, Terminating, TypeOK, Round, AnswerStays, AfterCall
  <2>4. waitResult = "nothing" => wstate # "Running"
    BY <1>1, <2>3 DEF Round, SignalsExplained, Ending
  <2> QED
    BY <1>1, <2>1, <2>2, <2>3, <2>4 DEF Explained, Ending, CodeType
<1> QED
  BY <1>2, <1>3, <1>4, <1>5 DEF Round

\* What the rest of the instance does to the activity
LEMMA InterruptsKeep ==
    ASSUME CallAssumption, IInv, Round, Stop \/ CancelBranch
    PROVE  Round'
<1> USE DEF IInv
<1>1. /\ UNCHANGED <<pc, waitResult, passthrough, value, answer, code, position,
                     registry, bus, service>>
      /\ wstate' = "Running" => wstate = "Running"
      /\ Ending'
      /\ signals' = signals \/ signals' = Append(signals, "None")
  BY DEF Stop, CancelBranch, Ending, CallAssumption
<1>2. OneCall'
  BY <1>1 DEF Round, OneCall, Used
<1>3. AnswerStays'
  BY <1>1 DEF Round, AnswerStays, Open
<1>4. SignalsExplained'
  <2>1. \A s \in Signals : Explained(s) => Explained(s)'
    BY <1>1, ExplainedStays
  <2>2. \A s \in Signals : Queued(s)' => Queued(s) \/ s = "None"
    <3>1. CASE signals' = signals
      BY <3>1 DEF Queued
    <3>2. CASE signals' = Append(signals, "None")
      BY <3>2, QueuedOne DEF Signals
    <3> QED
      BY <1>1, <3>1, <3>2
  <2>3. \A s \in Signals : s = "None" => Explained(s)'
    BY <1>1 DEF Explained
  <2> QED
    BY <1>1, <2>1, <2>2, <2>3 DEF Round, SignalsExplained
<1> QED
  BY <1>1, <1>2, <1>3, <1>4 DEF Round, CodeExplained

\* A service that sends has not answered yet.
LEMMA SendKeeps ==
    ASSUME CallAssumption, IInv, Round, NEW id \in Ids, Send(id)
    PROVE  Round'
<1> USE DEF IInv
<1>1. PICK kind \in Kinds :
        /\ bus' = Append(bus, Response(id, kind))
        /\ service' = [service EXCEPT ![id] = AfterMessage(kind)]
  BY DEF Send
<1>2. /\ Open(id) /\ Used(id) /\ answer = "none"
      /\ UNCHANGED <<wstate, unneeded, pc, waitResult, passthrough, value, answer, code,
                     position, registry, signals>>
  BY DEF Send, Open, Used, Round, AnswerStays
<1>3. Response(id, kind) \in Messages /\ bus \in Seq(Messages)
  BY DEF Response, Messages, CallAssumption, TypeOK
<1>4. /\ \A other \in Ids : ResponseIn(bus', other) <=> ResponseIn(bus, other) \/ other = id
      /\ FinalIsLast(bus) /\ (\A other \in Ids : ~FinalIn(bus, other)) => FinalIsLast(bus')
  BY <1>1, <1>3, AppendResponse DEF Response
<1>5. \A other \in Ids : ~FinalIn(bus, other)
  BY <1>2 DEF AnsweredOnce, Round, OneCall, Open, Used
<1>6. \A other \in Ids : /\ Used(other)' <=> Used(other)
                         /\ other # id => service'[other] = service[other]
                         /\ service'[id] \in {"accepted", "answered"}
  BY <1>1, <1>2 DEF Used, AfterMessage, TypeOK
<1>7. OneCall'
  <2>1. pc \in BeforeCall /\ position = NoId => FALSE
    BY <1>2 DEF Round, OneCall
  <2> QED
    BY <1>2, <1>4, <1>5, <1>6, <2>1 DEF Round, OneCall
<1>8. AnswerStays'
  BY <1>2 DEF Round, AnswerStays
<1>9. SignalsExplained'
  <2>1. \A s \in Signals : Explained(s) => Explained(s)'
    BY <1>2, ExplainedStays DEF Ending
  <2>2. \A s \in Signals : Queued(s)' => Queued(s)
    BY <1>2 DEF Queued
  <2> QED
    BY <1>2, <2>1, <2>2 DEF Round, SignalsExplained, Ending
<1> QED
  BY <1>2, <1>7, <1>8, <1>9 DEF Round, CodeExplained

\* The callback thread hands over the messages in their order, and the answer
\* only once and last.
LEMMA DeliverKeeps ==
    ASSUME CallAssumption, IInv, Round, Deliver, pc \notin Over
    PROVE  Round'
<1> USE DEF IInv
<1> DEFINE m == Head(bus)
<1>1. /\ bus # <<>> /\ bus \in Seq(Messages)
      /\ m \in Messages /\ m.type = "callback-response"
      /\ Tail(bus) \in Seq(Messages)
      /\ UNCHANGED <<wstate, unneeded, pc, waitResult, code, position, registry, service>>
  BY HeadTailProperties DEF Deliver, TypeOK
<1>2. m.event \in Ids /\ m.kind \in AllKinds
  BY <1>1 DEF Messages
<1>3. answer = "none"
  BY <1>1, <1>2, TailResponse DEF Round, AnswerStays
<1>4. /\ \A id \in Ids : ResponseIn(Tail(bus), id) => ResponseIn(bus, id)
      /\ FinalIsLast(Tail(bus))
      /\ ~IsUpdate(m.kind) => \A id \in Ids : ~ResponseIn(Tail(bus), id)
  BY <1>1, TailResponse DEF Round, OneCall
<1>5. CASE m.event \notin registry
  <2>1. bus' = Tail(bus) /\ UNCHANGED <<signals, passthrough, value, answer>>
    BY <1>5 DEF Deliver
  <2>2. OneCall'
    BY <1>1, <1>4, <2>1 DEF Round, OneCall, Used
  <2>3. AnswerStays'
    BY <1>1, <1>3, <2>1 DEF Round, AnswerStays
  <2>4. SignalsExplained'
    <3>1. \A s \in Signals : Explained(s) => Explained(s)'
      BY <1>1, <2>1, ExplainedStays DEF Ending
    <3>2. \A s \in Signals : Queued(s)' => Queued(s)
      BY <2>1 DEF Queued
    <3> QED
      BY <1>1, <3>1, <3>2 DEF Round, SignalsExplained, Ending
  <2> QED
    BY <1>1, <2>1, <2>2, <2>3, <2>4 DEF Round, CodeExplained
<1>6. CASE m.event \in registry
  <2>1. pc \notin BeforeCall \cup {"request"} /\ HandleCallback(m.kind, Tail(bus))
    BY <1>6 DEF Deliver, Locked, Round, OneCall
  <2>2. bus' = Tail(bus) \/ bus' = Tail(bus) \o Cancel
    BY <2>1 DEF HandleCallback
  <2>3. /\ \A id \in Ids : ResponseIn(bus', id) <=> ResponseIn(Tail(bus), id)
        /\ FinalIsLast(bus')
    <3>1. CASE bus' = Tail(bus)
      BY <1>4, <3>1
    <3>2. CASE bus' = Tail(bus) \o Cancel
      BY <1>1, <1>4, <3>2, CancelResponse
    <3> QED
      BY <2>2, <3>1, <3>2
  <2>4. OneCall'
    BY <1>1, <1>4, <2>3 DEF Round, OneCall, Used
  <2>5. AnswerStays'
    <3>1. CASE IsUpdate(m.kind)
      <4>1. UNCHANGED <<passthrough, answer>>
        BY <2>1, <3>1 DEF HandleCallback
      <4> QED
        BY <1>1, <1>3, <4>1 DEF Round, AnswerStays
    <3>2. CASE ~IsUpdate(m.kind)
      <4>1. answer' = m.kind /\ value' = ValueOf(m.kind)
        BY <2>1, <3>2 DEF HandleCallback
      <4>2. FinalIn(bus, m.event)
        BY <1>1, <1>2, <3>2, TailFinal DEF Final
      <4>3. service[m.event] = "answered"
        BY <1>2, <4>2 DEF AnsweredOnce
      <4>4. \A id \in Ids : ~Open(id)
        <5>1. \A id, other \in Ids : Used(id) /\ Used(other) => id = other
          BY DEF Round, OneCall
        <5>2. Used(m.event)
          BY <4>3 DEF Used
        <5>3. SUFFICES ASSUME NEW id \in Ids, Open(id) PROVE FALSE
          OBVIOUS
        <5>4. Used(id)
          BY <5>3 DEF Open, Used
        <5>5. id = m.event
          BY <1>2, <5>1, <5>2, <5>4
        <5> QED
          BY <4>3, <5>3, <5>5 DEF Open
      <4>5. \A id \in Ids : ~Open(id)' /\ ~ResponseIn(bus', id)
        BY <1>1, <1>4, <2>3, <3>2, <4>4 DEF Open
      <4>6. m.kind # "none"
        BY <1>2 DEF AllKinds
      <4> QED
        BY <1>1, <2>1, <4>1, <4>5, <4>6 DEF AnswerStays
    <3> QED
      BY <3>1, <3>2
  <2>6. SignalsExplained'
    BY <1>1, <1>2, <1>3, <2>1, CallbackExplained DEF Round
  <2>7. CodeExplained'
    BY <1>1, <1>3 DEF Round, CodeExplained
  <2> QED
    BY <2>4, <2>5, <2>6, <2>7 DEF Round
<1> QED
  BY <1>5, <1>6

\* The end of a callback takes no response off the bus.
LEMMA UnregisterKeeps ==
    ASSUME CallAssumption, IInv, Round, Unregister
    PROVE  Round'
<1> USE DEF IInv
<1>1. /\ bus # <<>> /\ bus \in Seq(Messages) /\ bus' = Tail(bus)
      /\ registry' \subseteq registry
      /\ UNCHANGED <<wstate, unneeded, pc, waitResult, code, position, signals,
                     passthrough, value, answer, service>>
  BY DEF Unregister, TypeOK
<1>2. /\ \A id \in Ids : ResponseIn(bus', id) => ResponseIn(bus, id)
      /\ FinalIsLast(bus')
  BY <1>1, TailResponse DEF Round, OneCall
<1>3. OneCall'
  BY <1>1, <1>2 DEF Round, OneCall, Used
<1>4. AnswerStays'
  BY <1>1, <1>2 DEF Round, AnswerStays, Open
<1>5. SignalsExplained'
  <2>1. \A s \in Signals : Explained(s) => Explained(s)'
    BY <1>1, ExplainedStays DEF Ending
  <2>2. \A s \in Signals : Queued(s)' => Queued(s)
    BY <1>1 DEF Queued
  <2> QED
    BY <1>1, <2>1, <2>2 DEF Round, SignalsExplained, Ending
<1> QED
  BY <1>1, <1>3, <1>4, <1>5 DEF Round, CodeExplained
-----------------------------------------------------------------------------
\* The initial state is one before the call, with nothing on the bus.
LEMMA InitRound ==
    ASSUME CallAssumption, Init
    PROVE  Round
<1>1. DOMAIN bus = {} /\ DOMAIN signals = {}
  BY DEF Init
<1>2. OneCall
  BY <1>1 DEF Init, OneCall, Used, ResponseIn, FinalIsLast, CallAssumption
<1>3. AnswerStays
  BY DEF Init, AnswerStays, AfterCall
<1>4. SignalsExplained
  BY <1>1 DEF Init, SignalsExplained, Queued
<1> QED
  BY <1>2, <1>3, <1>4 DEF Init, Round, CodeExplained

\* What comes before a state in the first round
LEMMA FirstRoundBefore ==
    ASSUME IInv, [Next]_vars, rounds' = 0, pc' \notin Over
    PROVE  rounds = 0 /\ pc \notin Over
<1>1. ~VoteAfter /\ ~VoteFails
  BY DEF VoteAfter, VoteFails, Go, Over, Left
<1>2. CASE Activity
  <2>1. rounds' = rounds \/ rounds' = rounds + 1
    BY <1>1, <1>2 DEF Activity, Begin, Prepare, Again, Vote, Register, Curl, Respond, Accepted,
       Break, Note, Check, Dequeue, LeaveCancelled, LeaveStopped, IgnoreUpdate, RunCode,
       LeaveFailed, Complete
  <2>2. pc \in BeforeCall \cup AfterCall \cup {"request"}
    BY <1>1, <1>2 DEF Activity, Begin, Prepare, Again, Raise, Vote, Register, Curl, Respond,
       Accepted, Break, Note, Check, Dequeue, LeaveCancelled, LeaveStopped, IgnoreUpdate, Resume,
       RunCode, LeaveFailed, Complete, Go, BeforeCall, AfterCall
  <2> QED
    BY <2>1, <2>2 DEF IInv, TypeOK, BeforeCall, AfterCall, Over, Left
<1>3. CASE ~Activity
  BY <1>1, <1>3 DEF Next, CallbackThread, Deliver, Unregister, Send, Stop, CancelBranch, vars
<1> QED
  BY <1>2, <1>3

\* Every step keeps the invariant of the first round.
LEMMA NextFirstRound ==
    ASSUME CallAssumption, IInv, FirstRound, [Next]_vars
    PROVE  FirstRound'
<1> SUFFICES ASSUME rounds' = 0, pc' \notin Over
             PROVE  Round'
  BY DEF FirstRound, Round
<1>1. rounds = 0 /\ pc \notin Over
  BY FirstRoundBefore
<1>2. Round
  BY <1>1 DEF FirstRound, Round
<1>3. CASE Activity
  <2>1. ~(Break \/ LeaveCancelled \/ LeaveStopped \/ LeaveFailed \/ Complete \/ VoteAfter)
    BY DEF Break, LeaveCancelled, LeaveStopped, LeaveFailed, Complete, VoteAfter, Go, Over, Left
  <2> QED
    BY <1>1, <1>2, <1>3, <2>1, BeforeKeeps, CallKeeps, RespondKeeps, AfterKeeps, RunCodeKeeps
       DEF Activity
<1>4. CASE UNCHANGED vars
  BY <1>2, <1>4 DEF vars, Round, OneCall, Used, AnswerStays, Open, SignalsExplained, Queued,
     Explained, Ending, CodeExplained
<1>5. ~VoteFails
  BY DEF VoteFails, Go, Over, Left
<1> QED
  BY <1>1, <1>2, <1>3, <1>4, <1>5, DeliverKeeps, UnregisterKeeps, SendKeeps, InterruptsKeep
     DEF Next, CallbackThread

LEMMA AlwaysFirstRound == Spec => []FirstRound
<1> USE CallAssumption
<1>1. Init => FirstRound
  BY InitRound DEF FirstRound, Round
<1>2. IInv /\ FirstRound /\ [Next]_vars => FirstRound'
  BY NextFirstRound
<1> QED
  BY <1>1, <1>2, Inductive, PTL DEF Spec

\* Unless code has said again, the code that ends an activity has seen an
\* answer of the service and its value, rescues only failures, and rescues them
\* all unless the instance is being ended (weel_activity, handle_callback).
THEOREM CodeSeesAnswer == Spec => []CodeFitsAnswer
<1>1. IInv /\ FirstRound => CodeFitsAnswer
  BY DEF FirstRound, Round, CodeExplained, AnswerStays, CodeFitsAnswer, Over, Left, AfterCall,
     Terminating, IInv, TypeOK
<1> QED
  BY <1>1, Inductive, AlwaysFirstRound, PTL

-----------------------------------------------------------------------------
(***************************************************************************)
(* Nor does an activity wait for nothing.  This, too, is about the first   *)
(* round, and about a call that no earlier run has left open: such a call  *)
(* may be answered before its id is registered again, and that answer is   *)
(* thrown away.  A call that is made is registered before its service can  *)
(* answer, its answer stays on the bus until it is handled, and it leaves  *)
(* a signal that is taken for no update.                                   *)
(***************************************************************************)
Waits == pc \in {"note", "check", "wait"} \/ (pc = "react" /\ waitResult = "UpdateAgain")

Woken == \E s \in Signals \ {"UpdateAgain"} : Queued(s)

Listening == \A id \in Ids : Used(id) => id \in registry

AnswerComes ==
    \A id \in Ids : service[id] = "answered" => FinalIn(bus, id) \/ answer # "none"

Awaited ==
    /\ pc \in BeforeCall => position = NoId
    /\ pc = "request" => Used(passthrough)
    /\ pc \in AfterCall => \E id \in Ids : service[id] \in {"accepted", "answered"}
    /\ Listening /\ AnswerComes
    /\ answer # "none" /\ Waits => Woken

FreshCall == rounds = 0 /\ pc \notin Over => Awaited

\* A message that is no answer is taken off the bus.
LEMMA HeadIsNotFinal ==
    ASSUME NEW b \in Seq(Messages), b # <<>>, NEW id \in Ids, ~Final(Head(b), id), FinalIn(b, id)
    PROVE  FinalIn(Tail(b), id)
<1>1. PICK i \in DOMAIN b : Final(b[i], id)
  BY DEF FinalIn
<1>2. /\ Len(b) \in Nat \ {0} /\ Len(Tail(b)) = Len(b) - 1
      /\ \A j \in 1 .. Len(Tail(b)) : Tail(b)[j] = b[j + 1]
      /\ Head(b) = b[1]
      /\ DOMAIN b = 1 .. Len(b) /\ DOMAIN Tail(b) = 1 .. Len(Tail(b))
  BY HeadTailProperties, EmptySeq, LenProperties
<1>3. i # 1
  BY <1>1, <1>2
<1>4. i - 1 \in DOMAIN Tail(b) /\ Tail(b)[i - 1] = b[i]
  BY <1>2, <1>3
<1> QED
  BY <1>1, <1>4 DEF FinalIn

\* What is in the queue stays there when a signal is added.
LEMMA QueuedStays ==
    ASSUME TypeOK, NEW e \in Signals, signals' = Append(signals, e)
    PROVE  /\ Woken => Woken'
           /\ e # "UpdateAgain" => Woken'
<1>1. /\ \A i \in DOMAIN signals : /\ i \in DOMAIN Append(signals, e)
                                   /\ Append(signals, e)[i] = signals[i]
      /\ \E i \in DOMAIN Append(signals, e) : Append(signals, e)[i] = e
  <2>1. signals \in Seq(Signals)
    BY DEF TypeOK
  <2> QED
    BY <2>1, OneMoreElement
<1> QED
  BY <1>1 DEF Woken, Queued

\* Taking an update from the queue leaves the other signals there.
LEMMA WokenByAnother ==
    ASSUME TypeOK, signals # <<>>, signals' = Tail(signals), Head(signals) = "UpdateAgain", Woken
    PROVE  Woken'
<1>1. PICK i \in DOMAIN signals : signals[i] \in Signals \ {"UpdateAgain"}
  BY DEF Woken, Queued
<1>2. /\ Len(signals) \in Nat \ {0} /\ Len(Tail(signals)) = Len(signals) - 1
      /\ \A j \in 1 .. Len(Tail(signals)) : Tail(signals)[j] = signals[j + 1]
      /\ Head(signals) = signals[1]
      /\ DOMAIN signals = 1 .. Len(signals) /\ DOMAIN Tail(signals) = 1 .. Len(Tail(signals))
  BY HeadTailProperties, EmptySeq, LenProperties DEF TypeOK
<1>3. i # 1
  BY <1>1, <1>2
<1>4. i - 1 \in DOMAIN Tail(signals) /\ Tail(signals)[i - 1] = signals[i]
  BY <1>2, <1>3
<1> QED
  BY <1>1, <1>4 DEF Woken, Queued

\* handle_callback: an answer leaves its signal.
LEMMA CallbackWakes ==
    ASSUME TypeOK, NEW kind \in AllKinds, NEW b, HandleCallback(kind, b)
    PROVE  /\ Woken => Woken'
           /\ ~IsUpdate(kind) => Woken' /\ answer' # "none"
           /\ IsUpdate(kind) => answer' = answer
<1>1. SignalOf(kind) \in Signals /\ (~IsUpdate(kind) => SignalOf(kind) # "UpdateAgain")
  BY DEF SignalOf, Signals
<1>2. signals' = Append(signals, SignalOf(kind))
  BY DEF HandleCallback
<1>3. ~IsUpdate(kind) => answer' # "none"
  BY DEF HandleCallback, AllKinds
<1> QED
  BY <1>1, <1>2, <1>3, QueuedStays DEF HandleCallback

\* Begin, prepare and the vote: no call has been made.
LEMMA BeforeAwaits ==
    ASSUME CallAssumption, IInv, Round, Awaited, pc' \notin Over, Begin \/ Prepare \/ Vote
    PROVE  Awaited'
<1>1. /\ pc' \in BeforeCall
      /\ UNCHANGED <<position, registry, bus, service, answer>>
      /\ pc \in BeforeCall
  BY DEF Begin, Prepare, Again, Raise, Vote, BeforeCall, Go, Over, Left
<1> QED
  BY <1>1 DEF Awaited, Listening, AnswerComes, Used, Waits, BeforeCall, AfterCall

\* The call is registered before it is made.
LEMMA CallAwaits ==
    ASSUME CallAssumption, IInv, Round, Awaited, Register \/ Curl \/ Accepted
    PROVE  Awaited'
<1> USE DEF Go, IInv
<1>1. ~Register
  BY DEF Register, Awaited, BeforeCall
<1>2. answer' = "none"
  BY <1>1 DEF Curl, Accepted, Round, AnswerStays
<1>3. CASE Curl
  <2>1. PICK id \in Ids : /\ service' = [service EXCEPT ![id] = "asked"]
                          /\ registry' = registry \cup {id}
                          /\ passthrough' = id
    BY <1>3 DEF Curl
  <2>2. \A other \in Ids : ~Used(other)
    BY <1>3 DEF Curl, Round, OneCall, BeforeCall
  <2>3. \A other \in Ids : Used(other)' => other = id
    BY <2>1, <2>2 DEF Used, TypeOK
  <2>4. \A other \in Ids : service'[other] # "answered"
    BY <2>1, <2>2 DEF Used, TypeOK
  <2>5. pc' = "request"
    BY <1>3 DEF Curl
  <2>6. Used(passthrough)'
    BY <2>1 DEF Used, TypeOK
  <2> QED
    BY <1>2, <2>1, <2>3, <2>4, <2>5, <2>6 DEF Awaited, Listening, AnswerComes, BeforeCall, AfterCall
<1>4. CASE Accepted
  <2>1. /\ service' = [service EXCEPT ![passthrough] = IF @ = "asked" THEN "accepted" ELSE @]
        /\ pc = "request" /\ pc' = "note" /\ passthrough \in Ids
        /\ UNCHANGED <<registry, bus, answer>>
    BY <1>4 DEF Accepted, RequestHasId
  <2>2. \A id \in Ids : /\ Used(id)' => Used(id)
                        /\ service'[id] = "answered" => service[id] = "answered"
    BY <2>1 DEF Used, TypeOK
  <2>3. Used(passthrough)
    BY <2>1 DEF Awaited
  <2>4. service'[passthrough] \in {"accepted", "answered"}
    BY <2>1, <2>3 DEF Used, TypeOK
  <2> QED
    BY <1>2, <2>1, <2>2, <2>4 DEF Awaited, Listening, AnswerComes, BeforeCall, AfterCall
<1> QED
  BY <1>1, <1>3, <1>4

\* The response to the request
LEMMA RespondAwaits ==
    ASSUME CallAssumption, IInv, Round, Awaited, Respond
    PROVE  Awaited'
<1> USE DEF Go, IInv
<1>1. PICK kind \in Kinds :
        /\ service[passthrough] = "asked" \/ IsUpdate(kind)
        /\ HandleCallback(kind, bus)
        /\ service' = [service EXCEPT ![passthrough] =
                          IF @ = "asked" THEN AfterMessage(kind) ELSE @]
  BY DEF Respond
<1>2. /\ pc = "request" /\ pc' = "note" /\ passthrough \in Ids /\ kind \in AllKinds
      /\ UNCHANGED registry /\ answer = "none" /\ Used(passthrough)
  BY DEF Respond, RequestHasId, Round, AnswerStays, CallAssumption, Awaited
<1>3. /\ ~IsUpdate(kind) => Woken' /\ answer' # "none"
      /\ IsUpdate(kind) => answer' = "none" /\ bus' = bus
  BY <1>1, <1>2, CallbackWakes DEF HandleCallback
<1>4. \A id \in Ids : Used(id)' => Used(id)
  BY <1>1 DEF Used, TypeOK
<1>5. service'[passthrough] \in {"accepted", "answered"}
  BY <1>1, <1>2 DEF Used, AfterMessage, TypeOK
<1>6. AnswerComes'
  <2>1. CASE IsUpdate(kind)
    <3>1. \A id \in Ids : service'[id] = "answered" => service[id] = "answered"
      BY <1>1, <2>1 DEF AfterMessage, TypeOK
    <3> QED
      BY <1>2, <1>3, <2>1, <3>1 DEF Awaited, AnswerComes
  <2>2. CASE ~IsUpdate(kind)
    BY <1>3, <2>2 DEF AnswerComes
  <2> QED
    BY <2>1, <2>2
<1> QED
  BY <1>2, <1>3, <1>4, <1>5, <1>6 DEF Awaited, Listening, BeforeCall, AfterCall

\* The loop of weel_activity: it goes on to wait only after an update.
LEMMA LoopAwaits ==
    ASSUME CallAssumption, IInv, Round, Awaited, rounds = 0, rounds' = 0, pc' \notin Over,
           Note \/ Check \/ Dequeue \/ IgnoreUpdate \/ RunCode
    PROVE  Awaited'
<1> USE DEF Go, IInv
<1>1. /\ pc \in AfterCall /\ pc' \in AfterCall
      /\ UNCHANGED <<registry, bus, service, answer>>
  <2>1. CASE RunCode
    <3>1. ~Again("react") /\ ~Raise("react")
      BY DEF Again, Raise, Over, Left
    <3> QED
      BY <2>1, <3>1 DEF RunCode, Resume, AfterCall, Over, Left
  <2>2. CASE Note \/ Check \/ Dequeue \/ IgnoreUpdate
    BY <2>2 DEF Note, Check, Dequeue, IgnoreUpdate, Resume, AfterCall, Over, Left
  <2> QED
    BY <2>1, <2>2
<1>2. ASSUME answer # "none", Waits' PROVE Woken'
  <2>1. CASE Dequeue
    <3>1. pc = "wait" /\ signals # <<>> /\ signals' = Tail(signals) /\ pc' = "react"
          /\ waitResult' = Head(signals)
      BY <2>1 DEF Dequeue
    <3>2. Woken /\ Head(signals) = "UpdateAgain"
      BY <1>2, <3>1 DEF Awaited, Waits
    <3> QED
      BY <3>1, <3>2, WokenByAnother
  <2>2. CASE Note \/ Check \/ IgnoreUpdate
    <3>1. UNCHANGED signals /\ Waits
      BY <1>2, <2>2 DEF Note, Check, IgnoreUpdate, Resume, Waits
    <3> QED
      BY <1>2, <3>1 DEF Awaited, Woken, Queued
  <2>3. CASE RunCode
    <3>1. ~Again("react") /\ ~Raise("react")
      BY DEF Again, Raise, Over, Left
    <3>2. UNCHANGED signals /\ Waits
      BY <1>2, <2>3, <3>1 DEF RunCode, Resume, Waits, CodeType
    <3> QED
      BY <1>2, <3>2 DEF Awaited, Woken, Queued
  <2> QED
    BY <2>1, <2>2, <2>3
<1> QED
  BY <1>1, <1>2 DEF Awaited, Listening, AnswerComes, Used, BeforeCall, AfterCall

\* Who stops or cancels adds a signal.
LEMMA InterruptsAwait ==
    ASSUME CallAssumption, IInv, Round, Awaited, Stop \/ CancelBranch
    PROVE  Awaited'
<1>1. /\ UNCHANGED <<pc, waitResult, passthrough, answer, position, registry, bus, service>>
      /\ signals' = signals \/ signals' = Append(signals, "None")
  BY DEF Stop, CancelBranch
<1>2. Woken => Woken'
  <2>1. CASE signals' = signals
    BY <2>1 DEF Woken, Queued
  <2>2. CASE signals' = Append(signals, "None")
    BY <2>2, QueuedStays DEF IInv, Signals
  <2> QED
    BY <1>1, <2>1, <2>2
<1> QED
  BY <1>1, <1>2 DEF Awaited, Listening, AnswerComes, Used, Waits

\* The answer of a service is on the bus.
LEMMA SendAwaits ==
    ASSUME CallAssumption, IInv, Round, Awaited, NEW id \in Ids, Send(id)
    PROVE  Awaited'
<1> USE DEF IInv
<1>1. PICK kind \in Kinds :
        /\ bus' = Append(bus, Response(id, kind))
        /\ service' = [service EXCEPT ![id] = AfterMessage(kind)]
  BY DEF Send
<1>2. /\ Open(id) /\ UNCHANGED <<pc, waitResult, passthrough, answer, position, registry, signals>>
  BY DEF Send, Open
<1>3. Response(id, kind) \in Messages /\ bus \in Seq(Messages)
  BY DEF Response, Messages, CallAssumption, TypeOK
<1>4. \A other \in Ids : FinalIn(bus', other) <=> FinalIn(bus, other) \/ Final(Response(id, kind), other)
  BY <1>1, <1>3, AppendFinal
<1>5. \A other \in Ids : other # id => service'[other] = service[other]
  BY <1>1 DEF TypeOK
<1>6. service'[id] = AfterMessage(kind) /\ Used(id)
  BY <1>1, <1>2 DEF Used, Open, TypeOK
<1>7. AnswerComes'
  <2>1. service'[id] = "answered" => Final(Response(id, kind), id)
    BY <1>6 DEF AfterMessage, Final, Response
  <2> QED
    BY <1>2, <1>4, <1>5, <2>1 DEF Awaited, AnswerComes
<1>8. Listening'
  BY <1>2, <1>5, <1>6 DEF Awaited, Listening, Used
<1>9. (pc = "request" => Used(passthrough))'
  BY <1>2, <1>5, <1>6 DEF Awaited, RequestHasId, Used, AfterMessage
<1>10. (\E other \in Ids : service[other] \in {"accepted", "answered"})
          => (\E other \in Ids : service'[other] \in {"accepted", "answered"})
  BY <1>5, <1>6 DEF AfterMessage
<1>11. Woken' <=> Woken
  BY <1>2 DEF Woken, Queued
<1> QED
  BY <1>2, <1>7, <1>8, <1>9, <1>10, <1>11 DEF Awaited, Waits

\* The callback thread handles every answer: its call is registered.
LEMMA DeliverAwaits ==
    ASSUME CallAssumption, IInv, Round, Awaited, Deliver, pc \notin Over
    PROVE  Awaited'
<1> USE DEF IInv
<1> DEFINE m == Head(bus)
<1>1. /\ bus # <<>> /\ bus \in Seq(Messages)
      /\ m \in Messages /\ m.type = "callback-response"
      /\ Tail(bus) \in Seq(Messages)
      /\ UNCHANGED <<pc, waitResult, position, registry, service>>
  BY HeadTailProperties DEF Deliver, TypeOK
<1>2. m.event \in Ids /\ m.kind \in AllKinds
  BY <1>1 DEF Messages
<1>3. ResponseIn(bus, m.event)
  BY <1>1, TailResponse
<1>4. Used(m.event) /\ service[m.event] # "asked" /\ m.event \in registry
  BY <1>2, <1>3 DEF Round, OneCall, Used, Awaited, Listening
<1>5. ~Locked /\ HandleCallback(m.kind, Tail(bus))
  BY <1>4 DEF Deliver
<1>6. /\ Woken => Woken'
      /\ ~IsUpdate(m.kind) => Woken' /\ answer' # "none"
      /\ IsUpdate(m.kind) => answer' = answer /\ bus' = Tail(bus)
  BY <1>2, <1>5, CallbackWakes DEF HandleCallback
<1>7. AnswerComes'
  <2>1. CASE ~IsUpdate(m.kind)
    BY <1>6, <2>1 DEF AnswerComes
  <2>2. CASE IsUpdate(m.kind)
    <3>1. \A id \in Ids : FinalIn(bus, id) => FinalIn(Tail(bus), id)
      BY <1>1, <2>2, HeadIsNotFinal DEF Final
    <3> QED
      BY <1>1, <1>6, <2>2, <3>1 DEF Awaited, AnswerComes
  <2> QED
    BY <2>1, <2>2
<1>8. pc # "request"
  BY <1>5 DEF Locked
<1> QED
  BY <1>1, <1>6, <1>7, <1>8 DEF Awaited, Listening, Used, Waits

\* The end of a callback
LEMMA UnregisterAwaits ==
    ASSUME CallAssumption, IInv, Round, Awaited, Unregister
    PROVE  Awaited'
<1> USE DEF IInv
<1>1. /\ bus # <<>> /\ bus \in Seq(Messages) /\ bus' = Tail(bus)
      /\ Head(bus).type = "callback-end" /\ registry' = registry \ {"callback-end"}
      /\ UNCHANGED <<pc, waitResult, position, signals, passthrough, answer, service>>
  BY DEF Unregister, TypeOK
<1>2. Listening'
  BY <1>1 DEF CallAssumption, Awaited, Listening, Used
<1>3. AnswerComes'
  <2>1. \A id \in Ids : FinalIn(bus, id) => FinalIn(bus', id)
    BY <1>1, HeadIsNotFinal DEF Final
  <2> QED
    BY <1>1, <2>1 DEF Awaited, AnswerComes
<1>4. Woken' <=> Woken
  BY <1>1 DEF Woken, Queued
<1> QED
  BY <1>1, <1>2, <1>3, <1>4 DEF Awaited, Used, Waits
-----------------------------------------------------------------------------
\* Every step keeps a fresh call awaited.
LEMMA NextFreshCall ==
    ASSUME CallAssumption, IInv, FirstRound, FreshCall, [Next]_vars
    PROVE  FreshCall'
<1> SUFFICES ASSUME rounds' = 0, pc' \notin Over
             PROVE  Awaited'
  BY DEF FreshCall
<1>1. rounds = 0 /\ pc \notin Over
  BY FirstRoundBefore
<1>2. Round /\ Awaited
  BY <1>1 DEF FirstRound, FreshCall
<1>3. CASE Activity
  <2>1. ~(Break \/ LeaveCancelled \/ LeaveStopped \/ LeaveFailed \/ Complete \/ VoteAfter)
    BY DEF Break, LeaveCancelled, LeaveStopped, LeaveFailed, Complete, VoteAfter, Go, Over, Left
  <2> QED
    BY <1>1, <1>2, <1>3, <2>1, BeforeAwaits, CallAwaits, RespondAwaits, LoopAwaits DEF Activity
<1>4. CASE UNCHANGED vars
  BY <1>2, <1>4 DEF vars, Awaited, Listening, AnswerComes, Used, Waits, Woken, Queued
<1>5. ~VoteFails
  BY DEF VoteFails, Go, Over, Left
<1> QED
  BY <1>1, <1>2, <1>3, <1>4, <1>5, DeliverAwaits, UnregisterAwaits, SendAwaits, InterruptsAwait
     DEF Next, CallbackThread

\* An activity that made its call itself, and whose code has not said again,
\* does not wait for nothing (weel_activity), however it is stopped or
\* cancelled meanwhile: its service has yet to answer, or the answer is on its
\* way to a callback that is registered, or a signal is in the queue.
THEOREM FreshCallsAreAnswered == Spec => WaitIsJustified
<1> USE CallAssumption
<1>1. Init /\ position = NoId => FreshCall
  <2>1. Init /\ position = NoId =>
                /\ \A id \in Ids : ~Used(id)
                /\ position = NoId /\ pc = "start" /\ answer = "none"
    BY DEF Init, Used
  <2> QED
    BY <2>1 DEF FreshCall, Awaited, Listening, AnswerComes, Used, AfterCall
<1>2. IInv /\ FirstRound /\ FreshCall /\ [Next]_vars => FreshCall'
  BY NextFreshCall
<1>3. IInv /\ FreshCall => (pc = "wait" /\ rounds = 0 => HasReason)
  <2> SUFFICES ASSUME IInv, Awaited, pc = "wait", signals = <<>>
               PROVE  HasReason
    BY DEF FreshCall, HasReason, Over, Left
  <2>1. PICK id \in Ids : service[id] \in {"accepted", "answered"}
    BY DEF Awaited, AfterCall
  <2>2. id \in registry
    BY <2>1 DEF Awaited, Listening, Used
  <2>3. answer = "none"
    BY DEF Awaited, Waits, Woken, Queued
  <2>4. service[id] = "answered" => FinalIn(bus, id)
    BY <2>3 DEF Awaited, AnswerComes
  <2> QED
    BY <2>1, <2>2, <2>4 DEF HasReason, FinalIn, Final
<1> QED
  BY <1>1, <1>2, <1>3, Inductive, AlwaysFirstRound, PTL DEF Spec, WaitIsJustified

=============================================================================
