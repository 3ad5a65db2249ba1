--------------------------- MODULE BlockingQueue ---------------------------
(***************************************************************************)
(* weel_lib::data_types::BlockingQueue, the structure on which branches    *)
(* wait for the start of their parallel gateway and on which activities    *)
(* wait for the callbacks of their service call.                           *)
(*                                                                         *)
(* The critical section under the mutex "queue" contains no step that can  *)
(* be interleaved with anything that matters, so it is one action.  Two    *)
(* things happen outside of it and are actions of their own: enqueue       *)
(* notifies after it has released the mutex, and wake_all notifies after   *)
(* it has released "queue" but while it still holds "num_waiting".         *)
(***************************************************************************)
EXTENDS Naturals, Sequences, FiniteSets

CONSTANTS Threads,      \* the threads sharing the queue
          Elements,     \* what can be queued
          Default,      \* T::default()
          MaxLen,       \* bound: no call that makes the queue longer
          MaxWaiting    \* bound: above it no spurious wake-up, clear, wake_all

ASSUME QueueAssumption ==
    /\ IsFiniteSet(Threads)
    /\ Default \in Elements
    /\ MaxLen \in Nat
    /\ MaxWaiting \in Nat

VARIABLES pc,           \* where each thread is in the code of the queue
          queue,        \* VecDeque<T>, front first
          numWaiting    \* num_waiting: u32

vars == <<pc, queue, numWaiting>>

\* "locking": in dequeue, about to (re)acquire the mutex "queue"
\* "parked":  in Condvar::wait
Points == {"idle", "locking", "parked", "notify_one", "notify_all"}

At(p) == {t \in Threads : pc[t] = p}

\* The mutex num_waiting is only ever held across a step by wake_all.
NumWaitingFree == At("notify_all") = {}

Init == /\ pc = [t \in Threads |-> "idle"]
        /\ queue = <<>>
        /\ numWaiting = 0

\* ---------------------------------------------------------------- enqueue
EnqueueWithoutNotify(t, e) ==
    /\ pc[t] = "idle"
    /\ Len(queue) < MaxLen
    /\ queue' = Append(queue, e)
    /\ UNCHANGED <<pc, numWaiting>>

Enqueue(t, e) ==
    /\ pc[t] = "idle"
    /\ Len(queue) < MaxLen
    /\ queue' = Append(queue, e)
    /\ pc' = [pc EXCEPT ![t] = "notify_one"]
    /\ UNCHANGED numWaiting

NotifyOne(t) ==
    /\ pc[t] = "notify_one"
    /\ \/ /\ At("parked") = {}
          /\ pc' = [pc EXCEPT ![t] = "idle"]
       \/ \E u \in At("parked") :
             pc' = [pc EXCEPT ![t] = "idle", ![u] = "locking"]
    /\ UNCHANGED <<queue, numWaiting>>

\* ---------------------------------------------------------------- dequeue
Dequeue(t) ==
    /\ pc[t] = "idle"
    /\ pc' = [pc EXCEPT ![t] = "locking"]
    /\ UNCHANGED <<queue, numWaiting>>

\* One round of the while loop: count oneself and wait.
Park(t) ==
    /\ pc[t] = "locking"
    /\ queue = <<>>
    /\ NumWaitingFree
    /\ numWaiting' = numWaiting + 1
    /\ pc' = [pc EXCEPT ![t] = "parked"]
    /\ UNCHANGED queue

\* The counter is decremented by every dequeue, also by one that never waited.
DecrementUnguarded(n) == n - 1
Decrement(n) == IF n > 0 THEN n - 1 ELSE 0

PopBack(t) ==
    /\ pc[t] = "locking"
    /\ queue # <<>>
    /\ NumWaitingFree
    /\ numWaiting' = Decrement(numWaiting)
    /\ queue' = SubSeq(queue, 1, Len(queue) - 1)
    /\ pc' = [pc EXCEPT ![t] = "idle"]

Pop(t) ==
    /\ pc[t] = "locking"
    /\ queue # <<>>
    /\ NumWaitingFree
    /\ numWaiting' = Decrement(numWaiting)
    /\ queue' = Tail(queue)
    /\ pc' = [pc EXCEPT ![t] = "idle"]

\* Condvar::wait may return without a notification.
SpuriousWake(t) ==
    /\ pc[t] = "parked"
    /\ numWaiting < MaxWaiting
    /\ pc' = [pc EXCEPT ![t] = "locking"]
    /\ UNCHANGED <<queue, numWaiting>>

\* --------------------------------------------------------- wake_all, clear
WakeAll(t) ==
    /\ pc[t] = "idle"
    /\ NumWaitingFree
    /\ Len(queue) + numWaiting <= MaxLen
    /\ numWaiting < MaxWaiting
    /\ queue' = queue \o [i \in 1 .. numWaiting |-> Default]
    /\ pc' = [pc EXCEPT ![t] = "notify_all"]
    /\ UNCHANGED numWaiting

NotifyAll(t) ==
    /\ pc[t] = "notify_all"
    /\ pc' = [u \in Threads |-> IF u = t THEN "idle"
                               ELSE IF pc[u] = "parked" THEN "locking" ELSE pc[u]]
    /\ UNCHANGED <<queue, numWaiting>>

Clear(t) ==
    /\ pc[t] = "idle"
    /\ numWaiting < MaxWaiting
    /\ queue' = <<>>
    /\ UNCHANGED <<pc, numWaiting>>

Next == \E t \in Threads :
            \/ \E e \in Elements : Enqueue(t, e)
            \/ NotifyOne(t)
            \/ Dequeue(t) \/ Park(t) \/ Pop(t) \/ SpuriousWake(t)
            \/ WakeAll(t) \/ NotifyAll(t)
            \/ Clear(t)

\* A thread inside an operation keeps running and eventually gets a mutex that
\* is released again and again; nobody has to call an operation.
Fairness == \A t \in Threads : /\ WF_vars(NotifyOne(t) \/ NotifyAll(t))
                               /\ SF_vars(Park(t) \/ Pop(t))

Spec == Init /\ [][Next]_vars /\ Fairness
-----------------------------------------------------------------------------
\* Every thread is at a program point and the counter never leaves its u32:
\* the guarded decrement keeps it from wrapping below zero.
TypeOK == /\ pc \in [Threads -> Points]
          /\ queue \in Seq(Elements)
          /\ numWaiting \in Nat

\* No lost wake-up: while somebody is parked and no notify_all is on its way,
\* every queued element has a thread of its own that is on its way to the
\* mutex or that still has to notify.  It holds although enqueue notifies
\* after it released the mutex and although any thread may take an element
\* that a notified one was woken up for.
NoLostWakeup ==
    \/ At("parked") = {}
    \/ At("notify_all") # {}
    \/ Len(queue) <= Cardinality(At("locking")) + Cardinality(At("notify_one"))

\* The queue behaves as if its operations were atomic, first in first out,
\* and it serves somebody as long as it holds an element: a thread that
\* waits on a non-empty queue is a callback or a gateway start that was lost.
Abstract == INSTANCE AtomicQueue WITH inside <- At("locking") \cup At("parked")
ActsAtomically == Abstract!Spec
=============================================================================
