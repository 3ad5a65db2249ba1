---------------------------- MODULE AtomicQueue ----------------------------
(***************************************************************************)
(* What a caller of weel_lib's BlockingQueue may rely on: every operation  *)
(* takes effect at one instant, elements leave in the order they came, and *)
(* a caller inside dequeue is served as long as there is something to      *)
(* take.  BlockingQueue.tla implements this with two mutexes and a         *)
(* condition variable.                                                     *)
(***************************************************************************)
EXTENDS Naturals, Sequences

CONSTANTS Threads,     \* the threads sharing the queue
          Elements,    \* what can be queued
          Default      \* T::default(), what wake_all hands out

VARIABLES queue,       \* the elements, oldest first
          inside       \* the threads whose dequeue has not returned

vars == <<queue, inside>>

Init == /\ queue = <<>>
        /\ inside = {}

Enter(t) == /\ t \notin inside
            /\ inside' = inside \cup {t}
            /\ UNCHANGED queue

Put(e) == /\ queue' = Append(queue, e)
          /\ UNCHANGED inside

Take(t) == /\ t \in inside
           /\ queue # <<>>
           /\ queue' = Tail(queue)
           /\ inside' = inside \ {t}

\* wake_all: some number of default elements, all at once
PutDefaults(s) == /\ \A i \in DOMAIN s : s[i] = Default
                  /\ queue' = queue \o s
                  /\ UNCHANGED inside

Clear == /\ queue' = <<>>
         /\ UNCHANGED inside

Appended == SubSeq(queue', Len(queue) + 1, Len(queue'))

Next == \/ \E t \in Threads : Enter(t) \/ Take(t)
        \/ \E e \in Elements : Put(e)
        \/ PutDefaults(Appended)
        \/ Clear

\* A non-empty queue with a caller inside dequeue does not stay that way.
Served == WF_vars(\E t \in Threads : Take(t))

Spec == Init /\ [][Next]_vars /\ Served
=============================================================================
