------------------------ MODULE BlockingQueueProofs ------------------------
(***************************************************************************)
(* Theorems of BlockingQueue for any set of threads, any elements and any  *)
(* bounds: type correctness, that no wake-up is lost, and that every step  *)
(* is a step of AtomicQueue or leaves its variables alone.                 *)
(***************************************************************************)
EXTENDS BlockingQueue, FiniteSetTheorems, SequenceTheorems, TLAPS

\* What wake_all appends is a sequence of elements of the length counted.
LEMMA DefaultsAppended ==
    ASSUME QueueAssumption, NEW n \in Nat
    PROVE  /\ [i \in 1 .. n |-> Default] \in Seq(Elements)
           /\ Len([i \in 1 .. n |-> Default]) = n
<1> DEFINE s == [i \in 1 .. n |-> Default]
<1>1. s \in [1 .. n -> Elements]
  BY DEF QueueAssumption
<1>2. s \in Seq(Elements)
  BY <1>1, IsASeq
<1>3. Len(s) = n
  BY <1>2, LenProperties
<1> QED
  BY <1>2, <1>3

\* Every reachable state is well typed: threads are where the code has a
\* program point for them and num_waiting does not wrap (Decrement's guard).
THEOREM TypeCorrect == Spec => []TypeOK
<1>1. Init => TypeOK
  BY DEF Init, TypeOK, Points
<1>2. TypeOK /\ [Next]_vars => TypeOK'
  <2> SUFFICES ASSUME TypeOK, [Next]_vars
               PROVE  TypeOK'
    OBVIOUS
  <2> USE DEF TypeOK, Points
  <2>1. ASSUME NEW t \in Threads, NEW e \in Elements, Enqueue(t, e)
        PROVE  TypeOK'
    BY <2>1, AppendProperties DEF Enqueue
  <2>2. ASSUME NEW t \in Threads, NotifyOne(t)
        PROVE  TypeOK'
    BY <2>2 DEF NotifyOne, At
  <2>3. ASSUME NEW t \in Threads, Dequeue(t)
        PROVE  TypeOK'
    BY <2>3 DEF Dequeue
  <2>4. ASSUME NEW t \in Threads, Park(t)
        PROVE  TypeOK'
    BY <2>4 DEF Park
  <2>5. ASSUME NEW t \in Threads, Pop(t)
        PROVE  TypeOK'
    <3>1. Tail(queue) \in Seq(Elements)
      BY <2>5, HeadTailProperties DEF Pop
    <3>2. Decrement(numWaiting) \in Nat
      BY DEF Decrement
    <3> QED
      BY <2>5, <3>1, <3>2 DEF Pop
  <2>6. ASSUME NEW t \in Threads, SpuriousWake(t)
        PROVE  TypeOK'
    BY <2>6 DEF SpuriousWake
  <2>7. ASSUME NEW t \in Threads, WakeAll(t)
        PROVE  TypeOK'
    <3>1. queue \o [i \in 1 .. numWaiting |-> Default] \in Seq(Elements)
      BY QueueAssumption, DefaultsAppended, ConcatProperties
    <3> QED
      BY <2>7, <3>1 DEF WakeAll
  <2>8. ASSUME NEW t \in Threads, NotifyAll(t)
        PROVE  TypeOK'
    BY <2>8 DEF NotifyAll
  <2>9. ASSUME NEW t \in Threads, Clear(t)
        PROVE  TypeOK'
    BY <2>9, EmptySeq DEF Clear
  <2>10. CASE UNCHANGED vars
    BY <2>10 DEF vars
  <2> QED
    BY <2>1, <2>2, <2>3, <2>4, <2>5, <2>6, <2>7, <2>8, <2>9, <2>10 DEF Next
<1> QED
  BY <1>1, <1>2, PTL DEF Spec

-----------------------------------------------------------------------------
\* The threads that the program counters f put at p.
On(f, p) == {t \in Threads : f[t] = p}

\* From f to g the thread t moves from old to new and nobody else moves.
Moves(f, g, t, old, new) ==
    /\ g \in [Threads -> Points]
    /\ f[t] = old /\ g[t] = new /\ old # new
    /\ \A u \in Threads \ {t} : g[u] = f[u]

\* How many threads are at a program point is a number.
LEMMA Counted ==
    ASSUME QueueAssumption, NEW f, NEW p
    PROVE  IsFiniteSet(On(f, p)) /\ Cardinality(On(f, p)) \in Nat
BY FS_Subset, FS_CardinalityType DEF QueueAssumption, On

\* A thread that moves is counted where it arrives, not where it left from,
\* and no other program point notices.
LEMMA Move ==
    ASSUME QueueAssumption, NEW f, NEW g, NEW t \in Threads,
           NEW old, NEW new, Moves(f, g, t, old, new)
    PROVE  /\ \A p : p # old /\ p # new => On(g, p) = On(f, p)
           /\ Cardinality(On(g, new)) = Cardinality(On(f, new)) + 1
           /\ Cardinality(On(g, old)) = Cardinality(On(f, old)) - 1
<1>1. On(g, new) = On(f, new) \cup {t} /\ On(g, old) = On(f, old) \ {t}
  BY DEF On, Moves
<1>2. \A p : p # old /\ p # new => On(g, p) = On(f, p)
  BY DEF On, Moves
<1>3. t \notin On(f, new) /\ t \in On(f, old)
  BY DEF On, Moves
<1>4. Cardinality(On(g, new)) = Cardinality(On(f, new)) + 1
  BY <1>1, <1>3, Counted, FS_AddElement
<1>5. Cardinality(On(g, old)) = Cardinality(On(f, old)) - 1
  BY <1>1, <1>3, Counted, FS_RemoveElement
<1> QED
  BY <1>2, <1>4, <1>5

\* NoLostWakeup over given program counters and a given queue length.
Covered(f, n) ==
    \/ On(f, "parked") = {}
    \/ On(f, "notify_all") # {}
    \/ n <= Cardinality(On(f, "locking")) + Cardinality(On(f, "notify_one"))

\* A move that does not shorten the queue's cover by more than the queue
\* keeps every element covered.
LEMMA MoveCovers ==
    ASSUME QueueAssumption, NEW f, NEW g, NEW t \in Threads,
           NEW n \in Nat, NEW m \in Nat, Covered(f, n),
           \/ Moves(f, g, t, "idle", "notify_one") /\ m = n + 1
           \/ Moves(f, g, t, "idle", "locking") /\ m = n
           \/ Moves(f, g, t, "parked", "locking") /\ m = n
           \/ /\ Moves(f, g, t, "locking", "idle") /\ m = n - 1
              /\ On(f, "notify_all") = {}
    PROVE  Covered(g, m)
<1>1. \A p : Cardinality(On(f, p)) \in Nat
  BY Counted
<1>2. CASE Moves(f, g, t, "idle", "notify_one") /\ m = n + 1
  <2>1. /\ On(g, "parked") = On(f, "parked")
        /\ On(g, "notify_all") = On(f, "notify_all")
        /\ On(g, "locking") = On(f, "locking")
        /\ Cardinality(On(g, "notify_one")) = Cardinality(On(f, "notify_one")) + 1
    BY <1>2, Move
  <2> QED
    BY <1>1, <1>2, <2>1 DEF Covered
<1>3. CASE Moves(f, g, t, "idle", "locking") /\ m = n
  <2>1. /\ On(g, "parked") = On(f, "parked")
        /\ On(g, "notify_all") = On(f, "notify_all")
        /\ On(g, "notify_one") = On(f, "notify_one")
        /\ Cardinality(On(g, "locking")) = Cardinality(On(f, "locking")) + 1
    BY <1>3, Move
  <2> QED
    BY <1>1, <1>3, <2>1 DEF Covered
<1>4. CASE Moves(f, g, t, "parked", "locking") /\ m = n
  <2>1. /\ On(g, "notify_all") = On(f, "notify_all")
        /\ On(g, "notify_one") = On(f, "notify_one")
        /\ Cardinality(On(g, "locking")) = Cardinality(On(f, "locking")) + 1
    BY <1>4, Move
  <2>2. On(f, "parked") # {}
    BY <1>4 DEF Moves, On
  <2> QED
    BY <1>1, <1>4, <2>1, <2>2 DEF Covered
<1>5. CASE /\ Moves(f, g, t, "locking", "idle") /\ m = n - 1
           /\ On(f, "notify_all") = {}
  <2>1. /\ On(g, "parked") = On(f, "parked")
        /\ On(g, "notify_one") = On(f, "notify_one")
        /\ Cardinality(On(g, "locking")) = Cardinality(On(f, "locking")) - 1
    BY <1>5, Move
  <2> QED
    BY <1>1, <1>5, <2>1 DEF Covered
<1> QED
  BY <1>2, <1>3, <1>4, <1>5

\* notify_one hands its place in the cover to the thread it wakes.
LEMMA HandOverCovers ==
    ASSUME QueueAssumption, NEW f, NEW g, NEW t \in Threads, NEW u \in Threads,
           NEW n \in Nat, Covered(f, n), f \in [Threads -> Points],
           f[t] = "notify_one", f[u] = "parked",
           g = [f EXCEPT ![t] = "idle", ![u] = "locking"]
    PROVE  Covered(g, n)
<1>1. PICK h : h = [f EXCEPT ![t] = "idle"]
  OBVIOUS
<1>2. Moves(f, h, t, "notify_one", "idle") /\ Moves(h, g, u, "parked", "locking")
  BY <1>1 DEF Moves, Points
<1>3. /\ On(h, "notify_all") = On(f, "notify_all")
      /\ On(h, "locking") = On(f, "locking")
      /\ Cardinality(On(h, "notify_one")) = Cardinality(On(f, "notify_one")) - 1
  BY <1>2, Move
<1>4. /\ On(g, "notify_all") = On(h, "notify_all")
      /\ On(g, "notify_one") = On(h, "notify_one")
      /\ Cardinality(On(g, "locking")) = Cardinality(On(h, "locking")) + 1
  BY <1>2, Move
<1>5. u \in On(f, "parked")
  BY DEF On
<1>6. \A p : Cardinality(On(f, p)) \in Nat
  BY Counted
<1>7. \/ On(f, "notify_all") # {}
      \/ n <= Cardinality(On(f, "locking")) + Cardinality(On(f, "notify_one"))
  BY <1>5 DEF Covered
<1>8. \/ On(g, "notify_all") # {}
      \/ n <= Cardinality(On(g, "locking")) + Cardinality(On(g, "notify_one"))
  BY <1>3, <1>4, <1>6, <1>7
<1> QED
  BY <1>8 DEF Covered

\* The step case of NoLostWakeup, one action at a time.
LEMMA WakeupStep ==
    ASSUME QueueAssumption, TypeOK, NoLostWakeup, [Next]_vars
    PROVE  NoLostWakeup'
<1>1. Covered(pc, Len(queue))
  BY DEF NoLostWakeup, Covered, At, On
<1>2. SUFFICES Covered(pc', Len(queue'))
  BY DEF NoLostWakeup, Covered, At, On
<1>3. Len(queue) \in Nat /\ pc \in [Threads -> Points]
  BY LenProperties DEF TypeOK
<1>4. Covered(pc', 0)
  BY Counted DEF Covered
<1>5. ASSUME NEW t \in Threads, NEW e \in Elements, Enqueue(t, e)
      PROVE  Covered(pc', Len(queue'))
  <2>1. Len(queue') = Len(queue) + 1
    BY <1>5, AppendProperties DEF Enqueue, TypeOK
  <2>2. Moves(pc, pc', t, "idle", "notify_one")
    BY <1>3, <1>5 DEF Enqueue, Moves, Points
  <2> QED
    BY <1>1, <1>3, <2>1, <2>2, MoveCovers
<1>6. ASSUME NEW t \in Threads, NotifyOne(t)
      PROVE  Covered(pc', Len(queue'))
  <2>1. CASE At("parked") = {} /\ pc' = [pc EXCEPT ![t] = "idle"]
    <3>1. On(pc', "parked") = {}
      BY <1>3, <1>6, <2>1 DEF NotifyOne, At, On
    <3> QED
      BY <3>1 DEF Covered
  <2>2. ASSUME NEW u \in At("parked"),
               pc' = [pc EXCEPT ![t] = "idle", ![u] = "locking"]
        PROVE  Covered(pc', Len(queue'))
    <3>1. u \in Threads /\ pc[u] = "parked" /\ pc[t] = "notify_one"
      BY <1>6 DEF At, NotifyOne
    <3>2. queue' = queue
      BY <1>6 DEF NotifyOne
    <3> QED
      BY <1>1, <1>3, <2>2, <3>1, <3>2, HandOverCovers
  <2> QED
    BY <1>6, <2>1, <2>2 DEF NotifyOne
<1>7. ASSUME NEW t \in Threads, Dequeue(t)
      PROVE  Covered(pc', Len(queue'))
  <2>1. Moves(pc, pc', t, "idle", "locking") /\ queue' = queue
    BY <1>3, <1>7 DEF Dequeue, Moves, Points
  <2> QED
    BY <1>1, <1>3, <2>1, MoveCovers
<1>8. ASSUME NEW t \in Threads, Park(t)
      PROVE  Covered(pc', Len(queue'))
  <2>1. Len(queue') = 0
    BY <1>8, EmptySeq DEF Park
  <2> QED
    BY <1>4, <2>1
<1>9. ASSUME NEW t \in Threads, Pop(t)
      PROVE  Covered(pc', Len(queue'))
  <2>1. Len(queue') = Len(queue) - 1 /\ Len(queue') \in Nat
    BY <1>9, HeadTailProperties, LenProperties DEF Pop, TypeOK
  <2>2. Moves(pc, pc', t, "locking", "idle")
    BY <1>3, <1>9 DEF Pop, Moves, Points
  <2>3. On(pc, "notify_all") = {}
    BY <1>9 DEF Pop, NumWaitingFree, At, On
  <2> QED
    BY <1>1, <1>3, <2>1, <2>2, <2>3, MoveCovers
<1>10. ASSUME NEW t \in Threads, SpuriousWake(t)
       PROVE  Covered(pc', Len(queue'))
  <2>1. Moves(pc, pc', t, "parked", "locking") /\ queue' = queue
    BY <1>3, <1>10 DEF SpuriousWake, Moves, Points
  <2> QED
    BY <1>1, <1>3, <2>1, MoveCovers
<1>11. ASSUME NEW t \in Threads, WakeAll(t)
       PROVE  Covered(pc', Len(queue'))
  <2>1. t \in On(pc', "notify_all")
    BY <1>3, <1>11 DEF WakeAll, On
  <2> QED
    BY <2>1 DEF Covered
<1>12. ASSUME NEW t \in Threads, NotifyAll(t)
       PROVE  Covered(pc', Len(queue'))
  <2>1. On(pc', "parked") = {}
    BY <1>12 DEF NotifyAll, On
  <2> QED
    BY <2>1 DEF Covered
<1>13. ASSUME NEW t \in Threads, Clear(t)
       PROVE  Covered(pc', Len(queue'))
  <2>1. Len(queue') = 0
    BY <1>13, EmptySeq DEF Clear
  <2> QED
    BY <1>4, <2>1
<1>14. CASE UNCHANGED vars
  BY <1>1, <1>14 DEF vars
<1> QED
  BY <1>5, <1>6, <1>7, <1>8, <1>9, <1>10, <1>11, <1>12, <1>13, <1>14 DEF Next

\* No interleaving of enqueue's late notification, barging, spurious wake-ups
\* and wake_all leaves a thread parked next to an element nobody comes for.
THEOREM WakeupsNotLost == Spec => []NoLostWakeup
<1>1. Init => NoLostWakeup
  BY DEF Init, NoLostWakeup, At
<1>2. TypeOK /\ NoLostWakeup /\ [Next]_vars => NoLostWakeup'
  BY QueueAssumption, WakeupStep
<1> QED
  BY <1>1, <1>2, TypeCorrect, PTL DEF Spec

-----------------------------------------------------------------------------
\* The safety half of ActsAtomically: every step of the two mutexes and the
\* condition variable is one atomic operation on the queue, or none.
THEOREM StepsAreAtomic == Spec => Abstract!Init /\ [][Abstract!Next]_(Abstract!vars)
<1> USE DEF Abstract!vars
<1>1. Init => Abstract!Init
  BY DEF Init, Abstract!Init, At
<1>2. TypeOK /\ [Next]_vars => [Abstract!Next]_(Abstract!vars)
  <2> SUFFICES ASSUME TypeOK, [Next]_vars
               PROVE  Abstract!Next \/ UNCHANGED Abstract!vars
    BY DEF Abstract!vars
  <2> DEFINE inside == At("locking") \cup At("parked")
  <2>1. ASSUME NEW t \in Threads, NEW e \in Elements, Enqueue(t, e)
        PROVE  Abstract!Next
    <3>1. inside' = inside
      BY <2>1 DEF Enqueue, At, TypeOK
    <3>2. Abstract!Put(e)
      BY <2>1, <3>1 DEF Enqueue, Abstract!Put
    <3> QED
      BY <3>2 DEF Abstract!Next
  <2>2. ASSUME NEW t \in Threads, NotifyOne(t) \/ Park(t) \/ SpuriousWake(t)
                                  \/ NotifyAll(t)
        PROVE  UNCHANGED Abstract!vars
    <3>1. CASE NotifyOne(t)
      BY <3>1 DEF NotifyOne, At, TypeOK
    <3>2. CASE Park(t)
      BY <3>2 DEF Park, At, TypeOK
    <3>3. CASE SpuriousWake(t)
      BY <3>3 DEF SpuriousWake, At, TypeOK
    <3>4. CASE NotifyAll(t)
      BY <3>4 DEF NotifyAll, At, TypeOK
    <3> QED
      BY <2>2, <3>1, <3>2, <3>3, <3>4
  <2>3. ASSUME NEW t \in Threads, Dequeue(t)
        PROVE  Abstract!Next
    <3>1. t \notin inside /\ inside' = inside \cup {t}
      BY <2>3 DEF Dequeue, At, TypeOK
    <3>2. Abstract!Enter(t)
      BY <2>3, <3>1 DEF Dequeue, Abstract!Enter
    <3> QED
      BY <3>2 DEF Abstract!Next
  <2>4. ASSUME NEW t \in Threads, Pop(t)
        PROVE  Abstract!Next
    <3>1. t \in inside /\ inside' = inside \ {t}
      BY <2>4 DEF Pop, At, TypeOK
    <3>2. Abstract!Take(t)
      BY <2>4, <3>1 DEF Pop, Abstract!Take
    <3> QED
      BY <3>2 DEF Abstract!Next
  <2>5. ASSUME NEW t \in Threads, WakeAll(t)
        PROVE  Abstract!Next
    <3> DEFINE s == [i \in 1 .. numWaiting |-> Default]
    <3>1. /\ s \in Seq(Elements) /\ queue \in Seq(Elements)
          /\ queue' = queue \o s
      BY <2>5, QueueAssumption, DefaultsAppended DEF WakeAll, TypeOK
    <3>2. Abstract!Appended = s
      <4>1. Abstract!Appended = SubSeq(queue', Len(queue) + 1, Len(queue'))
        BY DEF Abstract!Appended
      <4>2. Len(s) = numWaiting /\ Len(queue) \in Nat /\ numWaiting \in Nat
        BY QueueAssumption, DefaultsAppended, <3>1, LenProperties DEF TypeOK
      <4>3. Len(queue') = Len(queue) + numWaiting /\ queue' \in Seq(Elements)
        BY <3>1, <4>2, ConcatProperties
      <4>4. \A i \in 1 .. numWaiting : queue'[Len(queue) + i] = s[i]
        BY <3>1, <4>2
      <4>5. SubSeq(queue', Len(queue) + 1, Len(queue')) = s
        BY <3>1, <4>2, <4>3, <4>4
      <4> QED
        BY <4>1, <4>5
    <3>3. inside' = inside
      BY <2>5 DEF WakeAll, At, TypeOK
    <3>4. Abstract!PutDefaults(Abstract!Appended)
      BY <3>1, <3>2, <3>3 DEF Abstract!PutDefaults, TypeOK
    <3> QED
      BY <3>4 DEF Abstract!Next
  <2>6. ASSUME NEW t \in Threads, Clear(t)
        PROVE  Abstract!Next
    <3>1. inside' = inside
      BY <2>6 DEF Clear, At
    <3>2. Abstract!Clear
      BY <2>6, <3>1 DEF Clear, Abstract!Clear
    <3> QED
      BY <3>2 DEF Abstract!Next
  <2>7. CASE UNCHANGED vars
    BY <2>7 DEF vars, At
  <2> QED
    BY <2>1, <2>2, <2>3, <2>4, <2>5, <2>6, <2>7 DEF Next
<1> QED
  BY <1>1, <1>2, TypeCorrect, PTL DEF Spec
=============================================================================
