--------------------------- MODULE LockOrderProofs ---------------------------
(***************************************************************************)
(* Theorems of LockOrder, for any number of workers and of sections.  What *)
(* a thread has locked and what it still has to do fit together: the rest  *)
(* of its program can be run from the set of the mutexes that it holds,    *)
(* releases them all, and takes every mutex in the order of the levels     *)
(* below.                                                                  *)
(***************************************************************************)
EXTENDS LockOrder, Naturals, TLAPS

Ops == [op : {"lock", "unlock", "brief", "register"}, mutex : Mutexes]
       \cup {[op |-> "lambda"]}

\* A level for the thread t that waits for the mutex m.  Only the worker whose
\* wrapper it is and the callback thread wait for a wrapper.
Level(t, m) ==
    CASE m \in Sections \cup {"callback_keys"} -> 0
      [] m \in Workers            -> IF t = Callback THEN 1 ELSE 3
      [] m = "thread_information" -> 2
      [] m \in {"evaluation", "state", "search_positions"} -> 4
      [] m \in {"context", "status", "positions"} -> 5
      [] m = "redis"              -> 6
      [] m \in {"open_votes", "queue", "loop_guard", "stop_signal_receiver"} -> 7

\* The highest level of a thread that waits for the mutex a of the thread t.
\* No worker waits while it holds callback_keys; and who waits for the callback
\* thread to release it registers a callback, with its wrapper locked.
Blocks(t, a) ==
    CASE a = "callback_keys" -> IF t = Callback THEN 0 ELSE 8
      [] a \in Workers       -> IF t = Callback THEN 3 ELSE 1
      [] a \in Sections      -> 0
      [] OTHER               -> Level(t, a)

\* May t, which holds A, wait for m?
InOrder(t, A, m) == \A a \in A : Blocks(t, a) < Level(t, m)
Known(t, A, m)   == \/ m = "thread_information" /\ "state" \in A
                    \/ m = "callback_keys" /\ t \in A
                    \/ m \in Sections /\ A \cap Sections # {}
Permitted(t, A, m) ==
    /\ m \in A => m \in Sections
    /\ t # Callback /\ m \in Workers => m = t
    /\ t # Callback /\ m = "callback_keys" => t \in A
    /\ InOrder(t, A, m) \/ Known(t, A, m)

\* Who waits for a section that it holds waits for good.  What follows is run
\* from no set of mutexes at all.
Never == CHOOSE A : A \notin SUBSET Mutexes

\* The operation o of the thread t, from holding A to holding B
Does(t, o, A, B) ==
    \/ A = Never
    \/ /\ o.op = "lock" /\ Permitted(t, A, o.mutex)
       /\ B = IF o.mutex \in A THEN Never ELSE A \cup {o.mutex}
    \/ o.op = "unlock" /\ o.mutex \in A /\ B = A \ {o.mutex}
    \/ o.op = "brief" /\ Permitted(t, A, o.mutex) /\ B = A
    \/ o.op = "register" /\ o.mutex \in Workers /\ B = A
    \/ o.op = "lambda" /\ A \subseteq Sections /\ B = A

\* The program s takes the thread t from holding A to holding B.
Holding(t, s, h) ==
    /\ h \in [1 .. Len(s) + 1 -> (SUBSET Mutexes) \cup {Never}]
    /\ \A i \in 1 .. Len(s) : Does(t, s[i], h[i], h[i + 1])

Runs(t, s, A, B) ==
    /\ s \in Seq(Ops)
    /\ \E h : Holding(t, s, h) /\ h[1] = A /\ h[Len(s) + 1] = B

Held(t) == {m \in Mutexes : owner[m] = t}

TypeOK == /\ todo \in [Threads -> Seq(Ops)]
          /\ owner \in [Mutexes -> Threads \cup {Nobody}]
          /\ begun \subseteq Workers
          /\ registered \subseteq Workers

\* Nobody but the callback thread locks the wrapper of another.
OwnWrapper == \A w \in Workers : owner[w] \in {w, Callback, Nobody}

LInv == /\ TypeOK
        /\ OwnWrapper
        /\ \A t \in Threads : Runs(t, todo[t], Held(t), {})
-----------------------------------------------------------------------------
LEMMA NeverIsNoSet == Never \notin SUBSET Mutexes
BY NoSetContainsEverything DEF Never

\* A program that does nothing
LEMMA RunsNothing ==
    ASSUME NEW t, NEW A \in SUBSET Mutexes
    PROVE  Runs(t, <<>>, A, A)
<1>1. Holding(t, <<>>, [i \in 1 .. 1 |-> A])
  BY DEF Holding
<1> QED
  BY <1>1 DEF Runs

\* One operation
LEMMA RunsOne ==
    ASSUME NEW t, NEW o \in Ops, NEW A \in SUBSET Mutexes,
           NEW B \in (SUBSET Mutexes) \cup {Never}, Does(t, o, A, B)
    PROVE  Runs(t, <<o>>, A, B)
<1> DEFINE h == [i \in 1 .. 2 |-> IF i = 1 THEN A ELSE B]
<1>1. /\ <<o>> \in Seq(Ops) /\ Len(<<o>>) = 1 /\ <<o>>[1] = o
      /\ h \in [1 .. 2 -> (SUBSET Mutexes) \cup {Never}] /\ h[1] = A /\ h[2] = B
  OBVIOUS
<1>2. Holding(t, <<o>>, h)
  BY <1>1 DEF Holding
<1> QED
  BY <1>1, <1>2 DEF Runs

\* One program after the other
LEMMA RunsBoth ==
    ASSUME NEW t, NEW s, NEW u, NEW A, NEW B, NEW C,
           Runs(t, s, A, B), Runs(t, u, B, C)
    PROVE  Runs(t, s \o u, A, C)
<1>1. PICK g : Holding(t, s, g) /\ g[1] = A /\ g[Len(s) + 1] = B
  BY DEF Runs
<1>2. PICK k : Holding(t, u, k) /\ k[1] = B /\ k[Len(u) + 1] = C
  BY DEF Runs
<1> DEFINE n == Len(s)
           l == Len(u)
           h == [i \in 1 .. Len(s \o u) + 1 |-> IF i <= n THEN g[i] ELSE k[i - n]]
<1>3. /\ s \in Seq(Ops) /\ u \in Seq(Ops) /\ s \o u \in Seq(Ops)
      /\ n \in Nat /\ l \in Nat /\ Len(s \o u) = n + l
      /\ \A i \in 1 .. n : (s \o u)[i] = s[i]
      /\ \A i \in n + 1 .. n + l : (s \o u)[i] = u[i - n]
  BY DEF Runs
<1>4. /\ g \in [1 .. n + 1 -> (SUBSET Mutexes) \cup {Never}]
      /\ k \in [1 .. l + 1 -> (SUBSET Mutexes) \cup {Never}]
  BY <1>1, <1>2 DEF Holding
<1>5. h \in [1 .. Len(s \o u) + 1 -> (SUBSET Mutexes) \cup {Never}]
  BY <1>3, <1>4
<1>6. /\ \A i \in 1 .. n + 1 : h[i] = g[i]
      /\ \A i \in n + 1 .. n + l + 1 : h[i] = k[i - n]
  BY <1>1, <1>2, <1>3, <1>4
<1> HIDE DEF h, n, l
<1>7. ASSUME NEW i \in 1 .. Len(s \o u)
      PROVE  Does(t, (s \o u)[i], h[i], h[i + 1])
  <2>1. CASE i <= n
    <3>1. i \in 1 .. n /\ i + 1 \in 1 .. n + 1
      BY <1>3, <2>1
    <3>2. Does(t, s[i], g[i], g[i + 1])
      BY <1>1, <3>1 DEF Holding, n
    <3> QED
      BY <1>3, <1>6, <3>1, <3>2
  <2>2. CASE i > n
    <3>1. /\ i - n \in 1 .. l /\ (i + 1) - n = (i - n) + 1
          /\ i \in n + 1 .. n + l /\ i + 1 \in n + 1 .. n + l + 1
      BY <1>3, <2>2
    <3>2. Does(t, u[i - n], k[i - n], k[(i - n) + 1])
      BY <1>2, <3>1 DEF Holding, l
    <3>3. (s \o u)[i] = u[i - n] /\ h[i] = k[i - n] /\ h[i + 1] = k[(i + 1) - n]
      BY <1>3, <1>6, <3>1
    <3> QED
      BY <3>1, <3>2, <3>3
  <2> QED
    BY <1>3, <2>1, <2>2
<1>8. h[1] = A /\ h[Len(s \o u) + 1] = C
  <2>1. 1 \in 1 .. n + 1 /\ n + l + 1 \in n + 1 .. n + l + 1 /\ (n + l + 1) - n = l + 1
    BY <1>3
  <2>2. h[1] = g[1] /\ h[n + l + 1] = k[l + 1]
    BY <1>6, <2>1
  <2>3. k[l + 1] = C
    BY <1>2 DEF l
  <2> QED
    BY <1>1, <1>3, <2>2, <2>3
<1>9. Holding(t, s \o u, h)
  BY <1>5, <1>7 DEF Holding
<1> QED
  BY <1>3, <1>8, <1>9 DEF Runs

\* The first operation, and the rest of the program
LEMMA RunsFirst ==
    ASSUME NEW t, NEW s, NEW A, NEW B, Runs(t, s, A, B), s # <<>>
    PROVE  /\ Head(s) \in Ops /\ Tail(s) \in Seq(Ops)
           /\ \E C : Does(t, Head(s), A, C) /\ Runs(t, Tail(s), C, B)
<1>1. PICK h : Holding(t, s, h) /\ h[1] = A /\ h[Len(s) + 1] = B
  BY DEF Runs
<1> DEFINE k == [i \in 1 .. Len(Tail(s)) + 1 |-> h[i + 1]]
<1>2. /\ s \in Seq(Ops) /\ Len(s) \in Nat \ {0} /\ Head(s) = s[1] /\ Head(s) \in Ops
      /\ Tail(s) \in Seq(Ops) /\ Len(Tail(s)) = Len(s) - 1
      /\ \A i \in 1 .. Len(Tail(s)) : Tail(s)[i] = s[i + 1]
  BY DEF Runs
<1>3. h \in [1 .. Len(s) + 1 -> (SUBSET Mutexes) \cup {Never}]
  BY <1>1 DEF Holding
<1>4. Does(t, Head(s), A, h[2])
  <2>1. Does(t, s[1], h[1], h[1 + 1])
    BY <1>1, <1>2 DEF Holding
  <2> QED
    BY <1>1, <1>2, <2>1
<1>5. k \in [1 .. Len(Tail(s)) + 1 -> (SUBSET Mutexes) \cup {Never}]
  BY <1>2, <1>3
<1>6. ASSUME NEW i \in 1 .. Len(Tail(s))
      PROVE  Does(t, Tail(s)[i], k[i], k[i + 1])
  <2>1. i + 1 \in 1 .. Len(s) /\ k[i] = h[i + 1] /\ k[i + 1] = h[(i + 1) + 1]
    BY <1>2
  <2>2. Does(t, s[i + 1], h[i + 1], h[(i + 1) + 1])
    BY <1>1, <2>1 DEF Holding
  <2> QED
    BY <1>2, <2>1, <2>2
<1>7. k[1] = h[2] /\ k[Len(Tail(s)) + 1] = B
  BY <1>1, <1>2
<1>8. Runs(t, Tail(s), h[2], B)
  BY <1>2, <1>5, <1>6, <1>7 DEF Runs, Holding
<1> QED
  BY <1>2, <1>4, <1>8
-----------------------------------------------------------------------------
\* What is never reached
LEMMA RunsNever ==
    ASSUME NEW t, NEW s \in Seq(Ops), s # <<>>, NEW A \in SUBSET Mutexes
    PROVE  Runs(t, s, Never, A)
<1> DEFINE n == Len(s)
           h == [i \in 1 .. n + 1 |-> IF i <= n THEN Never ELSE A]
<1>1. n \in Nat \ {0}
  OBVIOUS
<1> HIDE DEF n
<1>2. /\ h \in [1 .. Len(s) + 1 -> (SUBSET Mutexes) \cup {Never}]
      /\ h[1] = Never /\ h[Len(s) + 1] = A
      /\ \A i \in 1 .. Len(s) : h[i] = Never
  <2>1. h \in [1 .. n + 1 -> (SUBSET Mutexes) \cup {Never}]
    BY <1>1
  <2>2. 1 \in 1 .. n /\ n + 1 \in 1 .. n + 1 /\ ~(n + 1 <= n)
    BY <1>1
  <2>3. \A i \in 1 .. n : h[i] = Never
    BY <1>1
  <2>4. h[n + 1] = A
    BY <2>2
  <2> QED
    BY <2>1, <2>2, <2>3, <2>4 DEF n
<1>3. Holding(t, s, h)
  BY <1>2 DEF Holding, Does
<1> QED
  BY <1>2, <1>3 DEF Runs

\* Locking and unlocking
LEMMA RunsLock ==
    ASSUME NEW t, NEW m \in Mutexes, NEW A \in SUBSET Mutexes, Permitted(t, A, m),
           m \notin A
    PROVE  Runs(t, Lock(m), A, A \cup {m})
<1>1. [op |-> "lock", mutex |-> m] \in Ops
  BY DEF Ops
<1>2. Does(t, [op |-> "lock", mutex |-> m], A, A \cup {m})
  BY DEF Does
<1> QED
  BY <1>1, <1>2, RunsOne DEF Lock

LEMMA RunsUnlock ==
    ASSUME NEW t, NEW m \in Mutexes, NEW A \in SUBSET Mutexes, m \in A
    PROVE  Runs(t, Unlock(m), A, A \ {m})
<1>1. [op |-> "unlock", mutex |-> m] \in Ops
  BY DEF Ops
<1>2. Does(t, [op |-> "unlock", mutex |-> m], A, A \ {m})
  BY DEF Does
<1> QED
  BY <1>1, <1>2, RunsOne DEF Unlock

LEMMA RunsBrief ==
    ASSUME NEW t, NEW m \in Mutexes, NEW A \in SUBSET Mutexes, Permitted(t, A, m)
    PROVE  Runs(t, Brief(m), A, A)
<1>1. [op |-> "brief", mutex |-> m] \in Ops
  BY DEF Ops
<1>2. Does(t, [op |-> "brief", mutex |-> m], A, A)
  BY DEF Does
<1> QED
  BY <1>1, <1>2, RunsOne DEF Brief

\* A mutex held over more than that
LEMMA RunsUnder ==
    ASSUME NEW t, NEW m \in Mutexes, NEW A \in SUBSET Mutexes, NEW body,
           Permitted(t, A, m), m \notin A, Runs(t, body, A \cup {m}, A \cup {m})
    PROVE  Runs(t, Under(m, body), A, A)
<1>1. Runs(t, Lock(m), A, A \cup {m})
  BY RunsLock
<1>2. (A \cup {m}) \ {m} = A
  OBVIOUS
<1>3. Runs(t, Unlock(m), A \cup {m}, A)
  BY <1>2, RunsUnlock
<1> QED
  BY <1>1, <1>3, RunsBoth DEF Under

\* A field's mutex is taken in the order of the levels.
LEMMA OrderPermits ==
    ASSUME LockAssumption, NEW t \in Threads, NEW A \in SUBSET Mutexes,
           NEW m \in Fields \ {"callback_keys"}, InOrder(t, A, m)
    PROVE  Permitted(t, A, m) /\ m \notin A
<1>1. m \notin Workers /\ m \notin Sections /\ m # "callback_keys"
  BY DEF LockAssumption
<1>2. Blocks(t, m) = Level(t, m)
  BY <1>1 DEF Blocks
<1>3. Level(t, m) \in Nat
  BY <1>1 DEF Level, Fields
<1>4. m \notin A
  BY <1>2, <1>3 DEF InOrder
<1> QED
  BY <1>1, <1>4 DEF Permitted

LEMMA RunsBriefField ==
    ASSUME LockAssumption, NEW t \in Threads, NEW A \in SUBSET Mutexes,
           NEW m \in Fields \ {"callback_keys"}, InOrder(t, A, m)
    PROVE  Runs(t, Brief(m), A, A)
BY OrderPermits, RunsBrief DEF Mutexes

\* The levels at a glance
LEMMA Levels ==
    ASSUME LockAssumption, NEW t \in Threads
    PROVE  /\ Level(t, "thread_information") = 2
           /\ \A m \in {"evaluation", "state", "search_positions"} : Level(t, m) = 4
           /\ \A m \in {"context", "status", "positions"} : Level(t, m) = 5
           /\ Level(t, "redis") = 6
           /\ \A m \in {"open_votes", "queue", "loop_guard", "stop_signal_receiver"} :
                 Level(t, m) = 7
           /\ \A m \in Fields \ {"callback_keys"} : Blocks(t, m) = Level(t, m)
           /\ \A m \in Workers : Blocks(t, m) = IF t = Callback THEN 3 ELSE 1
           /\ \A m \in Sections : Blocks(t, m) = 0
           /\ Blocks(Callback, "callback_keys") = 0
BY DEF LockAssumption, Level, Blocks, Fields

LEMMA RunsUnderField ==
    ASSUME LockAssumption, NEW t \in Threads, NEW A \in SUBSET Mutexes, NEW B,
           NEW m \in Fields \ {"callback_keys"}, InOrder(t, A, m),
           B = A \cup {m}, NEW body, Runs(t, body, B, B)
    PROVE  Runs(t, Under(m, body), A, A)
BY OrderPermits, RunsUnder DEF Mutexes
-----------------------------------------------------------------------------
\* The procedures, one after the other.  A is what a worker may hold already:
\* sections, and the wrapper of its activity.
LEMMA RunsSetState ==
    ASSUME LockAssumption, NEW t \in Workers, NEW A \in SUBSET (Sections \cup {t})
    PROVE  Runs(t, SetState, A, A)
<1> DEFINE S == A \cup {"state"}
           SS == S \cup {"status"}
           ST == SS \cup {"thread_information"}
<1>1. /\ t \in Threads /\ t # Callback /\ t \notin Fields \cup Sections
      /\ A \in SUBSET Mutexes /\ S \in SUBSET Mutexes /\ SS \in SUBSET Mutexes
      /\ ST \in SUBSET Mutexes
  BY DEF LockAssumption, Threads, Mutexes, Fields
<1>2. /\ InOrder(t, A, "state") /\ InOrder(t, S, "status") /\ InOrder(t, SS, "queue")
      /\ InOrder(t, ST, "queue") /\ InOrder(t, S, "redis")
  BY <1>1, Levels DEF InOrder, Fields
<1>3. Permitted(t, SS, "thread_information")
  BY <1>1 DEF Permitted, Known, LockAssumption, Fields
<1> "thread_information" \notin SS
  BY <1>1 DEF LockAssumption, Fields
<1>4. Runs(t, Brief("queue"), SS, SS) /\ Runs(t, Brief("queue"), ST, ST)
  BY <1>1, <1>2, RunsBriefField DEF Fields
<1>5. Runs(t, Under("thread_information", Brief("queue")), SS, SS)
  BY <1>1, <1>3, <1>4, RunsUnder DEF Mutexes, Fields
<1>6. Runs(t, Brief("queue") \o Under("thread_information", Brief("queue")), SS, SS)
  BY <1>4, <1>5, RunsBoth
<1>7. Runs(t, Under("status", Brief("queue") \o Under("thread_information", Brief("queue"))), S, S)
  BY <1>1, <1>2, <1>6, RunsUnderField DEF Fields
<1>8. Runs(t, Inform, S, S)
  BY <1>1, <1>2, RunsBriefField DEF Inform, Fields
<1> HIDE DEF S
<1>9. Runs(t, Under("status", Brief("queue") \o Under("thread_information", Brief("queue")))
              \o Inform, S, S)
  BY <1>7, <1>8, RunsBoth
<1> QED
  BY <1>1, <1>2, <1>9, RunsUnderField DEF SetState, S, Fields

LEMMA RunsWeelProgress ==
    ASSUME LockAssumption, NEW t \in Workers, NEW A \in SUBSET (Sections \cup {t})
    PROVE  Runs(t, WeelProgress, A, A)
<1> DEFINE T == A \cup {"thread_information"}
           TS == T \cup {"search_positions"}
<1>1. /\ t \in Threads /\ t # Callback /\ t \notin Fields \cup Sections
      /\ A \in SUBSET Mutexes /\ T \in SUBSET Mutexes /\ TS \in SUBSET Mutexes
  BY DEF LockAssumption, Threads, Mutexes, Fields
<1>2. /\ InOrder(t, A, "thread_information") /\ InOrder(t, T, "positions")
      /\ InOrder(t, T, "search_positions") /\ InOrder(t, TS, "positions")
      /\ InOrder(t, T, "redis")
  BY <1>1, Levels DEF InOrder, Fields
<1>3. /\ Runs(t, Brief("positions"), T, T) /\ Runs(t, Brief("positions"), TS, TS)
      /\ Runs(t, Inform, T, T)
  BY <1>1, <1>2, RunsBriefField DEF Inform, Fields
<1>4. Runs(t, Under("search_positions", Brief("positions")), T, T)
  BY <1>1, <1>2, <1>3, RunsUnderField DEF Fields
<1> HIDE DEF T
<1>5. Runs(t, Brief("positions") \o Under("search_positions", Brief("positions"))
              \o Brief("positions") \o Inform, T, T)
  BY <1>3, <1>4, RunsBoth
<1> QED
  BY <1>1, <1>2, <1>5, RunsUnderField DEF WeelProgress, T, Fields

\* What a worker also does with thread_information locked
LEMMA RunsShort ==
    ASSUME LockAssumption, NEW t \in Workers, NEW A \in SUBSET (Sections \cup {t})
    PROVE  /\ \A B \in {A, A \cup {"thread_information"}} :
              /\ \A m \in Fields \ {"callback_keys", "thread_information"} : Runs(t, Brief(m), B, B)
              /\ Runs(t, Inform, B, B) /\ Runs(t, Terminating, B, B) /\ Runs(t, Vote, B, B)
              /\ Runs(t, ExecuteReadOnly, B, B)
           /\ Runs(t, Brief("thread_information"), A, A)
           /\ Runs(t, InSearchMode, A, A)
           /\ Runs(t, ShouldSkipLocking, A, A)
           /\ \A body : Runs(t, body, A \cup {"thread_information"}, A \cup {"thread_information"})
                       => Runs(t, Under("thread_information", body), A, A)
<1> DEFINE T == A \cup {"thread_information"}
<1>1. /\ t \in Threads /\ t # Callback /\ t \notin Fields \cup Sections
      /\ A \in SUBSET Mutexes /\ T \in SUBSET Mutexes
  BY DEF LockAssumption, Threads, Mutexes, Fields
<1>2. /\ \A B \in {A, T} : \A m \in Fields \ {"callback_keys", "thread_information"} :
            InOrder(t, B, m)
      /\ InOrder(t, A, "thread_information")
  BY <1>1, Levels DEF InOrder, Fields
<1>3. ASSUME NEW B \in {A, T}
      PROVE  /\ \A m \in Fields \ {"callback_keys", "thread_information"} :
                   Runs(t, Brief(m), B, B)
             /\ Runs(t, Inform, B, B) /\ Runs(t, Terminating, B, B)
             /\ Runs(t, Vote, B, B) /\ Runs(t, ExecuteReadOnly, B, B)
  <2>1. \A m \in Fields \ {"callback_keys", "thread_information"} : Runs(t, Brief(m), B, B)
    BY <1>1, <1>2, RunsBriefField
  <2>2. /\ Runs(t, Inform, B, B) /\ Runs(t, Terminating, B, B)
        /\ Runs(t, Brief("open_votes"), B, B) /\ Runs(t, Brief("context"), B, B)
        /\ Runs(t, Brief("status"), B, B)
    BY <2>1 DEF Inform, Terminating, Fields
  <2>3. Runs(t, Vote, B, B)
    BY <2>2, RunsBoth DEF Vote
  <2>4. Runs(t, ExecuteReadOnly, B, B)
    BY <2>2, RunsBoth DEF ExecuteReadOnly
  <2> QED
    BY <2>1, <2>2, <2>3, <2>4
<1>4. Runs(t, Brief("thread_information"), A, A)
  BY <1>1, <1>2, RunsBriefField DEF Fields
<1>5. ASSUME NEW body, Runs(t, body, T, T)
      PROVE  Runs(t, Under("thread_information", body), A, A)
  BY <1>1, <1>2, <1>5, RunsUnderField DEF Fields
<1>6. Runs(t, InSearchMode, A, A)
  <2>1. Runs(t, Brief("search_positions"), T, T)
    BY <1>3 DEF Fields
  <2> QED
    BY <2>1, <1>5 DEF InSearchMode
<1>7. Runs(t, ShouldSkipLocking, A, A)
  BY <1>3, <1>4, RunsBoth DEF ShouldSkipLocking
<1> QED
  BY <1>3, <1>4, <1>5, <1>6, <1>7

\* What else the procedures have in common
LEMMA RunsMore ==
    ASSUME LockAssumption, NEW t \in Workers, NEW A \in SUBSET Sections
    PROVE  /\ A \in SUBSET (Sections \cup {t}) /\ A \in SUBSET Mutexes
           /\ \A m \in Fields \ {"callback_keys"} : Runs(t, Brief(m), A, A)
           /\ \A body, m : /\ m \in Fields \ {"callback_keys"}
                          /\ Runs(t, body, A \cup {m}, A \cup {m})
                          => Runs(t, Under(m, body), A, A)
           /\ Runs(t, EvaluateCondition, A, A)
<1>1. /\ t \in Threads /\ t # Callback /\ t \notin Fields \cup Sections
      /\ A \in SUBSET (Sections \cup {t}) /\ A \in SUBSET Mutexes
  BY DEF LockAssumption, Threads, Mutexes, Fields
<1>2. \A m \in Fields \ {"callback_keys"} : InOrder(t, A, m)
  BY <1>1, Levels DEF InOrder, Fields
<1>3. \A m \in Fields \ {"callback_keys"} : Runs(t, Brief(m), A, A)
  BY <1>1, <1>2, RunsBriefField
<1>4. ASSUME NEW body, NEW m \in Fields \ {"callback_keys"},
             Runs(t, body, A \cup {m}, A \cup {m})
      PROVE  Runs(t, Under(m, body), A, A)
  BY <1>1, <1>2, <1>4, RunsUnderField
<1>5. Runs(t, EvaluateCondition, A, A)
  <2> DEFINE C == A \cup {"context"}
  <2>1. C \in SUBSET Mutexes /\ InOrder(t, C, "redis")
    BY <1>1, Levels DEF InOrder, Fields, Mutexes
  <2>2. Runs(t, Inform, C, C)
    BY <1>1, <2>1, RunsBriefField DEF Inform, Fields
  <2>3. Runs(t, Under("context", Inform), A, A)
    BY <1>4, <2>2 DEF Fields
  <2>4. Runs(t, Brief("thread_information"), A, A) /\ Runs(t, Inform, A, A)
    BY <1>3 DEF Inform, Fields
  <2>5. Runs(t, SetState, A, A)
    BY <1>1, RunsSetState
  <2> QED
    BY <2>3, <2>4, <2>5, RunsBoth DEF EvaluateCondition
<1> QED
  BY <1>1, <1>3, <1>4, <1>5

\* critical_do, inside of other sections.  Of a section that is entered inside
\* of itself the rest is never reached.
LEMMA RunsCriticalDo ==
    ASSUME LockAssumption, NEW t \in Workers, NEW A \in SUBSET Sections, NEW id \in Sections
    PROVE  Runs(t, CriticalDo(id), A, A)
<1> DEFINE I == A \cup {id}
           body == Lambda \o SetState \o Inform
<1>1. /\ t \in Threads /\ A \in SUBSET Mutexes /\ I \in SUBSET Sections
      /\ I \in SUBSET (Sections \cup {t}) /\ I \in SUBSET Mutexes
      /\ id \in Mutexes /\ id \notin Workers \cup Fields
  BY DEF LockAssumption, Threads, Mutexes
<1>2. Permitted(t, A, id)
  BY <1>1 DEF Permitted, InOrder, Known, LockAssumption, Fields
<1>3. Runs(t, body, I, I)
  <2>1. [op |-> "lambda"] \in Ops /\ Does(t, [op |-> "lambda"], I, I)
    BY <1>1 DEF Ops, Does
  <2>2. Runs(t, Lambda, I, I)
    BY <1>1, <2>1, RunsOne DEF Lambda
  <2>3. Runs(t, SetState, I, I) /\ Runs(t, Inform, I, I)
    BY <1>1, RunsSetState, RunsShort
  <2> QED
    BY <2>2, <2>3, RunsBoth
<1> HIDE DEF body
<1>4. Runs(t, Under(id, body), A, A)
  <2>1. CASE id \notin A
    BY <1>1, <1>2, <1>3, <2>1, RunsUnder
  <2>2. CASE id \in A
    <3>1. [op |-> "lock", mutex |-> id] \in Ops /\ [op |-> "unlock", mutex |-> id] \in Ops
      BY <1>1 DEF Ops
    <3>2. Does(t, [op |-> "lock", mutex |-> id], A, Never)
      BY <1>2, <2>2 DEF Does
    <3>3. Runs(t, Lock(id), A, Never)
      <4>1. Runs(t, <<[op |-> "lock", mutex |-> id]>>, A, Never)
        BY <1>1, <3>1, <3>2, RunsOne
      <4> QED
        BY <4>1 DEF Lock
    <3>4. body \o Unlock(id) \in Seq(Ops) /\ body \o Unlock(id) # <<>>
      <4> DEFINE u == [op |-> "unlock", mutex |-> id]
      <4>1. body \in Seq(Ops) /\ u \in Ops /\ Unlock(id) = <<u>>
        BY <1>3, <3>1 DEF Runs, Unlock
      <4> HIDE DEF u
      <4>2. /\ body \o <<u>> \in Seq(Ops) /\ Len(body \o <<u>>) = Len(body) + 1
            /\ Len(body) \in Nat
        BY <4>1
      <4>3. body \o <<u>> # <<>>
        BY <4>2
      <4> QED
        BY <4>1, <4>2, <4>3
    <3>5. Runs(t, body \o Unlock(id), Never, A)
      BY <1>1, <3>4, RunsNever
    <3>6. Runs(t, Lock(id) \o (body \o Unlock(id)), A, A)
      BY <3>3, <3>5, RunsBoth
    <3>7. Lock(id) \o (body \o Unlock(id)) = Under(id, body)
      <4>1. Lock(id) \in Seq(Ops) /\ body \in Seq(Ops) /\ Unlock(id) \in Seq(Ops)
        BY <1>3, <3>1 DEF Runs, Lock, Unlock
      <4> QED
        BY <4>1 DEF Under
    <3> QED
      BY <3>6, <3>7
  <2> QED
    BY <2>1, <2>2
<1>5. Runs(t, ShouldSkipLocking, A, A)
  BY <1>1, RunsShort
<1> QED
  BY <1>4, <1>5, RunsBoth DEF CriticalDo, body

\* The procedures that a worker runs with nothing but sections locked
LEMMA RunsProcedures ==
    ASSUME LockAssumption, NEW t \in Workers, NEW A \in SUBSET Sections,
           NEW p \in Calls \cup Outside
    PROVE  Runs(t, p, A, A)
<1> DEFINE T == A \cup {"thread_information"}
<1>1. /\ t \in Threads /\ A \in SUBSET (Sections \cup {t})
      /\ A \in SUBSET Mutexes /\ T \in SUBSET Mutexes
  BY DEF Threads, Mutexes, Fields
<1>2. /\ \A B \in {A, T} :
            /\ \A m \in Fields \ {"callback_keys", "thread_information"} : Runs(t, Brief(m), B, B)
            /\ Runs(t, Inform, B, B) /\ Runs(t, Terminating, B, B) /\ Runs(t, Vote, B, B)
      /\ Runs(t, Brief("thread_information"), A, A)
      /\ Runs(t, InSearchMode, A, A) /\ Runs(t, ShouldSkipLocking, A, A)
      /\ \A body : Runs(t, body, T, T) => Runs(t, Under("thread_information", body), A, A)
  BY <1>1, RunsShort
<1>3. /\ \A m \in {"queue", "positions", "search_positions", "context"} : Runs(t, Brief(m), T, T)
      /\ \A m \in {"loop_guard", "positions", "stop_signal_receiver"} : Runs(t, Brief(m), A, A)
      /\ Runs(t, Inform, T, T) /\ Runs(t, Terminating, T, T)
      /\ Runs(t, Inform, A, A) /\ Runs(t, Terminating, A, A) /\ Runs(t, Vote, A, A)
  BY <1>2 DEF Fields
<1>4. Runs(t, SetState, A, A) /\ Runs(t, WeelProgress, A, A)
  BY <1>1, RunsSetState, RunsWeelProgress
<1>5. Runs(t, EvaluateCondition, A, A)
  BY RunsMore
<1> HIDE DEF T
<1>6. Runs(t, Under("thread_information", Terminating), A, A)
  BY <1>2, <1>3
<1>7. Runs(t, ParallelDo, A, A)
  <2>1. Runs(t, Inform \o Terminating \o Brief("queue"), T, T)
    BY <1>3, RunsBoth
  <2>2. Runs(t, Under("thread_information", Inform \o Terminating \o Brief("queue")), A, A)
    BY <1>2, <2>1
  <2> QED
    BY <1>2, <1>3, <1>6, <2>2, RunsBoth DEF ParallelDo
<1>8. Runs(t, Spawn, A, A)
  BY <1>2, RunsBoth DEF Spawn
<1>9. Runs(t, Branch, A, A)
  <2>1. /\ Runs(t, Brief("search_positions") \o Brief("context"), T, T)
        /\ Runs(t, Terminating \o Brief("queue") \o Brief("positions") \o Inform, T, T)
    BY <1>3, RunsBoth
  <2>2. /\ Runs(t, Under("thread_information", Brief("search_positions") \o Brief("context")),
                A, A)
        /\ Runs(t, Under("thread_information",
                         Terminating \o Brief("queue") \o Brief("positions") \o Inform), A, A)
    BY <1>2, <2>1
  <2> QED
    BY <1>2, <2>2, RunsBoth DEF Branch
<1>10. Runs(t, Choose, A, A)
  BY <1>2, <1>3, <1>6, RunsBoth DEF Choose
<1>11. Runs(t, Alternative, A, A)
  BY <1>2, <1>5, RunsBoth DEF Alternative
<1>12. Runs(t, Loop, A, A)
  BY <1>2, <1>3, <1>5, RunsBoth DEF Loop
<1>13. Runs(t, StopHere, A, A)
  BY <1>2, <1>4, <1>6, RunsBoth DEF StopHere
<1>14. Runs(t, Start, A, A)
  <2> DEFINE S == A \cup {"state"}
  <2>1. S \in SUBSET Mutexes /\ InOrder(t, S, "positions") /\ InOrder(t, S, "redis")
    BY <1>1, Levels DEF InOrder, Mutexes, Fields
  <2>2. Runs(t, Brief("positions"), S, S) /\ Runs(t, Inform, S, S)
    BY <1>1, <2>1, RunsBriefField DEF Inform, Fields
  <2>3. Runs(t, Brief("positions") \o Inform, S, S)
    BY <2>2, RunsBoth
  <2>4. Runs(t, Under("state", Brief("positions") \o Inform), A, A)
    BY <2>3, RunsMore DEF Fields
  <2> QED
    BY <1>3, <1>4, <2>4, RunsBoth DEF Start
<1>15. Runs(t, StopWeel, A, A)
  <2> DEFINE R == A \cup {"redis"}
  <2>1. R \in SUBSET Mutexes /\ InOrder(t, R, "open_votes")
    BY <1>1, Levels DEF InOrder, Mutexes, Fields
  <2>2. Runs(t, Brief("open_votes"), R, R)
    BY <1>1, <2>1, RunsBriefField DEF Fields
  <2>3. Runs(t, Under("redis", Brief("open_votes")), A, A)
    BY <2>2, RunsMore DEF Fields
  <2> QED
    BY <1>3, <1>4, <2>3, RunsBoth DEF StopWeel
<1>16. \A id \in Sections : Runs(t, CriticalDo(id), A, A)
  BY RunsCriticalDo
<1> QED
  BY <1>7, <1>8, <1>9, <1>10, <1>11, <1>12, <1>13, <1>14, <1>15, <1>16 DEF Calls, Outside

\* An activity: the wrapper is locked with thread_information locked, and
\* stays locked when that is released.
LEMMA RunsActivity ==
    ASSUME LockAssumption, NEW t \in Workers, NEW A \in SUBSET Sections
    PROVE  Runs(t, Activity(t), A, A)
<1> DEFINE W == A \cup {t}
           T == A \cup {"thread_information"}
           WT == W \cup {"thread_information"}
<1>1. /\ t \in Threads /\ t \in Mutexes /\ t # Callback /\ t \notin Fields \cup Sections
      /\ A \in SUBSET (Sections \cup {t}) /\ W \in SUBSET (Sections \cup {t})
      /\ A \in SUBSET Mutexes /\ T \in SUBSET Mutexes
      /\ W \in SUBSET Mutexes /\ WT \in SUBSET Mutexes /\ "thread_information" \in Mutexes
      /\ WT = T \cup {t} /\ t \notin A /\ t \notin T /\ "thread_information" \notin A
      /\ W = WT \ {"thread_information"} /\ A = W \ {t} /\ A = T \ {"thread_information"}
      /\ "callback_keys" \notin W
  BY DEF LockAssumption, Threads, Mutexes, Fields
<1>2. /\ \A X \in {A, W} : \A B \in {X, X \cup {"thread_information"}} :
            /\ \A m \in Fields \ {"callback_keys", "thread_information"} : Runs(t, Brief(m), B, B)
            /\ Runs(t, Inform, B, B) /\ Runs(t, Terminating, B, B) /\ Runs(t, Vote, B, B)
            /\ Runs(t, ExecuteReadOnly, B, B)
      /\ \A X \in {A, W} : \A body :
            Runs(t, body, X \cup {"thread_information"}, X \cup {"thread_information"})
            => Runs(t, Under("thread_information", body), X, X)
      /\ Runs(t, InSearchMode, A, A)
  <2>1. ASSUME NEW X \in {A, W}
        PROVE  /\ \A B \in {X, X \cup {"thread_information"}} :
                     /\ \A m \in Fields \ {"callback_keys", "thread_information"} :
                           Runs(t, Brief(m), B, B)
                     /\ Runs(t, Inform, B, B) /\ Runs(t, Terminating, B, B)
                     /\ Runs(t, Vote, B, B) /\ Runs(t, ExecuteReadOnly, B, B)
               /\ Runs(t, InSearchMode, X, X)
               /\ \A body :
                     Runs(t, body, X \cup {"thread_information"}, X \cup {"thread_information"})
                     => Runs(t, Under("thread_information", body), X, X)
    <3>1. X \in SUBSET (Sections \cup {t})
      BY <1>1
    <3> HIDE DEF W
    <3> QED
      BY <3>1, RunsShort
  <2> QED
    BY <2>1
<1>3. /\ Runs(t, Inform, W, W) /\ Runs(t, Terminating, W, W) /\ Runs(t, Vote, W, W)
      /\ Runs(t, Brief("positions"), W, W) /\ Runs(t, Brief("queue"), W, W)
      /\ Runs(t, Brief("queue"), A, A)
      /\ Runs(t, Terminating, T, T)
      /\ Runs(t, Inform, WT, WT) /\ Runs(t, Terminating, WT, WT)
      /\ Runs(t, Brief("queue"), WT, WT)
      /\ Runs(t, ExecuteReadOnly, WT, WT) /\ Runs(t, ExecuteReadOnly, W, W)
      /\ Runs(t, Terminating, A, A)
  BY <1>1, <1>2 DEF Fields
<1>4. /\ \A body : Runs(t, body, T, T) => Runs(t, Under("thread_information", body), A, A)
      /\ \A body : Runs(t, body, WT, WT) => Runs(t, Under("thread_information", body), W, W)
  BY <1>1, <1>2
<1>5. Runs(t, SetState, W, W) /\ Runs(t, WeelProgress, W, W)
  BY <1>1, RunsSetState, RunsWeelProgress
<1>6. /\ InOrder(t, A, "thread_information") /\ InOrder(t, A, t) /\ InOrder(t, T, t)
      /\ InOrder(t, W, "evaluation")
  BY <1>1, Levels DEF InOrder, Level, LockAssumption, Fields
<1>7. /\ Permitted(t, A, "thread_information") /\ Permitted(t, A, t) /\ Permitted(t, T, t)
      /\ Permitted(t, W, "callback_keys")
  BY <1>1, <1>6 DEF Permitted, Known, LockAssumption, Fields
<1>8. /\ Runs(t, Lock("thread_information"), A, T) /\ Runs(t, Lock(t), A, W)
      /\ Runs(t, Lock(t), T, WT) /\ Runs(t, Unlock("thread_information"), WT, W)
      /\ Runs(t, Unlock(t), W, A)
  BY <1>1, <1>7, RunsLock, RunsUnlock
<1>9. \A body : Runs(t, body, W, W) => Runs(t, Under(t, body), A, A)
  BY <1>1, <1>7, RunsUnder
<1> HIDE DEF W, T, WT
<1>10. Runs(t, Prepare(t), A, A)
  <2>1. Runs(t, InSearchMode \o Lock("thread_information") \o Terminating
                \o Lock(t) \o Unlock("thread_information") \o WeelProgress \o Unlock(t), A, A)
    BY <1>2, <1>3, <1>5, <1>8, RunsBoth
  <2> QED
    BY <1>3, <1>8, <2>1, RunsBoth DEF Prepare
<1>11. Runs(t, Handle(t), A, A)
  <2> DEFINE K == W \cup {"callback_keys"}
  <2>1. K \in SUBSET Mutexes /\ "callback_keys" \in Mutexes
    BY <1>1 DEF Mutexes, Fields
  <2>2. Register(t) = <<[op |-> "register", mutex |-> t]>> /\ [op |-> "register", mutex |-> t] \in Ops
    BY <1>1 DEF Register, Ops
  <2>3. Does(t, [op |-> "register", mutex |-> t], K, K)
    BY DEF Does
  <2>4. Runs(t, Register(t), K, K)
    BY <2>1, <2>2, <2>3, RunsOne
  <2>5. Runs(t, Under("callback_keys", Register(t)), W, W)
    BY <1>1, <1>7, <2>1, <2>4, RunsUnder
  <2>6. Runs(t, RegisterCallback(t), W, W)
    BY <1>3, <2>5, RunsBoth DEF RegisterCallback
  <2>7. Runs(t, HandleCallback, W, W)
    BY <1>3, RunsBoth DEF HandleCallback
  <2>8. Runs(t, RegisterCallback(t) \o RegisterCallback(t) \o HandleCallback, W, W)
    BY <2>6, <2>7, RunsBoth
  <2> QED
    BY <1>9, <2>8 DEF Handle
<1>12. Runs(t, React(t), A, A)
  <2> DEFINE E == W \cup {"evaluation"}
  <2>1. E \in SUBSET Mutexes
    BY <1>1 DEF Mutexes, Fields
  <2>2. InOrder(t, E, "context") /\ InOrder(t, E, "status")
    BY <1>1, Levels DEF InOrder, Fields, W
  <2>3. Runs(t, Brief("context"), E, E) /\ Runs(t, Brief("status"), E, E)
    BY <1>1, <2>1, <2>2, RunsBriefField DEF Fields
  <2>4. Runs(t, ExecuteReadOnly, E, E)
    BY <2>3, RunsBoth DEF ExecuteReadOnly
  <2>5. Runs(t, ExecuteCode, W, W)
    BY <1>1, <1>6, <2>4, RunsUnderField DEF ExecuteCode, Fields
  <2>6. Runs(t, Under("thread_information", Terminating), A, A)
    BY <1>3, <1>4
  <2>7. Runs(t, Under("thread_information", Terminating) \o Brief("queue")
                \o Lock("thread_information") \o Lock(t) \o Unlock("thread_information"), A, W)
    BY <1>3, <1>8, <2>6, RunsBoth
  <2> QED
    BY <1>3, <1>8, <2>5, <2>6, <2>7, RunsBoth DEF React
<1>13. Runs(t, Leave(t), A, A)
  <2>1. /\ Runs(t, Under("thread_information", Inform), W, W)
        /\ Runs(t, Under("thread_information", Terminating \o Brief("queue")), W, W)
    BY <1>3, <1>4, RunsBoth
  <2>2. Runs(t, Terminating \o Vote \o SetState
                \o Brief("positions") \o Under("thread_information", Inform)
                \o Under("thread_information", Terminating \o Brief("queue")), W, W)
    BY <1>3, <1>5, <2>1, RunsBoth
  <2> QED
    BY <1>9, <2>2 DEF Leave
<1> QED
  BY <1>10, <1>11, <1>12, <1>13, RunsBoth DEF Activity

\* The callback thread
LEMMA RunsCallback ==
    ASSUME LockAssumption
    PROVE  /\ Runs(Callback, Brief("callback_keys"), {}, {})
           /\ \A w \in Workers : Runs(Callback, Answer(w), {}, {})
<1> DEFINE K == {} \cup {"callback_keys"}
<1>1. /\ Callback \in Threads /\ Callback \notin Workers /\ "callback_keys" \in Mutexes
      /\ {} \in SUBSET Mutexes /\ K \in SUBSET Mutexes
  BY DEF LockAssumption, Threads, Mutexes, Fields
<1>2. Permitted(Callback, {}, "callback_keys")
  BY DEF Permitted, InOrder, LockAssumption, Fields
<1>3. Runs(Callback, Brief("callback_keys"), {}, {})
  BY <1>1, <1>2, RunsBrief
<1>4. ASSUME NEW w \in Workers
      PROVE  Runs(Callback, Answer(w), {}, {})
  <2> DEFINE KW == K \cup {w}
  <2>1. w \in Mutexes /\ w \notin Fields /\ w \notin K /\ KW \in SUBSET Mutexes
    BY <1>1 DEF LockAssumption, Mutexes, Fields
  <2>2. Level(Callback, w) = 1
    BY <2>1 DEF Level, Fields
  <2>3. Permitted(Callback, K, w)
    BY <2>1, <2>2, <1>1, Levels DEF Permitted, InOrder, Fields
  <2>4. InOrder(Callback, KW, "redis") /\ InOrder(Callback, KW, "queue")
    BY <1>1, <2>1, Levels DEF InOrder, Fields
  <2>5. Runs(Callback, Inform, KW, KW) /\ Runs(Callback, Brief("queue"), KW, KW)
    BY <1>1, <2>1, <2>4, RunsBriefField DEF Inform, Fields
  <2>6. Runs(Callback, HandleCallback, KW, KW)
    BY <2>5, RunsBoth DEF HandleCallback
  <2>7. Runs(Callback, Under(w, HandleCallback), K, K)
    BY <1>1, <2>1, <2>3, <2>6, RunsUnder
  <2> QED
    BY <1>1, <1>2, <2>7, RunsUnder DEF Answer
<1> QED
  BY <1>3, <1>4
-----------------------------------------------------------------------------
\* A thread that may call a procedure holds nothing but sections.
LEMMA CallersHoldSections ==
    ASSUME LInv, NEW t \in Threads, MayCall(t)
    PROVE  Held(t) \in SUBSET Sections /\ (Idle(t) => Held(t) = {})
<1>1. CASE Idle(t)
  <2>1. Runs(t, <<>>, Held(t), {})
    BY <1>1 DEF LInv, Idle
  <2>2. Held(t) = {}
    BY <2>1 DEF Runs
  <2> QED
    BY <2>2
<1>2. CASE ~Idle(t)
  <2>1. /\ Head(todo[t]) \in Ops /\ Head(todo[t]).op = "lambda"
        /\ \E C : Does(t, Head(todo[t]), Held(t), C)
    BY <1>2, RunsFirst DEF LInv, Idle, MayCall
  <2>2. Held(t) # Never
    BY NeverIsNoSet DEF Held
  <2> QED
    BY <1>2, <2>1, <2>2 DEF Does
<1> QED
  BY <1>1, <1>2

LEMMA InitLInv == LockAssumption /\ Init => LInv
<1> SUFFICES ASSUME LockAssumption, Init PROVE LInv
  OBVIOUS
<1>1. TypeOK /\ OwnWrapper
  BY DEF Init, TypeOK, OwnWrapper, Mutexes
<1>2. \A t \in Threads : Held(t) = {} /\ todo[t] = <<>>
  BY DEF Init, Held, LockAssumption
<1> QED
  BY <1>1, <1>2, RunsNothing DEF LInv

\* A thread begins a procedure, before the rest of the one that it is in.
LEMMA BeginKeeps ==
    ASSUME LockAssumption, LInv, NEW t \in Threads, NEW p, Run(t, p),
           Runs(t, p, Held(t), Held(t)), UNCHANGED <<owner, registered>>, begun' \subseteq Workers
    PROVE  LInv'
<1>1. Runs(t, p \o todo[t], Held(t), {})
  BY RunsBoth DEF LInv
<1>2. todo' = [todo EXCEPT ![t] = p \o todo[t]] /\ p \o todo[t] \in Seq(Ops)
  BY <1>1 DEF Run, Runs
<1>3. TypeOK' /\ OwnWrapper'
  BY <1>2 DEF LInv, TypeOK, OwnWrapper
<1>4. \A x \in Threads : Held(x)' = Held(x)
  BY DEF Held
<1>5. ASSUME NEW x \in Threads PROVE Runs(x, todo'[x], Held(x)', {})
  <2>1. CASE x = t
    <3>1. todo'[x] = p \o todo[t]
      BY <1>2, <2>1 DEF LInv, TypeOK
    <3> QED
      BY <1>1, <1>4, <2>1, <3>1
  <2>2. CASE x # t
    <3>1. todo'[x] = todo[x]
      BY <1>2, <2>2 DEF LInv, TypeOK
    <3> QED
      BY <1>4, <3>1 DEF LInv
  <2> QED
    BY <2>1, <2>2
<1> QED
  BY <1>3, <1>5 DEF LInv

\* A thread takes one step of its procedure.
LEMMA StepKeeps ==
    ASSUME LockAssumption, LInv, NEW t \in Threads, Step(t)
    PROVE  LInv'
<1> DEFINE o == Head(todo[t])
<1>1. /\ todo[t] # <<>> /\ todo' = [todo EXCEPT ![t] = Tail(todo[t])]
      /\ begun' = begun
  BY DEF Step, Idle
<1>2. /\ o \in Ops /\ Tail(todo[t]) \in Seq(Ops)
      /\ \E C : Does(t, o, Held(t), C) /\ Runs(t, Tail(todo[t]), C, {})
  BY <1>1, RunsFirst DEF LInv
<1>3. PICK C : Does(t, o, Held(t), C) /\ Runs(t, Tail(todo[t]), C, {})
  BY <1>2
<1>4. /\ o.op # "lambda" => o.mutex \in Mutexes
      /\ t # Nobody /\ Held(t) # Never
  BY <1>2, NeverIsNoSet DEF Ops, LockAssumption, Held
<1>5. /\ Held(t)' = C
      /\ \A x \in Threads \ {t} : Held(x)' = Held(x)
      /\ owner' \in [Mutexes -> Threads \cup {Nobody}]
      /\ OwnWrapper'
      /\ registered' \subseteq Workers
  <2>1. CASE o.op = "lock"
    <3>1. /\ owner[o.mutex] = Nobody /\ owner' = [owner EXCEPT ![o.mutex] = t]
          /\ registered' = registered
      BY <2>1 DEF Step
    <3>2. C = Held(t) \cup {o.mutex} /\ Permitted(t, Held(t), o.mutex)
      BY <1>3, <1>4, <2>1, <3>1 DEF Does, Held
    <3>3. OwnWrapper'
      BY <2>1, <3>1, <3>2, <1>4 DEF LInv, TypeOK, OwnWrapper, Permitted
    <3> QED
      BY <1>4, <2>1, <3>1, <3>2, <3>3 DEF Held, LInv, TypeOK, LockAssumption
  <2>2. CASE o.op = "unlock"
    <3>1. owner' = [owner EXCEPT ![o.mutex] = Nobody] /\ registered' = registered
      BY <2>2 DEF Step
    <3>2. C = Held(t) \ {o.mutex} /\ o.mutex \in Held(t)
      BY <1>3, <1>4, <2>2 DEF Does
    <3>3. OwnWrapper'
      BY <2>2, <3>1, <1>4 DEF LInv, TypeOK, OwnWrapper
    <3> QED
      BY <1>4, <2>2, <3>1, <3>2, <3>3 DEF Held, LInv, TypeOK, LockAssumption
  <2>3. CASE o.op = "register"
    <3>1. owner' = owner /\ registered' = registered \cup {o.mutex}
      BY <2>3 DEF Step
    <3>2. C = Held(t) /\ o.mutex \in Workers
      BY <1>3, <1>4, <2>3 DEF Does
    <3> QED
      BY <3>1, <3>2 DEF Held, LInv, TypeOK, OwnWrapper
  <2>4. CASE o.op \in {"brief", "lambda"}
    <3>1. owner' = owner /\ registered' = registered
      BY <2>4 DEF Step
    <3>2. C = Held(t)
      BY <1>3, <1>4, <2>4 DEF Does
    <3> QED
      BY <3>1, <3>2 DEF Held, LInv, TypeOK, OwnWrapper
  <2> QED
    BY <1>2, <2>1, <2>2, <2>3, <2>4 DEF Ops
<1>6. TypeOK'
  BY <1>1, <1>2, <1>5 DEF LInv, TypeOK
<1>7. ASSUME NEW x \in Threads PROVE Runs(x, todo'[x], Held(x)', {})
  <2>1. CASE x = t
    <3>1. todo'[x] = Tail(todo[t])
      BY <1>1, <2>1 DEF LInv, TypeOK
    <3> QED
      BY <1>3, <1>5, <2>1, <3>1
  <2>2. CASE x # t
    <3>1. todo'[x] = todo[x]
      BY <1>1, <2>2 DEF LInv, TypeOK
    <3> QED
      BY <1>5, <2>2, <3>1 DEF LInv
  <2> QED
    BY <2>1, <2>2
<1> QED
  BY <1>5, <1>6, <1>7 DEF LInv

LEMMA NextLInv == LockAssumption /\ LInv /\ [Next]_vars => LInv'
<1> SUFFICES ASSUME LockAssumption, LInv, [Next]_vars PROVE LInv'
  OBVIOUS
<1>1. ASSUME NEW t \in Workers, Begin(t) PROVE LInv'
  <2>1. /\ t \in Threads /\ Run(t, Activity(t)) /\ UNCHANGED <<owner, registered>>
        /\ MayCall(t) /\ begun' \subseteq Workers
    BY <1>1 DEF Begin, Threads, LInv, TypeOK
  <2>2. Runs(t, Activity(t), Held(t), Held(t))
    BY <2>1, CallersHoldSections, RunsActivity
  <2> QED
    BY <2>1, <2>2, BeginKeeps
<1>2. ASSUME NEW t \in Workers, Call(t) \/ Work(t) PROVE LInv'
  <2>1. PICK p \in Calls \cup Outside : Run(t, p) /\ MayCall(t)
    BY <1>2 DEF Call, Work, MayCall
  <2>2. t \in Threads /\ UNCHANGED <<owner, registered>> /\ begun' \subseteq Workers
    BY <1>2 DEF Call, Work, Threads, LInv, TypeOK
  <2>3. Runs(t, p, Held(t), Held(t))
    BY <2>1, <2>2, CallersHoldSections, RunsProcedures
  <2> QED
    BY <2>1, <2>2, <2>3, BeginKeeps
<1>3. CASE Listen
  <2>1. /\ Callback \in Threads /\ UNCHANGED <<owner, registered>> /\ begun' \subseteq Workers
        /\ Idle(Callback) /\ MayCall(Callback)
    BY <1>3 DEF Listen, Threads, MayCall, LInv, TypeOK
  <2>2. \/ Run(Callback, Brief("callback_keys"))
        \/ \E w \in Workers : Run(Callback, Answer(w))
    BY <1>3 DEF Listen, LInv, TypeOK
  <2>3. Held(Callback) = {}
    BY <2>1, CallersHoldSections
  <2> QED
    BY <2>1, <2>2, <2>3, RunsCallback, BeginKeeps
<1>4. CASE UNCHANGED vars
  <2>1. \A x \in Threads : Held(x)' = Held(x)
    BY <1>4 DEF Held, vars
  <2> QED
    BY <1>4, <2>1 DEF LInv, TypeOK, OwnWrapper, vars
<1> QED
  BY <1>1, <1>2, <1>3, <1>4, StepKeeps DEF Next

\* The rest of every thread's program fits what it holds, for any number of
\* workers.
THEOREM ProgramsFit == Spec => []LInv
BY LockAssumption, InitLInv, NextLInv, PTL DEF Spec
-----------------------------------------------------------------------------
\* What a thread waits for is permitted.
LEMMA WaitsArePermitted ==
    ASSUME LInv, NEW t \in Threads, NEW m, WaitsFor(t, m)
    PROVE  m \in Mutexes /\ Permitted(t, Held(t), m)
<1>1. todo[t] # <<>> /\ Head(todo[t]).op \in {"lock", "brief"} /\ Head(todo[t]).mutex = m
  BY DEF WaitsFor, Idle
<1>2. /\ Head(todo[t]) \in Ops
      /\ \E C : Does(t, Head(todo[t]), Held(t), C) /\ Runs(t, Tail(todo[t]), C, {})
  BY <1>1, RunsFirst DEF LInv
<1>3. Held(t) # Never
  BY NeverIsNoSet DEF Held
<1> QED
  BY <1>1, <1>2, <1>3 DEF Does, Ops

\* Who waits is at a lower level than who holds what it waits for.
LEMMA LevelsRise ==
    ASSUME LockAssumption, LInv, NEW t \in Threads, NEW m, WaitsFor(t, m),
           owner[m] \in Threads, NEW n, WaitsFor(owner[m], n),
           ~WakesWithState(owner[m]), ~RegistersAgain(owner[m]), ~NestsSections(owner[m])
    PROVE  /\ Level(t, m) \in 0 .. 7 /\ Level(owner[m], n) \in 0 .. 7
           /\ Level(t, m) < Level(owner[m], n)
<1> DEFINE h == owner[m]
<1>1. /\ m \in Mutexes /\ Permitted(t, Held(t), m)
      /\ n \in Mutexes /\ Permitted(h, Held(h), n)
  BY WaitsArePermitted
<1>2. m \in Held(h) /\ (m \notin Sections => h # t)
  BY <1>1 DEF Held, Permitted
<1>3. ~Known(h, Held(h), n)
  BY <1>1 DEF Known, Held, WakesWithState, RegistersAgain, NestsSections
<1>4. Blocks(h, m) < Level(h, n)
  BY <1>1, <1>2, <1>3 DEF Permitted, InOrder
<1>5. Level(t, m) \in 0 .. 7 /\ Level(h, n) \in 0 .. 7
  BY <1>1 DEF Level, Mutexes, Fields, LockAssumption
<1>6. Blocks(h, m) \in 0 .. 8 /\ Level(t, m) <= Blocks(h, m)
  <2>1. CASE m = "callback_keys"
    BY <2>1 DEF Level, Blocks, LockAssumption, Fields
  <2>2. CASE m \in Workers
    <3>1. m \notin Fields
      BY <2>2 DEF LockAssumption
    <3>2. CASE h = Callback
      BY <2>2, <3>1, <3>2 DEF Level, Blocks, Fields
    <3>3. CASE h # Callback
      <4>1. h = m
        BY <2>2, <3>3 DEF LInv, OwnWrapper, LockAssumption
      <4>2. t = Callback
        BY <1>1, <1>2, <2>2, <4>1 DEF Permitted
      <4> QED
        BY <2>2, <3>1, <3>3, <4>2 DEF Level, Blocks, Fields
    <3> QED
      BY <3>2, <3>3
  <2>3. CASE m \in Fields \ {"callback_keys"}
    <3>1. Blocks(h, m) = Level(h, m)
      BY <2>3, Levels
    <3>2. Level(h, m) = Level(t, m)
      BY <2>3 DEF Level, LockAssumption
    <3> QED
      BY <1>5, <3>1, <3>2
  <2>4. CASE m \in Sections
    BY <2>4 DEF Level, Blocks, LockAssumption, Fields
  <2> QED
    BY <1>1, <2>1, <2>2, <2>3, <2>4 DEF Mutexes
<1> QED
  BY <1>4, <1>5, <1>6

\* However many threads and sections there are, they wait for each other in a
\* circle only if one is inside of set_state, registers a callback again
\* (weel_activity) or nests the sections of critical_do: all other nestings of
\* mutexes, those inside of a section included, are in the order of the levels.
THEOREM NoOtherCircles == Spec => []OnlyKnownCircles
<1>1. ASSUME LInv PROVE OnlyKnownCircles
  <2> SUFFICES ASSUME NEW S \in SUBSET Threads, CircularWait(S),
                      \A t \in S : /\ ~WakesWithState(t) /\ ~RegistersAgain(t)
                                 /\ ~NestsSections(t)
               PROVE  FALSE
    BY DEF OnlyKnownCircles
  <2> DEFINE Stuck(k) == \E t \in S, m \in Mutexes :
                             WaitsFor(t, m) /\ owner[m] \in S /\ k <= Level(t, m)
  <2>1. Stuck(0)
    <3>1. PICK t \in S : TRUE
      BY DEF CircularWait
    <3>2. PICK m \in Mutexes : WaitsFor(t, m) /\ owner[m] \in S
      BY DEF CircularWait
    <3>3. PICK n \in Mutexes : WaitsFor(owner[m], n) /\ owner[n] \in S
      BY <3>2 DEF CircularWait
    <3>4. Level(t, m) \in 0 .. 7
      BY <1>1, <3>2, <3>3, LockAssumption, LevelsRise
    <3> QED
      BY <3>2, <3>4
  <2>2. ASSUME NEW k \in Nat, Stuck(k) PROVE Stuck(k + 1) /\ k <= 7
    <3>1. PICK t \in S, m \in Mutexes : WaitsFor(t, m) /\ owner[m] \in S /\ k <= Level(t, m)
      BY <2>2
    <3>2. PICK n \in Mutexes : WaitsFor(owner[m], n) /\ owner[n] \in S
      BY <3>1 DEF CircularWait
    <3>3. /\ Level(t, m) \in 0 .. 7 /\ Level(owner[m], n) \in 0 .. 7
          /\ Level(t, m) < Level(owner[m], n)
      BY <1>1, <3>1, <3>2, LockAssumption, LevelsRise
    <3>4. k + 1 <= Level(owner[m], n) /\ k <= 7
      BY <3>1, <3>3
    <3> QED
      BY <3>1, <3>2, <3>4
  <2> HIDE DEF Stuck
  <2>3. Stuck(1) /\ Stuck(2) /\ Stuck(3) /\ Stuck(4)
    <3>1. Stuck(0 + 1)
      BY <2>1, <2>2
    <3>2. Stuck(1 + 1)
      BY <2>2, <3>1
    <3>3. Stuck(2 + 1)
      BY <2>2, <3>2
    <3>4. Stuck(3 + 1)
      BY <2>2, <3>3
    <3> QED
      BY <3>1, <3>2, <3>3, <3>4
  <2>4. Stuck(5) /\ Stuck(6) /\ Stuck(7) /\ Stuck(8)
    <3>1. Stuck(4 + 1)
      BY <2>2, <2>3
    <3>2. Stuck(5 + 1)
      BY <2>2, <3>1
    <3>3. Stuck(6 + 1)
      BY <2>2, <3>2
    <3>4. Stuck(7 + 1)
      BY <2>2, <3>3
    <3> QED
      BY <3>1, <3>2, <3>3, <3>4
  <2> QED
    BY <2>2, <2>4
<1> QED
  BY <1>1, ProgramsFit, PTL
=============================================================================
