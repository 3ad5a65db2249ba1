-------------------------- MODULE EvaluationProofs --------------------------
(***************************************************************************)
(* Proofs about Evaluation: EVALUATION_LOCK keeps the copies that code of  *)
(* activities gets current, so that evaluations are atomic changes of the  *)
(* context; the lock of the context does the same for conditions; and what *)
(* prepare code changes stays local.                                       *)
(***************************************************************************)
EXTENDS Evaluation, TLAPS

\* Step, its disjuncts apart
Steps(t) ==
    \/ BeginCode(t) \/ BeginPrepare(t) \/ BeginCondition(t)
    \/ CopyContext(t) \/ CopyStatus(t)
    \/ \E S \in SUBSET Fields : Evaluated(t, S)
    \/ \E S \in SUBSET Fields : SaysAgain(t, S)
    \/ Fails(t)
    \/ ApplyContext(t) \/ ApplyStatus(t)
    \/ \E f \in Fields : Tell(t, f)
    \/ EndTelling(t) \/ Merge(t) \/ Decide(t)

LEMMA StepCases ==
    ASSUME [Next]_vars
    PROVE  (\E t \in Threads : Steps(t)) \/ UNCHANGED vars
BY DEF Next, Step, Steps, Done

LEMMA Numbers == MaxRuns \in Nat /\ NoThread \notin Threads
BY EvaluationAssumption

LEMMA CurrentIsEvaluation ==
    ASSUME runs \in [Threads -> 0 .. MaxRuns], NEW t \in Threads, runs[t] > 0
    PROVE  Current(t) \in Evaluations
BY Numbers DEF Current, Evaluations

\* Where a thread evaluates something
Busy == {"copyContext", "copyStatus", "request", "applyContext", "applyStatus", "tell",
         "merge", "condition"}

\* A thread that evaluates has begun an evaluation.
HasBegun == \A t \in Threads : pc[t] # "idle" => runs[t] > 0

Types == TypeOK /\ HasBegun

LEMMA TypesInit == Init => Types
BY Numbers DEF Init, Types, TypeOK, HasBegun, Nothing, Fields

USE Numbers DEF Fields, ContextFields

LEMMA TypesNext ==
    ASSUME Types, [Next]_vars
    PROVE  Types'
<1> USE DEF Types, TypeOK, HasBegun, locks, history, Go, Begin, Forget, CopyFields, Unlock
<1>1. ASSUME NEW t \in Threads, BeginCode(t) PROVE Types'
  BY <1>1 DEF BeginCode
<1>2. ASSUME NEW t \in Threads, BeginPrepare(t) PROVE Types'
  <2>1. <<t, runs'[t]>> \in Evaluations
    BY <1>2 DEF BeginPrepare, Evaluations
  <2>2. readOnly' \subseteq Evaluations
    BY <1>2, <2>1 DEF BeginPrepare
  <2>3. UNCHANGED <<store, locks, copy, changed, untold, told, past, repeated>>
    BY <1>2 DEF BeginPrepare
  <2>4. Begin(t, "prepare", "copyContext")
    BY <1>2 DEF BeginPrepare
  <2>5. HasBegun'
    BY <2>4
  <2> QED BY <2>2, <2>3, <2>4, <2>5
<1>3. ASSUME NEW t \in Threads, BeginCondition(t) PROVE Types'
  BY <1>3 DEF BeginCondition
<1>4. ASSUME NEW t \in Threads, CopyContext(t) PROVE Types'
  BY <1>4 DEF CopyContext
<1>5. ASSUME NEW t \in Threads, CopyStatus(t) PROVE Types'
  BY <1>5 DEF CopyStatus
<1>6. ASSUME NEW t \in Threads, NEW S \in SUBSET Fields, Evaluated(t, S) PROVE Types'
  BY <1>6 DEF Evaluated
<1>7. ASSUME NEW t \in Threads, NEW S \in SUBSET Fields, SaysAgain(t, S) PROVE Types'
  <2>1. Current(t) \in Evaluations
    BY <1>7, CurrentIsEvaluation DEF SaysAgain
  <2> QED BY <1>7, <2>1 DEF SaysAgain
<1>8. ASSUME NEW t \in Threads, Fails(t) PROVE Types'
  BY <1>8 DEF Fails, Nothing
<1>9. ASSUME NEW t \in Threads, ApplyContext(t) PROVE Types'
  <2>1. Current(t) \in Evaluations
    BY <1>9, CurrentIsEvaluation DEF ApplyContext
  <2> QED BY <1>9, <2>1 DEF ApplyContext, Changed
<1>10. ASSUME NEW t \in Threads, ApplyStatus(t) PROVE Types'
  <2>1. Current(t) \in Evaluations
    BY <1>10, CurrentIsEvaluation DEF ApplyStatus
  <2> QED BY <1>10, <2>1 DEF ApplyStatus, Changed
<1>11. ASSUME NEW t \in Threads, NEW f \in Fields, Tell(t, f) PROVE Types'
  <2>1. Current(t) \in Evaluations
    BY <1>11, CurrentIsEvaluation DEF Tell
  <2> QED BY <1>11, <2>1 DEF Tell, Changed
<1>12. ASSUME NEW t \in Threads, EndTelling(t) PROVE Types'
  BY <1>12 DEF EndTelling, Nothing
<1>13. ASSUME NEW t \in Threads, Merge(t) PROVE Types'
  BY <1>13 DEF Merge, Nothing
<1>14. ASSUME NEW t \in Threads, Decide(t) PROVE Types'
  BY <1>14 DEF Decide, Nothing
<1>15. CASE UNCHANGED vars
  BY <1>15 DEF vars
<1> QED BY <1>1, <1>2, <1>3, <1>4, <1>5, <1>6, <1>7, <1>8, <1>9, <1>10, <1>11, <1>12,
           <1>13, <1>14, <1>15, StepCases DEF Steps

-----------------------------------------------------------------------------
\* Evaluations that have begun
Begun == {e \in Evaluations : e[2] <= runs[e[1]]}

\* Code of an activity that has not been applied yet
Unapplied == {"copyContext", "copyStatus", "request", "applyContext"}

\* EVALUATION_LOCK is held by whoever evaluates the code of an activity, and the lock of
\* the context by whoever evaluates a condition.
Locks ==
    \A t \in Threads :
        /\ ~IsReadOnly(t) /\ pc[t] \in Unapplied \cup {"applyStatus"} => evaluationLock = t
        /\ pc[t] = "condition" => contextLock = t
        /\ pc[t] \in {"applyContext", "applyStatus", "tell"} => ~IsReadOnly(t)
        /\ pc[t] = "merge" => IsReadOnly(t)

\* An evaluation that has not begun is neither prepare code nor applied.
Fresh ==
    /\ readOnly \subseteq Begun
    /\ past \subseteq Begun
    /\ \A t \in Threads : pc[t] \in Unapplied => Current(t) \notin past

LEMMA FreshIsNew ==
    ASSUME Types, Fresh, NEW t \in Threads, NEW kind, NEW to, Begin(t, kind, to)
    PROVE  /\ <<t, runs'[t]>> \in Evaluations
           /\ <<t, runs'[t]>> \notin Begun
           /\ Begun \subseteq Begun'
           /\ <<t, runs'[t]>> \in Begun'
           /\ \A u \in Threads : u # t => Current(u)' = Current(u) /\ pc'[u] = pc[u]
           /\ Current(t)' = <<t, runs'[t]>>
BY DEF Types, TypeOK, Begin, Go, Evaluations, Begun, Current

\* Steps in which no evaluation begins
LEMMA CurrentStays ==
    ASSUME UNCHANGED runs
    PROVE  Begun' = Begun /\ \A t \in Threads : Current(t)' = Current(t)
BY DEF Begun, Current

LEMMA FreshNext ==
    ASSUME Types, Locks, Fresh, [Next]_vars
    PROVE  Fresh'
<1> USE DEF Fresh, Unapplied, locks, history
<1>1. ASSUME NEW t \in Threads, BeginCode(t) PROVE Fresh'
  <2>1. Begin(t, "code", "copyContext") /\ UNCHANGED <<readOnly, past>>
    BY <1>1 DEF BeginCode
  <2> QED BY <2>1, FreshIsNew
<1>2. ASSUME NEW t \in Threads, BeginPrepare(t) PROVE Fresh'
  <2>1. /\ Begin(t, "prepare", "copyContext") /\ UNCHANGED past
        /\ readOnly' = readOnly \cup {<<t, runs'[t]>>}
    BY <1>2 DEF BeginPrepare
  <2> QED BY <2>1, FreshIsNew
<1>3. ASSUME NEW t \in Threads, BeginCondition(t) PROVE Fresh'
  <2>1. Begin(t, "condition", "condition") /\ UNCHANGED <<readOnly, past>>
    BY <1>3 DEF BeginCondition
  <2> QED BY <2>1, FreshIsNew
<1>4. ASSUME NEW t \in Threads, ApplyContext(t) PROVE Fresh'
  <2>1. /\ past' = past \cup {Current(t)} /\ UNCHANGED <<readOnly, runs>>
        /\ pc[t] = "applyContext" /\ pc' = [pc EXCEPT ![t] = "applyStatus"]
    BY <1>4 DEF ApplyContext, Go
  <2>2. Current(t) \in Begun
    BY <2>1, CurrentIsEvaluation DEF Types, TypeOK, HasBegun, Begun, Current
  <2>3. \A u \in Threads : u # t => Current(u) # Current(t)
    BY DEF Current
  <2> QED BY <2>1, <2>2, <2>3, CurrentStays DEF Types, TypeOK
<1>5. ASSUME NEW t \in Threads,
             \/ CopyContext(t) \/ CopyStatus(t) \/ Fails(t)
             \/ \E S \in SUBSET Fields : Evaluated(t, S) \/ SaysAgain(t, S)
             \/ ApplyStatus(t) \/ \E f \in Fields : Tell(t, f)
             \/ EndTelling(t) \/ Merge(t) \/ Decide(t)
      PROVE  Fresh'
  <2>1. UNCHANGED <<readOnly, past, runs>>
    BY <1>5 DEF CopyContext, CopyStatus, Fails, Evaluated, SaysAgain, ApplyStatus, Tell,
                EndTelling, Merge, Decide
  <2>2. \A u \in Threads : pc'[u] \in Unapplied => pc[u] \in Unapplied
    BY <1>5 DEF CopyContext, CopyStatus, Fails, Evaluated, SaysAgain, ApplyStatus, Tell,
                EndTelling, Merge, Decide, Go, Types, TypeOK
  <2> QED BY <2>1, <2>2, CurrentStays
<1>6. CASE UNCHANGED vars
  BY <1>6, CurrentStays DEF vars
<1> QED BY <1>1, <1>2, <1>3, <1>4, <1>5, <1>6, StepCases DEF Steps

-----------------------------------------------------------------------------
\* Whether a thread runs prepare code does not change between two beginnings.
LEMMA ReadOnlyStays ==
    ASSUME UNCHANGED <<runs, readOnly>>
    PROVE  \A t \in Threads : IsReadOnly(t)' = IsReadOnly(t)
BY DEF IsReadOnly, Current

LEMMA ReadOnlyBegins ==
    ASSUME Types, Fresh, NEW t \in Threads, NEW kind, NEW to, Begin(t, kind, to),
           \/ UNCHANGED readOnly
           \/ readOnly' = readOnly \cup {<<t, runs'[t]>>}
    PROVE  /\ \A u \in Threads : u # t => IsReadOnly(u)' = IsReadOnly(u)
           /\ readOnly' = readOnly => ~IsReadOnly(t)'
           /\ readOnly' # readOnly => IsReadOnly(t)'
<1>1. \A u \in Threads : u # t => Current(u)' = Current(u) /\ Current(u) # <<t, runs'[t]>>
  BY FreshIsNew DEF Current
<1>2. Current(t)' = <<t, runs'[t]>> /\ <<t, runs'[t]>> \notin readOnly
  BY FreshIsNew DEF Fresh
<1> QED BY <1>1, <1>2 DEF IsReadOnly

LEMMA LocksNext ==
    ASSUME Types, Locks, Fresh, [Next]_vars
    PROVE  Locks'
<1> USE DEF Locks, Unapplied, locks, history, Go, Types, TypeOK, Unlock
<1>1. ASSUME NEW t \in Threads, BeginCode(t) PROVE Locks'
  <2>1. /\ evaluationLock = NoThread /\ evaluationLock' = t /\ UNCHANGED contextLock
        /\ Begin(t, "code", "copyContext") /\ UNCHANGED readOnly
        /\ pc' = [pc EXCEPT ![t] = "copyContext"]
    BY <1>1 DEF BeginCode, Begin
  <2> QED BY <2>1, ReadOnlyBegins
<1>2. ASSUME NEW t \in Threads, BeginPrepare(t) PROVE Locks'
  <2>1. /\ UNCHANGED <<evaluationLock, contextLock>>
        /\ Begin(t, "prepare", "copyContext")
        /\ readOnly' = readOnly \cup {<<t, runs'[t]>>}
        /\ pc' = [pc EXCEPT ![t] = "copyContext"]
    BY <1>2 DEF BeginPrepare, Begin
  <2>2. readOnly' # readOnly
    BY <2>1, FreshIsNew DEF Fresh
  <2> QED BY <2>1, <2>2, ReadOnlyBegins
<1>3. ASSUME NEW t \in Threads, BeginCondition(t) PROVE Locks'
  <2>1. /\ contextLock = NoThread /\ contextLock' = t /\ UNCHANGED evaluationLock
        /\ Begin(t, "condition", "condition") /\ UNCHANGED readOnly
        /\ pc' = [pc EXCEPT ![t] = "condition"]
    BY <1>3 DEF BeginCondition, Begin
  <2> QED BY <2>1, ReadOnlyBegins
<1>4. ASSUME NEW t \in Threads,
             \/ CopyContext(t) \/ CopyStatus(t) \/ Fails(t)
             \/ \E S \in SUBSET Fields : Evaluated(t, S) \/ SaysAgain(t, S)
             \/ ApplyContext(t) \/ ApplyStatus(t)
      PROVE  Locks'
  <2>1. UNCHANGED <<runs, readOnly, contextLock>>
    BY <1>4 DEF CopyContext, CopyStatus, Fails, Evaluated, SaysAgain, ApplyContext, ApplyStatus
  <2>2. \A u \in Threads : IsReadOnly(u)' = IsReadOnly(u)
    BY <2>1, ReadOnlyStays
  <2> QED
    BY <1>4, <2>1, <2>2
       DEF CopyContext, CopyStatus, Fails, Evaluated, SaysAgain, ApplyContext, ApplyStatus
<1>5. ASSUME NEW t \in Threads,
             \/ \E f \in Fields : Tell(t, f)
             \/ EndTelling(t) \/ Merge(t) \/ Decide(t)
      PROVE  Locks'
  <2>1. UNCHANGED <<runs, readOnly, evaluationLock>>
    BY <1>5 DEF Tell, EndTelling, Merge, Decide
  <2>2. \A u \in Threads : IsReadOnly(u)' = IsReadOnly(u)
    BY <2>1, ReadOnlyStays
  <2> QED BY <1>5, <2>1, <2>2 DEF Tell, EndTelling, Merge, Decide
<1>6. CASE UNCHANGED vars
  BY <1>6, ReadOnlyStays DEF vars
<1> QED BY <1>1, <1>2, <1>3, <1>4, <1>5, <1>6, StepCases DEF Steps

LEMMA CopyIsCurrentNext ==
    ASSUME Types, Locks, Fresh, CopyIsCurrent, [Next]_vars
    PROVE  CopyIsCurrent'
<1> USE DEF CopyIsCurrent, Unapplied, locks, history, Go, Types, TypeOK
<1>1. ASSUME NEW t \in Threads, BeginCode(t) \/ BeginPrepare(t) \/ BeginCondition(t)
      PROVE  CopyIsCurrent'
  <2>1. PICK kind, to :
            /\ Begin(t, kind, to) /\ to \in {"copyContext", "condition"}
            /\ \/ UNCHANGED readOnly
               \/ readOnly' = readOnly \cup {<<t, runs'[t]>>}
    BY <1>1 DEF BeginCode, BeginPrepare, BeginCondition
  <2>2. \A u \in Threads : u # t => IsReadOnly(u)' = IsReadOnly(u)
    BY <2>1, ReadOnlyBegins
  <2>3. pc' = [pc EXCEPT ![t] = to]
    BY <2>1 DEF Begin
  <2>4. UNCHANGED store /\ \A u \in Threads : u # t => copy'[u] = copy[u]
    BY <1>1 DEF BeginCode, BeginPrepare, BeginCondition, CopyFields
  <2> QED BY <2>1, <2>2, <2>3, <2>4
<1>2. ASSUME NEW t \in Threads, CopyContext(t) \/ CopyStatus(t)
      PROVE  CopyIsCurrent'
  <2>1. UNCHANGED <<runs, readOnly, store>>
    BY <1>2 DEF CopyContext, CopyStatus
  <2>2. \A u \in Threads : IsReadOnly(u)' = IsReadOnly(u)
    BY <2>1, ReadOnlyStays
  <2> QED BY <1>2, <2>1, <2>2 DEF CopyContext, CopyStatus, CopyFields
<1>3. ASSUME NEW t \in Threads, ApplyContext(t) \/ ApplyStatus(t)
      PROVE  CopyIsCurrent'
  <2>1. UNCHANGED <<runs, readOnly, copy>>
    BY <1>3 DEF ApplyContext, ApplyStatus
  <2>2. \A u \in Threads : IsReadOnly(u)' = IsReadOnly(u)
    BY <2>1, ReadOnlyStays
  <2>3. evaluationLock = t
    BY <1>3 DEF Locks, ApplyContext, ApplyStatus
  <2>4. \A u \in Threads : u # t /\ ~IsReadOnly(u) => pc[u] \notin Unapplied \cup {"applyStatus"}
    BY <2>3 DEF Locks
  <2>5. CASE ApplyContext(t)
    <3>1. store'["status"] = store["status"]
      BY <2>5 DEF ApplyContext
    <3> QED BY <2>1, <2>2, <2>4, <2>5, <3>1 DEF ApplyContext
  <2>6. CASE ApplyStatus(t)
    BY <2>1, <2>2, <2>4, <2>6 DEF ApplyStatus
  <2> QED BY <1>3, <2>5, <2>6
<1>4. ASSUME NEW t \in Threads,
             \/ Fails(t) \/ EndTelling(t) \/ Merge(t) \/ Decide(t)
             \/ \E S \in SUBSET Fields : Evaluated(t, S) \/ SaysAgain(t, S)
             \/ \E f \in Fields : Tell(t, f)
      PROVE  CopyIsCurrent'
  <2>1. UNCHANGED <<runs, readOnly, store>>
    BY <1>4 DEF Fails, EndTelling, Merge, Decide, Evaluated, SaysAgain, Tell
  <2>2. \A u \in Threads : IsReadOnly(u)' = IsReadOnly(u)
    BY <2>1, ReadOnlyStays
  <2>3. \A u \in Threads : u # t => pc'[u] = pc[u] /\ copy'[u] = copy[u]
    BY <1>4 DEF Fails, EndTelling, Merge, Decide, Evaluated, SaysAgain, Tell, Forget
  <2>4. \/ pc'[t] \in {"idle", "tell", "merge"}
        \/ pc[t] = "request" /\ pc'[t] = "applyContext" /\ copy'[t] = copy[t]
    BY <1>4 DEF Fails, EndTelling, Merge, Decide, Evaluated, SaysAgain, Tell
  <2> QED BY <2>1, <2>2, <2>3, <2>4
<1>5. CASE UNCHANGED vars
  BY <1>5, ReadOnlyStays DEF vars
<1> QED BY <1>1, <1>2, <1>3, <1>4, <1>5, StepCases DEF Steps

LEMMA ConditionIsCurrentNext ==
    ASSUME Types, Locks, ConditionIsCurrent, [Next]_vars
    PROVE  ConditionIsCurrent'
<1> USE DEF ConditionIsCurrent, locks, history, Go, Begin, CopyFields, Forget, Types, TypeOK
<1>1. ASSUME NEW t \in Threads, ApplyContext(t) \/ ApplyStatus(t)
      PROVE  ConditionIsCurrent'
  <2>1. CASE ApplyContext(t)
    <3>1. \A u \in Threads : pc'[u] # "condition"
      BY <2>1 DEF ApplyContext, Locks
    <3> QED BY <3>1
  <2>2. CASE ApplyStatus(t)
    BY <2>2 DEF ApplyStatus
  <2> QED BY <1>1, <2>1, <2>2
<1>2. ASSUME NEW t \in Threads, BeginCondition(t)
      PROVE  ConditionIsCurrent'
  BY <1>2 DEF BeginCondition
<1>3. ASSUME NEW t \in Threads,
             \/ BeginCode(t) \/ BeginPrepare(t) \/ CopyContext(t) \/ CopyStatus(t)
             \/ Fails(t) \/ EndTelling(t) \/ Merge(t) \/ Decide(t)
             \/ \E S \in SUBSET Fields : Evaluated(t, S) \/ SaysAgain(t, S)
             \/ \E f \in Fields : Tell(t, f)
      PROVE  ConditionIsCurrent'
  <2>1. UNCHANGED store
    BY <1>3 DEF BeginCode, BeginPrepare, CopyContext, CopyStatus, Fails, EndTelling, Merge,
                Decide, Evaluated, SaysAgain, Tell
  <2>2. \A u \in Threads : u # t => pc'[u] = pc[u] /\ copy'[u] = copy[u]
    BY <1>3 DEF BeginCode, BeginPrepare, CopyContext, CopyStatus, Fails, EndTelling, Merge,
                Decide, Evaluated, SaysAgain, Tell
  <2>3. pc'[t] # "condition"
    BY <1>3 DEF BeginCode, BeginPrepare, CopyContext, CopyStatus, Fails, EndTelling, Merge,
                Decide, Evaluated, SaysAgain, Tell
  <2> QED BY <2>1, <2>2, <2>3
<1>4. CASE UNCHANGED vars
  BY <1>4 DEF vars
<1> QED BY <1>1, <1>2, <1>3, <1>4, StepCases DEF Steps

-----------------------------------------------------------------------------
\* All that anybody knows of are evaluations that have begun and are not prepare code.
Public == Begun \ readOnly

Known ==
    \A f \in Fields :
        /\ store[f] \subseteq Public /\ told[f] \subseteq Public
        /\ \A t \in Threads : copy[t][f] \subseteq Public

\* An evaluation stays public, and what prepare code begins was not.
LEMMA PublicGrows ==
    ASSUME Types, Fresh, [Next]_vars
    PROVE  Public \subseteq Public'
<1>1. ASSUME NEW t \in Threads, BeginCode(t) \/ BeginPrepare(t) \/ BeginCondition(t)
      PROVE  Public \subseteq Public'
  <2>1. PICK kind, to :
            /\ Begin(t, kind, to)
            /\ \/ UNCHANGED readOnly
               \/ readOnly' = readOnly \cup {<<t, runs'[t]>>}
    BY <1>1 DEF BeginCode, BeginPrepare, BeginCondition, history
  <2> QED BY <2>1, FreshIsNew DEF Public
<1>2. ASSUME NEW t \in Threads, Steps(t),
             ~BeginCode(t), ~BeginPrepare(t), ~BeginCondition(t)
      PROVE  Public \subseteq Public'
  <2>1. UNCHANGED <<runs, readOnly>>
    BY <1>2 DEF Steps, CopyContext, CopyStatus, Fails, EndTelling, Merge, Decide, Evaluated,
                SaysAgain, Tell, ApplyContext, ApplyStatus, history
  <2> QED BY <2>1, CurrentStays DEF Public
<1>3. CASE UNCHANGED vars
  BY <1>3, CurrentStays DEF vars, Public, history
<1> QED BY <1>1, <1>2, <1>3, StepCases

\* What a thread that is not preparing has changed is public.
LEMMA ChangedIsPublic ==
    ASSUME Types, Known, NEW t \in Threads, ~IsReadOnly(t), pc[t] # "idle", NEW f \in Fields
    PROVE  Changed(t, f) \subseteq Public
<1>1. Current(t) \in Public
  BY CurrentIsEvaluation DEF Types, TypeOK, HasBegun, Public, Begun, Current, IsReadOnly
<1> QED BY <1>1 DEF Changed, Known

LEMMA KnownNext ==
    ASSUME Types, Locks, Fresh, Known, [Next]_vars
    PROVE  Known'
<1> USE PublicGrows DEF Types, TypeOK, locks, history
<1>1. ASSUME NEW t \in Threads, ApplyContext(t) \/ ApplyStatus(t)
      PROVE  Known'
  <2>1. \A f \in Fields : Changed(t, f) \subseteq Public
    BY <1>1, ChangedIsPublic DEF ApplyContext, ApplyStatus, Go, Locks
  <2>2. \A f \in Fields : store'[f] = store[f] \/ store'[f] = Changed(t, f)
    BY <1>1 DEF ApplyContext, ApplyStatus
  <2>3. UNCHANGED <<told, copy>>
    BY <1>1 DEF ApplyContext, ApplyStatus
  <2> QED BY <2>1, <2>2, <2>3 DEF Known
<1>2. ASSUME NEW t \in Threads, NEW g \in Fields, Tell(t, g)
      PROVE  Known'
  <2>1. Changed(t, g) \subseteq Public
    BY <1>2, ChangedIsPublic DEF Tell, Locks
  <2>2. told' = [told EXCEPT ![g] = Changed(t, g)] /\ UNCHANGED <<store, copy>>
    BY <1>2 DEF Tell
  <2> QED BY <2>1, <2>2 DEF Known
<1>3. ASSUME NEW t \in Threads,
             \/ CopyContext(t) \/ CopyStatus(t) \/ BeginCondition(t)
             \/ Fails(t) \/ EndTelling(t) \/ Merge(t) \/ Decide(t)
      PROVE  Known'
  <2>1. UNCHANGED <<store, told>>
    BY <1>3 DEF CopyContext, CopyStatus, BeginCondition, Fails, EndTelling, Merge, Decide
  <2>2. \A u \in Threads, f \in Fields : copy'[u][f] \in {copy[u][f], store[f], {}}
    BY <1>3 DEF CopyContext, CopyStatus, BeginCondition, Fails, EndTelling, Merge, Decide,
                CopyFields, Forget, Nothing
  <2> QED BY <2>1, <2>2 DEF Known
<1>4. ASSUME NEW t \in Threads,
             \/ BeginCode(t) \/ BeginPrepare(t)
             \/ \E S \in SUBSET Fields : Evaluated(t, S) \/ SaysAgain(t, S)
      PROVE  Known'
  <2>1. UNCHANGED <<store, told, copy>>
    BY <1>4 DEF BeginCode, BeginPrepare, Evaluated, SaysAgain
  <2> QED BY <2>1 DEF Known
<1>5. CASE UNCHANGED vars
  BY <1>5 DEF vars, Known
<1> QED BY <1>1, <1>2, <1>3, <1>4, <1>5, StepCases DEF Steps
-----------------------------------------------------------------------------
\* What a thread tells has been applied, or its code has said again.
Telling ==
    \A t \in Threads :
        /\ pc[t] = "applyStatus" =>
               \A f \in changed[t] \cap ContextFields : Changed(t, f) \subseteq store[f]
        /\ pc[t] = "tell" =>
               \A f \in untold[t] : Changed(t, f) \subseteq store[f] \cup repeated

\* Nothing that has been applied is lost.
LEMMA StoreGrows ==
    ASSUME Types, Locks, CopyIsCurrent, [Next]_vars
    PROVE  repeated \subseteq repeated' /\ \A f \in Fields : store[f] \subseteq store'[f]
<1> USE DEF Types, TypeOK, locks, history
<1>1. ASSUME NEW t \in Threads, ApplyContext(t) \/ ApplyStatus(t)
      PROVE  repeated' = repeated /\ \A f \in Fields : store[f] \subseteq store'[f]
  BY <1>1 DEF ApplyContext, ApplyStatus, Locks, CopyIsCurrent, Changed, Go
<1>2. ASSUME NEW t \in Threads, Steps(t), ~ApplyContext(t), ~ApplyStatus(t)
      PROVE  repeated \subseteq repeated' /\ store' = store
  BY <1>2 DEF Steps, BeginCode, BeginPrepare, BeginCondition, CopyContext, CopyStatus, Fails,
              EndTelling, Merge, Decide, Evaluated, SaysAgain, Tell
<1> QED BY <1>1, <1>2, StepCases DEF vars

LEMMA TellingNext ==
    ASSUME Types, Locks, CopyIsCurrent, Telling, [Next]_vars
    PROVE  Telling'
<1> USE StoreGrows DEF Types, TypeOK, locks, history
\* Threads that keep what they know keep telling the truth.
<1>1. ASSUME NEW u \in Threads, pc'[u] = pc[u], Current(u)' = Current(u),
             copy'[u] = copy[u], changed'[u] = changed[u], untold'[u] \subseteq untold[u]
      PROVE  /\ pc'[u] = "applyStatus" =>
                    \A f \in changed'[u] \cap ContextFields : Changed(u, f)' \subseteq store'[f]
             /\ pc'[u] = "tell" =>
                    \A f \in untold'[u] : Changed(u, f)' \subseteq store'[f] \cup repeated'
  <2>1. \A f \in Fields : Changed(u, f)' = Changed(u, f)
    BY <1>1 DEF Changed
  <2> QED BY <1>1, <2>1 DEF Telling
<1>2. ASSUME NEW t \in Threads, Steps(t)
      PROVE  \A u \in Threads : u # t =>
                 /\ pc'[u] = pc[u] /\ Current(u)' = Current(u)
                 /\ copy'[u] = copy[u] /\ changed'[u] = changed[u] /\ untold'[u] = untold[u]
  BY <1>2 DEF Steps, BeginCode, BeginPrepare, BeginCondition, CopyContext, CopyStatus, Fails,
              EndTelling, Merge, Decide, Evaluated, SaysAgain, Tell, ApplyContext,
              ApplyStatus, Go, Begin, CopyFields, Forget, Current
<1>3. ASSUME NEW t \in Threads, Steps(t), pc'[t] \notin {"applyStatus", "tell"}
      PROVE  Telling'
  BY <1>1, <1>2, <1>3 DEF Telling
<1>4. ASSUME NEW t \in Threads, ApplyContext(t)
      PROVE  Telling'
  <2>1. \A f \in changed'[t] \cap ContextFields : Changed(t, f)' = store'[f]
    BY <1>4 DEF ApplyContext, Changed, Current
  <2>2. pc'[t] = "applyStatus"
    BY <1>4 DEF ApplyContext, Go
  <2>3. Steps(t)
    BY <1>4 DEF Steps
  <2> QED BY <1>1, <1>2, <2>1, <2>2, <2>3 DEF Telling
<1>5. ASSUME NEW t \in Threads, ApplyStatus(t)
      PROVE  Telling'
  <2>1. untold'[t] = changed[t] /\ pc'[t] = "tell" /\ pc[t] = "applyStatus"
    BY <1>5 DEF ApplyStatus, Go
  <2>2. \A f \in Fields : Changed(t, f)' = Changed(t, f)
    BY <1>5 DEF ApplyStatus, Changed, Current
  <2>3. \A f \in changed[t] \cap ContextFields : Changed(t, f) \subseteq store'[f]
    BY <2>1 DEF Telling
  <2>4. "status" \in changed[t] => store'["status"] = Changed(t, "status")
    BY <1>5 DEF ApplyStatus
  <2>5. \A f \in untold'[t] : Changed(t, f)' \subseteq store'[f] \cup repeated'
    BY <2>1, <2>2, <2>3, <2>4
  <2>6. Steps(t)
    BY <1>5 DEF Steps
  <2> QED BY <1>1, <1>2, <2>1, <2>5, <2>6 DEF Telling
<1>6. ASSUME NEW t \in Threads, NEW S \in SUBSET Fields, SaysAgain(t, S)
      PROVE  Telling'
  <2>1. /\ pc[t] = "request" /\ ~IsReadOnly(t) /\ pc'[t] = "tell"
        /\ repeated' = repeated \cup {Current(t)}
        /\ UNCHANGED <<copy, store, runs>>
    BY <1>6 DEF SaysAgain, Go
  <2>2. \A f \in Fields : copy[t][f] = store[f]
    BY <2>1 DEF CopyIsCurrent
  <2>3. \A f \in Fields : Changed(t, f)' \subseteq copy[t][f] \cup {Current(t)}
    BY <2>1 DEF Changed, Current
  <2>4. \A f \in untold'[t] : Changed(t, f)' \subseteq store'[f] \cup repeated'
    BY <2>1, <2>2, <2>3, <1>6 DEF SaysAgain
  <2>5. Steps(t)
    BY <1>6 DEF Steps
  <2> QED BY <1>1, <1>2, <2>1, <2>4, <2>5 DEF Telling
<1>7. ASSUME NEW t \in Threads, NEW f \in Fields, Tell(t, f)
      PROVE  Telling'
  <2>1. /\ UNCHANGED <<pc, runs, copy, changed>> /\ untold'[t] \subseteq untold[t]
    BY <1>7 DEF Tell
  <2>2. Steps(t)
    BY <1>7 DEF Steps
  <2> QED BY <1>1, <1>2, <2>1, <2>2 DEF Telling, Current
<1>8. ASSUME NEW t \in Threads, Steps(t), pc'[t] \in {"applyStatus", "tell"},
             ~ApplyContext(t), ~ApplyStatus(t)
      PROVE  \/ \E S \in SUBSET Fields : SaysAgain(t, S)
             \/ \E f \in Fields : Tell(t, f)
  BY <1>8 DEF Steps, BeginCode, BeginPrepare, BeginCondition, CopyContext, CopyStatus, Fails,
              EndTelling, Merge, Decide, Evaluated, Go, Begin
<1>9. CASE UNCHANGED vars
  <2>1. \A u \in Threads : Current(u)' = Current(u)
    BY <1>9 DEF vars, Current
  <2> QED BY <1>1, <1>9, <2>1 DEF vars, Telling
<1> QED BY <1>3, <1>4, <1>5, <1>6, <1>7, <1>8, <1>9, StepCases

LEMMA ToldIsAppliedNext ==
    ASSUME Types, Locks, CopyIsCurrent, Telling, ToldIsApplied, [Next]_vars
    PROVE  ToldIsApplied'
<1> USE StoreGrows DEF ToldIsApplied
<1>1. ASSUME NEW t \in Threads, NEW f \in Fields, Tell(t, f)
      PROVE  ToldIsApplied'
  <2>1. told' = [told EXCEPT ![f] = Changed(t, f)]
    BY <1>1 DEF Tell
  <2>2. Changed(t, f) \subseteq store[f] \cup repeated
    BY <1>1 DEF Tell, Telling
  <2> QED BY <2>1, <2>2 DEF Types, TypeOK
<1>2. ASSUME NEW t \in Threads, Steps(t), \A f \in Fields : ~Tell(t, f)
      PROVE  told' = told
  BY <1>2 DEF Steps, BeginCode, BeginPrepare, BeginCondition, CopyContext, CopyStatus, Fails,
              EndTelling, Merge, Decide, Evaluated, SaysAgain, ApplyContext, ApplyStatus
<1> QED BY <1>1, <1>2, StepCases DEF vars
-----------------------------------------------------------------------------
IInv == /\ Types /\ Locks /\ Fresh /\ Known /\ Telling
        /\ CopyIsCurrent /\ ConditionIsCurrent /\ ToldIsApplied

LEMMA InvariantInit == Init => IInv
<1> SUFFICES ASSUME Init PROVE IInv
  OBVIOUS
<1>1. Types
  BY TypesInit
<1>2. Locks /\ Fresh
  BY DEF Init, Locks, Fresh, IsReadOnly, Unapplied
<1>3. Known /\ Telling /\ ToldIsApplied
  BY DEF Init, Known, Telling, ToldIsApplied, Nothing
<1>4. CopyIsCurrent /\ ConditionIsCurrent
  BY DEF Init, CopyIsCurrent, ConditionIsCurrent
<1> QED BY <1>1, <1>2, <1>3, <1>4 DEF IInv

LEMMA InvariantNext == IInv /\ [Next]_vars => IInv'
BY TypesNext, LocksNext, FreshNext, KnownNext, TellingNext, CopyIsCurrentNext,
   ConditionIsCurrentNext, ToldIsAppliedNext DEF IInv

LEMMA Invariant == Spec => []IInv
BY InvariantInit, InvariantNext, PTL DEF Spec

\* All variables keep their types, for any threads, codes and bounds.
THEOREM TypeCorrect == Spec => []TypeOK
<1>1. IInv => TypeOK
  BY DEF IInv, Types
<1> QED BY <1>1, Invariant, PTL

\* execute_code works on the current context and status until it has applied its
\* result: EVALUATION_LOCK is enough for that.
THEOREM CopyStaysCurrent == Spec => []CopyIsCurrent
<1>1. IInv => CopyIsCurrent
  BY DEF IInv
<1> QED BY <1>1, Invariant, PTL

\* Nobody sees what prepare code changes.
THEOREM PreparationStaysLocal == Spec => []PreparationIsLocal
<1>1. IInv => PreparationIsLocal
  BY DEF IInv, Known, Public, PreparationIsLocal
<1> QED BY <1>1, Invariant, PTL

\* The CPEE is told of nothing that is not part of the instance, or was dropped because
\* the code has said again.
THEOREM ToldStaysApplied == Spec => []ToldIsApplied
<1>1. IInv => ToldIsApplied
  BY DEF IInv
<1> QED BY <1>1, Invariant, PTL

\* evaluate_condition decides on the current context.
THEOREM ConditionStaysCurrent == Spec => []ConditionIsCurrent
<1>1. IInv => ConditionIsCurrent
  BY DEF IInv
<1> QED BY <1>1, Invariant, PTL

\* The evaluations implement AtomicContext: applying the context is its only step.
THEOREM EvaluationsAreAtomic == Spec => ChangesAtomically
<1>1. Init => Atomic!Init
  BY DEF Init, Atomic!Init, Nothing
<1>2. ASSUME IInv, [Next]_vars
      PROVE  [Atomic!Next]_Atomic!vars
  <2>1. ASSUME NEW t \in Threads, ApplyContext(t)
        PROVE  Atomic!Next
    <3>1. Current(t) \in Evaluations /\ Current(t) \notin past
      BY <1>2, <2>1, CurrentIsEvaluation
         DEF IInv, Types, TypeOK, HasBegun, Fresh, Unapplied, ApplyContext, Go
    <3>2. \A f \in ContextFields : copy[t][f] = store[f]
      BY <1>2, <2>1 DEF IInv, CopyIsCurrent, Locks, ApplyContext, Go
    <3>3. \A f \in ContextFields :
              store'[f] = IF f \in changed[t] THEN store[f] \cup {Current(t)} ELSE store[f]
      BY <2>1, <3>2 DEF ApplyContext, Changed
    <3>4. changed[t] \cap ContextFields \in SUBSET ContextFields
      OBVIOUS
    <3>5. PICK e \in Evaluations, F \in SUBSET ContextFields :
              e = Current(t) /\ F = changed[t] \cap ContextFields
      BY <3>1, <3>4
    <3>6. e \notin past /\ past' = past \cup {e}
      BY <2>1, <3>1, <3>5 DEF ApplyContext
    <3>7. [f \in ContextFields |-> store[f]]' =
              [f \in ContextFields |->
                  IF f \in F THEN [g \in ContextFields |-> store[g]][f] \cup {e}
                              ELSE [g \in ContextFields |-> store[g]][f]]
      BY <3>3, <3>5
    <3>8. Atomic!Apply(e, F)
      BY <3>6, <3>7 DEF Atomic!Apply
    <3> QED BY <3>8 DEF Atomic!Next
  <2>2. ASSUME NEW t \in Threads, ApplyStatus(t)
        PROVE  UNCHANGED Atomic!vars
    <3>1. \A f \in ContextFields : store'[f] = store[f]
      BY <1>2, <2>2 DEF ApplyStatus, IInv, Types, TypeOK
    <3> QED BY <2>2, <3>1 DEF ApplyStatus, Atomic!vars, history
  <2>3. ASSUME NEW t \in Threads, Steps(t), ~ApplyContext(t), ~ApplyStatus(t)
        PROVE  UNCHANGED <<store, past>>
    BY <2>3 DEF Steps, BeginCode, BeginPrepare, BeginCondition, CopyContext, CopyStatus, Fails,
                EndTelling, Merge, Decide, Evaluated, SaysAgain, Tell, history
  <2> QED BY <1>2, <2>1, <2>2, <2>3, StepCases DEF Atomic!vars, vars, history
<1> QED BY <1>1, <1>2, Invariant, PTL DEF Spec, ChangesAtomically, Atomic!Spec
=============================================================================
