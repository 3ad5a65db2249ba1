----------------------------- MODULE Evaluation -----------------------------
(***************************************************************************)
(* How the threads of an instance have code evaluated: execute_code for the*)
(* code of an activity (which changes the instance) and for its prepare    *)
(* code (which does not), evaluate_condition, and what the CPEE is told of *)
(* the changes.  The evaluation backend gets a copy of the context and     *)
(* returns a changed one.                                                  *)
(*                                                                         *)
(* A value is abstracted to the set of the evaluations whose changes it    *)
(* contains: an update is lost when its evaluation is missing.             *)
(***************************************************************************)
EXTENDS Naturals

CONSTANTS Threads,
          NoThread,
          Kinds,      \* what threads do: subset of {"code", "prepare", "condition"}
          Outcomes,   \* of code: subset of {"ok", "again", "stop", "error"}
          MaxRuns     \* bound on the evaluations of each thread

ASSUME EvaluationAssumption ==
    /\ NoThread \notin Threads
    /\ Kinds \subseteq {"code", "prepare", "condition"}
    /\ Outcomes \subseteq {"ok", "again", "stop", "error"}
    /\ MaxRuns \in Nat

Fields == {"data", "endpoints", "status"}
ContextFields == {"data", "endpoints"}

\* The n-th evaluation of a thread
Evaluations == Threads \X (1 .. MaxRuns)

VARIABLES
    store,          \* Weel::context and Weel::status
    evaluationLock, \* who holds EVALUATION_LOCK
    contextLock,    \* who holds the mutex of the context across steps
    pc,
    runs,           \* evaluations each thread has begun
    copy,           \* the copy a thread has sent to the backend
    changed,        \* fields the code of the current evaluation has changed
    untold,         \* changed fields that the CPEE is still to be told of
    told,           \* the values the CPEE was told last
    readOnly,       \* evaluations of prepare code
    past,           \* evaluations whose changes have been applied
    repeated        \* evaluations that have said again

locks == <<evaluationLock, contextLock>>
history == <<readOnly, past, repeated>>
vars == <<store, locks, pc, runs, copy, changed, untold, told, history>>

Nothing == [f \in Fields |-> {}]

Init == /\ store = Nothing
        /\ evaluationLock = NoThread /\ contextLock = NoThread
        /\ pc = [t \in Threads |-> "idle"]
        /\ runs = [t \in Threads |-> 0]
        /\ copy = [t \in Threads |-> Nothing]
        /\ changed = [t \in Threads |-> {}]
        /\ untold = [t \in Threads |-> {}]
        /\ told = Nothing
        /\ readOnly = {} /\ past = {} /\ repeated = {}
-----------------------------------------------------------------------------
Current(t) == <<t, runs[t]>>

Go(t, from, to) == pc[t] = from /\ pc' = [pc EXCEPT ![t] = to]

Begin(t, kind, to) ==
    /\ kind \in Kinds
    /\ runs[t] < MaxRuns
    /\ Go(t, "idle", to)
    /\ runs' = [runs EXCEPT ![t] = @ + 1]

\* The value of a field after the changes that thread t's code has made to its copy
Changed(t, f) == IF f \in changed[t] THEN copy[t][f] \cup {Current(t)} ELSE copy[t][f]

\* What the thread knew of the evaluation is not needed any more.
Forget(t) == /\ copy' = [copy EXCEPT ![t] = Nothing]
             /\ changed' = [changed EXCEPT ![t] = {}]

CopyFields(t, S) ==
    copy' = [copy EXCEPT ![t] = [f \in Fields |-> IF f \in S THEN store[f] ELSE @[f]]]
-----------------------------------------------------------------------------
\* Mutant: EVALUATION_LOCK is not taken
BeginCodeUnlocked(t) ==
    /\ Begin(t, "code", "copyContext")
    /\ UNCHANGED <<store, locks, copy, changed, untold, told, history>>

\* execute_code(read_only = false) takes EVALUATION_LOCK.
BeginCode(t) ==
    /\ evaluationLock = NoThread
    /\ Begin(t, "code", "copyContext")
    /\ evaluationLock' = t
    /\ UNCHANGED <<store, contextLock, copy, changed, untold, told, history>>

IsReadOnly(t) == Current(t) \in readOnly

\* An activity prepares with the mutex thread_information locked; it is also locked for
\* a moment before a condition is evaluated.
NobodyPrepares ==
    \A t \in Threads : IsReadOnly(t) => pc[t] = "idle"

\* prepare: execute_code(read_only = true)
BeginPrepare(t) ==
    /\ NobodyPrepares
    /\ Begin(t, "prepare", "copyContext")
    /\ readOnly' = readOnly \cup {<<t, runs'[t]>>}
    /\ UNCHANGED <<store, locks, copy, changed, untold, told, past, repeated>>

CopyContext(t) ==
    /\ contextLock = NoThread
    /\ Go(t, "copyContext", "copyStatus")
    /\ CopyFields(t, ContextFields)
    /\ UNCHANGED <<store, locks, runs, changed, untold, told, history>>

CopyStatus(t) ==
    /\ Go(t, "copyStatus", "request")
    /\ CopyFields(t, {"status"})
    /\ UNCHANGED <<store, locks, runs, changed, untold, told, history>>

Unlock(t) == evaluationLock' = IF evaluationLock = t THEN NoThread ELSE evaluationLock

\* The backend has run the code on the copy; it returns the fields that have changed.
Evaluated(t, S) ==
    /\ Go(t, "request", IF IsReadOnly(t) THEN "merge" ELSE "applyContext")
    /\ "ok" \in Outcomes
    /\ changed' = [changed EXCEPT ![t] = S]
    /\ UNCHANGED <<store, locks, runs, copy, untold, told, history>>

\* The code says again: execute_code returns the result as an error and applies
\* nothing, yet the activity tells the CPEE of the changes before it starts over.
\* (Of prepare code that says again nothing is left: see Fails.)
SaysAgain(t, S) ==
    /\ "again" \in Outcomes
    /\ ~IsReadOnly(t)
    /\ Go(t, "request", "tell")
    /\ changed' = [changed EXCEPT ![t] = S]
    /\ untold' = [untold EXCEPT ![t] = S]
    /\ repeated' = repeated \cup {Current(t)}
    /\ Unlock(t)
    /\ UNCHANGED <<store, contextLock, runs, copy, told, readOnly, past>>

\* Mutant: the CPEE is told what failed code has changed
FailsAndTells(t) ==
    /\ Go(t, "request", IF IsReadOnly(t) THEN "idle" ELSE "tell")
    /\ Outcomes \cap {"stop", "error"} # {}
    /\ changed' = [changed EXCEPT ![t] = {"data"}]
    /\ untold' = [untold EXCEPT ![t] = IF IsReadOnly(t) THEN {} ELSE {"data"}]
    /\ Unlock(t)
    /\ UNCHANGED <<store, contextLock, runs, copy, told, history>>

\* Any other signal, an error of the code or of the request
Fails(t) ==
    /\ Go(t, "request", "idle")
    /\ Outcomes \cap {"stop", "error"} # {}
    /\ Forget(t)
    /\ Unlock(t)
    /\ UNCHANGED <<store, contextLock, runs, untold, told, history>>

ApplyContext(t) ==
    /\ contextLock = NoThread
    /\ Go(t, "applyContext", "applyStatus")
    /\ store' = [f \in Fields |-> IF f \in changed[t] \cap ContextFields
                                  THEN Changed(t, f) ELSE store[f]]
    /\ past' = past \cup {Current(t)}
    /\ UNCHANGED <<locks, runs, copy, changed, untold, told, readOnly, repeated>>

\* The status has a mutex of its own; EVALUATION_LOCK is released after it.
ApplyStatus(t) ==
    /\ Go(t, "applyStatus", "tell")
    /\ store' = [store EXCEPT !["status"] = IF "status" \in changed[t]
                                            THEN Changed(t, "status") ELSE @]
    /\ untold' = [untold EXCEPT ![t] = changed[t]]
    /\ Unlock(t)
    /\ UNCHANGED <<contextLock, runs, copy, changed, told, history>>

\* Mutant: the names of the changed fields are sent, not their values
TellNames(t, f) ==
    /\ pc[t] = "tell"
    /\ f \in untold[t]
    /\ told' = [told EXCEPT ![f] = changed[t]]
    /\ untold' = [untold EXCEPT ![t] = @ \ {f}]
    /\ UNCHANGED <<store, locks, pc, runs, copy, changed, history>>

\* inform_manipulate_change: one message for each changed field, in this order
Tell(t, f) ==
    /\ pc[t] = "tell"
    /\ f \in untold[t]
    /\ f = "data" => "status" \notin untold[t]
    /\ f = "endpoints" => untold[t] = {"endpoints"}
    /\ told' = [told EXCEPT ![f] = Changed(t, f)]
    /\ untold' = [untold EXCEPT ![t] = @ \ {f}]
    /\ UNCHANGED <<store, locks, pc, runs, copy, changed, history>>

EndTelling(t) ==
    /\ untold[t] = {}
    /\ Go(t, "tell", "idle")
    /\ Forget(t)
    /\ UNCHANGED <<store, locks, runs, untold, told, history>>

\* Mutant: what prepare code has changed is kept
MergeIntoStore(t) ==
    /\ contextLock = NoThread
    /\ Go(t, "merge", "idle")
    /\ store' = [f \in Fields |-> IF f \in changed[t] THEN Changed(t, f) ELSE store[f]]
    /\ Forget(t)
    /\ UNCHANGED <<locks, runs, untold, told, history>>

\* prepare: the arguments are evaluated with what the prepare code has changed and
\* otherwise with what the context is by now; nothing of it is kept.
Merge(t) ==
    /\ contextLock = NoThread
    /\ Go(t, "merge", "idle")
    /\ Forget(t)
    /\ UNCHANGED <<store, locks, runs, untold, told, history>>
-----------------------------------------------------------------------------
\* Mutant: the context is copied and not kept locked
BeginConditionUnlocked(t) ==
    /\ contextLock = NoThread /\ NobodyPrepares
    /\ Begin(t, "condition", "condition")
    /\ CopyFields(t, ContextFields)
    /\ UNCHANGED <<store, locks, changed, untold, told, history>>

\* evaluate_condition keeps the context locked during the request, and does not take
\* EVALUATION_LOCK.
BeginCondition(t) ==
    /\ contextLock = NoThread /\ NobodyPrepares
    /\ Begin(t, "condition", "condition")
    /\ contextLock' = t
    /\ CopyFields(t, ContextFields)
    /\ UNCHANGED <<store, evaluationLock, changed, untold, told, history>>

\* The result has come and the CPEE is told of it (gateway_decide), or it failed.
Decide(t) ==
    /\ Go(t, "condition", "idle")
    /\ contextLock' = IF contextLock = t THEN NoThread ELSE contextLock
    /\ Forget(t)
    /\ UNCHANGED <<store, evaluationLock, runs, untold, told, history>>
-----------------------------------------------------------------------------
Done == /\ \A t \in Threads : pc[t] = "idle" /\ runs[t] = MaxRuns
        /\ UNCHANGED vars

Step(t) ==
    \/ BeginCode(t) \/ BeginPrepare(t) \/ BeginCondition(t)
    \/ CopyContext(t) \/ CopyStatus(t)
    \/ \E S \in SUBSET Fields : Evaluated(t, S) \/ SaysAgain(t, S)
    \/ Fails(t)
    \/ ApplyContext(t) \/ ApplyStatus(t)
    \/ \E f \in Fields : Tell(t, f)
    \/ EndTelling(t) \/ Merge(t) \/ Decide(t)

Next == (\E t \in Threads : Step(t)) \/ Done

Spec == Init /\ [][Next]_vars
-----------------------------------------------------------------------------
TypeOK ==
    /\ store \in [Fields -> SUBSET Evaluations]
    /\ evaluationLock \in Threads \cup {NoThread}
    /\ contextLock \in Threads \cup {NoThread}
    /\ pc \in [Threads -> {"idle", "copyContext", "copyStatus", "request", "applyContext",
                           "applyStatus", "tell", "merge", "condition"}]
    /\ runs \in [Threads -> 0 .. MaxRuns]
    /\ copy \in [Threads -> [Fields -> SUBSET Evaluations]]
    /\ changed \in [Threads -> SUBSET Fields]
    /\ untold \in [Threads -> SUBSET Fields]
    /\ told \in [Fields -> SUBSET Evaluations]
    /\ readOnly \subseteq Evaluations
    /\ past \subseteq Evaluations
    /\ repeated \subseteq Evaluations

\* The context and the status do not change between the copy that code of an activity
\* gets and the application of its result, although no other mutex than EVALUATION_LOCK is
\* held meanwhile: nothing is overwritten that the code has not seen (execute_code).
CopyIsCurrent ==
    \A t \in Threads : ~IsReadOnly(t) =>
        /\ pc[t] \in {"copyStatus", "request", "applyContext"} =>
               \A f \in ContextFields : copy[t][f] = store[f]
        /\ pc[t] \in {"request", "applyContext", "applyStatus"} =>
               copy[t]["status"] = store["status"]

\* What prepare code changes is seen by nobody else: neither by the code of other
\* activities nor by the CPEE (execute_code with read_only, prepare).
PreparationIsLocal ==
    \A f \in Fields : (store[f] \cup told[f]) \cap readOnly = {}

\* The CPEE is told of changes that the instance has made, except for those of code
\* that says again: they are told and dropped (execute_code, weel_activity).
ToldIsApplied ==
    \A f \in Fields : told[f] \subseteq store[f] \cup repeated

\* While a condition is evaluated, and until its result has been told, the data it
\* is evaluated on are those of the instance (evaluate_condition, test_condition).
ConditionIsCurrent ==
    \A t \in Threads : pc[t] = "condition" =>
        \A f \in ContextFields : copy[t][f] = store[f]

Atomic == INSTANCE AtomicContext WITH
              context <- [f \in ContextFields |-> store[f]], Fields <- ContextFields

\* Data elements and endpoints are changed as AtomicContext says: in one step, once per
\* evaluation, and without losing what others have changed.
ChangesAtomically == Atomic!Spec
=============================================================================
