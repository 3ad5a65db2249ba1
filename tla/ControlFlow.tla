----------------------------- MODULE ControlFlow -----------------------------
(***************************************************************************)
(* The control flow of a process model on one thread (dsl_realization.rs): *)
(* choices, loops, escapes, critical sections, activities, stop and        *)
(* terminate, and the search for the position at which a stopped instance  *)
(* goes on after its restart.  Parallel gateways are left to               *)
(* ParallelGateway.                                                        *)
(*                                                                         *)
(* A program is the process model in preorder: a sequence of dsl calls, of *)
(* which each that takes a lambda names the last call inside of it.  A     *)
(* label of an activity or a stop is its place in the program.  Conditions *)
(* are evaluated anew every time and may have any result.                  *)
(***************************************************************************)
EXTENDS Naturals, FiniteSets, Sequences, SequencesExt

CONSTANTS Programs,
          NoPosition,
          MaxTurns,     \* bound on the turns of loops in one life of the instance
          MaxStarts     \* bound on its lives

Kinds == {"model", "choose", "alternative", "otherwise", "loop", "critical",
          "activity", "stop", "terminate", "escape"}

Variants == {"exclusive", "inclusive"}     \* ChooseVariant

\* variant is ChooseVariant of a choose, the test of a loop
Calls == [kind : Kinds, variant : Variants \cup {"pre_test", "post_test", "none"}, last : Nat]

Positions == [label : Nat, detail : {"at", "after"}]

Nodes(p) == 1 .. Len(p)
Within(p, n) == (n + 1) .. p[n].last
Children(p, n) ==
    {c \in Within(p, n) : \A k \in Within(p, n) : c \in Within(p, k) => FALSE}

ASSUME ControlFlowAssumption ==
    /\ NoPosition \notin Positions
    /\ MaxTurns \in Nat /\ MaxStarts \in Nat
    /\ \A p \in Programs :
        /\ p \in Seq(Calls) /\ p # <<>>
        /\ p[1].kind = "model" /\ p[1].last = Len(p)
        /\ \A n \in Nodes(p) :
              /\ p[n].last \in n .. Len(p)
              /\ \A k \in Within(p, n) : p[k].last <= p[n].last
              /\ p[n].kind = "choose" => p[n].variant \in Variants
              \* calls without a lambda
              /\ p[n].kind \in {"activity", "stop", "terminate", "escape"} => p[n].last = n
        \* alternatives are made in a choose, or the code panics
        /\ \A n \in Nodes(p) : \A c \in Children(p, n) :
              (p[c].kind \in {"alternative", "otherwise"}) <=> (p[n].kind = "choose")

VARIABLES
    program,
    state,       \* Weel::state
    at,          \* the dsl call that comes next
    stack,       \* the calls whose lambdas run, and the activity that runs
    \* ThreadInfo
    executed,    \* alternative_executed
    mode,        \* alternative_mode
    searching,   \* in_search_mode
    position,    \* branch_position
    \* the outside
    wanted,      \* the search position the instance was started with
    known,       \* the position the CPEE has been told
    turns, lives,
    \* what has happened in all lives
    begun,       \* activities that have begun
    done,        \* activities that have been completed
    again,       \* activities that have been completed twice
    entered,     \* calls whose lambda has run, or has ended the search
    hidden,      \* an alternative has been passed over by the search
    unwound,     \* an escape has left a choose
    terminated   \* terminate ends this life

info == <<executed, mode, searching>>
places == <<position, wanted, known>>
bounds == <<turns, lives>>
history == <<begun, done, again, entered, hidden, unwound, terminated>>
vars == <<program, state, at, stack, info, places, bounds, history>>

Frame(n, pass) == [node |-> n, searched |-> searching, pass |-> pass]

Init == /\ program \in Programs
        /\ state = "Running"
        /\ at = 2
        /\ stack = <<[node |-> 1, searched |-> FALSE, pass |-> "run"]>>
        /\ executed = <<>> /\ mode = <<>>
        /\ searching = FALSE
        /\ position = NoPosition /\ wanted = NoPosition /\ known = NoPosition
        /\ turns = 0 /\ lives = 1
        /\ begun = {} /\ done = {} /\ again = {} /\ entered = {}
        /\ hidden = FALSE /\ unwound = FALSE /\ terminated = FALSE
-----------------------------------------------------------------------------
Top == Last(stack)
Kind(n) == program[n].kind
Past(n) == program[n].last + 1

ShouldSkip == state \in {"Stopping", "Finishing"}

\* The next call is of kind k.
Comes(k) == stack # <<>> /\ at < Past(Top.node) /\ Kind(at) = k

\* The lambda of a call of kind k, or the activity, is at its end.
AtEnd(k) == stack # <<>> /\ at = Past(Top.node) /\ Kind(Top.node) = k

PassOver == at' = Past(at) /\ UNCHANGED stack

Run(pass) == at' = at + 1 /\ stack' = Append(stack, Frame(at, pass))

Leave == stack' = Front(stack) /\ UNCHANGED at

MarkExecuted(e) == [e EXCEPT ![Len(e)] = TRUE]

\* evaluate_condition: a condition that cannot be evaluated is false and stops the instance.
Evaluate(condition) == state' \in {state} \cup (IF condition THEN {} ELSE {"Stopping"})

Set(e) == entered' = entered \cup e
-----------------------------------------------------------------------------
\* choose
Choose ==
    /\ Comes("choose")
    /\ \/ /\ ShouldSkip
          /\ PassOver
          /\ UNCHANGED <<executed, mode>>
       \/ /\ ~ShouldSkip
          /\ Run("run")
          /\ executed' = Append(executed, FALSE)
          /\ mode' = Append(mode, program[at].variant)
    /\ UNCHANGED <<program, state, searching, places, bounds, history>>

\* Mutant: the mode of the choice is forgotten
EndChooseKeepsMode ==
    /\ AtEnd("choose")
    /\ Leave
    /\ executed' = Front(executed)
    /\ UNCHANGED <<program, state, mode, searching, places, bounds, history>>

EndChoose ==
    /\ AtEnd("choose")
    /\ Leave
    /\ executed' = Front(executed) /\ mode' = Front(mode)
    /\ UNCHANGED <<program, state, searching, places, bounds, history>>

OtherIsExecuted == Last(mode) = "exclusive" /\ Last(executed)

\* alternative up to its lambda; the condition is evaluated in search mode, too
PassAlternative ==
    /\ Comes("alternative")
    /\ ShouldSkip \/ OtherIsExecuted
    /\ PassOver
    /\ hidden' = (hidden \/ (~ShouldSkip /\ searching))
    /\ UNCHANGED <<program, state, info, places, bounds,
                   begun, done, again, entered, unwound, terminated>>

Alternative ==
    /\ Comes("alternative")
    /\ ~ShouldSkip /\ ~OtherIsExecuted
    /\ \E condition \in BOOLEAN :
        /\ Evaluate(condition)
        /\ executed' = IF condition THEN MarkExecuted(executed) ELSE executed
        /\ IF condition \/ searching THEN Run("run") ELSE PassOver
        /\ Set(IF condition /\ ~searching THEN {at} ELSE {})
    /\ UNCHANGED <<program, mode, searching, places, bounds,
                   begun, done, again, hidden, unwound, terminated>>

\* Mutant: that the search has ended inside is not noticed
EndAlternativeUnmarked ==
    /\ AtEnd("alternative")
    /\ Leave
    /\ Set(IF Top.searched # searching THEN {Top.node} ELSE {})
    /\ UNCHANGED <<program, state, info, places, bounds,
                   begun, done, again, hidden, unwound, terminated>>

EndAlternative ==
    /\ AtEnd("alternative")
    /\ Leave
    /\ executed' = IF Top.searched # searching THEN MarkExecuted(executed) ELSE executed
    /\ Set(IF Top.searched # searching THEN {Top.node} ELSE {})
    /\ UNCHANGED <<program, state, mode, searching, places, bounds,
                   begun, done, again, hidden, unwound, terminated>>

Otherwise ==
    /\ Comes("otherwise")
    /\ LET runs == ~ShouldSkip /\ (searching \/ ~Last(executed))
       IN  /\ IF runs THEN Run("run") ELSE PassOver
           /\ Set(IF runs /\ ~searching THEN {at} ELSE {})
    /\ UNCHANGED <<program, state, info, places, bounds,
                   begun, done, again, hidden, unwound, terminated>>

EndOtherwise ==
    /\ AtEnd("otherwise")
    /\ Leave
    /\ Set(IF Top.searched # searching THEN {Top.node} ELSE {})
    /\ UNCHANGED <<program, state, info, places, bounds,
                   begun, done, again, hidden, unwound, terminated>>
-----------------------------------------------------------------------------
\* loop_exec: while searching the lambda runs once for the search; a loop that
\* tests first, or that goes on after the search, starts with its test.
Loop ==
    /\ Comes("loop")
    /\ \/ ShouldSkip /\ PassOver
       \/ ~ShouldSkip /\ searching /\ Run("search")
       \/ ~ShouldSkip /\ ~searching /\ program[at].variant = "post_test" /\ Run("run")
       \/ /\ ~ShouldSkip /\ ~searching /\ program[at].variant = "pre_test"
          /\ at' = Past(at)
          /\ stack' = Append(stack, Frame(at, "run"))
    /\ UNCHANGED <<program, state, info, places, bounds, history>>

\* The lambda has run in search mode.
LoopSearched ==
    /\ AtEnd("loop") /\ Top.pass = "search"
    /\ IF searching THEN Leave
       ELSE stack' = [stack EXCEPT ![Len(stack)].pass = "run"] /\ UNCHANGED at
    /\ UNCHANGED <<program, state, info, places, bounds, history>>

LoopTest ==
    /\ AtEnd("loop") /\ Top.pass = "run"
    /\ \/ /\ turns < MaxTurns /\ ~ShouldSkip
          /\ turns' = turns + 1
          /\ at' = Top.node + 1
          /\ UNCHANGED <<state, stack>>
       \/ Leave /\ Evaluate(FALSE) /\ UNCHANGED turns
    /\ UNCHANGED <<program, info, places, lives, history>>

LoopsAt == {i \in DOMAIN stack : Kind(stack[i].node) = "loop"}

\* Leave the lambdas from that of the i-th call on, and the calls after the n-th.
Unwind(i, n) ==
    /\ at' = Past(stack[i].node)
    /\ stack' = SubSeq(stack, 1, n)
    /\ unwound' = (unwound \/ \E j \in i + 1 .. Len(stack) : Kind(stack[j].node) = "choose")

\* escape: Error::BreakLoop passes all lambdas up to the innermost loop, which
\* ignores it while its lambda runs for the search; without a loop it is an
\* error of the model.
Escape ==
    /\ Comes("escape")
    /\ \/ /\ searching \/ ShouldSkip
          /\ PassOver
          /\ UNCHANGED <<state, unwound>>
       \/ /\ ~searching /\ ~ShouldSkip /\ LoopsAt = {}
          /\ Unwind(1, 1)
          /\ state' = "Stopping"
       \/ /\ ~searching /\ ~ShouldSkip
          /\ \E i \in LoopsAt : /\ \A j \in LoopsAt : j <= i
                               /\ Unwind(i, IF stack[i].pass = "run" THEN i - 1 ELSE i)
          /\ UNCHANGED state
    /\ UNCHANGED <<program, info, places, bounds,
                   begun, done, again, entered, hidden, terminated>>
-----------------------------------------------------------------------------
Critical ==
    /\ Comes("critical")
    /\ IF ShouldSkip THEN PassOver ELSE Run("run")
    /\ UNCHANGED <<program, state, info, places, bounds, history>>

EndCritical ==
    /\ AtEnd("critical")
    /\ Leave
    /\ UNCHANGED <<program, state, info, places, bounds, history>>

\* in_search_mode(label): finding the label ends the search
Found(label) == searching /\ wanted.label = label

\* Mutant: the details are mixed up
InSearchModeMixedUp(label) == searching /\ (Found(label) => wanted.detail = "at")

InSearchMode(label) == searching /\ (Found(label) => wanted.detail = "after")

\* Mutant: the position counts as passed from the beginning
WeelProgressSkips(label, detail) ==
    /\ position' = [label |-> label, detail |-> "after"]
    /\ known' = [label |-> label, detail |-> "after"]

\* weel_progress, and the changes of the position that activities publish
WeelProgress(label, detail) ==
    /\ position' = [label |-> label, detail |-> detail]
    /\ known' = [label |-> label, detail |-> detail]

\* weel_activity up to its position, and past it when it is not to run
BeginActivity ==
    /\ Comes("activity")
    /\ searching' = (searching /\ ~Found(at))
    /\ IF InSearchMode(at) \/ ShouldSkip
       THEN PassOver /\ UNCHANGED <<position, known, begun>>
       ELSE /\ Run("run")
            /\ WeelProgress(at, "at")
            /\ begun' = begun \cup {at}
    /\ UNCHANGED <<program, state, executed, mode, wanted, bounds,
                   done, again, entered, hidden, unwound, terminated>>

\* Mutant: an activity that the vote after it stops is published as unmarked
CompleteActivityUnmarks ==
    /\ AtEnd("activity")
    /\ Leave
    /\ \E detail \in {"after"} \cup (IF state = "Running" THEN {"unmark"} ELSE {}) :
        /\ WeelProgress(Top.node, detail)
        /\ state' = IF detail = "unmark" THEN "Stopping" ELSE state
    /\ done' = done \cup {Top.node}
    /\ again' = again \cup ({Top.node} \cap done)
    /\ UNCHANGED <<program, info, wanted, bounds,
                   begun, entered, hidden, unwound, terminated>>

\* It is done, and the vote after it may stop the instance.
CompleteActivity ==
    /\ AtEnd("activity")
    /\ Leave
    /\ WeelProgress(Top.node, "after")
    /\ state' \in {state} \cup (IF state = "Running" THEN {"Stopping"} ELSE {})
    /\ done' = done \cup {Top.node}
    /\ again' = again \cup ({Top.node} \cap done)
    /\ UNCHANGED <<program, info, wanted, bounds,
                   begun, entered, hidden, unwound, terminated>>

\* It is left as it is: by a stop, a vote against it, or an error.
LeaveActivity ==
    /\ AtEnd("activity")
    /\ Leave
    /\ state' = "Stopping"
    /\ UNCHANGED <<program, info, places, bounds, history>>

\* stop
Stop ==
    /\ Comes("stop")
    /\ searching' = (searching /\ ~Found(at))
    /\ IF InSearchMode(at) \/ ShouldSkip
       THEN UNCHANGED <<state, position, known>>
       ELSE WeelProgress(at, "after") /\ state' = "Stopping"
    /\ PassOver
    /\ UNCHANGED <<program, executed, mode, wanted, bounds, history>>

Terminate ==
    /\ Comes("terminate")
    /\ IF searching \/ ShouldSkip
       THEN UNCHANGED <<state, terminated>>
       ELSE state' = "Finishing" /\ terminated' = TRUE
    /\ PassOver
    /\ UNCHANGED <<program, info, places, bounds,
                   begun, done, again, entered, hidden, unwound>>
-----------------------------------------------------------------------------
\* stop_weel, at any time.  It reads the state before it sets it, so a
\* terminate may come in between.
StopWeel ==
    /\ state \in {"Running", "Finishing"}
    /\ state' = "Stopping"
    /\ UNCHANGED <<program, at, stack, info, places, bounds, history>>

\* start, after the model has returned.  Only the position of this life is
\* unmarked when the instance has finished.
EndModel ==
    /\ AtEnd("model")
    /\ stack' = <<>>
    /\ IF state = "Stopping"
       THEN state' = "Stopped" /\ UNCHANGED known
       ELSE /\ state' = "Finished"
            /\ known' = IF position = NoPosition THEN known ELSE NoPosition
    /\ UNCHANGED <<program, at, info, position, wanted, bounds, history>>

\* startup and start of a new process: it searches for the position the CPEE
\* has kept.
Restart ==
    /\ state = "Stopped" /\ lives < MaxStarts
    /\ lives' = lives + 1
    /\ state' = "Running"
    /\ at' = 2
    /\ stack' = <<[node |-> 1, searched |-> known # NoPosition, pass |-> "run"]>>
    /\ executed' = <<>> /\ mode' = <<>>
    /\ wanted' = known
    /\ searching' = (known # NoPosition)
    /\ position' = NoPosition
    /\ turns' = 0
    /\ terminated' = FALSE
    /\ UNCHANGED <<program, known, begun, done, again, entered, hidden, unwound>>

Done == state \in {"Finished", "Stopped"} /\ UNCHANGED vars

Next == \/ Choose \/ EndChoose
        \/ PassAlternative \/ Alternative \/ EndAlternative
        \/ Otherwise \/ EndOtherwise
        \/ Loop \/ LoopSearched \/ LoopTest \/ Escape
        \/ Critical \/ EndCritical
        \/ BeginActivity \/ CompleteActivity \/ LeaveActivity
        \/ Stop \/ Terminate \/ StopWeel
        \/ EndModel \/ Restart \/ Done

Spec == Init /\ [][Next]_vars
-----------------------------------------------------------------------------
TypeOK ==
    /\ program \in Programs
    /\ state \in {"Running", "Stopping", "Stopped", "Finishing", "Finished"}
    /\ at \in 2 .. Len(program) + 1
    /\ stack \in Seq([node : Nodes(program), searched : BOOLEAN, pass : {"run", "search"}])
    /\ executed \in Seq(BOOLEAN) /\ mode \in Seq(Variants)
    /\ searching \in BOOLEAN
    /\ {position, wanted, known} \subseteq Positions \cup {NoPosition}
    /\ turns \in 0 .. MaxTurns /\ lives \in Nat
    /\ begun \subseteq Nodes(program)
    /\ again \subseteq done /\ done \subseteq begun
    /\ entered \subseteq Nodes(program)
    /\ {hidden, unwound, terminated} \subseteq BOOLEAN

\* The chooses among the first i calls of the stack
Depth(i) == Cardinality({j \in 1 .. i : Kind(stack[j].node) = "choose"})

\* Unless an escape has left a choose (its entries then stay behind), the two
\* stacks of ThreadInfo are those of the chooses the thread is in, so every
\* alternative reads the entry of its own choose, after errors, too.
StacksMatch ==
    ~unwound =>
        /\ Len(executed) = Depth(Len(stack)) /\ Len(mode) = Depth(Len(stack))
        /\ \A i \in DOMAIN stack :
              Kind(stack[i].node) = "choose" =>
                  mode[Depth(i)] = program[stack[i].node].variant

Around(n) == {k \in Nodes(program) : n \in Within(program, k)}

InLoop(n) == \E k \in Around(n) : Kind(k) = "loop"

\* The branches of a choose of which an activity has begun
Taken(c) == {k \in Children(program, c) :
                (Within(program, k) \cap begun) # {}}

OtherwiseIsLast(c) ==
    \A k, l \in Children(program, c) : Kind(k) = "otherwise" => l <= k

\* A choose outside of loops takes one branch if it is exclusive, and never
\* takes otherwise together with an alternative, also when the instance is
\* stopped inside of it and conditions have other results after the restart.
\* Nothing is said of an alternative after the otherwise: it does not know that
\* that has run.
ChoiceIsKept ==
    ~unwound =>
        \A c \in Nodes(program) :
            Kind(c) = "choose" /\ ~InLoop(c) /\ OtherwiseIsLast(c)
            /\ Cardinality(Taken(c)) > 1 =>
                /\ program[c].variant = "inclusive"
                /\ \A k \in Taken(c) : Kind(k) = "alternative"

\* However often the instance is stopped and started again, no activity
\* outside of loops is completed twice.
CompletedOnce == \A n \in again : InLoop(n)

\* What every run of the program has to pass
Mandatory(n) == \A k \in Around(n) : Kind(k) \in {"model", "critical"}

Complete ==
    \A n \in Nodes(program) : Mandatory(n) =>
        /\ Kind(n) = "activity" => n \in done
        /\ (Kind(n) = "choose" /\ \E k \in Children(program, n) : Kind(k) = "otherwise")
              => (Children(program, n) \cap entered) # {}

\* An instance that has finished without terminate has completed everything
\* outside of choices and loops and has taken a branch of every choice that
\* has an otherwise, over all its lives.  Left out are instances whose search
\* has passed over an alternative.
FinishedIsComplete == state = "Finished" /\ ~terminated /\ ~hidden => Complete

\* The same for the search alone: whatever the conditions are after the
\* restart, the search tries every branch and finds the position, so that a
\* restarted instance does not finish without having done its work.
SearchTriesAll == state = "Finished" /\ ~terminated => Complete
=============================================================================
