# Verification of the process engine (weel)

`weel_lib` executes one process instance: `weel_bin` includes a generated model
(a closure that calls the methods of the `DSL` trait) and runs it on its main
thread. The model calls services, evaluates code in an external evaluation
backend, forks threads for the branches of parallel gateways, and can be stopped
at any moment by a signal, by an error, by a panic or by itself; what a stopped
instance has not done is done after a restart. This directory holds TLA+
specifications of that behaviour, configurations for TLC, and proofs for TLAPS.

Line numbers refer to `weel_lib/src/dsl_realization.rs` (DR),
`connection_wrapper.rs` (CW), `data_types.rs` (DT), `redis_helper.rs` (RH),
`eval_helper.rs` (EH) and `weel_bin/src/main.rs` (MAIN).

## The system

| Part | State | Operations | What makes it correct |
|---|---|---|---|
| `BlockingQueue` (DT 256-314) | queue, `num_waiting`, condition variable | `enqueue`, `dequeue`, `wake_all`, `clear` | atomic, first in first out, no lost wake-up |
| Parallel gateway (DR 108-368) | `ThreadInfo` of the gateway's thread: branches, start barrier, event channel, two counters, threshold, condition | `parallel_do`, `parallel_branch` | branches run between release and join and never outside; the gateway goes on exactly when its wait is over |
| Cancellation (DR 288-325, 1574-1623, 2068-2092) | `no_longer_necessary`, `first_activity_in_thread`, signal queues | `recursive_continue`, `parallel_gateway_update` | only losers are cancelled, all of them wake up, none takes the wake-up for an answer |
| Activity and service call (DR 1086-1556, CW 455-978) | `ConnectionWrapper` with `handler_passthrough` and return value, `callback_signals`, `Position` | `weel_activity`, `activity_handle`, `curl`, `handle_callback` | one answer is used once; updates are not lost; an open call is found again after a restart |
| Callback registry (DR 1037-1075, RH 163-269) | `callback_keys` | `register_callback`, `cancel_callback`, the subscription thread | every answer reaches the wrapper that waits for it |
| Life of an instance (DR 689-877, 2037-2066, MAIN, RH 192-199) | `state`, `stop_signal_receiver`, the panic hook of the process | `main`, `start`, `stop`, `terminate`, `set_state`, `stop_weel`, panic hooks | a stop ends everything; the CPEE is told of the end, after it and for good |
| Votes (DR 924-1032, RH 275-372) | `open_votes` | `vote`, `blocking_pub_sub` | nothing runs against a veto |
| Choice, loop, search mode (DR 370-622, 1779-1968) | `alternative_*`, `in_search_mode`, positions | `choose`, `alternative`, `otherwise`, `loop_exec`, `escape`, `critical_do` | choices are exclusive; a restart goes on at the position where the instance was stopped |
| Evaluation (DR 1638-1748, CW 278-336, EH) | `context`, `status`, `EVALUATION_LOCK` | `execute_code`, `evaluate_condition`, `prepare` | no change of the data is lost, seen too early or reported without having been made |
| Mutexes | `thread_information`, `state`, `callback_keys`, wrappers and others | all of the above | nobody waits in a circle |
| Small algorithms | worker counter, loop guard map | `target_worker`, `loop_guard` | in range, throttles as documented |

How they interact: all threads share one `Weel`. Its fields are mutexes of their
own; `thread_information` maps every thread to its `ThreadInfo`. A gateway and
its branches communicate through these records, a `BlockingQueue<()>` as start
barrier and an `mpsc` channel for the end. Activities wait on the
`BlockingQueue<Signal>` of their thread, which is filled by the callback thread
(an answer), by `recursive_continue` (a cancellation or a stop) and by the
activity itself (a synchronous answer). The callback thread finds the activity
through `callback_keys`. The thread that handles signals, and every thread that
panics, sets the state and waits for a message of the main thread.

What is hard: nearly every check and the step that relies on it are separated by
an unlock; wake-ups, answers and cancellations share queues; a stop may come at
any point, from any thread; every message to the CPEE may fail; gateways nest; a
restart repeats the model from the beginning with other conditions.
`PROJECT.json` lists the hazards one by one.

## Modules

| Module | Models |
|---|---|
| `AtomicQueue` | what a user of the queue may rely on (abstract) |
| `BlockingQueue` | the queue with its mutexes, condition variable and late notifications; implements `AtomicQueue` |
| `ParallelGateway` | the model thread and the branches of nested gateways, their activities, cancellation, stop and terminate |
| `ServiceCall` | one activity that calls a service, with its wrapper, the callback thread, the registry and the services; interruption and restart |
| `Lifecycle` | the process from `main` to its exit: panic hooks, vote, model, every way out of `start`, signals and panics |
| `ControlFlow` | a process model on one thread: choices, loops, escapes, activities, stops, restarts and their search |
| `AtomicContext` | what the code of a process model may rely on (abstract) |
| `Evaluation` | threads that evaluate code and conditions; implements `AtomicContext` |
| `LockOrder` | the order in which all procedures take the mutexes |
| `MC*` | instances of these for TLC |
| `*Proofs` | theorems about every module but the abstract ones; `ParallelGateway` has two, `GatewayCoordinationProofs` being the second |

### How state and actions correspond to the code

**`BlockingQueue`.** `queue` and `numWaiting` are the fields; `pc` says where a
thread is inside `enqueue`, `dequeue` or `wake_all`. What happens under the mutex
`queue` is one action; the notification after it is a second one. `Park` is
`Condvar::wait`, `SpuriousWake` its spurious return.

**`ParallelGateway`.** One `pc` per thread. The variables `branches` to `cond` are the
`ThreadInfo` of a thread as a gateway, `parent` to `firstAct` the same record as a
branch, `signal` and `pending` the queue and the wrapper of the activity the
thread is in. One critical section under `thread_information` is one action;
reading `state` elsewhere is a step of its own. `set_state` is one action, because
it keeps `state` locked until it has woken the waiters. The queue of signals is a
Boolean here, as the activity only tells "something is there" from "nothing is
there"; `BlockingQueue` justifies treating `dequeue` as atomic and `ServiceCall`
distinguishes the signals.
`recursive_join` is a traversal with the set `todo`; its order, depth first over a
copy of the children, does not matter for what it waits for.

**`ServiceCall`.** One activity. `signals` is `callback_signals`, `passthrough` and
`value` are in the wrapper, `position` is the `handler_passthrough` of the
`Position` that the CPEE keeps for a restart, `registry` is `callback_keys`, `bus` are
the published Redis messages. The wrapper's mutex makes the steps; it stays locked
over a vote and an HTTP request (`Locked`). `service` is what the services know of
each call: they may answer with the response, after it, or before it has arrived,
send updates first, or never answer. A vote (`Poll`) returns true if no client is
registered for it (`Voters`); with clients the activity stays in it, with its wrapper locked
(`ballot`), unless a message makes it fail (`VoteFails`). A message to the CPEE that fails
ends the activity (`Tell`). A restart is an initial state in which the
position has the id of a call that is still open.

**`Lifecycle`.** Four threads: main, a branch, the callback thread, the thread of the
signals. `pc[Main]` follows `main`, `start` and `vote` statement by statement where
another thread can come in between; every call that publishes has two outcomes,
and each error goes where `?`, `match` and `handle_error` send it. `reported` is
what the CPEE was told of the end. `hook` is the panic hook of the process as the
sequence of what it does: main and the callback thread both take the old one
(`TakeHook`) and install theirs around it (`SetHook`), in any order. A panic runs
the hook on its thread; `rest` is what it still has to do. `stop_weel` reads the
state, releases it, sets it, and waits on the channel of the stop signal
(`messages`, `sender`). The model is reduced to what matters here: one gateway with one
branch, both of which may stop, terminate, fail and panic.

**`ControlFlow`.** A program is the process model in preorder, a sequence of `dsl` calls
with the place of the last call inside each lambda; `at` is the next call, `stack`
the lambdas that are being run, so `?` and `Ok(())` in the code are pops of
`stack`. `executed` and `mode` are `alternative_executed` and `alternative_mode`,
`position` is `branch_position`, `wanted` the search position read at startup. The
stack's `searched` is the local `in_search_mode` of `alternative`, `pass` says
which `execute_lambda` of `loop_exec` a round belongs to. Conditions have any result at
any evaluation. `known` is the position the CPEE keeps; `Restart` is a new process.
`begun`, `done`, `again`, `entered`, `hidden` and `unwound` only record what has
happened, for the properties.

**`Evaluation`.** A value (data, endpoints, status) is the set of the evaluations whose changes
it contains. `execute_code` has the steps the code has: copy the context, copy
the status, the request, apply the context, apply the status, each under its own
mutex, all under `EVALUATION_LOCK` for code that may change something.
`evaluate_condition` keeps the context locked during the request. `told` is what
`inform_manipulate_change` has sent.

**`LockOrder`.** Every procedure is the sequence of mutexes that it locks and
unlocks, a mutex taken only for a moment being one operation (`Brief`). The model
calls any of them in any order, also inside of the lambda of `critical_do`
(`CriticalDo`, `MayCall`): there the mutex of the section stays locked over all that is
called, other sections and the same one included. `evaluate_condition` keeps `context`
locked while it informs the CPEE. No data.

## Runs

| Run | What it asks | Bounds |
|---|---|---|
| `blocking_queue` | type, no lost wake-up, refines `AtomicQueue` with its liveness | 3 threads, 2 elements, queue of 3 |
| `gateway_nested` | counters, justified cancellation, structured parallelism, start barrier, the join, unanswered calls only below a cancelled thread | 3 branches in up to 2 levels, 2 gateways in sequence on the model's thread, wait all, 0, 1, 2, both conditions |
| `gateway_stop` | type, the end of the gateway is signalled, no wake-up taken for an answer, Stopped means ended | 2 branches of 2 calls, refused calls, errors, stop, terminate, signals |
| `gateway_live` | a stop ends the process; a last gateway opens | 2 nested levels, wait 1, calls nobody answers |
| `service_call` | an open call is remembered, the code fits the answer, a fresh call never waits for nothing, and is done if undisturbed, a stop ends it unless it waits for a vote | 1 update, everything at once: new and restarted call, again, raise, faults, votes with and without clients, stop, terminate, cancellation |
| `lifecycle` | the CPEE is told of the end; who takes a final state back; a stop waits for the model, and ends; a panic of the callback thread ends the process | 0 or 1 client, 1 signal, 1 panic besides those that follow from it, every message may fail |
| `evaluation` | copies stay current, prepare stays local, what is told is applied, conditions see current data, refines `AtomicContext` | 3 threads with one evaluation of any kind each, all results |
| `control_flow` | stacks, choices kept over restarts, nothing done twice, finished means complete | 9 programs of up to 14 calls, 3 turns of loops per life, 4 lives |
| `locks` | nobody waits in a circle, except in the three known ways | 2 workers and the callback thread, all procedures, 2 sections |
| `gateway_first_hangs` | disagreement, see below | 2 branches |
| `search_hidden` | disagreement | 1 program, 2 lives |
| `vote_never_passes` | disagreement | 1 client that answers, no faults |

Why these bounds are enough: a gateway's branches only interact through counters
compared with a threshold of 0, 1, 2 or all, so three branches show every relation
of a branch that ends before, at and after the threshold, and two levels of
nesting every relation of a thread, its parent and its grandparent (`Subtree` and
`recursive_join` treat deeper levels alike). A second gateway on the same thread
shows whatever is not reset. A call has one wrapper and takes a second id only
when code says again, so two ids and one repetition suffice; an update and the answer show one message
that overtakes another. `main`, a branch, one signal and one panic give up to three threads that
want the state and two that want the one stop signal; more clients only repeat the
vote. Three evaluations show a change between the copy and the application
of another and a reader of both. The programs of `control_flow` hold every kind of
call, every nesting of a choice or loop in another that the stacks can confuse, and
escapes to each place that handles them; a life ends at any call, and three restarts let a
restarted instance be stopped and restarted again. Two workers and the callback
thread show every pair of locks that two threads take in opposite orders, and two sections
every nesting of one in another. Where
the proofs below apply, no bound is involved.

`CHECK_DEADLOCK FALSE` is used for the queue (everybody may wait on an empty
queue), for `ServiceCall` (the activity has been left and nothing is on its way),
for `Lifecycle` (the process has ended, or hangs in one of the ways named below) and
for `LockOrder` (the known circles).

### Fairness

* `BlockingQueue`: a notification that is due is given (weak), and a thread that wants
  the mutex gets it in the end although others take it again and again (strong:
  the futex based `Mutex` is not fair, but under no permanent contention here).
* `ParallelGateway`: weak fairness of every thread's own steps and of the signal
  thread once a signal has been received. Nobody has to send a signal, and no service
  has to answer.
* `ServiceCall`: weak fairness of the activity and of the callback thread. A request ends
  in the end because `http_helper/src/lib.rs:125` sets a timeout of 20 seconds. A
  vote with clients has no end that could be relied on: `stop_weel` answers the open
  votes only after the model has ended, and on a channel nobody listens to (DR 859), so
  `VoteFails` is not fair and `StopEnds` excepts an activity that waits for a vote. That
  services answer is assumed by `Completes` alone (`ServicesAnswer`).
* `Lifecycle`: weak fairness of main, the branch and the callback thread. Nobody has to
  send a signal, fail, panic, or answer a vote (only `AnsweringSpec`, of the run
  `vote_never_passes`, has the clients answer), and the model and its branch
  only have to end once the instance is terminating: before, they may wait for
  services. That they end then is what `gateway_live` shows.
* `LockOrder`, `ControlFlow`, `Evaluation`: none; only safety.

## Proofs

TLAPS checks the theorems for every value of the constants that satisfies the
named assumptions (`QueueAssumption`, `GatewayAssumption`, `CallAssumption`,
`LifecycleAssumption`, `EvaluationAssumption`, `LockAssumption`,
`ControlFlowAssumption`: types of the parameters, finiteness of the set of threads,
that a program is the preorder of a tree of calls; nothing about the
behaviour). Two theorems have a precondition of their own, which is named below
together with the reason.

* `BlockingQueueProofs`: `TypeCorrect`; `WakeupsNotLost`, which is inductive together with
  the type invariant, by counting the threads at each program point; and
  `StepsAreAtomic`: every step is a step of `AtomicQueue` or leaves its variables
  alone. The liveness half of the refinement is TLC's.
* `ParallelGatewayProofs`: `TypeCorrect`, `GatewaysAreStructured`
  (`StructuredParallelism`) and `BarrierIsRespected` (`BarrierHolds`) from one inductive
  invariant. Neither property is inductive: that branches have ended when a
  gateway is left follows from `JoinCovers` (while the gateway joins, every branch has
  ended or is still to be joined), that only the gateway's own threads count from
  `Kinship` (`branches` and `parent` agree and the tree has no sharing), and the barrier from
  `Unreleased` (before the release no branch has its element). The lemma `Quiet`
  handles all steps that touch none of these.
* `GatewayCoordinationProofs`, on top of it, in four parts:
  * `CountersAreRight` (`CountersAgree`), `CancelIsJustified` (`CancelJustified`) and
    `EndSignalReachesGateway` (`EndIsSignalled`), for any number of branches, any nesting
    and any sequence of gateways. The counters are those of the branches in
    `branches[t]`, so the invariant first says when these are all there are: `Enrolled`,
    as long as the gateway is `Counting` (a thread that leaves a gateway because
    the instance ends leaves branches behind, and its next gateway would count them).
    Then `FinishedCounts` and `WinnersCount` are cardinalities, a branch is cancelled
    only after the gateway has spawned all (`Uncancelled`), and the message is in the
    channel once the last branch has counted itself (`Signalled`). `Calm` handles
    the steps that count nothing.
  * `GatewayWaits` (`GateWaitsForBranches`), for any nesting: a message in the channel of a
    gateway comes from its last branch or from the cancellation of a thread above
    (`EventExplained`). It speaks of the whole tree below a thread, which `Subtree`
    computes by recursion. The lemmas `SubtreeReached`, `ReachedInside` and
    `ReachedKept` do the induction for the recursive function that `Subtree` is, over
    the set of the numbers for which the claim holds (`AllNumbers`): who is below a
    thread stays below it unless a thread between them starts another gateway, and all its
    earlier branches have ended then.
  * `UnansweredAreAbandoned` (`OnlyAbandonedUnanswered`), for any nesting: an activity that has
    been woken has its answer, was cancelled, or is below a thread that was
    (`WakeUpsExplained`). This is the exact extent of the disagreement on
    `ResultIsAnswered` below.
  * `StoppedAfterAll` (`StoppedMeansEnded`) and `ResultsAreAnswered` (`ResultIsAnswered`), for any number of
    branches and gateways, but with the precondition that only the model's thread
    runs gateways (`Forks \subseteq {Main}`): with nested gateways the code
    breaks both, see below. What start joins is all that runs, because main is the only
    thread that spawns and is at the join meanwhile (`Levels`).
* `ServiceCallProofs`: `TypeCorrect` and `OpenCallsAreKept` (`OpenCallIsRemembered`). The
  invariant has to say where the id of an open call is at every program point
  (`DueIsKnown`). Since the callback thread clears the wrapper for any answer that it
  finds registered, it speaks of calls whose answer is still to be handled, and it
  needs `AnsweredOnce`: no call has two answers on the bus, and none after its last.
  `CodeSeesAnswer` (`CodeFitsAnswer`) needs more. Until code says again
  there is one call, nobody listens before it is made, and its final message is the last
  (`OneCall`), so that neither value nor wrapper changes after the answer (`AnswerStays`);
  every signal in the queue has its cause in that answer, a stop or a
  cancellation (`SignalsExplained`). An update that overtakes the look at the queue
  leaves only signals that are explained by the answer, too.
  `FreshCallsAreAnswered` is `WaitIsJustified`, whatever stops or cancels the call
  meanwhile. That property speaks of calls that the activity has made itself, before code
  says again, because the code needs that: an open call of an earlier process may be
  answered before this one has registered it again, and a second round may register an
  answered call (see below).
* `LifecycleProofs`: `TypeCorrect`, `EndAlwaysTold` (`EndIsTold`), `StopsOutlastModel` and `FinalStatesKept`, for any number of clients, signals and
  panics. The last two are action properties: which steps may change a final
  state, or take the stop signal, depends on where main is. The inductive invariant
  `Safe` therefore follows main through `start`: while it is before or in the model no final state is
  set (`NotFinalYet`), main is only past the end once the CPEE
  has been told (`ToldAtReturn`), the channel is empty and the sender alive until then
  (`SignalledLate`), and a panic hook that main is in was main's (`HookPanics`).
* `EvaluationProofs`: `TypeCorrect`, `CopyStaysCurrent`, `PreparationStaysLocal`,
  `ToldStaysApplied`, `ConditionStaysCurrent`, and `EvaluationsAreAtomic`: `Evaluation`
  implements `AtomicContext`, for any number of threads and evaluations. That a copy
  stays current follows from who holds `EVALUATION_LOCK` at each program point; that
  the CPEE's values are in the store, from the store only growing while a copy is
  current; that an evaluation is applied once, from the numbers of the evaluations that
  are past.

* `LockOrderProofs`: `NoOtherCircles` (`OnlyKnownCircles`), for any number of workers and
  sections. The argument is that of a lock order, with a level for every pair of a thread
  and a mutex that it waits for: a wrapper and `callback_keys` are taken in both orders, but
  by different threads, and a section comes before everything else. In a circle one of
  the threads waits against the levels, and those who may are inside `set_state`, register a
  callback again or nest sections. The invariant (`ProgramsFit`) says that the rest of each
  thread's program fits what it holds: it can be run from there, unlocks everything, and
  waits only in order. A call made inside of sections is run from holding these, and what
  follows a section entered inside of itself is never reached (`Never`).
* `ControlFlowProofs`: `TypeCorrect`, `StacksAlwaysMatch` (`StacksMatch`), `OnlyLoopsRepeat` (`CompletedOnce`),
  `ChoicesAreKept` (`ChoiceIsKept`) and `NothingIsMissed` (`FinishedIsComplete`), for every
  program, all results of its conditions, stops anywhere, and any number of lives. The
  inductive invariant has five layers:
  * `Shape`: the stack of running lambdas is a path in the tree of calls and `at` is a
    continuation of its top; needs no induction over the stack, since a frame names its call
    and the calls around it are determined by that.
  * `Positioned`: what is published is the position of the activity that runs or was passed last, a
    search is before its position, and what has been done moves forward (`Progress`),
    except in loops. `CompletedOnce` follows.
  * `StacksMatch` with the heights of `alternative_executed` and `alternative_mode` being the
    number of chooses on the stack (`Height`), as long as no escape has unwound one.
  * `Branching`: the branches that were begun in this or an earlier life are those of
    the choice (`Kept`), the stack goes through one of them or none was (`Follows`), and
    `executed` knows it (`Decided`, `Noted`), also while a search is on.
  * `Completing`: what comes before `at` and is mandatory is done, or the search will
    still get to it (`AfterIsDone`, `PositionPassed`, `Onward`), and a choose that has been left has
    entered a branch (`BranchesEntered`).

Every safety invariant and action property of a passing run has a theorem, two of
them with the preconditions above. Only model-checked is all liveness, including the liveness
half of the refinement of `AtomicQueue`: TLAPS has no support for fairness and
`ENABLED` here.

## Where code and text disagree

Three disagreements are runs with an expected violation:

* `gateway_first_hangs`: after the last winner of a first gateway the code wakes the
  winner's own thread instead of the cancelled siblings (DR 1613); they wait on for
  their callbacks and so does the gateway.
* `search_hidden`: `alternative` evaluates its condition in search mode, too. If it is true, later
  alternatives of an exclusive choice are passed over (DR 443) although the position
  of the restart is in one of them; the search never ends and the instance finishes
  without doing what was left. `weel_lib/src/dsl.rs:73` says that the lambda is
  executed "if search mode is true (as the start position might be in any
  branch)".
* `vote_never_passes`: DR 917 says that `vote` "will return true if no veto was cast". Responses
  are published on `type:worker:id`, `vote` subscribes to
  `vote-response: id` (DR 972), and `split_topic` (RH 360) makes an error of every channel
  name with two parts. So a vote with clients waits for good, also over a stop, or
  fails; none passes, and none is refused by a client. (`extract_handler` has a
  stray `)` in its key, RH 153; the set of clients is empty as long as whoever
  registers them uses the key without it.)

Others were met. Those that a changed configuration shows:

* A stop asked for by one branch: `set_state` wakes only the threads below the caller (DR
  2060), so the branch's siblings wait on and the instance is Stopping for good. Check
  `AnyStopCompletes` with `MCParallelGateway_live.cfg` and `Forks = {m}`, `Waits = {all}`,
  `Jumps = {"stop"}`, `Signals = FALSE`.
* The id of an answered asynchronous call stays in the position, and code that says
  again registers it once more instead of calling (DR 1256): drop `rounds = 0` from
  `WaitIsJustified`.
* With `Forks = {m, a}` in `MCParallelGateway_stop.cfg` (without symmetry),
  `StoppedMeansEnded` is violated: `recursive_join` copies the children of a thread
  before it joins it (DR 787) and misses a branch that is spawned in between.
* `ResultIsAnswered` is violated with `MCParallelGateway_nested.cfg` and `MCOnce` (without
  symmetry): the threads below a cancelled
  branch are woken but not marked (DR 314), and take the wake-up for an answer.
  `OnlyAbandonedUnanswered` shows that this is the only way.
* A failed response that meets a stop runs the finalize code (DR 1387): drop
  `~Terminating` from `CodeFitsAnswer`.

Those that the properties name as exceptions:

* `OnlyKnownCircles`: `set_state` takes `thread_information` with `state` locked (DR 2060),
  most others the opposite way round, so a stop and a branch can wait for each other
  for good; the callback thread locks a wrapper with `callback_keys` locked (RH 216), an
  activity that registers its callback again does the opposite (CW 519). Sections that
  the process model nests in different orders, or inside of themselves, are the third way
  (DR 618); nothing else that is called inside of a section adds a circle of mutexes. A
  gateway in a section whose branches enter the same section hangs, too, on its channel,
  which `LockOrder` leaves out.
* `StopEnds` of `ServiceCall`: an activity that waits for a vote waits on over a stop, for the
  same reason as in `vote_never_passes`.
* `FinalStateKept`: a `stop_weel` that has read Running and then meets the end of the model turns
  Finished into Stopping after the CPEE was told (DR 838). A gateway that is terminated is
  left without joining its branches (DR 178); one of them can still stop or
  terminate the finished instance.
* `EndIsSignalled`: for the same reason. A branch that was left running can begin a gateway
  in the finished instance, and late branches of its gateway before are counted in
  that; it then waits on the channel until the process exits.
* `StopEnds` of `Lifecycle` and `CallbackPanicEnds`: a panic on main or on a branch while the instance runs waits in the hook for
  a model that waits for this very thread (MAIN 166). The two hooks are installed without
  regard to each other (MAIN 158, RH 194), so that either can be lost. A callback thread that panics
  with `callback_keys` locked keeps a branch that wants it, and thus the model, from ending.
* `ToldIsApplied`: what code that says again has changed is told to the CPEE, but not kept (DR 1421).
* `StacksMatch`, `ChoiceIsKept`: an escape out of a `choose` leaves its entries on the two stacks
  (DR 394), so that an enclosing choice reads those of the inner one and may take a second
  branch.

Those seen while reading, which no property is about: the messages about the changes of two
evaluations may overtake each other, since `EVALUATION_LOCK` is released before; `prepare`
combines the changes its code has made with the context of a later moment (CW 291); an escape
in the round of a loop in which the search ends does not leave the loop (DR 537); a restarted
instance that was stopped after its last activity finishes without unmarking that
position; an alternative after an otherwise can run besides it, which does not mark the choice
as decided (DR 487-513), hence the precondition `OtherwiseIsLast` of `ChoiceIsKept`;
`status >= 200 || status < 300` (EH 74) holds for every status; `abort_start`
asserts a state (Ready) that nobody sets.

## Not modelled, and the plan

Left out for good: the wording and format of messages to the CPEE, HTTP and JSON
conversion, configuration files, the injection macro, the translator script. The loop
guard only delays (with its mutex locked, so that one throttled loop delays the
others); without a clock nothing can be said of it. `target_worker` is a counter
modulo the number of workers, which wraps below zero for none.

`ControlFlow` is one thread: the search in branches, where a branch that finds its
position ends the search of its ancestors (DR 1818-1827), is left out, as are
failing messages and invalid labels there. `ParallelGateway` has no errors of a
gateway's lambda and no manipulate activities, and its activities have no clients that vote.
`LockOrder` leaves out the mutexes inside of a `Position` and threads that panic with
mutexes locked.

What could follow, in this order:

1. `ControlFlow` with branches: several positions, the inherited entry of
   `alternative_executed` (DR 238-243), and the search of siblings.
2. An abstract activity (`asked`, `answered`, `left`) that `ServiceCall` implements and
   that is what `ParallelGateway` assumes of a call.
3. Early errors of a gateway's lambda and manipulate activities in `ParallelGateway`.
