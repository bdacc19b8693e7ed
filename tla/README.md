# Verification of forge

forge runs LLM agent sessions on a lock-free runtime. This directory models the runtime and the
services built on it in TLA+. TLC checks the modules on small instances; TLAPS checks proofs about
all of these components for every value of their constants. Paths below are relative to `src/src/`
unless they start with `src/`.

## The system

HTTP threads create sessions. Each session is a task in a work-stealing thread pool and runs a
workflow (ReAct, plan-execute or map-reduce). A workflow keeps a conversation, calls the LLM through a
throttled client and runs tools through an executor; the latter two submit further tasks to the same
pool and wait for their futures. A worker that waits runs other tasks meanwhile. A collector thread
removes sessions that have ended. A signal stops the server, and `main()` then destroys the parts one
after the other.

```
main ── HttpServer ── SessionManager ── ConcurrentMap
signal      │ collector      │ submit
            └────────────────┤
                ThreadPool  =  workers × (MPSCQueue + WorkStealingDeque)
                     │ runs
   ReAct / PlanExecute / MapReduce ── ThrottledLLMClient ── RateLimiter, Semaphore
      │              │                         └── LLMClient ── AsyncHttpClient
   Conversation    ToolExecutor ── shell, calculator, ...
   (results travel through Promise / Future)
```

Two more parts are built on these and have no caller in the program yet, only tests:
`SummarizingConversation` on `Conversation`, and `TaskDAG` on `ToolExecutor`.

## Inventory

| component (source) | state | operations | hard behaviour | what should hold |
|---|---|---|---|---|
| MPSC queue (`core/mpsc_queue.h`) | `head_`, `tail_`, nodes | push, pop, destructor | a producer preempted between exchange and link; a freed address handed out again | FIFO, no use after free, no leak |
| work-stealing deque (`core/work_stealing_deque.h`) | `top_`, `bottom_`, buffers | push with growth, pop, steal | the race for the last item; a thief reading a replaced buffer | each item returned once |
| Promise / Future (`core/future.h`) | `ready_`, value, `exception_`, `continuation_` | set_value, set_exception, then, get, wait_for, destructor | `then` against `set_value`; exceptions; dropped promises | callback called once, freed once |
| thread pool (`core/thread_pool.{h,cpp}`) | queues, worker stacks, `stop_` | submit, submit_local, worker loop, try_process_one, destructor | all workers waiting at once; shutdown while tasks submit tasks | no task twice, none lost, no starvation |
| semaphore (`core/semaphore.h`) | `permits_` | acquire, try_acquire, release | stale copies in the CAS loop | permits conserved |
| rate limiter (`core/rate_limiter.h`) | `tokens_`, `last_refill_` | acquire, try_acquire with refill | two threads claiming one time window; truncation | every window refilled once |
| throttled LLM client (`llm/throttled_llm_client.h`, `llm/llm_client.h`) | permits, calls in flight | complete | a permit held by a suspended task; a call that throws | permit out exactly while in flight |
| concurrent map (`core/concurrent_map.h`) | stripes | insert_if_under, size, keys, with_value, erase | reads stripe by stripe; a stripe locked by a thread that a signal has stopped | capacity |
| session manager (`session/session_manager.{h,cpp}`) | sessions, `inflight_` | create, get, cancel, gc, destructor | gc against creation; a workflow that throws or never ends | only ended sessions are reaped; the destructor waits |
| session, ReAct (`session/session.h`, `workflow/react.cpp`) | state, step count, answer, error, cancel flag | run | readers between two writes; cancellation during a call | a terminal state comes with its result |
| HTTP server, `main()` (`server/http_server.cpp`, `main.cpp`) | `svr_`, `gc_stop_`, `gc_thread_`, `g_server`; a subscriber's last view | start, stop, destructor, signal handler, collector, subscribe | stop() called from a signal handler on any thread, at any time, and from the destructor; polling misses states | nothing uses what is destroyed; shutdown and stream end |
| map-reduce (`workflow/map_reduce.cpp`) | subtasks, locals of `run` | decompose, map, reduce | subtasks hold references to locals | no subtask outlives the locals |
| plan-execute (`workflow/plan_execute.cpp`) | plan, step | plan, execute, synthesize | cancellation between the check and the count | a cancelled plan stops |
| tool executor (`tools/tool_executor.h`) | pending calls, deadlines | execute_batch | timeout against a late result; inline execution of handlers and of tasks of other sessions | results match calls |
| conversation (`session/conversation.h`, `session/summarizing_conversation.h`) | messages | push with eviction, clear, summarize | eviction at the limits; the rebuilt history evicts again; the LLM fails | recent messages kept, nothing lost unnoticed |
| task DAG (`workflow/task_dag.h`) | nodes, in-degrees, queue, levels, results | add_node, sort, execute | levels cut from a queue that is being refilled; repeated dependencies | a node comes after what it depends on |
| shell tool (`tools/builtin/shell.h`) | pipe, child | pipe, fork, read, wait | a child forked by another thread inherits the write end | nothing left open, the handler returns |

The remaining components (messages, cost tracker, registry, the other built-in tools, configuration,
logging, metrics, tracing) are listed with reasons under "What is not modelled".

## Modules

| module | models | state and actions |
|---|---|---|
| `MPSCQueue` | `core/mpsc_queue.h` | `head`, `tail` and a heap of reusable addresses (`next`, `value`, `live`); a push is allocate / exchange / link, a pop is load / take, the destructor drains and frees the sentinel |
| `AbstractMPSC` | what the queue promises | a sequence whose newest values may be pending; a value is enqueued, published, dequeued |
| `WorkStealingDeque` | `core/work_stealing_deque.h` | `top`, `bottom`, all buffers ever allocated; one action per access to a shared atomic, for the owner and each thief |
| `AbstractDeque` | what the deque promises | a sequence pushed and popped at one end, stolen from the other |
| `Future` | `core/future.h` | the shared state with its continuation slot, one producer and one consumer; one action per atomic access, dropping either side included |
| `AbstractFuture` | what a future promises | resolved at most once, registered callback fired once with the value |
| `ThreadPool` | `core/thread_pool.{h,cpp}` | deques and queues as their abstract specifications allow, a stack of suspended tasks per worker, the destructor's thread; tasks are small programs of `submit` and `get` |
| `Semaphore` | `core/semaphore.h` | the counter and each client's copy of it |
| `RateLimiter` | `core/rate_limiter.h` | fixed-point tokens, the last refill, a running clock |
| `Backpressure` | the front of `llm/throttled_llm_client.h` | composes the two: a call goes through the rate limiter, then takes a permit, and gives it back when it completes |
| `ThrottledLLM` | `llm/throttled_llm_client.h` on `llm/llm_client.h` | extends `ThreadPool`: sessions acquire a permit, submit the HTTP and the parsing task, chain the release with `then` |
| `SessionManager` | `session/session_manager.cpp` on `core/concurrent_map.h` | the map stripe by stripe, `create_session`, `gc`, `inflight_`, the destructor, workflows that end, throw or hang; three history variables remember what the map was when a thread began to count |
| `HttpServer` | `server/http_server.cpp`, server mode of `main.cpp` | extends `SessionManager`: `start`, `stop` as the handler and as the destructor calls it, the collector's loop, one signal, handled on any thread, which keeps the stripe lock it may have (`held`), HTTP threads, the destructors in their order; the thread `"http"` stands for the requests that create nothing, and only matters when the signal finds it with a stripe locked |
| `Session` | `session/session.h`, its readers and its API | the fields, each written and read in a step of its own; cancel, reap, and the subscriber of `server/http_server.cpp` |
| `ReAct`, `PlanExecute`, `MapReduce` | the three workflows | extend `Session`; the loops with their guards, the LLM's possible answers, exceptions |
| `Workflows` | a session with its workflow | composes the three behind `workflow_factory.h` |
| `ToolExecutor` | `tools/tool_executor.h` | one batch after the other, the worker's deque, handlers that return, throw or hang; `wait_for` reads `ready_`, then the clock, then runs a handler of its own deque, a task of another session, or nothing |
| `TaskDAG` | `workflow/task_dag.h` | extends `ToolExecutor`: a graph is built node by node, sorted into levels one queue operation at a time, and executed level by level |
| `Shell` | `tools/builtin/shell.h` | who holds the write end of each pipe, which read ends are open, and each child; `read()` meets the end of file or fails |
| `ToolCalls` | | composes the three: some calls of the graph are shell commands |
| `Conversation` | `session/conversation.h` | the messages and a log of all that was pushed; a message is its role, its number and the number of the answer whose call it belongs to; pushed as `create_session` and the ReAct loop do |
| `SummarizingConversation` | `session/summarizing_conversation.h` | extends `Conversation`: the same pushes into a history that summarizes, with an LLM that may fail; a summary is the set of the messages it stands for |
| `MCThreadPool`, `MCThrottledLLM` | | the task programs that TLC runs |
| `*Proofs` | | inductive invariants and theorems, see "Proofs" |

Some definitions have a variant right before them, commented "Mutant": a small error of the kind one
might make there. TLC finds the property named beside it in `PROJECT.json` violated when the variant
takes the place of the definition, so every property is known to depend on the code it is about.
Type invariants are conjuncts of `FreedOnce`, `RunOnce`, `PermitsAccounted` and
`TerminalInfoComplete` in the runs of `Future`, `ThreadPool`, `ThrottledLLM` and `Workflows`, and are
proved with them. Those of `MPSCQueue` and `WorkStealingDeque` are theorems, that of `Conversation` is
part of its inductive invariant, and so are those of the rate limiter and, in the form the proofs need,
of `HttpServer` and `TaskDAG`.

What is abstracted: values, messages, prompts and answers are members of small sets; sleeping and
backoff are left out where they only delay polling; time is a flag ("the deadline has passed") except
in `RateLimiter`, where it is counted. Memory accesses are interleaved one at a time (sequential
consistency): the acquire/release pairs and fences of the code are taken to give the order they are
there for, and weak-memory behaviour is not explored.

## Runs

| run | instance | shows |
|---|---|---|
| `mpsc_queue` | 2 producers × 2 pushes, 4 addresses | no node is used after `delete`, also when its address is handed out again; `nullopt` from a non-empty queue means that the oldest push has not linked; refinement of `AbstractMPSC`, which gives the order of the values, with its liveness |
| `work_stealing_deque` | 2 thieves, 3 pushes, capacity 1 growing to 4 | each item is returned once; `pop` fails only on an empty deque; each operation takes effect at one instant (refinement of `AbstractDeque`); items are stolen in the end |
| `future` | a producer, a consumer, either may leave | the continuation has one owner, is called once with the value or not at all, nothing leaks, `get` returns once a setter has begun; refinement of `AbstractFuture` |
| `thread_pool` | 2 workers, 7 tasks, shutdown at any time | no task runs twice; when workers wait, one of them can go on; every submitted task completes, those left to the destructor included; the destructor returns |
| `backpressure` | 2 threads, a clock, 1 permit | permits are conserved; every microsecond is turned into tokens exactly once; a call is let through if tokens and permits stay available |
| `throttled_llm` | 3 sessions, 2 workers, 1 permit, exceptions | requests in flight never exceed the permits; a permit is lost only with a call that throws; unless one does, or a worker waits for a permit held by a call that it has itself suspended, every session ends |
| `http_server` | 2 HTTP threads, 2 sessions for 1 place, 2 stripes, a workflow that may throw, one that may never end, one signal at any time | a session is inserted only if there was room beside those that were there before; no thread or task uses the manager after its destructor; the shutdown is in order unless the signal is handled on a pool thread or the collector, or a workflow threw; only terminal sessions are reaped, and all of them are, those whose workflow threw or hangs being the ones that never become terminal; a server stopped while it listens shuts down, unless a workflow never ends, or the signal stopped an HTTP thread with a stripe locked that the collector needs |
| `workflows` | each workflow; 2 iterations, 3 steps, 2 sub-tasks | a reader never sees a terminal state without its result; after a cancel request at most one more step begins; answers are made from all results; sub-tasks end before the locals they refer to unless one throws; session and stream end |
| `tool_calls` | every graph of up to 3 calls with up to 2 dependencies each: 2 shell commands, one of them endless, and a call that may hang or be unknown | levels are sound and as early as possible; a node is submitted with the results of all it depends on; one result per call, in order; no false timeout; shell handlers leave neither end of a pipe open and no zombies; `execute` returns unless the worker itself has taken up a handler, or a task of another session, that does not come back |
| `conversation` | up to 9 messages, 4 capacities, 5 thresholds, 3 reserves | the newest messages that fit are kept; the tool messages that lose their call are the oldest ones, from one round; while the LLM does not fail, and keep_recent + 3 <= threshold <= capacity, every message is in the history or in a summary of it; whatever the parameters and failures, the recent messages that fit are there verbatim |
| `throttled_llm_deadlock` | 3 sessions, 2 workers, 1 permit | violated: see "Findings" |
| `map_reduce_throw` | 2 sub-tasks | violated: see "Findings" |

**Bounds.** Two producers are enough for an exchange/link inversion, and four addresses are fewer
than the nodes allocated over a run, so addresses are reused. Three pushes from capacity 1 make the
deque grow twice while two thieves hold indices and buffers from before. Two workers and two
sessions make every worker wait at once; the tasks of the second session outlive it, so that
shutdown meets unawaited tasks that submit. Three sessions on two workers are what it takes for a worker
to start a session on top of the call that holds the only permit. In `backpressure` three ticks at 3/2 units make both
truncation and overflow of the bucket happen. In `http_server` two threads pass the capacity check for
one place and overshoot it; how far an overshoot can go with more threads and sessions is proved. One of
the two workflows may throw and the other may hang, so that each is also seen beside a healthy one. Three
nodes are enough for a level that is cut from a queue that is being refilled, for two dependencies and
for a repeated one; larger graphs are covered by proof as far as levels and results go. Nine messages
exceed every capacity and threshold tried, and have room for a system message, a prompt, two rounds of
two tool calls and a last answer. The bounds of `workflows` let each loop be entered, repeated and left
by each of its exits.

**Deadlock** is checked in every run but two: in `mpsc_queue` nothing can happen after the destructor,
and in `future` both handles are gone in the end, or `get` waits for ever on a dropped promise.
Elsewhere the modules say explicitly in which states the system may rest.

**Fairness.** Threads are scheduled. There is weak fairness of each worker, producer and thief, of the
queue's consumer, of a setter and of a reader of a future that have begun, of the workflow, each
sub-task and the subscriber, of the main thread, the collector and the signal handler, and of the HTTP
threads and the workflow tasks of `HttpServer` taken together (each takes finitely many steps there).
Deadlines come, and so does an answer or an error of the LLM in `Workflows`. Handlers end unless they
are declared to hang, and shell commands unless they are declared endless. A waiting worker that has taken
up a task of another session comes back from it or is stuck for good, and a workflow of `HttpServer` ends
unless it is declared to hang.

Strong fairness is assumed where a single attempt may fail but not all of them do. A worker picks its
victims at random or tries them all, so a steal that is possible again and again is made (`StealFrom`).
A `compare_exchange_weak` on a value that is again and again as expected succeeds at last
(`Backpressure`). A terminal session that `gc()` looks at again and again is old enough at last
(`HttpServer`). Nobody need begin anything: submit, cancel, create, destroy, send a signal or set a
promise. In `Backpressure` the clock need not run and no call need complete, and no other worker need be
free to steal from a tool executor's deque.

## Proofs

TLAPS checks these theorems for every value of the constants that meets the named assumptions of the
modules, which TLC evaluates in their runs: bounds are natural numbers; `NULL` is not an address; the
deque's capacity, the number of stripes, of workers and of permits and the capacity of a conversation
are positive; threads that are counted are finitely many, and there is an HTTP thread; shell calls are
known to the registry and end as `Shell` says. (A conversation of capacity 0 keeps nothing, not even
the system message.) Three assumptions are about the task programs of the pool. A task is submitted at
one place of one program, and clients submit other tasks than tasks do (`SubmitAssumption`: a lambda is
moved into one `submit`). A task gets the future of one it has submitted before, or of one that its own
submitter had submitted before, which gets nothing itself, or had got before (`AwaitAssumption`: a
future is returned by `submit` and moved into the lambda that gets it, `llm/llm_client.h:67`). Only
sessions use the semaphore, and each makes one call (`SessionAssumption`; a session with several calls
is several sessions one after the other).

| theorem of `SequenceProofs`, submission queue | states |
|---|---|
| `TypeCorrect` | type correctness |
| `MemorySafety` | no producer stores into a deleted node and the consumer reads none |
| `PopsInOrder` | values come out in exchange order, none skipped |
| `DestructorFreesAll` | the destructor frees every node |
| `HiddenOnlyByPending` | `pop` misses a value only while the push of the oldest one is unfinished |
| `Refinement` | the queue implements the safety part of `AbstractMPSC` |

`IInv` says that the nodes from `tail_` to `head_` are distinct and carry the values
not yet popped (`ChainInv`); that `next` follows this chain except across gaps, each gap owned by one
producer between exchange and link (`LinkInv`); that a node not yet exchanged in is private to its
producer (`PrivateInv`); and that nothing else is allocated (`LiveInv`). Memory safety follows because
the consumer cannot pass the null link at the gap, so that `prev` is alive.
`OrderInv` (values are distinct) is needed on top of it for the refinement and for
`HiddenOnlyByPending`.

| theorem of `CoreProofs`, future | states |
|---|---|
| `FutureTypes` | type correctness, with at most one call of the callback |
| `ContinuationFreedOnce` | `FreedOnce`: one owner at a time, no use after `delete`, nothing left with the shared state |
| `FutureRefinement` | the safety part of `RefinesAbstractFuture`: every step is one of `AbstractFuture` or leaves it alone |

`FutureInv` says how far each side has come. `ProducerInv`: the sentinel is in the slot only when
`ready_` is set and the setter is past its exchange. `ContInv`: `then()` calls the continuation itself
only when the producer is done with the slot, and a live continuation is in the slot, with the
producer, or with `then()`. `CallInv`: nothing has been called before its time, which the refinement
needs.

| theorem of `CoreProofs`, deque | states |
|---|---|
| `TypeCorrect` | type correctness, buffers included |
| `NoTaskTwiceOrLost` | `ExactlyOnce`: an item is in the deque or has been returned once |
| `NulloptMeansEmpty` | `PopFailsOnlyIfEmpty`: `pop` returns `nullopt` only when nothing is left |
| `DequeRefinement` | `RefinesAbstractDeque`: each operation takes effect at one instant |

The inductive invariant relates the live items to the window from `top_` to the owner's view of
`bottom_` (`IndexInv`), the owner's stale copies to the shared indices (`OwnerInv`), and says of every
thief that if its copy of `top_` is still current then it holds a live index and the right item, even
when it reads through a replaced buffer (`ThiefInv`). The slot arithmetic rests on `ModDistinct`: two
indices less than a capacity apart use different slots.

The refinement maps the window to a sequence (`Contents`). Three kinds of steps change it: the store to
`bottom_` that publishes a push (`PushRefines`), the step at which a `pop` is sure of its item, by
having left room or by its CAS (`PopRefines`), and the CAS of a thief (`StealRefines`). The other steps
move no end of the window, and growing or writing a slot changes no item in it (`PushGrowKeeps`,
`PushPutKeeps`).

| theorem of `PoolProofs` | states |
|---|---|
| `RunsOnce` | `RunOnce` for any number of workers and any task programs |

`PoolInv`: a queued task is in one place of one queue (`QueueInv`, `PlaceInv`), a running one in one
frame of one stack (`FrameInv`, `RunningInv`), and what has not been queued yet has not begun. It is
enough for `RunOnce`, and is kept by the LLM calls as well. `PhaseInv` and `RootsInv` say where the
workers and the destructor are, and that only roots are in the submission queues while a worker lives.

| theorem of `ProgressProofs` | states |
|---|---|
| `Starvation` | `NoStarvation`: while workers are in tasks, one of them waits for nothing or for a task in a deque |
| `ShutdownRuns` | `ShutdownRunsAll`: when `~ThreadPool` returns, every submitted task has run to its end, unless it is three or more submits below a root |

`Starvation` needs besides that a task under another one in a stack is waiting (`WaitInv`), and that a
task has done what it has passed (`PassedInv`). The argument looks at the task that was begun last among
those in the stacks. It is on top of its worker's stack. A task that it waits for has been submitted, by
`AwaitAssumption` and `PassedInv`. It is not in a stack, since it would have been begun later, unless it
gets nothing itself and its own worker goes on. Otherwise it is queued, and by `RootsInv` in a deque.

`ShutdownRuns` is the safety part of `EveryTaskCompletes` for any program. `DrainInv` follows what is
left over through the stages of the destructor. No client's submit is under way once `stop_` is set
(`StopInv`), so a worker that exits leaves an empty submission queue (`ExitInv`). What is in the deques
was submitted by tasks (`DequesInv`). The first drain loop therefore runs tasks that were submitted by
tasks and puts what they submit into submission queues. The second loop runs these. What they submit in
turn may go to a queue that is already drained, and only such a task can be missed (`FinalInv`). No run
checks `ShutdownRunsAll`: on the program of `thread_pool`, which has no task so far down, it follows
from `EveryTaskCompletes`.

| theorem of `CallProofs` | states |
|---|---|
| `PermitsTracked` | `PermitsAccounted` for any number of workers, sessions and permits |

`SessionOK` follows one session through its call: where it is in its program, whether it has failed, and
the state of its continuation. A step either leaves what every session holds alone or moves the permit
of one session: taken, given back, or lost with an exception (`CallGoesOn`). That the permits add up then
is a matter of counting (`PermitsCounted`).

| theorem of `WorkflowsProofs`, workflows | states |
|---|---|
| `WorkflowTypes` | type correctness, with the bound on the steps counted |
| `TerminalInfo` | `TerminalInfoComplete` |
| `CancelIsSoon` | `CancelStopsSoon` for any number of iterations and steps |
| `AnswerFromAll` | `AnswersFromAll` |
| `SubTasksFirst` | `SubTasksEndFirst` |

A terminal state is written last and never changes (`EndInv`), so that what was read after it belongs to
it (`ReaderInv`). A step that is counted after a cancel request was decided on before it (`CancelInv`).
There is one result for every step of a plan that has ended (`PlanInv`). Sub-tasks are submitted and
waited for in order, and each counts one step at most (`MapInv`); `run()` ends with a sub-task under way
only if one has thrown (`DanglingInv`).

| theorem of `WorkflowsProofs`, backpressure | states |
|---|---|
| `PermitsKept` | `PermitsConserved` for any number of threads and permits |
| `RefillsOnce` | `RefillAccounted` for any rate, burst and number of threads |
| `NeverAboveRate` | `RateRespected`: no more tokens are granted than a full bucket and the rate allow for |

`FrontInv` adds only where each thread is, so that holders can be counted. It says nothing of the
threads' copies of the counter: the CAS makes sure that a stale one is not used. `LimiterInv` says that
a window about to be claimed is not empty, and that a thread has units on their way only between its
claim and its add; the sum of `RefillAccounted` is inductive with it, and `NeverAboveRate` follows.

| theorem of `ServerProofs` | states |
|---|---|
| `ShutdownInOrder` | `OrderlyShutdown`: what it takes for `stop()` or a destructor to go wrong |
| `NoThreadOutlives` | HTTP threads and collector are done when `~SessionManager` begins |
| `NothingOutlives` | `ManagerOutlivesUsers`: nor does a workflow use the manager after its destructor |
| `OnlyTerminalReaped` | `ReapsOnlyTerminal`: a session about to be erased has stayed terminal since it was inspected |
| `RoomSeen` | `RoomWhenInserting`: there was room beside the sessions that were there before the count |
| `CapacityOvershoot` | the map holds at most one session above its capacity for every other thread that creates sessions |

`TaskInv` says that a session is not terminal before its workflow runs, that each workflow is submitted
once, and that the session `gc()` is about to erase is terminal. `ServerInv` relates where `main()` is
to the server, the collector and the two calls of `stop()`: the server runs only while `main()` is in
`listen()`, `~HttpServer` ends after the collector, a signal handled on the main thread comes before
`~HttpServer`, and one handled on an HTTP thread while `main()` is in `listen()`, which waits for that
thread. `NothingOutlives` adds that the future of a task that is not over is in `inflight_` or on
its way there (`FutureKept`); that the filter in `create_session` keeps these is `PruneKeeps`.

`RoomSeen` follows from `CountInv`: the running sum is not less than what is left of the snapshot in the
stripes visited. The overshoot needs more. Every session of the map is the last one of its thread or
belongs to the snapshot that some thread's last insertion counted. What is left of one of those
snapshots in the map contains what is left of all others, and it had room (`SnapshotInv`). A session that
is being inserted is in no snapshot (`Fresh`).

| theorem of `SequenceProofs`, conversations | states |
|---|---|
| `KeepsRecent` | `RecentKept` for any capacity and number of messages |
| `CutsOneRound` | `OrphansOldest` |
| `SummaryLosesNothing` | `NothingLost` for any capacity, threshold and reserve |
| `SummaryKeepsRecent` | `RecentVerbatim` |

`RecentKept` says what the history is for a given log: the system message, if one was pushed, and the
last messages that fit. It is inductive once only the first message of a log can be a system message
(`SystemFirst`). `OrphansOldest` follows from it, since a log has its tool messages right behind the
answer that asked for them (`Rounds`). `SummaryInv` gives the shape of a summarized history: the system
message, then a summary of an unbroken run of messages or a message of the log, then the end of the log
word for word, the summary only as long as at least `keep_recent` messages follow it. That the rebuilt
history has this shape is shown push by push.

| theorem of `ToolProofs` | states |
|---|---|
| `SoundLevels` | `LevelsSound` for any graph |
| `ResultsMatch`, `TimeoutsAreTrue` | `ResultsMatchCalls`, `NoFalseTimeout` for any calls and unknown tools |
| `ResultsBeforeUse` | `DependenciesFirst`: a node is submitted with the results it needs |
| `ShellCallsAreCalls` | `ToolCalls` implements `TaskDAG`, so that all of this holds with the shell tool |
| `ShellTidy` | `NothingLeftBehind` for any calls and graphs, failing `fork()` and `read()` included |

`SortInv` says that the in-degree of a node is the number of its dependencies, repetitions included,
that have not been taken off the queue, and that the nodes at zero are those queued or taken off; the
front of the queue depends on finished levels only, the rest on a node of the level in progress.
`BatchInv` is about one batch, and needs calls that no earlier batch had: this is what sound levels give
(`RunInv`). A worker that has found `ready_` unset and goes on to the clock waits for a call that was not
complete when its wait began, so that the timeout it may report is true. `ShellInv` says that a running child holds the write end of its own pipe, so that its parent
sees the end of file only after it, whatever other children hold besides, and that a read end is open from
`pipe()` to the end of the reading.

What the recursive functions `Prune` and `PushAll` compute is proved by looking at the least number of
elements for which it would be wrong.

TLC only: liveness, also that of `AbstractMPSC` and `AbstractFuture` (under fairness, beyond this
prover), and the two runs that end in a counterexample.

## Findings

Two statements of the documentation fail, each shown by a run that ends in a counterexample.

* `throttled_llm_deadlock`: `src/README.md:295` says that "Pool starvation is prevented by
  `Future::get()`'s inline work-stealing." A worker that waits in `fut.get()` (`llm/llm_client.h:69`)
  can start another session on top of the call it has suspended. That session blocks in
  `sem_.acquire()`, which does not help the pool, and the permit it waits for is held by the call
  below it on the same stack.
* `map_reduce_throw`: `workflow/map_reduce.cpp:178` says "Wait for all sub-tasks." `f.get()` rethrows
  the exception of the first sub-task that threw, and `run()` is left while other sub-tasks still use
  its locals.

Other differences between what is written and what the code does, and other limits of what it promises,
were met while modelling. They come from reading the code. Where a property or theorem is named, it
states what the code does do; no run exhibits the difference itself.

* `core/mpsc_queue.h:37` calls the link store the linearization point of a push. The exchange fixes
  the order (theorem `PopsInOrder`); the link store only makes the value visible.
* `core/thread_pool.cpp:41` says that the final drain prevents leaks. It does for a left-over task
  that submits one more task (`EveryTaskCompletes`). A chain of two such tasks, submitted from
  the destructor's thread, can end in a queue that is already drained. `ShutdownRunsAll` says which
  tasks can be missed.
* `core/thread_pool.h:83` warns that waiting for a task of `submit_local` is a deadlock with one
  worker. The waiting worker runs its own deque first, so it is not.
* `llm/throttled_llm_client.h:24` says the permit tracks requests in flight. A call that completes
  with an exception drops its continuation, and the permit with it (`PermitsAccounted` counts it).
* `session/session_manager.cpp:57` says "Atomic capacity check + insert". The size is read before the
  stripe is locked; `CapacityOvershoot` says by how much the capacity can be exceeded.
* `session/session_manager.cpp:20` says that the destructor waits for all tasks. `f.get()` rethrows in
  a `noexcept` destructor when a workflow threw, which ends the process; `ManagerOutlivesUsers` is about
  destructors that return. For a workflow that never ends it waits for ever (`ShutdownEnds`). Either
  session also keeps its place (`SlotsRecovered`).
* `src/README.md:524` says that the stream has an event for every state change. It polls, so states
  that come and go between two polls are not sent.
* `tools/tool_executor.h:21` says "Blocks until completion or timeout." The waiting worker may run the
  handler itself, or a task of another session, and then looks at the clock only after it; if that never
  returns, as in `throttled_llm_deadlock`, neither does `execute` (`ExecuteReturnsAll`).
* `server/http_server.h:24` calls `stop()` thread-safe. Two calls may both find the collector joinable
  and join it, and a call from the signal handler may still be inside when the server is destroyed;
  `OrderlyShutdown` says when this cannot happen. If the signal interrupts an HTTP thread inside the map, at
  `core/concurrent_map.h:52`, `:93`, `:108`, `:121` or `:135`, this thread joins the collector with a
  stripe locked. A collector that needs the stripe, in `keys()`, `with_value()` or `erase()`, then waits
  for it, and neither goes on (`ShutdownEnds` excepts it as `Wedged`). A signal before `listen()` stops the collector, but
  not the server (`ShutdownEnds` is about a server that listens).
* `session/conversation.h:3` says that the oldest messages are evicted. They go one at a time, so that
  tool messages can stay behind without the call they answer; `OrphansOldest` says which.
* `tools/builtin/shell.h:122` forks with descriptors that are not close-on-exec. A handler that reads
  until end of file may therefore wait for another command too, one that was started while its own pipe
  was being set up (`ExecuteReturnsAll` allows for it).

## What is not modelled

* The calculator, the file and search tools, JSON, messages, configuration, logging, metrics, tracing:
  sequential text handling, I/O, or write-only state that nothing here depends on.
* Cost tracker: used by the tests only.
* Tool registry: read-only after start-up.
* `main.cpp`: arguments, configuration, and the CLI mode, which runs one prompt's workflow on the main
  thread, outside the pool, and has no manager or server.
* `ConcurrentMap`'s `insert`, `find` and `contains` (called by tests only); the deque's destructor; the
  registration of workflows at start-up; requests that list sessions, health or metrics (they only read, and are there as holders of a stripe
  lock).
* Locks that the collector does not take (`inflight_mutex_`, a session's `result_mutex`), or that belong
  to libraries (the allocator, the logger), when a signal handler runs on top of them: `stop()` is not
  async-signal-safe in general, and only the stripe locks of this repository are followed.
* The HTTP transport, routing and request parsing: I/O. An HTTP request is a task that returns or
  throws.
* Weak memory: see "Modules".

## Plan

Done: the core runtime, the services on it, the workflows, conversation, tools and shutdown, with a
theorem for every safety property that a run checks. Next, in this order:

1. Sessions that make several LLM calls each, in `ThrottledLLM` and its proof.
2. A store-buffer variant of the deque's `pop` and `steal` that shows what the fences are for.
3. The calculator's parser against a reference definition over short token sequences.
