----------------------------- MODULE ThreadPool -----------------------------
(***************************************************************************)
(* core/thread_pool.{h,cpp}: workers with a deque and a submission queue   *)
(* each, waiting by helping, and shutdown.                                 *)
(*                                                                         *)
(* A task is a program: it submits tasks and waits for some of them with   *)
(* Future::get().  A worker that waits runs other tasks on top of its      *)
(* stack (backoff() -> yield_fn -> try_process_one).  Deques and queues    *)
(* are used through what WorkStealingDeque and MPSCQueue implement:        *)
(* AbstractDeque, and AbstractMPSC with its pushes in two steps.           *)
(*                                                                         *)
(* The epoch and the sleeps only delay an idle worker by 50us at a time,   *)
(* so an idle worker is one that keeps going round.                        *)
(***************************************************************************)
EXTENDS Naturals, Sequences

CONSTANTS
  NumThreads,
  Tasks,
  Roots,      \* tasks submitted by threads outside the pool
  Program     \* what each task does: a sequence of [op, task] records

Workers == 1 .. NumThreads
Main == 0     \* the thread that runs the destructor; t_worker_id is -1 there
Threads == Workers \cup {Main}

ASSUME PoolAssumption ==
  /\ NumThreads \in Nat \ {0}
  /\ Roots \subseteq Tasks
  /\ Program \in [Tasks -> Seq([op : STRING, task : Tasks])]

Submits(t, k, u) == k \in 1 .. Len(Program[t]) /\ Program[t][k] = [op |-> "submit", task |-> u]
Gets(t, k, u) == k \in 1 .. Len(Program[t]) /\ Program[t][k] = [op |-> "get", task |-> u]

\* Every call of submit() makes a task of its own (new Task in thread_pool.h).
ASSUME SubmitAssumption ==
  \A u \in Tasks : \A t1 \in Tasks : \A k1 \in 1 .. Len(Program[t1]) :
    Submits(t1, k1, u) =>
      /\ u \notin Roots
      /\ \A t2 \in Tasks : \A k2 \in 1 .. Len(Program[t2]) :
           Submits(t2, k2, u) => t1 = t2 /\ k1 = k2

\* What a task waits for: a task it has submitted (map_reduce.cpp:180,
\* tool_executor.h:37, 92); or one submitted before it by the same task, which
\* itself waits for nothing (the HTTP task in llm_client.h:69) or whose result
\* the submitter has.
ASSUME AwaitAssumption ==
  \A t, x \in Tasks : \A k \in 1 .. Len(Program[t]) :
    Gets(t, k, x) =>
      \/ \E j \in 1 .. k - 1 : Submits(t, j, x)
      \/ \E p \in Tasks : \E m \in 1 .. Len(Program[p]) :
           /\ Submits(p, m, t)
           /\ \E j \in 1 .. m - 1 :
                \/ Gets(p, j, x)
                \/ Submits(p, j, x) /\ \A i \in 1 .. Len(Program[x]) : Program[x][i].op # "get"

VARIABLES
  deque,      \* deques_, top first
  subq,       \* submission_queues_
  unlinked,   \* tasks whose MPSC push has not linked its node yet
  next,       \* next_worker_
  pc,         \* where each thread is
  base,       \* where it goes on when its stack is empty again
  stack,      \* the tasks it is in the middle of, as [task, at] records
  cursor,     \* destructor: the queue it drains
  status,     \* tasks: "new", "queued", "running" or "done" (promise set)
  begun       \* history: tasks in the order in which they were started

vars == <<deque, subq, unlinked, next, pc, base, stack, cursor, status, begun>>

Init ==
  /\ deque = [w \in Workers |-> <<>>]
  /\ subq = [w \in Workers |-> <<>>]
  /\ unlinked = {}
  /\ next = 0
  /\ pc = [w \in Threads |-> IF w = Main THEN "up" ELSE "own"]
  /\ base = pc
  /\ stack = [w \in Threads |-> <<>>]
  /\ cursor = 1
  /\ status = [t \in Tasks |-> "new"]
  /\ begun = <<>>

Goto(w, from, to) == pc[w] = from /\ pc' = [pc EXCEPT ![w] = to]
Front(s) == SubSeq(s, 1, Len(s) - 1)
Stopped == pc[Main] # "up"      \* stop_

-----------------------------------------------------------------------------
\* Where a thread goes on after a task: the top of worker_loop, or the drain
\* loop it is in.
ReturnTo(w) == IF pc[w] \in {"own", "sub", "steal"} THEN "own" ELSE pc[w]

\* Thread w starts task t.
Begin(w, t) ==
  /\ pc' = [pc EXCEPT ![w] = "run"]
  /\ base' = [base EXCEPT ![w] = IF stack[w] = <<>> THEN ReturnTo(w) ELSE @]
  /\ stack' = [stack EXCEPT ![w] = Append(@, [task |-> t, at |-> 1])]
  /\ status' = [status EXCEPT ![t] = "running"]
  /\ begun' = Append(begun, t)

\* WorkStealingDeque::pop, by the owner or by the destructor.  Mutant: the
\* item stays in the deque.
WithoutBottomKept(s) == s
WithoutBottom(s) == Front(s)

PopBottom(w, v) ==
  /\ deque[v] # <<>>
  /\ deque' = [deque EXCEPT ![v] = WithoutBottom(@)]
  /\ Begin(w, deque[v][Len(deque[v])])
  /\ UNCHANGED <<subq, unlinked, next, cursor>>

\* MPSCQueue::pop finds the oldest task once its push has linked it.
SubqReady(v) == subq[v] # <<>> /\ Head(subq[v]) \notin unlinked

PopSubq(w, v) ==
  /\ SubqReady(v)
  /\ subq' = [subq EXCEPT ![v] = Tail(@)]
  /\ Begin(w, Head(subq[v]))
  /\ UNCHANGED <<deque, unlinked, next, cursor>>

Move(w, from, to) ==
  Goto(w, from, to) /\ UNCHANGED <<deque, subq, unlinked, next, base, stack, cursor, status, begun>>

-----------------------------------------------------------------------------
\* Looking for a task: worker_loop with an empty stack, try_process_one in get().
Idle(w) == stack[w] = <<>>

\* worker_loop, on every 64th turn: the submission queue first.
PollSubq(w) == pc[w] = "own" /\ Idle(w) /\ PopSubq(w, w)

TakeOwn(w) == pc[w] = "own" /\ PopBottom(w, w)
OwnEmpty(w) == deque[w] = <<>> /\ Move(w, "own", "sub")

TakeSubq(w) == pc[w] = "sub" /\ PopSubq(w, w)
SubqEmpty(w) == ~SubqReady(w) /\ Move(w, "sub", "steal")

StealFrom(w, v) ==
  /\ pc[w] = "steal" /\ v # w
  /\ deque[v] # <<>>
  /\ deque' = [deque EXCEPT ![v] = Tail(@)]
  /\ Begin(w, Head(deque[v]))
  /\ UNCHANGED <<subq, unlinked, next, cursor>>

\* No luck with the victims, which worker_loop picks at random: look at stop_,
\* or at the future again.
StealMiss(w) == Move(w, "steal", IF Idle(w) THEN "check" ELSE "run")

\* Mutant: stop_ is not looked at.
SeesStopNever == FALSE
SeesStop == Stopped

CheckStop(w) == Move(w, "check", IF SeesStop THEN "drain_deque" ELSE "own")

\* What a stopping worker does when its deque is empty.
AfterDrain == "drain_subq"

DrainDeque(w) ==
  /\ pc[w] = "drain_deque"
  /\ IF deque[w] # <<>> THEN PopBottom(w, w) ELSE Move(w, "drain_deque", AfterDrain)

DrainSubq(w) ==
  /\ pc[w] = "drain_subq"
  /\ IF SubqReady(w) THEN PopSubq(w, w) ELSE Move(w, "drain_subq", "exit")

-----------------------------------------------------------------------------
\* Running the task on top of the stack.
Top(w) == stack[w][Len(stack[w])]
Running(w) == pc[w] = "run"
AtEnd(w) == Top(w).at > Len(Program[Top(w).task])
Instr(w) == Program[Top(w).task][Top(w).at]
At(w, op) == Running(w) /\ ~AtEnd(w) /\ Instr(w).op = op
Advance(w) == stack' = [stack EXCEPT ![w][Len(stack[w])].at = @ + 1]

\* submit() looks at t_worker_id.  Mutant: every task is spread round robin.
OnPoolNever(w) == FALSE
OnPool(w) == w \in Workers

\* submit() and submit_local(): a worker pushes to its own deque.
SubmitLocal(w) ==
  /\ OnPool(w)
  /\ At(w, "submit")
  /\ deque' = [deque EXCEPT ![w] = Append(@, Instr(w).task)]
  /\ status' = [status EXCEPT ![Instr(w).task] = "queued"]
  /\ Advance(w)
  /\ UNCHANGED <<subq, unlinked, next, pc, base, cursor, begun>>

\* submit() from any other thread: round robin over the submission queues.
Target == (next % NumThreads) + 1

\* ... from the destructor, which runs left-over tasks.
SubmitExternal(w) ==
  /\ ~OnPool(w)
  /\ At(w, "submit")
  /\ subq' = [subq EXCEPT ![Target] = Append(@, Instr(w).task)]
  /\ next' = next + 1
  /\ status' = [status EXCEPT ![Instr(w).task] = "queued"]
  /\ Advance(w)
  /\ UNCHANGED <<deque, unlinked, pc, base, cursor, begun>>

\* ... from the outside: exchange, then link.
ClientSubmit(r) ==
  /\ ~Stopped /\ status[r] = "new"
  /\ subq' = [subq EXCEPT ![Target] = Append(@, r)]
  /\ unlinked' = unlinked \cup {r}
  /\ next' = next + 1
  /\ status' = [status EXCEPT ![r] = "queued"]
  /\ UNCHANGED <<deque, pc, base, stack, cursor, begun>>

AfterLink(r) == unlinked \ {r}

ClientLink(r) ==
  /\ r \in unlinked
  /\ unlinked' = AfterLink(r)
  /\ UNCHANGED <<deque, subq, next, pc, base, stack, cursor, status, begun>>

\* get(): the future is ready.
GetReady(w) ==
  /\ At(w, "get") /\ status[Instr(w).task] = "done"
  /\ Advance(w)
  /\ UNCHANGED <<deque, subq, unlinked, next, pc, base, cursor, status, begun>>

\* get(): backoff() helps if the thread has a yield_fn.
Helps(w) == w \in Workers

GetHelp(w) ==
  /\ Helps(w)
  /\ At(w, "get") /\ status[Instr(w).task] # "done"
  /\ Move(w, "run", "own")

\* The task returns: its promise is set, the task deleted.
Finish(w) ==
  /\ Running(w) /\ AtEnd(w)
  /\ status' = [status EXCEPT ![Top(w).task] = "done"]
  /\ stack' = [stack EXCEPT ![w] = Front(@)]
  /\ pc' = [pc EXCEPT ![w] = IF Len(stack[w]) = 1 THEN base[w] ELSE "run"]
  /\ UNCHANGED <<deque, subq, unlinked, next, base, cursor, begun>>

-----------------------------------------------------------------------------
\* ~ThreadPool, once every submit() from outside has returned.
Destroy == unlinked = {} /\ Move(Main, "up", "join")

Join == (\A w \in Workers : pc[w] = "exit") /\ Move(Main, "join", "final_deques")

\* Mutant: the drain loops stop one queue early.
LastQueueEarly == cursor >= NumThreads - 1
LastQueue == cursor = NumThreads

\* The next queue of a drain loop, or the next loop.
NextQueue(from, to) ==
  /\ pc' = [pc EXCEPT ![Main] = IF LastQueue THEN to ELSE from]
  /\ cursor' = IF LastQueue THEN 1 ELSE cursor + 1
  /\ UNCHANGED <<deque, subq, unlinked, next, base, stack, status, begun>>

FinalDeques ==
  /\ pc[Main] = "final_deques"
  /\ IF deque[cursor] # <<>> THEN PopBottom(Main, cursor)
       ELSE NextQueue("final_deques", "final_subqs")

FinalSubqs ==
  /\ pc[Main] = "final_subqs"
  /\ IF SubqReady(cursor) THEN PopSubq(Main, cursor) ELSE NextQueue("final_subqs", "gone")

-----------------------------------------------------------------------------
Look(w) ==
  \/ PollSubq(w) \/ TakeOwn(w) \/ OwnEmpty(w) \/ TakeSubq(w) \/ SubqEmpty(w)
  \/ (\E v \in Workers : StealFrom(w, v)) \/ StealMiss(w)
  \/ CheckStop(w) \/ DrainDeque(w) \/ DrainSubq(w)
Run(w) == SubmitLocal(w) \/ SubmitExternal(w) \/ GetReady(w) \/ GetHelp(w) \/ Finish(w)
Worker(w) == Look(w) \/ Run(w)

Client(r) == ClientSubmit(r) \/ ClientLink(r)
Destructor == Destroy \/ Join \/ FinalDeques \/ FinalSubqs
              \/ Run(Main)

\* The pool is gone.
Gone == pc[Main] = "gone" /\ UNCHANGED vars

Next ==
  \/ \E w \in Workers : Worker(w)
  \/ \E r \in Roots : Client(r)
  \/ Destructor
  \/ Gone

(***************************************************************************)
(* Threads run on.  A worker that keeps looking for a victim while there   *)
(* is one finds it: worker_loop picks victims at random, try_process_one   *)
(* tries all.  Nobody need submit a root or destroy the pool.              *)
(***************************************************************************)
Spec == Init /\ [][Next]_vars
Fairness ==
  /\ \A w \in Workers : WF_vars(Worker(w))
  /\ \A w, v \in Workers : SF_vars(StealFrom(w, v))
  /\ \A r \in Roots : WF_vars(ClientLink(r))
  /\ WF_vars(Destructor /\ Stopped)
FairSpec == Spec /\ Fairness

-----------------------------------------------------------------------------
Frames == [task : Tasks, at : Nat]

\* Type invariant.
TypeOK ==
  /\ deque \in [Workers -> Seq(Tasks)]
  /\ subq \in [Workers -> Seq(Tasks)]
  /\ unlinked \subseteq Roots
  /\ next \in Nat
  /\ pc \in [Threads -> {"up", "own", "sub", "steal", "check", "drain_deque", "drain_subq",
                         "exit", "run", "join", "final_deques", "final_subqs", "gone"}]
  /\ base \in [Threads -> {"up", "own", "drain_deque", "drain_subq", "final_deques",
                           "final_subqs"}]
  /\ stack \in [Threads -> Seq(Frames)]
  /\ cursor \in Workers
  /\ status \in [Tasks -> {"new", "queued", "running", "done"}]
  /\ begun \in Seq(Tasks)

(***************************************************************************)
(* No task is run twice, whoever takes it from where: the owner, a thief,  *)
(* a waiting worker, a stopping worker or the destructor.  Variables keep  *)
(* their types (TypeOK).                                                   *)
(***************************************************************************)
RunOnce == TypeOK /\ \A i, j \in 1 .. Len(begun) : begun[i] = begun[j] => i = j

(***************************************************************************)
(* "All workers are blocked waiting for results, but nobody is processing  *)
(* the tasks that would produce those results" (README.md:203) does not    *)
(* happen: of the threads inside tasks, at least one can go on or waits    *)
(* for a task that it can take from a deque.                               *)
(***************************************************************************)
Awaits(w, t) == ~AtEnd(w) /\ Instr(w) = [op |-> "get", task |-> t] /\ status[t] # "done"
InDeque(t) == \E v \in Workers : \E k \in 1 .. Len(deque[v]) : deque[v][k] = t
NoStarvation ==
  (\E w \in Workers : stack[w] # <<>>) =>
     \E w \in Workers : stack[w] # <<>> /\ \A t \in Tasks : Awaits(w, t) => InDeque(t)

(***************************************************************************)
(* Every submitted task completes, also when the destructor is called      *)
(* while it waits in a queue, is awaited, or has tasks to submit:          *)
(* "Single-threaded final drain of any remaining tasks (shouldn't happen   *)
(* normally, but prevents leaks)" (thread_pool.cpp:41-42).  This is so for *)
(* left-over tasks that submit one more, as in MCThreadPool: of a longer   *)
(* chain the drain, which goes over the queues once, can miss the end.     *)
(***************************************************************************)
EveryTaskCompletes == \A t \in Tasks : status[t] = "queued" ~> status[t] = "done"

(***************************************************************************)
(* When ~ThreadPool returns, every task that was submitted has run to its  *)
(* end, but for the tasks at the end of a chain: a task missed by the two  *)
(* drain loops (thread_pool.cpp:41-54) was submitted by one that was       *)
(* itself left over in a submission queue, where only a task left over in  *)
(* a deque can have put it.  Three submits below a root the drain may miss *)
(* a task, and its future is never ready; no task is left half done.       *)
(***************************************************************************)
SubmittedBy(S) == {t \in Tasks : \E p \in S : \E k \in 1 .. Len(Program[p]) : Submits(p, k, t)}
ShutdownRunsAll ==
  pc[Main] = "gone" =>
    \A t \in Tasks :
      status[t] \in {"new", "done"} \/ t \in SubmittedBy(SubmittedBy(SubmittedBy(Tasks)))

(***************************************************************************)
(* ~ThreadPool returns.                                                    *)
(***************************************************************************)
DestructorReturns == Stopped ~> pc[Main] = "gone"
=============================================================================
