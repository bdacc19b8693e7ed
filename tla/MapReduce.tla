------------------------------ MODULE MapReduce -----------------------------
(***************************************************************************)
(* workflow/map_reduce.cpp: the LLM splits the task, the sub-tasks run on  *)
(* the pool in parallel, the LLM puts their results together.              *)
(*                                                                         *)
(* The sub-tasks hold references to locals of run() (tasks, result, mu),   *)
(* and each runs a ReAct sub-session of its own, which succeeds, fails or  *)
(* throws.                                                                 *)
(***************************************************************************)
EXTENDS Session

CONSTANT
  MaxTasks      \* bound: sub-tasks in a decomposition

ASSUME MapReduceAssumption == MaxTasks \in Nat

Subs == 1 .. MaxTasks

VARIABLES
  tasks,        \* tasks.size()
  next,         \* sub-task that is submitted or waited for next
  sub,          \* "none", "queued", "started", "running", "writing", "done" or "threw"
  result,       \* task.result: "none", "answer" or "error"
  dangling,     \* a sub-task has used a local of run() after run() had ended
  reduced       \* history: the results that reduce() was given

map == <<tasks, next, sub, result, dangling, reduced>>
MapStages == {"decompose", "submit", "wait", "reduce"}
MapInit ==
  /\ tasks = 0 /\ next = 1
  /\ sub = [i \in Subs |-> "none"]
  /\ result = [i \in Subs |-> "none"]
  /\ dangling = FALSE /\ reduced = {}

-----------------------------------------------------------------------------
\* decompose() returns n tasks, or none.
Decompose(n) ==
  /\ n > 0
  /\ StoreState("decompose", "submit", "EXECUTING_TOOLS")
  /\ tasks' = n
  /\ UNCHANGED <<next, sub, result, dangling, reduced>>

DecomposeFails == End("decompose", "FAILED") /\ UNCHANGED map

MoreToSubmit == next <= tasks

SubmitSub ==
  /\ MoreToSubmit /\ Proceed("submit", "submit")
  /\ sub' = [sub EXCEPT ![next] = "queued"]
  /\ next' = next + 1
  /\ UNCHANGED <<tasks, result, dangling, reduced>>

Submitted ==
  /\ ~MoreToSubmit /\ Proceed("submit", "wait")
  /\ next' = 1
  /\ UNCHANGED <<tasks, sub, result, dangling, reduced>>

\* What f.get() waits for.  Mutant: that the sub-task has started.
ReadyEarly(i) == sub[i] \notin {"none", "queued"}
Ready(i) == sub[i] \in {"done", "threw"}

WaitSub ==
  /\ next <= tasks /\ Ready(next) /\ sub[next] # "threw"
  /\ Proceed("wait", "wait")
  /\ next' = next + 1
  /\ UNCHANGED <<tasks, sub, result, dangling, reduced>>

\* f.get() rethrows: the stack frame of run() is unwound.
WaitThrows == next <= tasks /\ sub[next] = "threw" /\ Proceed("wait", "thrown") /\ UNCHANGED map

\* Cancellation is looked at again.
MapSeesCancel == cancel_requested

MapCancelled == next > tasks /\ MapSeesCancel /\ End("wait", "CANCELLED") /\ UNCHANGED map

Reduce ==
  /\ next > tasks /\ ~MapSeesCancel
  /\ StoreState("wait", "reduce", "WAITING_FOR_LLM")
  /\ reduced' = {result[i] : i \in 1 .. tasks}
  /\ UNCHANGED <<tasks, next, sub, result, dangling>>

\* reduce() returns an answer, or an empty one.
Reduced(s) == End("reduce", s) /\ UNCHANGED map

MapThrows == (\E at \in {"decompose", "reduce"} : Throw(at)) /\ UNCHANGED map

MapRun ==
  \/ (\E n \in Subs : Decompose(n)) \/ DecomposeFails \/ SubmitSub \/ Submitted
  \/ WaitSub \/ WaitThrows \/ MapCancelled \/ Reduce
  \/ (\E s \in {"COMPLETED", "FAILED"} : Reduced(s)) \/ MapThrows

-----------------------------------------------------------------------------
\* A sub-task on another worker.  Each access to a local of run() counts.
Touch == dangling' = (dangling \/ pc \in {"end", "ended", "thrown"})
SubGoto(i, from, to) == sub[i] = from /\ sub' = [sub EXCEPT ![i] = to]

\* It reads the cancel flag.
StartSub(i) ==
  /\ SubGoto(i, "queued", IF cancel_requested THEN "done" ELSE "started")
  /\ UNCHANGED <<session, tasks, next, result, dangling, reduced>>

\* It takes tasks[i] and counts a step of the session.
CountSub(i) ==
  /\ SubGoto(i, "started", "running")
  /\ step_count' = step_count + 1
  /\ Touch
  /\ UNCHANGED <<Outside, task, state, final_answer, error, tasks, next, result, reduced>>

\* react.run(sub_session) returns; the tokens are added under mu.
CountTokens(i) ==
  /\ SubGoto(i, "running", "writing")
  /\ Touch
  /\ UNCHANGED <<session, tasks, next, result, reduced>>

SubThrows(i) ==
  /\ MayThrow /\ SubGoto(i, "running", "threw")
  /\ UNCHANGED <<session, tasks, next, result, dangling, reduced>>

\* task.success and task.result, then the promise is set.
WriteResult(i, r) ==
  /\ SubGoto(i, "writing", "done")
  /\ result' = [result EXCEPT ![i] = r]
  /\ Touch
  /\ UNCHANGED <<session, tasks, next, reduced>>

Sub(i) ==
  \/ StartSub(i) \/ CountSub(i) \/ CountTokens(i) \/ SubThrows(i)
  \/ (\E r \in {"answer", "error"} : WriteResult(i, r))

MapTypeOK ==
  /\ tasks \in 0 .. MaxTasks /\ next \in 1 .. MaxTasks + 1
  /\ sub \in [Subs -> {"none", "queued", "started", "running", "writing", "done", "threw"}]
  /\ result \in [Subs -> {"none", "answer", "error"}]
  /\ dangling \in BOOLEAN
  /\ reduced \subseteq {"none", "answer", "error"}
=============================================================================
