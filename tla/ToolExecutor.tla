----------------------------- MODULE ToolExecutor ---------------------------
(***************************************************************************)
(* tools/tool_executor.h, execute_batch() called by a worker of the pool:  *)
(* it submits the handlers, then collects the results in order, each with  *)
(* a wait_for() of its own.  execute() is a batch of one.  The callers are *)
(* react.cpp, with the calls of an answer, and task_dag.h (TaskDAG), with  *)
(* one level after the other.                                              *)
(*                                                                         *)
(* While it waits the worker helps: it pops its own deque, where its own   *)
(* handlers are, last one first, those of earlier batches that timed out   *)
(* included.  When that is empty it takes up a task of another session,    *)
(* from its submission queue or from a peer's deque.  Meanwhile other      *)
(* workers steal the handlers, first one first.  A handler returns,        *)
(* throws, or does not come back; a foreign task returns, or does not.     *)
(***************************************************************************)
EXTENDS Naturals, Sequences, FiniteSets

CONSTANTS
  MaxCalls,     \* bound: calls of all batches together, numbered from 1
  Registries,   \* for each registry, the calls whose tool it does not have
  MayHang       \* calls whose handler may run longer than anybody waits

Calls == 1 .. MaxCalls

ASSUME BatchAssumption ==
  MaxCalls \in Nat /\ Registries \subseteq SUBSET Calls /\ MayHang \subseteq Calls

VARIABLES
  unknown,      \* calls whose tool is not registered
  pc,           \* "idle", "submit", "collect", "poll", "clock", "inline",
                \* "foreign", "stuck" or "returned"
  calls,        \* the batch
  next,         \* index of the call that is submitted or collected next
  deque,        \* handlers in the worker's deque, top first
  inlined,      \* handler that the waiting worker runs, or 0
  status,       \* handlers: "new", "queued", "running", "done", "threw" or "hung"
  expired,      \* the deadline of the current wait_for() has passed
  results,      \* results of the batch, as [call, kind] records
  ready_at      \* history: calls that were complete when their wait began

executor == <<unknown, pc, calls, next, deque, inlined, status, expired, results, ready_at>>

ExecutorInit ==
  /\ unknown \in Registries
  /\ pc = "idle" /\ calls = <<>> /\ next = 1
  /\ deque = <<>> /\ inlined = 0
  /\ status = [c \in Calls |-> "new"]
  /\ expired = FALSE /\ results = <<>> /\ ready_at = {}

Goto(from, to) == pc = from /\ pc' = to
Complete(c) == status[c] \in {"done", "threw"}
CallsLeft == next <= Len(calls)
call == calls[next]

\* Mutant: an unknown tool has no pending entry.
SkipUnknown(c) == results
NoteUnknown(c) == Append(results, [call |-> c, kind |-> "unknown"])

-----------------------------------------------------------------------------
execute_batch(cs) ==
  /\ Goto("idle", "submit")
  /\ calls' = cs /\ next' = 1 /\ results' = <<>>
  /\ UNCHANGED <<unknown, deque, inlined, status, expired, ready_at>>

\* Launch.
Submit ==
  /\ pc = "submit" /\ CallsLeft /\ call \notin unknown
  /\ deque' = Append(deque, call)
  /\ status' = [status EXCEPT ![call] = "queued"]
  /\ next' = next + 1
  /\ UNCHANGED <<unknown, pc, calls, inlined, expired, results, ready_at>>

SubmitUnknown ==
  /\ pc = "submit" /\ CallsLeft /\ call \in unknown
  /\ next' = next + 1
  /\ UNCHANGED <<unknown, pc, calls, deque, inlined, status, expired, results, ready_at>>

Launched ==
  /\ ~CallsLeft
  /\ Goto("submit", "collect")
  /\ next' = 1
  /\ UNCHANGED <<unknown, calls, deque, inlined, status, expired, results, ready_at>>

\* Collect: !p.future.valid().
CollectUnknown ==
  /\ pc = "collect" /\ CallsLeft /\ call \in unknown
  /\ results' = NoteUnknown(call)
  /\ next' = next + 1
  /\ UNCHANGED <<unknown, pc, calls, deque, inlined, status, expired, ready_at>>

\* wait_for(): the deadline starts now.
BeginWait ==
  /\ CallsLeft /\ call \notin unknown
  /\ Goto("collect", "poll")
  /\ expired' = FALSE
  /\ ready_at' = IF Complete(call) THEN ready_at \cup {call} ELSE ready_at
  /\ UNCHANGED <<unknown, calls, next, deque, inlined, status, results>>

\* The deadline passes, whatever the worker is doing.
Expire ==
  /\ pc \in {"poll", "clock", "inline", "foreign"} /\ ~expired
  /\ expired' = TRUE
  /\ UNCHANGED <<unknown, pc, calls, next, deque, inlined, status, results, ready_at>>

\* wait_for() reads ready_.  Mutant: it has looked at the clock before.
TakesValueInTime == Complete(call) /\ ~expired
TakesValue == Complete(call)

Collect(from, kind) ==
  /\ Goto(from, "collect")
  /\ results' = Append(results, [call |-> call, kind |-> kind])
  /\ next' = next + 1
  /\ expired' = FALSE
  /\ UNCHANGED <<unknown, calls, deque, inlined, status, ready_at>>

Value == pc = "poll" /\ TakesValue /\ status[call] = "done" /\ Collect("poll", "value")
Error == pc = "poll" /\ TakesValue /\ status[call] = "threw" /\ Collect("poll", "error")

\* A step of wait_for() that moves the worker and nothing else.
Moves(from, to) ==
  /\ Goto(from, to)
  /\ UNCHANGED <<unknown, calls, next, deque, inlined, status, expired, results, ready_at>>

NotReady == pc = "poll" /\ ~TakesValue /\ Moves("poll", "clock")

\* Then it reads the clock.
Timeout == expired /\ Collect("clock", "timeout")

\* Mutant: the task is popped and not run.
RunInlinedLost(c) == status
RunInlined(c) == [status EXCEPT ![c] = "running"]

\* backoff(): the worker runs a handler of its own deque;
Inline ==
  /\ pc = "clock" /\ ~expired
  /\ deque # <<>>
  /\ pc' = "inline"
  /\ inlined' = deque[Len(deque)]
  /\ deque' = SubSeq(deque, 1, Len(deque) - 1)
  /\ status' = RunInlined(inlined')
  /\ UNCHANGED <<unknown, calls, next, expired, results, ready_at>>

InlineReturns ==
  /\ inlined # 0 /\ Complete(inlined)
  /\ Goto("inline", "poll")
  /\ inlined' = 0
  /\ UNCHANGED <<unknown, calls, next, deque, status, expired, results, ready_at>>

\* ... or, if that is empty, a task of another session, which may wait for
\* something that never comes (ThrottledLLM);
InlineForeign == ~expired /\ deque = <<>> /\ Moves("clock", "foreign")
ForeignReturns == Moves("foreign", "poll")
ForeignHangs == Moves("foreign", "stuck")

\* ... or it finds nothing to run.
Spin == ~expired /\ deque = <<>> /\ Moves("clock", "poll")

Return ==
  /\ ~CallsLeft
  /\ Goto("collect", "returned")
  /\ UNCHANGED <<unknown, calls, next, deque, inlined, status, expired, results, ready_at>>

-----------------------------------------------------------------------------
\* Another worker.
Steal ==
  /\ deque # <<>>
  /\ deque' = Tail(deque)
  /\ status' = [status EXCEPT ![Head(deque)] = "running"]
  /\ UNCHANGED <<unknown, pc, calls, next, inlined, expired, results, ready_at>>

\* A handler that is running, here or there, comes to an end.
HandlerEnds(c, s) ==
  /\ status[c] = "running"
  /\ s = "hung" => c \in MayHang
  /\ status' = [status EXCEPT ![c] = s]
  /\ UNCHANGED <<unknown, pc, calls, next, deque, inlined, expired, results, ready_at>>

Batch ==
  \/ Submit \/ SubmitUnknown \/ Launched \/ CollectUnknown \/ BeginWait
  \/ Value \/ Error \/ NotReady \/ Timeout \/ Inline \/ InlineReturns
  \/ InlineForeign \/ ForeignReturns \/ ForeignHangs \/ Spin \/ Return
Ends == {"done", "threw", "hung"}

-----------------------------------------------------------------------------
\* Type invariant.
ExecutorTypeOK ==
  /\ unknown \subseteq Calls
  /\ pc \in {"idle", "submit", "collect", "poll", "clock", "inline", "foreign", "stuck",
             "returned"}
  /\ calls \in Seq(Calls) /\ next \in 1 .. Len(calls) + 1
  /\ deque \in Seq(Calls) /\ inlined \in {0} \cup Calls
  /\ status \in [Calls -> {"new", "queued", "running"} \cup Ends]
  /\ expired \in BOOLEAN
  /\ results \in Seq([call : Calls, kind : {"value", "error", "timeout", "unknown"}])
  /\ ready_at \subseteq Calls

(***************************************************************************)
(* There is one result per call, in the order of the calls, whatever the   *)
(* order in which the handlers end; the conversation that is sent to the   *)
(* LLM, and TaskDAG, pair them by position.  A value or an error is the    *)
(* handler's own.                                                          *)
(***************************************************************************)
ResultsMatchCalls ==
  /\ pc = "returned" => Len(results) = Len(calls)
  /\ \A i \in 1 .. Len(results) :
       /\ results[i].call = calls[i]
       /\ results[i].kind = "value" => status[calls[i]] = "done"
       /\ results[i].kind = "error" => status[calls[i]] = "threw"
       /\ results[i].kind = "unknown" <=> calls[i] \in unknown

(***************************************************************************)
(* A handler that has ended before its turn to be waited for is never      *)
(* reported as timed out, however long the others took.                    *)
(***************************************************************************)
NoFalseTimeout ==
  \A i \in 1 .. Len(results) : results[i].call \in ready_at => results[i].kind # "timeout"
=============================================================================
