------------------------------- MODULE ReAct --------------------------------
(***************************************************************************)
(* workflow/react.cpp: the loop of LLM calls and tool calls.               *)
(***************************************************************************)
EXTENDS Session

CONSTANT
  MaxIterations     \* config.max_iterations

ASSUME ReActAssumption == MaxIterations \in Nat

VARIABLE
  timed_out         \* the deadline has passed

ReActStages == {"loop", "count", "llm", "tools"}
ReActInit == timed_out = FALSE

\* is_timed_out() becomes true.
Expire == ~timed_out /\ timed_out' = TRUE /\ UNCHANGED session

\* Mutant: the guard at the top of the loop does not look at the flag.
SeesCancelNever == FALSE
SeesCancel == cancel_requested

\* exceeded_max_iterations().
Exceeded == step_count >= MaxIterations

\* The loop condition and the guards, in their order.
Looping == ~IsTerminal(state)
Cancelled == Looping /\ SeesCancel /\ End("loop", "CANCELLED")
TooMany == Looping /\ ~SeesCancel /\ Exceeded /\ End("loop", "FAILED")
TimedOut == Looping /\ ~SeesCancel /\ ~Exceeded /\ timed_out /\ End("loop", "FAILED")
Continue ==
  /\ Looping /\ ~SeesCancel /\ ~Exceeded /\ ~timed_out
  /\ StoreState("loop", "count", "WAITING_FOR_LLM")

CallLLM == CountStep("count", "llm")

\* What the LLM answers: an error or nothing, an answer, or tool calls.
RespondBadly == End("llm", "FAILED")
RespondAnswer == End("llm", "COMPLETED")
RespondTools == StoreState("llm", "tools", "EXECUTING_TOOLS")
ToolsDone == Proceed("tools", "loop")

ReActRun ==
  /\ \/ Cancelled \/ TooMany \/ TimedOut \/ Continue \/ CallLLM
     \/ RespondBadly \/ RespondAnswer \/ RespondTools \/ Throw("llm") \/ ToolsDone
  /\ UNCHANGED timed_out
=============================================================================
