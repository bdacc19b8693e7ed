------------------------------ MODULE Session -------------------------------
(***************************************************************************)
(* One session from the outside: session/session.h, which a workflow       *)
(* writes one field after the other, while the API cancels the session     *)
(* (cancel_session), the collector reaps it (gc) and a subscriber polls it *)
(* (handle_subscribe on get_session), reading one field after the other.   *)
(*                                                                         *)
(* with_value and mutate lock the session's stripe of the map, shared and  *)
(* exclusive; the workflow takes no lock but result_mutex, for one field.  *)
(* The workflows are modules ReAct, PlanExecute and MapReduce.             *)
(***************************************************************************)
EXTENDS Naturals

CONSTANT
  MayThrow          \* whether an LLM call may end in an exception

ASSUME ThrowAssumption == MayThrow \in BOOLEAN

Terminal == {"COMPLETED", "FAILED", "CANCELLED"}
States == {"CREATED", "WAITING_FOR_LLM", "EXECUTING_TOOLS"} \cup Terminal
None == "none"      \* the empty string

VARIABLES
  state, step_count, final_answer, error, cancel_requested,
  present,          \* the session is in the map
  pc,               \* the workflow task; at last "end", then "ended", or "thrown"
  outcome,          \* the terminal state that it is about to store
  reader,           \* the subscriber: "poll", "step", "answer", "error", "emit" or "closed"
  info,             \* SessionInfo it is reading
  last,             \* last_state, last_step
  closed,           \* how the stream ended: "no", "done", "lost" or "left"
  asked_at          \* history: step_count when cancellation was requested

fields == <<state, step_count, final_answer, error>>
subscriber == <<reader, info, last, closed>>
api == <<cancel_requested, present, asked_at>>
task == <<pc, outcome>>
session == <<fields, subscriber, api, task>>

SessionInit ==
  /\ state = "CREATED" /\ step_count = 0
  /\ final_answer = None /\ error = None
  /\ cancel_requested = FALSE /\ present = TRUE
  /\ pc = "queued" /\ outcome = "COMPLETED"
  /\ reader = "poll" /\ closed = "no"
  /\ info = [state |-> "CREATED", step |-> 0, answer |-> None, error |-> None]
  /\ last = [state |-> "CREATED", step |-> 0]
  /\ asked_at = 0

\* is_terminal().
IsTerminal(s) == s \in Terminal

-----------------------------------------------------------------------------
\* Steps of a workflow task.  Outside is what no such step changes.
Outside == <<subscriber, api>>
Goto(from, to) == pc = from /\ pc' = to

\* The task moves on and stores a state, counts a step, or neither.
StoreState(from, to, s) ==
  /\ Goto(from, to)
  /\ state' = s
  /\ UNCHANGED <<Outside, step_count, final_answer, error, outcome>>

CountStep(from, to) ==
  /\ Goto(from, to)
  /\ step_count' = step_count + 1
  /\ UNCHANGED <<Outside, state, final_answer, error, outcome>>

Proceed(from, to) == Goto(from, to) /\ UNCHANGED <<Outside, fields, outcome>>

\* A workflow ends: set_error() or set_final_answer() first, state.store()
\* next.  Mutant: the state comes first.
EndStateFirst(from, s) ==
  /\ Goto(from, "end")
  /\ outcome' = s
  /\ state' = s
  /\ UNCHANGED <<Outside, step_count, final_answer, error>>

End(from, s) ==
  /\ Goto(from, "end")
  /\ outcome' = s
  /\ IF s = "COMPLETED" THEN final_answer' = "answer" /\ UNCHANGED error
                        ELSE error' = "error" /\ UNCHANGED final_answer
  /\ UNCHANGED <<Outside, step_count, state>>

StoreOutcome == StoreState("end", "ended", outcome)

\* An exception of an LLM call ends the task and leaves the session as it is.
Throw(from) == MayThrow /\ Proceed(from, "thrown")

-----------------------------------------------------------------------------
\* The API and the collector.
InfoLocked == reader \in {"step", "answer", "error"}

Cancel ==
  /\ present /\ ~InfoLocked
  /\ cancel_requested' = TRUE
  /\ asked_at' = IF cancel_requested THEN asked_at ELSE step_count
  /\ UNCHANGED <<fields, subscriber, task, present>>

Reap ==
  /\ present /\ ~InfoLocked /\ IsTerminal(state)
  /\ present' = FALSE
  /\ UNCHANGED <<fields, subscriber, task, cancel_requested, asked_at>>

-----------------------------------------------------------------------------
\* The subscriber: get_session() field by field.
Inside == <<fields, api, task>>

ReadState ==
  /\ reader = "poll" /\ present
  /\ info' = [info EXCEPT !.state = state]
  /\ reader' = "step"
  /\ UNCHANGED <<Inside, last, closed>>

ReadStep ==
  /\ reader = "step"
  /\ info' = [info EXCEPT !.step = step_count]
  /\ reader' = "answer"
  /\ UNCHANGED <<Inside, last, closed>>

ReadAnswer ==
  /\ reader = "answer"
  /\ info' = [info EXCEPT !.answer = final_answer]
  /\ reader' = "error"
  /\ UNCHANGED <<Inside, last, closed>>

ReadError ==
  /\ reader = "error"
  /\ info' = [info EXCEPT !.error = error]
  /\ reader' = "emit"
  /\ UNCHANGED <<Inside, last, closed>>

\* "Session was GC'd".
Lost ==
  /\ reader = "poll" /\ ~present
  /\ reader' = "closed" /\ closed' = "lost"
  /\ UNCHANGED <<Inside, info, last>>

\* Mutant: only the step count is compared.
ChangedStepOnly == info.step # last.step
Changed == info.state # last.state \/ info.step # last.step

NoChange ==
  /\ reader = "emit" /\ ~Changed
  /\ reader' = "poll"
  /\ UNCHANGED <<Inside, info, last, closed>>

Emit ==
  /\ reader = "emit" /\ Changed
  /\ last' = [state |-> info.state, step |-> info.step]
  /\ IF IsTerminal(info.state) THEN reader' = "closed" /\ closed' = "done"
                               ELSE reader' = "poll" /\ UNCHANGED closed
  /\ UNCHANGED <<Inside, info>>

\* sink.write() fails.
Disconnect ==
  /\ reader = "emit" /\ Changed
  /\ reader' = "closed" /\ closed' = "left"
  /\ last' = [state |-> info.state, step |-> info.step]
  /\ UNCHANGED <<Inside, info>>

Subscriber ==
  ReadState \/ ReadStep \/ ReadAnswer \/ ReadError \/ Lost \/ NoChange \/ Emit \/ Disconnect

-----------------------------------------------------------------------------
\* Type invariant; Stages and MaxCount are those of the workflows.
SessionTypeOK(Stages, MaxCount) ==
  /\ state \in States /\ step_count \in 0 .. MaxCount
  /\ final_answer \in {None, "answer"} /\ error \in {None, "error"}
  /\ cancel_requested \in BOOLEAN /\ present \in BOOLEAN
  /\ pc \in Stages \cup {"queued", "end", "ended", "thrown"} /\ outcome \in Terminal
  /\ reader \in {"poll", "step", "answer", "error", "emit", "closed"}
  /\ info \in [state : States, step : 0 .. MaxCount, answer : {None, "answer"},
               error : {None, "error"}]
  /\ last \in [state : States, step : 0 .. MaxCount]
  /\ closed \in {"no", "done", "lost", "left"}
  /\ asked_at \in 0 .. MaxCount
=============================================================================
