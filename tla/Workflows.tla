----------------------------- MODULE Workflows ------------------------------
(***************************************************************************)
(* A session with the workflow that it was created for: create_session()   *)
(* submits a task that makes the workflow by name (workflow_factory.h) and *)
(* runs it, under the eyes of the API, the collector and a subscriber.     *)
(***************************************************************************)
EXTENDS ReAct, PlanExecute, MapReduce, FiniteSetsExt

VARIABLE
  workflow          \* req.workflow

vars == <<session, timed_out, plan, map, workflow>>

Init ==
  /\ SessionInit /\ ReActInit /\ PlanInit /\ MapInit
  /\ workflow \in {"react", "plan-execute", "map-reduce"}

\* factory_.create(): where run() of the workflow begins.
FirstStage ==
  CASE workflow = "react" -> "loop"
    [] workflow = "plan-execute" -> "plan"
    [] workflow = "map-reduce" -> "decompose"
Runs(w) == workflow = w

\* The task begins.
Begin ==
  /\ StoreState("queued", FirstStage, "WAITING_FOR_LLM")
  /\ UNCHANGED <<timed_out, plan, map, workflow>>

Task ==
  \/ Begin
  \/ StoreOutcome /\ UNCHANGED <<timed_out, plan, map, workflow>>
  \/ Runs("react") /\ ReActRun /\ UNCHANGED <<plan, map, workflow>>
  \/ Runs("plan-execute") /\ PlanRun /\ UNCHANGED <<timed_out, map, workflow>>
  \/ Runs("map-reduce") /\ MapRun /\ UNCHANGED <<timed_out, plan, workflow>>
SubTask(i) == Sub(i) /\ UNCHANGED <<timed_out, plan, workflow>>
Reader == Subscriber /\ UNCHANGED <<timed_out, plan, map, workflow>>
Others ==
  \/ (Cancel \/ Reap) /\ UNCHANGED <<timed_out, plan, map, workflow>>
  \/ Expire /\ Runs("react") /\ UNCHANGED <<plan, map, workflow>>

\* The task has ended and the stream is closed.
Over == pc \in {"ended", "thrown"} /\ closed # "no" /\ UNCHANGED vars

Next == Task \/ (\E i \in Subs : SubTask(i)) \/ Reader \/ Others \/ Over

(***************************************************************************)
(* The pool runs the task and its sub-tasks, LLM and tools answer, and the *)
(* subscriber polls.  Nobody need cancel or reap the session.              *)
(***************************************************************************)
Spec == Init /\ [][Next]_vars
FairSpec ==
  /\ Spec
  /\ WF_vars(Task) /\ WF_vars(Reader) /\ \A i \in Subs : WF_vars(SubTask(i))

-----------------------------------------------------------------------------
\* Type invariant.
TypeOK ==
  /\ SessionTypeOK(ReActStages \cup PlanStages \cup MapStages,
                   Max({MaxIterations, MaxSteps, MaxTasks}))
  /\ timed_out \in BOOLEAN /\ PlanTypeOK /\ MapTypeOK
  /\ workflow \in {"react", "plan-execute", "map-reduce"}

(***************************************************************************)
(* A reader that sees a terminal state also has the answer or the error,   *)
(* and not both: every workflow writes the state last and get_session()    *)
(* reads it first.  Variables keep their types (TypeOK).                   *)
(***************************************************************************)
TerminalInfoComplete ==
  /\ TypeOK
  /\ reader = "emit" =>
       /\ info.state = "COMPLETED" => info.answer # None /\ info.error = None
       /\ info.state \in {"FAILED", "CANCELLED"} => info.error # None /\ info.answer = None

(***************************************************************************)
(* "The workflow checks cancel_requested between steps" (README.md:516):   *)
(* after the request a sequential workflow begins at most one more step.   *)
(***************************************************************************)
CancelStopsSoon ==
  cancel_requested /\ workflow # "map-reduce" => step_count <= asked_at + 1

(***************************************************************************)
(* An answer is made from the result of every step or sub-task.  A         *)
(* sub-task that was skipped has none, but then the session is cancelled.  *)
(***************************************************************************)
AnswersFromAll ==
  /\ pc = "synthesize" => Len(results) = steps
  /\ "none" \notin reduced

(***************************************************************************)
(* "Wait for all sub-tasks" (map_reduce.cpp:178): none of them uses the    *)
(* locals it has references to after run() has ended ...                   *)
(***************************************************************************)
NoDanglingReference == ~dangling

(***************************************************************************)
(* ... as long as no sub-task throws.                                      *)
(***************************************************************************)
SubTasksEndFirst == dangling => \E i \in Subs : sub[i] = "threw"

(***************************************************************************)
(* The task brings the session to a terminal state, and its subscriber is  *)
(* told, by a terminal event or because the session is gone, unless the    *)
(* task throws.                                                            *)
(***************************************************************************)
StreamEnds == <>(pc = "thrown" \/ (IsTerminal(state) /\ closed # "no"))
=============================================================================
