--------------------------- MODULE WorkflowsProofs ---------------------------
(***************************************************************************)
(* A session and the workflow that writes it: what a subscriber reads of a *)
(* terminal state is complete (TerminalInfoComplete), a sequential         *)
(* workflow stops soon after cancellation (CancelStopsSoon), an answer is  *)
(* made from every part (AnswersFromAll), and sub-tasks outlive run() only *)
(* when one of them throws (SubTasksEndFirst).                             *)
(*                                                                         *)
(* What limits its calls, core/semaphore.h behind core/rate_limiter.h: the *)
(* counter and the holders of permits always add up, and no interval of    *)
(* time refills the bucket twice, for any number of threads, permits and   *)
(* requests.                                                               *)
(***************************************************************************)
EXTENDS Workflows, Backpressure, FiniteSetTheorems, TLAPS

\* run() is over, or about to store the terminal state.
Ends == {"end", "ended", "thrown"}

\* The task goes through the stages of its own workflow.
StageInv ==
  /\ workflow = "react" => pc \in {"queued"} \cup Ends \cup ReActStages
  /\ workflow = "plan-execute" => pc \in {"queued"} \cup Ends \cup PlanStages
  /\ workflow = "map-reduce" => pc \in {"queued"} \cup Ends \cup MapStages
  /\ pc = "queued" => step_count = 0

\* The state is terminal only at the very end, when the answer or the error is
\* there, and not both.
EndInv ==
  /\ IsTerminal(state) => pc = "ended"
  /\ pc = "ended" => state = outcome
  /\ pc \in {"end", "ended"} =>
       /\ outcome = "COMPLETED" => final_answer = "answer" /\ error = None
       /\ outcome # "COMPLETED" => final_answer = None /\ error = "error"
  /\ pc \notin {"end", "ended"} => final_answer = None /\ error = None

\* A terminal state that was read is still the state, and so are the fields
\* read after it.
ReaderInv ==
  IsTerminal(info.state) =>
    /\ info.state = state
    /\ reader \in {"error", "emit"} => info.answer = final_answer
    /\ reader = "emit" => info.error = error

\* A step that is counted after the request was decided on before it.
CancelInv ==
  cancel_requested /\ workflow # "map-reduce" =>
    /\ step_count <= asked_at + 1
    /\ pc \in {"count", "begin"} => step_count <= asked_at

ReActInv ==
  workflow = "react" =>
    /\ step_count <= MaxIterations
    /\ pc = "count" => step_count < MaxIterations

\* One result for every step that has ended.
PlanInv ==
  /\ workflow = "plan-execute" => step_count <= steps
  /\ pc \in {"queued", "plan"} => steps = 0 /\ results = <<>>
  /\ pc \in {"next", "begin", "synthesize"} => Len(results) = step_count
  /\ pc = "begin" => step_count < steps
  /\ pc = "step" => Len(results) + 1 = step_count
  /\ pc = "synthesize" => step_count = steps

\* Sub-tasks that have not counted their step.
Uncounted == {i \in Subs : sub[i] \in {"none", "queued", "started"}}

\* Sub-tasks are submitted in order and waited for in order; each counts one
\* step at most; one that is done has a result unless it was skipped.
MapInv ==
  /\ workflow # "map-reduce" \/ pc \in {"queued", "decompose"} =>
       tasks = 0 /\ next = 1 /\ (\A i \in Subs : sub[i] = "none") /\ reduced = {} /\ ~dangling
  /\ workflow = "map-reduce" => step_count + Cardinality(Uncounted) <= MaxTasks
  /\ next <= tasks + 1
  /\ pc = "submit" => \A i \in Subs : i >= next => sub[i] = "none"
  /\ \A i \in Subs : i > tasks => sub[i] = "none"
  /\ pc = "wait" => \A i \in Subs : i < next => sub[i] = "done"
  /\ pc = "reduce" => \A i \in Subs : sub[i] \in {"none", "done"}
  /\ \A i \in Subs : sub[i] = "done" => cancel_requested \/ result[i] # "none"
  /\ "none" \notin reduced

\* run() has ended while a sub-task still works only if one has thrown.
Threw == \E i \in Subs : sub[i] = "threw"
DanglingInv ==
  /\ dangling => Threw
  /\ pc \in Ends => Threw \/ \A i \in Subs : sub[i] \in {"none", "done"}

IInv ==
  TypeOK /\ StageInv /\ EndInv /\ ReaderInv /\ CancelInv /\ ReActInv /\ PlanInv /\ MapInv /\ DanglingInv

-----------------------------------------------------------------------------
\* The bound on step_count in the type invariant.
MaxCount == Max({MaxIterations, MaxSteps, MaxTasks})
Stages == ReActStages \cup PlanStages \cup MapStages

LEMMA MaxCountFacts ==
  MaxCount \in Nat /\ MaxIterations <= MaxCount /\ MaxSteps <= MaxCount /\ MaxTasks <= MaxCount
<1> DEFINE Bounds == {MaxIterations, MaxSteps, MaxTasks}
<1>1. \E x \in Bounds : \A y \in Bounds : x >= y
  BY ReActAssumption, PlanAssumption, MapReduceAssumption
<1>2. MaxCount \in Bounds /\ \A y \in Bounds : MaxCount >= y
  BY <1>1 DEF MaxCount, Max
<1> QED
  BY <1>2, ReActAssumption, PlanAssumption, MapReduceAssumption

LEMMA UncountedFinite == IsFiniteSet(Uncounted) /\ Cardinality(Uncounted) \in Nat
<1>1. IsFiniteSet(Subs) /\ Uncounted \subseteq Subs
  BY FS_Interval, MapReduceAssumption DEF Subs, Uncounted
<1> QED
  BY <1>1, FS_Subset, FS_CardinalityType

LEMMA InitIInv == Init => IInv
<1> SUFFICES ASSUME Init PROVE IInv
  OBVIOUS
<1> USE DEF Init, SessionInit, ReActInit, PlanInit, MapInit
<1>1. /\ ~timed_out /\ ~dangling /\ ~cancel_requested /\ present
      /\ timed_out \in BOOLEAN /\ dangling \in BOOLEAN
      /\ cancel_requested \in BOOLEAN /\ present \in BOOLEAN
  BY Zenon
<1>2. SessionTypeOK(Stages, MaxCount)
  BY <1>1, MaxCountFacts DEF SessionTypeOK, States, Terminal, None
<1>3. timed_out \in BOOLEAN /\ PlanTypeOK /\ MapTypeOK
  BY <1>1, PlanAssumption, MapReduceAssumption DEF PlanTypeOK, MapTypeOK, Subs
<1>4. TypeOK
  BY <1>2, <1>3 DEF TypeOK, Stages, MaxCount
<1>5. StageInv /\ EndInv /\ ReaderInv
  BY DEF StageInv, EndInv, ReaderInv, IsTerminal, Terminal
<1>6. CancelInv /\ ReActInv /\ PlanInv
  BY <1>1, ReActAssumption DEF CancelInv, ReActInv, PlanInv
<1>7. Cardinality(Uncounted) = MaxTasks
  <2>1. Uncounted = 1 .. MaxTasks
    BY DEF Uncounted, Subs
  <2> QED
    BY <2>1, FS_Interval, MapReduceAssumption
<1>8. MapInv
  BY <1>1, <1>7, MapReduceAssumption DEF MapInv, Subs
<1>9. DanglingInv
  BY <1>1 DEF DanglingInv, Ends
<1> QED
  BY <1>4, <1>5, <1>6, <1>8, <1>9 DEF IInv

-----------------------------------------------------------------------------
(***************************************************************************)
(* The steps of a task, whatever the workflow: it works on, it writes the  *)
(* answer or the error, or it stores the terminal state.                   *)
(***************************************************************************)
Working ==
  /\ pc \notin Ends /\ pc' \notin {"end", "ended"}
  /\ state' \in States \ Terminal
  /\ step_count' \in {step_count, step_count + 1}
  /\ UNCHANGED <<Outside, final_answer, error, outcome>>
Ending == pc \notin Ends /\ \E s \in Terminal : End(pc, s)
TaskStep == Working \/ Ending \/ StoreOutcome

LEMMA TaskEnds ==
  ASSUME TypeOK, EndInv, ReaderInv, TaskStep
  PROVE  EndInv' /\ ReaderInv'
<1> USE DEF EndInv, ReaderInv, IsTerminal, Terminal, Ends, Outside, subscriber, api
<1>1. outcome \in Terminal
  BY DEF TypeOK, SessionTypeOK
<1>2. CASE Working
  BY <1>2 DEF Working
<1>3. CASE Ending
  BY <1>3 DEF Ending, End, Goto, None
<1>4. CASE StoreOutcome
  BY <1>1, <1>4 DEF StoreOutcome, StoreState, Goto
<1> QED
  BY <1>2, <1>3, <1>4 DEF TaskStep

LEMMA TaskTypes ==
  ASSUME TypeOK, TaskStep, pc' \in Stages \cup {"queued"} \cup Ends, step_count' \in 0 .. MaxCount
  PROVE  SessionTypeOK(Stages, MaxCount)'
<1> USE DEF TypeOK, SessionTypeOK, Outside, subscriber, api, Ends
<1>1. SessionTypeOK(Stages, MaxCount)
  BY DEF Stages, MaxCount
<1>2. state' \in States /\ outcome' \in Terminal
  BY <1>1 DEF TaskStep, Working, Ending, End, StoreOutcome, StoreState, States
<1>3. final_answer' \in {None, "answer"} /\ error' \in {None, "error"}
  BY <1>1 DEF TaskStep, Working, Ending, End, StoreOutcome, StoreState
<1>4. UNCHANGED Outside
  BY DEF TaskStep, Working, Ending, End, StoreOutcome, StoreState
<1> QED
  BY <1>1, <1>2, <1>3, <1>4

-----------------------------------------------------------------------------
(***************************************************************************)
(* react.cpp.  The sub-tasks and the plan of the other workflows are       *)
(* untouched.                                                              *)
(***************************************************************************)
LEMMA ReActStep ==
  ASSUME IInv, Runs("react"), ReActRun, UNCHANGED <<plan, map, workflow>>
  PROVE  IInv'
<1> USE DEF IInv, Runs
<1>1. /\ TaskStep /\ workflow' = "react"
      /\ pc' \in ReActStages \cup Ends
      /\ ReActInv' /\ CancelInv'
  <2> USE DEF TaskStep, Working, Ending, Goto, Ends, ReActStages, StageInv, EndInv,
              ReActInv, CancelInv, States, Terminal, IsTerminal, Outside, subscriber, api, fields
  <2>0. step_count \in Nat /\ asked_at \in Nat /\ MaxIterations \in Nat /\ state \in States
    BY MaxCountFacts, ReActAssumption DEF TypeOK, SessionTypeOK
  <2>1. CASE Cancelled
    BY <2>0, <2>1 DEF Cancelled, SeesCancel, End
  <2>2. CASE TooMany
    BY <2>0, <2>2 DEF TooMany, SeesCancel, Exceeded, End
  <2>3. CASE TimedOut
    BY <2>0, <2>3 DEF TimedOut, End
  <2>4. CASE Continue
    BY <2>0, <2>4 DEF Continue, SeesCancel, Exceeded, StoreState
  <2>5. CASE CallLLM
    BY <2>0, <2>5 DEF CallLLM, CountStep
  <2>6. CASE RespondBadly
    BY <2>0, <2>6 DEF RespondBadly, End
  <2>7. CASE RespondAnswer
    BY <2>0, <2>7 DEF RespondAnswer, End
  <2>8. CASE RespondTools
    BY <2>0, <2>8 DEF RespondTools, StoreState
  <2>9. CASE Throw("llm")
    BY <2>0, <2>9 DEF Throw, Proceed
  <2>10. CASE ToolsDone
    BY <2>0, <2>10 DEF ToolsDone, Proceed
  <2> QED
    BY <2>1, <2>2, <2>3, <2>4, <2>5, <2>6, <2>7, <2>8, <2>9, <2>10 DEF ReActRun
<1>2. StageInv'
  BY <1>1 DEF StageInv, ReActStages, Ends
<1>3. EndInv' /\ ReaderInv'
  BY <1>1, TaskEnds
<1>4. PlanInv' /\ MapInv' /\ DanglingInv'
  BY <1>1 DEF plan, map, PlanInv, MapInv, DanglingInv, Uncounted, Threw, ReActStages, Ends
<1>5. step_count' \in 0 .. MaxCount
  <2>1. step_count \in Nat /\ step_count' \in {step_count, step_count + 1}
    BY <1>1, MaxCountFacts
    DEF TypeOK, SessionTypeOK, TaskStep, Working, Ending, End, StoreOutcome, StoreState
  <2> QED
    BY <1>1, <2>1, MaxCountFacts, ReActAssumption DEF ReActInv
<1>6. TypeOK'
  BY <1>1, <1>5, TaskTypes DEF TypeOK, Stages, MaxCount, PlanTypeOK, MapTypeOK, plan, map, ReActRun
<1> QED
  BY <1>1, <1>2, <1>3, <1>4, <1>6

-----------------------------------------------------------------------------
(***************************************************************************)
(* plan_execute.cpp.                                                       *)
(***************************************************************************)
LEMMA PlanStep ==
  ASSUME IInv, Runs("plan-execute"), PlanRun, UNCHANGED <<timed_out, map, workflow>>
  PROVE  IInv'
<1> USE DEF IInv, Runs
<1>1. /\ TaskStep /\ workflow' = "plan-execute"
      /\ pc' \in PlanStages \cup Ends
      /\ PlanInv' /\ CancelInv' /\ PlanTypeOK'
  <2> USE DEF TaskStep, Working, Ending, Goto, Ends, PlanStages, StageInv, EndInv, PlanInv,
              PlanTypeOK, CancelInv, States, Terminal, IsTerminal, Outside, subscriber, api,
              fields, plan
  <2>0. /\ step_count \in Nat /\ asked_at \in Nat /\ MaxSteps \in Nat /\ state \in States
        /\ PlanTypeOK
    BY MaxCountFacts, PlanAssumption DEF TypeOK, SessionTypeOK
  <2>1. CASE \E n \in 1 .. MaxSteps : Plan(n)
    BY <2>0, <2>1 DEF Plan, StoreState
  <2>2. CASE PlanFails
    BY <2>0, <2>2 DEF PlanFails, End
  <2>3. CASE StepCancelled
    BY <2>0, <2>3 DEF StepCancelled, End
  <2>4. CASE BeginStep
    BY <2>0, <2>4 DEF BeginStep, MoreSteps, StepSeesCancel, Proceed
  <2>5. CASE RunStep
    BY <2>0, <2>5 DEF RunStep, CountStep
  <2>6. CASE \E r \in {"answer", "failed"} : EndStep(r)
    BY <2>0, <2>6 DEF EndStep, Proceed
  <2>7. CASE Synthesize
    BY <2>0, <2>7 DEF Synthesize, MoreSteps, StoreState
  <2>8. CASE \E s \in {"COMPLETED", "FAILED"} : Synthesized(s)
    BY <2>0, <2>8 DEF Synthesized, End
  <2>9. CASE PlanThrows
    BY <2>0, <2>9 DEF PlanThrows, Throw, Proceed
  <2> QED
    BY <2>1, <2>2, <2>3, <2>4, <2>5, <2>6, <2>7, <2>8, <2>9 DEF PlanRun
<1>2. StageInv'
  BY <1>1 DEF StageInv, PlanStages, Ends
<1>3. EndInv' /\ ReaderInv'
  BY <1>1, TaskEnds
<1>4. ReActInv' /\ MapInv' /\ DanglingInv'
  BY <1>1 DEF map, ReActInv, MapInv, DanglingInv, Uncounted, Threw, PlanStages, Ends
<1>5. step_count' \in 0 .. MaxCount
  <2>1. step_count \in Nat /\ step_count' \in {step_count, step_count + 1}
    BY <1>1, MaxCountFacts
    DEF TypeOK, SessionTypeOK, TaskStep, Working, Ending, End, StoreOutcome, StoreState
  <2> QED
    BY <1>1, <2>1, MaxCountFacts, PlanAssumption DEF PlanInv, PlanTypeOK
<1>6. TypeOK'
  BY <1>1, <1>5, TaskTypes DEF TypeOK, Stages, MaxCount, MapTypeOK, map
<1> QED
  BY <1>1, <1>2, <1>3, <1>4, <1>6

-----------------------------------------------------------------------------
(***************************************************************************)
(* map_reduce.cpp: run() itself.  It counts no step; of the sub-tasks it   *)
(* only submits the next one.                                              *)
(***************************************************************************)
LEMMA MapStep ==
  ASSUME IInv, Runs("map-reduce"), MapRun, UNCHANGED <<timed_out, plan, workflow>>
  PROVE  IInv'
<1> USE DEF IInv, Runs
<1>0. /\ MaxTasks \in Nat /\ state \in States /\ step_count \in 0 .. MaxCount /\ MapTypeOK
      /\ workflow = "map-reduce"
  BY MapReduceAssumption DEF TypeOK, SessionTypeOK, MaxCount
<1>1. /\ TaskStep /\ workflow' = "map-reduce"
      /\ pc' \in MapStages \cup Ends
      /\ MapTypeOK'
      /\ UNCHANGED <<step_count, cancel_requested, result, dangling>>
  <2> USE DEF TaskStep, Working, Ending, Goto, Ends, MapStages, StageInv, EndInv, MapInv, MapTypeOK,
              States, Terminal, IsTerminal, Outside, subscriber, api, fields, map, Subs
  <2>1. CASE \E n \in Subs : Decompose(n)
    BY <1>0, <2>1 DEF Decompose, StoreState
  <2>2. CASE DecomposeFails
    BY <1>0, <2>2 DEF DecomposeFails, End
  <2>3. CASE SubmitSub
    BY <1>0, <2>3 DEF SubmitSub, MoreToSubmit, Proceed
  <2>4. CASE Submitted
    BY <1>0, <2>4 DEF Submitted, Proceed
  <2>5. CASE WaitSub
    BY <1>0, <2>5 DEF WaitSub, Proceed
  <2>6. CASE WaitThrows
    BY <1>0, <2>6 DEF WaitThrows, Proceed
  <2>7. CASE MapCancelled
    BY <1>0, <2>7 DEF MapCancelled, End
  <2>8. CASE Reduce
    BY <1>0, <2>8 DEF Reduce, StoreState
  <2>9. CASE \E s \in {"COMPLETED", "FAILED"} : Reduced(s)
    BY <1>0, <2>9 DEF Reduced, End
  <2>10. CASE MapThrows
    BY <1>0, <2>10 DEF MapThrows, Throw, Proceed
  <2> QED
    BY <2>1, <2>2, <2>3, <2>4, <2>5, <2>6, <2>7, <2>8, <2>9, <2>10 DEF MapRun
<1>2. Uncounted' = Uncounted
  <2>1. CASE SubmitSub
    BY <1>0, <2>1 DEF SubmitSub, Proceed, Goto, MapInv, MapTypeOK, Uncounted, Subs
  <2>2. CASE UNCHANGED sub
    BY <2>2 DEF Uncounted
  <2> QED
    BY <2>1, <2>2 DEF MapRun, Decompose, DecomposeFails, Submitted, WaitSub, WaitThrows,
                      MapCancelled, Reduce, Reduced, MapThrows, map
<1>3. MapInv' /\ DanglingInv'
  <2> USE DEF Goto, Ends, MapStages, StageInv, MapInv, MapTypeOK, DanglingInv, Threw, map, Subs
  <2>1. CASE \E n \in Subs : Decompose(n)
    BY <1>0, <1>1, <1>2, <2>1 DEF Decompose, StoreState
  <2>2. CASE DecomposeFails
    BY <1>0, <1>1, <1>2, <2>2 DEF DecomposeFails, End
  <2>3. CASE SubmitSub
    BY <1>0, <1>1, <1>2, <2>3 DEF SubmitSub, MoreToSubmit, Proceed
  <2>4. CASE Submitted
    BY <1>0, <1>1, <1>2, <2>4 DEF Submitted, MoreToSubmit, Proceed
  <2>5. CASE WaitSub
    BY <1>0, <1>1, <1>2, <2>5 DEF WaitSub, Ready, Proceed
  <2>6. CASE WaitThrows
    BY <1>0, <1>1, <1>2, <2>6 DEF WaitThrows, Proceed
  <2>7. CASE MapCancelled
    BY <1>0, <1>1, <1>2, <2>7 DEF MapCancelled, End
  <2>8. CASE Reduce
    BY <1>0, <1>1, <1>2, <2>8 DEF Reduce, MapSeesCancel, StoreState
  <2>9. CASE \E s \in {"COMPLETED", "FAILED"} : Reduced(s)
    BY <1>0, <1>1, <1>2, <2>9 DEF Reduced, End
  <2>10. CASE MapThrows
    BY <1>0, <1>1, <1>2, <2>10 DEF MapThrows, Throw, Proceed
  <2> QED
    BY <2>1, <2>2, <2>3, <2>4, <2>5, <2>6, <2>7, <2>8, <2>9, <2>10 DEF MapRun
<1>4. StageInv' /\ ReActInv' /\ PlanInv' /\ CancelInv'
  BY <1>1 DEF StageInv, ReActInv, PlanInv, CancelInv, MapStages, Ends
<1>5. EndInv' /\ ReaderInv'
  BY <1>1, TaskEnds
<1>6. TypeOK'
  BY <1>0, <1>1, TaskTypes DEF TypeOK, Stages, MaxCount, PlanTypeOK, plan
<1> QED
  BY <1>1, <1>3, <1>4, <1>5, <1>6

(***************************************************************************)
(* map_reduce.cpp: a sub-task.  Only a map-reduce session has one.         *)
(***************************************************************************)
LEMMA SubStep ==
  ASSUME IInv, NEW i \in Subs, SubTask(i)
  PROVE  IInv'
<1> USE DEF IInv
<1>0. /\ MaxTasks \in Nat /\ step_count \in 0 .. MaxCount /\ MapTypeOK
      /\ IsFiniteSet(Uncounted) /\ Cardinality(Uncounted) \in Nat
  BY MapReduceAssumption, UncountedFinite DEF TypeOK, SessionTypeOK, MaxCount
<1>1. /\ sub[i] \in {"queued", "started", "running", "writing"}
      /\ \E to \in {"started", "running", "writing", "done", "threw"} :
            sub' = [sub EXCEPT ![i] = to]
      /\ UNCHANGED <<Outside, task, state, final_answer, error>>
      /\ UNCHANGED <<tasks, next, reduced, timed_out, plan, workflow>>
      /\ result' \in [Subs -> {"none", "answer", "error"}]
      /\ dangling' \in BOOLEAN
  <2> USE DEF SubGoto, session, Outside, task, fields
  <2>1. CASE StartSub(i)
    BY <1>0, <2>1 DEF StartSub, SubTask, MapTypeOK
  <2>2. CASE CountSub(i)
    BY <1>0, <2>2 DEF CountSub, SubTask, MapTypeOK, Touch
  <2>3. CASE CountTokens(i)
    BY <1>0, <2>3 DEF CountTokens, SubTask, MapTypeOK, Touch
  <2>4. CASE SubThrows(i)
    BY <1>0, <2>4 DEF SubThrows, SubTask, MapTypeOK
  <2>5. CASE \E r \in {"answer", "error"} : WriteResult(i, r)
    BY <1>0, <2>5 DEF WriteResult, SubTask, MapTypeOK, Touch
  <2> QED
    BY <2>1, <2>2, <2>3, <2>4, <2>5 DEF SubTask, Sub
<1>2. workflow = "map-reduce" /\ pc \notin {"queued", "decompose"}
  BY <1>1 DEF MapInv
<1>3. step_count' \in Nat /\ step_count' + Cardinality(Uncounted') <= MaxTasks
  <2>1. CASE CountSub(i)
    <3>1. i \in Uncounted /\ Uncounted' = Uncounted \ {i} /\ step_count' = step_count + 1
      BY <1>0, <2>1 DEF CountSub, SubGoto, Uncounted, MapTypeOK
    <3>2. Cardinality(Uncounted') = Cardinality(Uncounted) - 1
      BY <1>0, <3>1, FS_RemoveElement
    <3> QED
      BY <1>0, <1>2, <3>1, <3>2 DEF MapInv
  <2>2. CASE ~CountSub(i)
    <3>1. step_count' = step_count
      BY <2>2 DEF SubTask, Sub, StartSub, CountTokens, SubThrows, WriteResult, session, fields
    <3>2. Uncounted' \subseteq Uncounted
      BY <1>0, <1>1, <2>2
      DEF SubTask, Sub, StartSub, CountTokens, SubThrows, WriteResult, SubGoto, Uncounted, MapTypeOK
    <3>3. Cardinality(Uncounted') <= Cardinality(Uncounted) /\ Cardinality(Uncounted') \in Nat
      BY <1>0, <3>2, FS_Subset, FS_CardinalityType
    <3> QED
      BY <1>0, <1>2, <3>1, <3>3 DEF MapInv
  <2> QED
    BY <2>1, <2>2
<1>4. MapInv'
  <2>1. \A j \in Subs : sub'[j] = "done" => cancel_requested' \/ result'[j] # "none"
    BY <1>0, <1>1, <1>2
    DEF SubTask, Sub, StartSub, CountSub, CountTokens, SubThrows, WriteResult, SubGoto,
        MapInv, MapTypeOK, Outside, api, session
  <2> QED
    BY <1>0, <1>1, <1>2, <1>3, <2>1 DEF MapInv, MapTypeOK, task, Subs
<1>5. DanglingInv'
  <2>1. Threw => Threw'
    BY <1>0, <1>1 DEF Threw, MapTypeOK
  <2>2. pc \in Ends => Threw
    BY <1>1 DEF DanglingInv
  <2>3. dangling' => dangling \/ pc \in Ends
    BY DEF SubTask, Sub, StartSub, CountSub, CountTokens, SubThrows, WriteResult, Touch, Ends
  <2> QED
    BY <1>1, <2>1, <2>2, <2>3 DEF DanglingInv, task
<1>6. StageInv' /\ EndInv' /\ ReaderInv' /\ CancelInv' /\ ReActInv'
  BY <1>1, <1>2 DEF StageInv, EndInv, ReaderInv, CancelInv, ReActInv, Outside, subscriber, task
<1>7. PlanInv'
  BY <1>1, <1>2 DEF PlanInv, StageInv, MapStages, Ends, plan, task
<1>8. TypeOK'
  <2>1. step_count' \in 0 .. MaxCount
    <3>1. Cardinality(Uncounted') \in Nat
      <4>1. IsFiniteSet(Uncounted')
        <5>1. IsFiniteSet(Subs) /\ Uncounted' \subseteq Subs
          BY FS_Interval, MapReduceAssumption DEF Subs, Uncounted
        <5> QED
          BY <5>1, FS_Subset
      <4> QED
        BY <4>1, FS_CardinalityType
    <3> QED
      BY <1>0, <1>3, <3>1, MaxCountFacts
  <2>2. SessionTypeOK(Stages, MaxCount)'
    BY <1>1, <2>1 DEF TypeOK, SessionTypeOK, Stages, MaxCount, Outside, subscriber, api, task
  <2>3. MapTypeOK'
    BY <1>0, <1>1 DEF MapTypeOK
  <2> QED
    BY <1>1, <2>2, <2>3 DEF TypeOK, PlanTypeOK, plan, Stages, MaxCount
<1> QED
  BY <1>4, <1>5, <1>6, <1>7, <1>8

-----------------------------------------------------------------------------
(***************************************************************************)
(* session.h and handle_subscribe: the subscriber reads the state first.   *)
(***************************************************************************)
LEMMA ReaderStep ==
  ASSUME IInv, Reader
  PROVE  IInv'
<1> USE DEF IInv
<1>1. UNCHANGED <<Inside, timed_out, plan, map, workflow>>
  BY DEF Reader, Subscriber, ReadState, ReadStep, ReadAnswer, ReadError, Lost, NoChange, Emit,
         Disconnect
<1>2. SessionTypeOK(Stages, MaxCount)
  BY DEF TypeOK, Stages, MaxCount
<1>3. ReaderInv' /\ SessionTypeOK(Stages, MaxCount)'
  <2> USE <1>2 DEF ReaderInv, SessionTypeOK, Inside, fields, api, task
  <2>1. CASE ReadState
    BY <2>1 DEF ReadState
  <2>2. CASE ReadStep
    BY <2>2 DEF ReadStep
  <2>3. CASE ReadAnswer
    BY <2>3 DEF ReadAnswer
  <2>4. CASE ReadError
    BY <2>4 DEF ReadError
  <2>5. CASE Lost
    BY <2>5 DEF Lost
  <2>6. CASE NoChange
    BY <2>6 DEF NoChange
  <2>7. CASE Emit
    BY <2>7 DEF Emit
  <2>8. CASE Disconnect
    BY <2>8 DEF Disconnect
  <2> QED
    BY <2>1, <2>2, <2>3, <2>4, <2>5, <2>6, <2>7, <2>8 DEF Reader, Subscriber
<1>4. StageInv' /\ EndInv'
  BY <1>1 DEF StageInv, EndInv, Inside, fields, api, task
<1>6. CancelInv' /\ ReActInv' /\ PlanInv'
  BY <1>1 DEF CancelInv, ReActInv, PlanInv, Inside, fields, api, task, plan
<1>5. MapInv' /\ DanglingInv'
  BY <1>1 DEF MapInv, DanglingInv, Uncounted, Threw, Inside, fields, api, task, map
<1> QED
  BY <1>1, <1>3, <1>4, <1>5, <1>6 DEF TypeOK, Stages, MaxCount, PlanTypeOK, MapTypeOK, plan, map

(***************************************************************************)
(* cancel_session(), the collector and the clock.                          *)
(***************************************************************************)
LEMMA OtherStep ==
  ASSUME IInv, Others
  PROVE  IInv'
<1> USE DEF IInv
<1>1. UNCHANGED <<fields, subscriber, task, plan, map, workflow>>
  BY DEF Others, Cancel, Reap, Expire, session
<1>2. SessionTypeOK(Stages, MaxCount)
  BY DEF TypeOK, Stages, MaxCount
<1>3. /\ SessionTypeOK(Stages, MaxCount)' /\ timed_out' \in BOOLEAN
      /\ CancelInv' /\ (cancel_requested => cancel_requested')
  <2> USE <1>2, MaxCountFacts DEF SessionTypeOK, CancelInv, fields, subscriber, task, api
  <2>1. CASE Cancel /\ UNCHANGED <<timed_out, plan, map, workflow>>
    <3>1. cancel_requested' /\ cancel_requested' \in BOOLEAN
      BY <2>1, Zenon DEF Cancel
    <3>2. /\ UNCHANGED <<fields, subscriber, task, present, timed_out, workflow>>
          /\ cancel_requested => asked_at' = asked_at
          /\ ~cancel_requested => asked_at' = step_count
      BY <2>1 DEF Cancel
    <3>3. asked_at' \in 0 .. MaxCount
      BY <3>2
    <3>4. SessionTypeOK(Stages, MaxCount)'
      BY <3>1, <3>2, <3>3
    <3>5. CancelInv'
      BY <3>2
    <3> QED
      BY <3>1, <3>2, <3>4, <3>5 DEF TypeOK
  <2>2. CASE Reap /\ UNCHANGED <<timed_out, plan, map, workflow>>
    <3>1. present' \in BOOLEAN
      BY <2>2, Zenon DEF Reap
    <3>2. UNCHANGED <<fields, subscriber, task, cancel_requested, asked_at, timed_out, workflow>>
      BY <2>2 DEF Reap
    <3>3. SessionTypeOK(Stages, MaxCount)'
      BY <3>1, <3>2
    <3>4. CancelInv'
      BY <3>2
    <3> QED
      BY <3>2, <3>3, <3>4 DEF TypeOK
  <2>3. CASE Expire /\ UNCHANGED <<plan, map, workflow>>
    <3>1. timed_out' \in BOOLEAN
      BY <2>3, Zenon DEF Expire
    <3>2. UNCHANGED session /\ UNCHANGED workflow
      BY <2>3 DEF Expire
    <3> QED
      BY <3>1, <3>2 DEF session
  <2> QED
    BY <2>1, <2>2, <2>3 DEF Others
<1>4. StageInv' /\ EndInv' /\ ReaderInv'
  BY <1>1 DEF StageInv, EndInv, ReaderInv, fields, subscriber, task
<1>6. ReActInv' /\ PlanInv'
  BY <1>1 DEF ReActInv, PlanInv, fields, task, plan
<1>5. MapInv' /\ DanglingInv'
  BY <1>1, <1>3 DEF MapInv, DanglingInv, Uncounted, Threw, fields, task, map
<1> QED
  BY <1>1, <1>3, <1>4, <1>5, <1>6 DEF TypeOK, Stages, MaxCount, PlanTypeOK, MapTypeOK, plan, map

(***************************************************************************)
(* The task begins, and it stores the terminal state.                      *)
(***************************************************************************)
LEMMA FrameStep ==
  ASSUME IInv, Begin \/ (StoreOutcome /\ UNCHANGED <<timed_out, plan, map, workflow>>)
  PROVE  IInv'
<1> USE DEF IInv
<1>1. /\ TaskStep /\ UNCHANGED <<timed_out, plan, map, workflow, step_count, Outside>>
      /\ StageInv' /\ pc' \in Stages \cup Ends
  <2>1. CASE Begin
    BY <2>1 DEF Begin, StoreState, Goto, TaskStep, Working, FirstStage, StageInv, Ends, TypeOK,
                States, Terminal, Stages, ReActStages, PlanStages, MapStages
  <2>2. CASE StoreOutcome /\ UNCHANGED <<timed_out, plan, map, workflow>>
    BY <2>2 DEF StoreOutcome, StoreState, Goto, TaskStep, StageInv, Ends
  <2> QED
    BY <2>1, <2>2
<1>2. \/ pc = "queued" /\ pc' \in {"loop", "plan", "decompose"}
      \/ pc = "end" /\ pc' = "ended"
  BY DEF Begin, StoreOutcome, StoreState, Goto, FirstStage, TypeOK
<1>3. pc = "queued" => (pc' = "decompose" <=> workflow = "map-reduce")
  BY <1>1, <1>2 DEF Begin, StoreState, Goto, FirstStage, TypeOK, StoreOutcome
<1>4. EndInv' /\ ReaderInv'
  BY <1>1, TaskEnds
<1>5. CancelInv' /\ ReActInv'
  BY <1>1, <1>2 DEF CancelInv, ReActInv, Outside, api
<1>6. PlanInv'
  BY <1>1, <1>2 DEF PlanInv, plan
<1>7. MapInv' /\ DanglingInv'
  BY <1>1, <1>2, <1>3 DEF MapInv, DanglingInv, Uncounted, Threw, map, Outside, api, Ends
<1>8. TypeOK'
  BY <1>1, TaskTypes DEF TypeOK, SessionTypeOK, Stages, MaxCount, PlanTypeOK, MapTypeOK, plan, map
<1> QED
  BY <1>1, <1>4, <1>5, <1>6, <1>7, <1>8

-----------------------------------------------------------------------------
LEMMA StepIInv == IInv /\ [Next]_vars => IInv'
<1> SUFFICES ASSUME IInv, [Next]_vars PROVE IInv'
  OBVIOUS
<1>1. CASE Task
  BY <1>1, FrameStep, ReActStep, PlanStep, MapStep DEF Task
<1>2. CASE \E i \in Subs : SubTask(i)
  BY <1>2, SubStep
<1>3. CASE Reader
  BY <1>3, ReaderStep
<1>4. CASE Others
  BY <1>4, OtherStep
<1>5. CASE UNCHANGED vars
  <2>1. UNCHANGED <<fields, subscriber, api, task, timed_out, plan, map, workflow>>
    BY <1>5 DEF vars, session
  <2>2. TypeOK'
    <3>1. SessionTypeOK(Stages, MaxCount)
      BY DEF IInv, TypeOK, Stages, MaxCount
    <3>2. SessionTypeOK(Stages, MaxCount)'
      BY <2>1, <3>1 DEF SessionTypeOK, fields, subscriber, api, task
    <3>3. PlanTypeOK' /\ MapTypeOK'
      BY <2>1 DEF IInv, TypeOK, PlanTypeOK, MapTypeOK, plan, map
    <3> QED
      BY <2>1, <3>2, <3>3 DEF IInv, TypeOK, Stages, MaxCount
  <2>3. StageInv' /\ EndInv' /\ ReaderInv' /\ CancelInv' /\ ReActInv' /\ PlanInv'
    <3>1. StageInv' /\ EndInv'
      BY <2>1 DEF IInv, StageInv, EndInv, fields, subscriber, api, task
    <3>2. ReaderInv' /\ CancelInv'
      BY <2>1 DEF IInv, ReaderInv, CancelInv, fields, subscriber, api, task
    <3>3. ReActInv' /\ PlanInv'
      BY <2>1 DEF IInv, ReActInv, PlanInv, fields, subscriber, api, task, plan
    <3> QED
      BY ONLY <3>1, <3>2, <3>3
  <2>4. MapInv' /\ DanglingInv'
    BY <2>1 DEF IInv, MapInv, DanglingInv, Uncounted, Threw, fields, api, task, map
  <2> QED
    BY <2>2, <2>3, <2>4 DEF IInv
<1> QED
  BY <1>1, <1>2, <1>3, <1>4, <1>5 DEF Next, Over

LEMMA Invariance == Spec => []IInv
BY InitIInv, StepIInv, PTL DEF Spec

-----------------------------------------------------------------------------
\* The type invariant, with the bound on the steps that are counted: by one
\* writer in react.cpp and plan_execute.cpp, by several in map_reduce.cpp.
THEOREM WorkflowTypes == Spec => []TypeOK
<1>1. IInv => TypeOK
  BY DEF IInv
<1> QED
  BY Invariance, <1>1, PTL

\* A subscriber that is told of a terminal state is told the answer or the
\* error with it, although get_session() reads field by field without a lock.
THEOREM TerminalInfo == Spec => []TerminalInfoComplete
<1>1. IInv => TerminalInfoComplete
  <2> SUFFICES ASSUME IInv PROVE TerminalInfoComplete
    OBVIOUS
  <2>1. TypeOK /\ outcome \in Terminal
    BY DEF IInv, TypeOK, SessionTypeOK
  <2> QED
    BY <2>1 DEF IInv, TerminalInfoComplete, ReaderInv, EndInv, IsTerminal, Terminal, None
<1> QED
  BY Invariance, <1>1, PTL

\* After cancel_session() a sequential workflow counts one more step at most,
\* wherever the request meets it.
THEOREM CancelIsSoon == Spec => []CancelStopsSoon
<1>1. IInv => CancelStopsSoon
  BY DEF IInv, CancelInv, CancelStopsSoon
<1> QED
  BY Invariance, <1>1, PTL

\* synthesize() is given a result of every step of the plan, and reduce() one
\* of every sub-task, however many there are.
THEOREM AnswerFromAll == Spec => []AnswersFromAll
<1>1. IInv => AnswersFromAll
  BY DEF IInv, PlanInv, MapInv, AnswersFromAll
<1> QED
  BY Invariance, <1>1, PTL

\* No sub-task of map_reduce.cpp uses a local of run() after run() has ended,
\* unless a sub-task has thrown.
THEOREM SubTasksFirst == Spec => []SubTasksEndFirst
<1>1. IInv => SubTasksEndFirst
  BY DEF IInv, DanglingInv, Threw, SubTasksEndFirst
<1> QED
  BY Invariance, <1>1, PTL

-----------------------------------------------------------------------------
(***************************************************************************)
(* The inductive invariant: a thread holds a permit at most once, so that  *)
(* the holders can be counted.  Nothing is said of the copies: the CAS     *)
(* makes sure that a stale one is not used.                                *)
(***************************************************************************)
FrontInv ==
  /\ permits \in Int
  /\ sem_pc \in [Clients -> {"idle", "try", "holding"}]
  /\ PermitsConserved

\* One thread becomes a holder, or stops being one: the count follows.
LEMMA CountHolders ==
  ASSUME sem_pc \in [Clients -> {"idle", "try", "holding"}], NEW c \in Clients
  PROVE  /\ Cardinality(S!Holders) \in Nat
         /\ sem_pc[c] # "holding" /\ sem_pc' = [sem_pc EXCEPT ![c] = "holding"]
              => Cardinality(S!Holders') = Cardinality(S!Holders) + 1
         /\ sem_pc[c] = "holding" /\ sem_pc' = [sem_pc EXCEPT ![c] = "idle"]
              => Cardinality(S!Holders') = Cardinality(S!Holders) - 1
<1>1. IsFiniteSet(S!Holders)
  <2>1. S!Holders \subseteq Clients BY DEF S!Holders
  <2> QED BY <2>1, BackpressureAssumption, FS_Subset
<1>2. ASSUME sem_pc[c] # "holding", sem_pc' = [sem_pc EXCEPT ![c] = "holding"]
      PROVE  Cardinality(S!Holders') = Cardinality(S!Holders) + 1
  <2>1. S!Holders' = S!Holders \cup {c} /\ c \notin S!Holders BY <1>2 DEF S!Holders
  <2> QED BY <1>1, <2>1, FS_AddElement
<1>3. ASSUME sem_pc[c] = "holding", sem_pc' = [sem_pc EXCEPT ![c] = "idle"]
      PROVE  Cardinality(S!Holders') = Cardinality(S!Holders) - 1
  <2>1. S!Holders' = S!Holders \ {c} /\ c \in S!Holders BY <1>3 DEF S!Holders
  <2> QED BY <1>1, <2>1, FS_RemoveElement
<1> QED BY <1>1, <1>2, <1>3, FS_CardinalityType

LEMMA InitFrontInv == FrontInit => FrontInv
<1> SUFFICES ASSUME FrontInit PROVE FrontInv OBVIOUS
<1>1. S!Holders = {} BY DEF FrontInit, S!Init, S!Holders
<1> QED BY <1>1, FS_EmptySet, BackpressureAssumption DEF FrontInit, S!Init, FrontInv, PermitsConserved

LEMMA StepFrontInv == FrontInv /\ [FrontNext]_front_vars => FrontInv'
<1> SUFFICES ASSUME FrontInv, [FrontNext]_front_vars PROVE FrontInv' OBVIOUS
<1> USE BackpressureAssumption
\* Steps that no permit changes hands in.
<1>1. ASSUME permits' = permits, S!Holders' = S!Holders,
             sem_pc' \in [Clients -> {"idle", "try", "holding"}]
      PROVE  FrontInv'
  BY <1>1 DEF FrontInv, PermitsConserved
<1>2. CASE UNCHANGED semaphore
  BY <1>1, <1>2 DEF semaphore, FrontInv, S!Holders
<1>3. ASSUME NEW c \in Clients, Admit(c) PROVE FrontInv'
  <2>1. permits' = permits /\ sem_pc[c] = "idle" /\ sem_pc' = [sem_pc EXCEPT ![c] = "try"]
    BY <1>3 DEF Admit, S!Load, S!Goto
  <2>2. S!Holders' = S!Holders BY <2>1 DEF FrontInv, S!Holders
  <2> QED BY <1>1, <2>1, <2>2 DEF FrontInv
<1>4. ASSUME NEW c \in Clients, S!Take(c) PROVE FrontInv'
  <2>1. permits' = permits - 1 /\ sem_pc[c] = "try" /\ sem_pc' = [sem_pc EXCEPT ![c] = "holding"]
    BY <1>4 DEF S!Take, S!Goto, S!StillCurrent
  <2>2. /\ Cardinality(S!Holders) \in Nat
        /\ Cardinality(S!Holders') = Cardinality(S!Holders) + 1
    BY <2>1, CountHolders DEF FrontInv
  <2> QED BY <2>1, <2>2 DEF FrontInv, PermitsConserved
<1>5. ASSUME NEW c \in Clients, S!Retry(c) \/ S!Backoff(c) PROVE FrontInv'
  <2>1. UNCHANGED <<permits, sem_pc>> BY <1>5 DEF S!Retry, S!Backoff
  <2> QED BY <1>1, <2>1 DEF FrontInv, S!Holders
<1>6. ASSUME NEW c \in Clients, Complete(c) PROVE FrontInv'
  <2>1. permits' = permits + 1 /\ sem_pc[c] = "holding" /\ sem_pc' = [sem_pc EXCEPT ![c] = "idle"]
    BY <1>6 DEF Complete, S!Release, S!Goto
  <2>2. /\ Cardinality(S!Holders) \in Nat
        /\ Cardinality(S!Holders') = Cardinality(S!Holders) - 1
    BY <2>1, CountHolders DEF FrontInv
  <2> QED BY <2>1, <2>2 DEF FrontInv, PermitsConserved
<1> QED BY <1>2, <1>3, <1>4, <1>5, <1>6 DEF FrontNext, front_vars, Tick, RateStep, SemStep

(***************************************************************************)
(* Permits are neither lost nor invented by the CAS loop of try_acquire()  *)
(* and the fetch_add of release(), for any number of threads and permits.  *)
(***************************************************************************)
THEOREM PermitsKept == FrontSpec => []PermitsConserved
<1>1. FrontInv => PermitsConserved BY DEF FrontInv
<1> QED BY InitFrontInv, StepFrontInv, <1>1, PTL DEF FrontSpec

-----------------------------------------------------------------------------
\* The units that the members of C have claimed according to f, one by one.
UnitsOf(f, C) == UNION {{c} \X (1 .. f[c]) : c \in C}

LEMMA UnitsFinite ==
  ASSUME NEW C, IsFiniteSet(C), NEW f, \A c \in C : f[c] \in Nat
  PROVE  IsFiniteSet(UnitsOf(f, C))
<1> DEFINE T == {{c} \X (1 .. f[c]) : c \in C}
           g == [c \in C |-> {c} \X (1 .. f[c])]
<1>1. IsFiniteSet(T)
  <2>1. g \in Surjection(C, T)
    BY DEF Surjection
  <2> QED
    BY <2>1, FS_Surjection DEF ExistsSurjection
<1>2. \A x \in T : IsFiniteSet(x)
  <2> SUFFICES ASSUME NEW c \in C PROVE IsFiniteSet({c} \X (1 .. f[c]))
    OBVIOUS
  <2>1. IsFiniteSet({c})
    BY FS_Singleton
  <2>2. IsFiniteSet(1 .. f[c])
    BY FS_Interval
  <2> QED
    BY <2>1, <2>2, FS_Product
<1> HIDE DEF T
<1>3. IsFiniteSet(UNION T)
  BY <1>1, <1>2, FS_UNION
<1> QED
  BY <1>3 DEF UnitsOf, T

\* One member's share can be told from the others'.
LEMMA CountUnits ==
  ASSUME NEW C, IsFiniteSet(C), NEW f, \A d \in C : f[d] \in Nat, NEW c \in C
  PROVE  /\ Cardinality(UnitsOf(f, C \ {c})) \in Nat
         /\ Cardinality(UnitsOf(f, C)) = Cardinality(UnitsOf(f, C \ {c})) + f[c]
<1> DEFINE rest == UnitsOf(f, C \ {c})
           own == {c} \X (1 .. f[c])
<1>1. IsFiniteSet(C \ {c})
  BY FS_Subset
<1>2. IsFiniteSet(rest)
  BY <1>1, UnitsFinite
<1>3. IsFiniteSet({c}) /\ Cardinality({c}) = 1
  BY FS_Singleton
<1>4. IsFiniteSet(1 .. f[c]) /\ Cardinality(1 .. f[c]) = f[c]
  BY FS_Interval
<1>5. IsFiniteSet(own) /\ Cardinality(own) = f[c]
  BY <1>3, <1>4, FS_Product
<1>6. UnitsOf(f, C) = rest \cup own
  BY DEF UnitsOf
<1>7. rest \cap own = {}
  BY DEF UnitsOf
<1>8. Cardinality({}) = 0
  BY FS_EmptySet
<1>9. Cardinality(rest) \in Nat
  BY <1>2, FS_CardinalityType
<1> HIDE DEF rest, own
<1>10. Cardinality(rest \cup own) = Cardinality(rest) + Cardinality(own) - Cardinality(rest \cap own)
  BY <1>2, <1>5, FS_Union
<1>11. Cardinality(rest \cap own) = 0
  BY <1>7, <1>8, Zenon
<1>12. Cardinality(rest \cup own) = Cardinality(rest) + f[c]
  BY <1>5, <1>9, <1>10, <1>11
<1> QED
  BY <1>6, <1>9, <1>12 DEF rest

\* What is on its way to the bucket, when one thread claims or adds.
LEMMA PendingChanges ==
  ASSUME fresh \in [Clients -> Nat], NEW c \in Clients, NEW n \in Nat,
         fresh' = [fresh EXCEPT ![c] = n]
  PROVE  /\ Cardinality(R!Pending) \in Nat /\ Cardinality(R!Pending') \in Nat
         /\ Cardinality(R!Pending') - n = Cardinality(R!Pending) - fresh[c]
<1> DEFINE others == Cardinality(UnitsOf(fresh, Clients \ {c}))
<1>1. others \in Nat /\ Cardinality(UnitsOf(fresh, Clients)) = others + fresh[c]
  BY CountUnits, BackpressureAssumption
<1>2. /\ Cardinality(UnitsOf(fresh', Clients \ {c})) \in Nat
      /\ Cardinality(UnitsOf(fresh', Clients)) = Cardinality(UnitsOf(fresh', Clients \ {c})) + fresh'[c]
  <2>1. \A d \in Clients : fresh'[d] \in Nat
    OBVIOUS
  <2> QED
    BY <2>1, CountUnits, BackpressureAssumption
<1>3. UnitsOf(fresh', Clients \ {c}) = UnitsOf(fresh, Clients \ {c})
  <2>1. \A d \in Clients \ {c} : fresh'[d] = fresh[d]
    OBVIOUS
  <2> QED
    BY <2>1 DEF UnitsOf
<1>4. fresh'[c] = n /\ fresh[c] \in Nat
  OBVIOUS
<1>5. R!Pending = UnitsOf(fresh, Clients)
  BY DEF R!Pending, UnitsOf
<1>6. R!Pending' = UnitsOf(fresh', Clients)
  BY DEF R!Pending, UnitsOf
<1> HIDE DEF others
<1> QED
  BY <1>1, <1>2, <1>3, <1>4, <1>5, <1>6 DEF others

-----------------------------------------------------------------------------
(***************************************************************************)
(* The inductive invariant of the rate limiter: a thread about to claim a  *)
(* window has one that is not empty, and a thread has units on their way   *)
(* only between its claim and its add.  So a claim never overwrites units  *)
(* that are still to be added.                                             *)
(***************************************************************************)
LimiterInv ==
  /\ R!TypeOK
  /\ \A c \in Clients : rate_pc[c] = "claim" => prev[c] < now[c]
  /\ \A c \in Clients : rate_pc[c] # "add" => fresh[c] = 0
  /\ RefillAccounted

LEMMA InitLimiterInv == FrontInit => LimiterInv
<1> SUFFICES ASSUME FrontInit PROVE LimiterInv
  OBVIOUS
<1> USE BackpressureAssumption DEF FrontInit, R!Init
<1>1. R!TypeOK
  BY DEF R!TypeOK
<1>2. R!Pending = {}
  BY DEF R!Pending
<1>3. Cardinality(R!Pending) = 0
  BY <1>2, FS_EmptySet, Zenon
<1>4. RefillAccounted
  BY <1>3 DEF RefillAccounted
<1> QED
  BY <1>1, <1>4 DEF LimiterInv

\* A step that neither moves tokens nor touches last_refill_.
LEMMA NothingMoves ==
  ASSUME LimiterInv, UNCHANGED <<tokens, last_refill, fresh, granted, spilled, truncated>>
  PROVE  RefillAccounted'
<1>1. R!Pending' = R!Pending
  BY DEF R!Pending
<1> QED
  BY <1>1 DEF LimiterInv, RefillAccounted

LEMMA ClaimKeeps ==
  ASSUME LimiterInv, NEW c \in Clients, R!Claim(c)
  PROVE  LimiterInv'
<1> USE BackpressureAssumption
<1> DEFINE a == RateNum * (now[c] - prev[c])
           q == a \div RateDen
           m == a % RateDen
<1>0. LimiterInv /\ R!TypeOK
  BY DEF LimiterInv
<1>1. /\ rate_pc[c] = "claim" /\ last_refill = prev[c] /\ last_refill' = now[c]
      /\ rate_pc' = [rate_pc EXCEPT ![c] = IF q > 0 THEN "add" ELSE "take"]
      /\ fresh' = [fresh EXCEPT ![c] = q]
      /\ truncated' = truncated + m
      /\ UNCHANGED <<clock, tokens, now, prev, granted, spilled>>
  BY DEF R!Claim, R!Claims, R!Goto, R!Accrued
<1>2. prev[c] < now[c] /\ prev[c] <= now[c] /\ fresh[c] = 0 /\ prev[c] \in Nat /\ now[c] \in Nat
  <2>1. prev[c] \in Nat /\ now[c] \in Nat
    BY <1>0 DEF R!TypeOK
  <2>2. prev[c] < now[c] /\ fresh[c] = 0
    BY ONLY <1>0, <1>1, c \in Clients DEF LimiterInv
  <2> QED
    BY ONLY <2>1, <2>2
<1>3. q \in Nat /\ m \in Nat /\ RateDen * q + m = RateNum * now[c] - RateNum * prev[c]
  <2>1. a \in Nat /\ a = RateNum * now[c] - RateNum * prev[c]
    <3>1. now[c] - prev[c] \in Nat
      BY <1>2
    <3> QED
      BY <1>2, <3>1
  <2> HIDE DEF a
  <2>2. q \in Nat /\ m \in Nat /\ RateDen * q + m = a
    BY <2>1
  <2> QED
    BY <2>1, <2>2
<1> HIDE DEF a, q, m
<1>4. R!TypeOK'
  <2>1. last_refill' \in 0 .. clock'
    BY <1>0, <1>1 DEF R!TypeOK
  <2>2. fresh' \in [Clients -> Nat]
    BY <1>0, <1>1, <1>3 DEF R!TypeOK
  <2>3. rate_pc' \in [Clients -> {"idle", "poll", "load", "claim", "add", "take", "granted"}]
    BY <1>0, <1>1 DEF R!TypeOK
  <2>4. truncated' \in Nat
    BY <1>0, <1>1, <1>3 DEF R!TypeOK
  <2> QED
    BY <1>0, <1>1, <2>1, <2>2, <2>3, <2>4 DEF R!TypeOK
<1>5. /\ Cardinality(R!Pending) \in Nat /\ Cardinality(R!Pending') \in Nat
      /\ Cardinality(R!Pending') = Cardinality(R!Pending) + q
  <2>1. fresh \in [Clients -> Nat]
    BY <1>0 DEF R!TypeOK
  <2>2. /\ Cardinality(R!Pending) \in Nat /\ Cardinality(R!Pending') \in Nat
        /\ Cardinality(R!Pending') - q = Cardinality(R!Pending) - fresh[c]
    BY <1>1, <1>3, <2>1, PendingChanges
  <2> QED
    BY <1>2, <1>3, <2>2
<1>6. RefillAccounted'
  <2> DEFINE x == tokens + granted + spilled + Cardinality(R!Pending)
  <2>1. x \in Nat /\ RateDen * x + truncated = RateDen * Burst + RateNum * prev[c]
    <3>1. tokens \in Nat /\ granted \in Nat /\ spilled \in Nat
      BY <1>0 DEF R!TypeOK
    <3>2. x \in Nat
      BY <1>5, <3>1
    <3>3. RateDen * x + truncated = RateDen * Burst + RateNum * last_refill
      BY <1>0 DEF LimiterInv, RefillAccounted
    <3> QED
      BY <1>1, <3>2, <3>3
  <2>2. tokens' + granted' + spilled' + Cardinality(R!Pending') = x + q
    BY <1>0, <1>1, <1>3, <1>5 DEF R!TypeOK
  <2>3. truncated \in Nat
    BY <1>0 DEF R!TypeOK
  <2> HIDE DEF x
  <2>4. RateDen * (x + q) = RateDen * x + RateDen * q
    BY <1>3, <2>1
  <2>5. RateDen * x \in Int /\ RateDen * q \in Int /\ RateDen * Burst \in Int
        /\ RateNum * prev[c] \in Int /\ RateNum * now[c] \in Int
    <3>1. RateDen \in Int /\ RateNum \in Int /\ Burst \in Int
      OBVIOUS
    <3>2. x \in Int /\ q \in Int /\ prev[c] \in Int /\ now[c] \in Int
      BY <1>2, <1>3, <2>1
    <3>3. \A i, j \in Int : i * j \in Int
      OBVIOUS
    <3> QED
      BY ONLY <3>1, <3>2, <3>3
  <2>6. RateDen * (x + q) + (truncated + m) = RateDen * Burst + RateNum * now[c]
    BY <1>3, <2>1, <2>3, <2>4, <2>5
  <2> QED
    BY <1>1, <2>2, <2>6 DEF RefillAccounted
<1>7. ASSUME NEW d \in Clients
      PROVE  /\ rate_pc'[d] = "claim" => prev'[d] < now'[d]
             /\ rate_pc'[d] # "add" => fresh'[d] = 0
  <2>1. CASE d = c
    BY <1>0, <1>1, <1>3, <2>1 DEF R!TypeOK
  <2>2. CASE d # c
    BY <1>0, <1>1, <2>2 DEF R!TypeOK, LimiterInv
  <2> QED
    BY <2>1, <2>2
<1> QED
  BY <1>4, <1>6, <1>7 DEF LimiterInv

LEMMA AddKeeps ==
  ASSUME LimiterInv, NEW c \in Clients, R!Add(c)
  PROVE  LimiterInv'
<1> USE BackpressureAssumption
<1> DEFINE b == R!Desired(c)
<1>0. LimiterInv /\ R!TypeOK
  BY DEF LimiterInv
<1>1. /\ rate_pc[c] = "add" /\ rate_pc' = [rate_pc EXCEPT ![c] = "take"]
      /\ tokens' = b /\ spilled' = spilled + (tokens + fresh[c] - b)
      /\ fresh' = [fresh EXCEPT ![c] = 0]
      /\ UNCHANGED <<clock, last_refill, now, prev, granted, truncated>>
  BY DEF R!Add, R!Goto
<1>2. tokens \in 0 .. Burst /\ fresh[c] \in Nat /\ spilled \in Nat /\ granted \in Nat
      /\ fresh \in [Clients -> Nat]
  BY <1>0 DEF R!TypeOK
<1>3. b \in 0 .. Burst /\ b <= tokens + fresh[c]
  <2> DEFINE y == tokens + fresh[c]
  <2>1. y \in Nat /\ b = R!Min({y, Burst})
    BY <1>2 DEF R!Desired
  <2> HIDE DEF y
  <2>2. \E x \in {y, Burst} : \A z \in {y, Burst} : x <= z
    BY <2>1
  <2>3. R!Min({y, Burst}) \in {y, Burst} /\ \A z \in {y, Burst} : R!Min({y, Burst}) <= z
    BY <2>2 DEF R!Min
  <2> QED
    BY <2>1, <2>3 DEF y
<1> HIDE DEF b
<1>4. R!TypeOK'
  BY <1>0, <1>1, <1>2, <1>3 DEF R!TypeOK
<1>5. /\ Cardinality(R!Pending) \in Nat /\ Cardinality(R!Pending') \in Nat
      /\ Cardinality(R!Pending') = Cardinality(R!Pending) - fresh[c]
  <2>1. /\ Cardinality(R!Pending) \in Nat /\ Cardinality(R!Pending') \in Nat
        /\ Cardinality(R!Pending') - 0 = Cardinality(R!Pending) - fresh[c]
    BY <1>1, <1>2, PendingChanges
  <2> QED
    BY <1>2, <2>1
<1>6. RefillAccounted'
  <2>1. tokens' + granted' + spilled' + Cardinality(R!Pending')
          = tokens + granted + spilled + Cardinality(R!Pending)
    BY <1>1, <1>2, <1>3, <1>5
  <2> QED
    BY <1>0, <1>1, <2>1 DEF LimiterInv, RefillAccounted
<1>7. ASSUME NEW d \in Clients
      PROVE  /\ rate_pc'[d] = "claim" => prev'[d] < now'[d]
             /\ rate_pc'[d] # "add" => fresh'[d] = 0
  BY <1>0, <1>1 DEF R!TypeOK, LimiterInv
<1> QED
  BY <1>4, <1>6, <1>7 DEF LimiterInv

LEMMA TakeKeeps ==
  ASSUME LimiterInv, NEW c \in Clients, R!Take(c)
  PROVE  LimiterInv'
<1> USE BackpressureAssumption
<1>0. LimiterInv /\ R!TypeOK
  BY DEF LimiterInv
<1>1. /\ tokens >= Needed /\ rate_pc[c] = "take" /\ rate_pc' = [rate_pc EXCEPT ![c] = "granted"]
      /\ tokens' = tokens - Needed /\ granted' = granted + Needed
      /\ UNCHANGED <<clock, last_refill, now, prev, fresh, spilled, truncated>>
  BY DEF R!Take, R!Goto
<1>2. R!TypeOK'
  BY <1>0, <1>1 DEF R!TypeOK
<1>3. RefillAccounted'
  <2>1. R!Pending' = R!Pending
    BY <1>1 DEF R!Pending
  <2>2. tokens' + granted' = tokens + granted
    BY <1>0, <1>1 DEF R!TypeOK
  <2> QED
    BY <1>0, <1>1, <2>1, <2>2 DEF LimiterInv, RefillAccounted
<1>4. ASSUME NEW d \in Clients
      PROVE  /\ rate_pc'[d] = "claim" => prev'[d] < now'[d]
             /\ rate_pc'[d] # "add" => fresh'[d] = 0
  BY <1>0, <1>1 DEF R!TypeOK, LimiterInv
<1> QED
  BY <1>2, <1>3, <1>4 DEF LimiterInv

\* The steps of refill() and acquire() that only look.
LEMMA LookingKeeps ==
  ASSUME LimiterInv, NEW c \in Clients,
         R!ReadClock(c) \/ R!Load(c) \/ R!ClaimFails(c) \/ R!Fail(c) \/ R!Return(c)
  PROVE  LimiterInv'
<1> USE BackpressureAssumption
<1>0. LimiterInv /\ R!TypeOK
  BY DEF LimiterInv
<1>1. UNCHANGED <<clock, tokens, last_refill, fresh, granted, spilled, truncated>>
  BY DEF R!ReadClock, R!Load, R!ClaimFails, R!Fail, R!Return
<1>2. RefillAccounted'
  BY <1>1, NothingMoves
<1>3. CASE R!ReadClock(c)
  <2>1. /\ rate_pc[c] \in {"idle", "poll"} /\ rate_pc' = [rate_pc EXCEPT ![c] = "load"]
        /\ now' = [now EXCEPT ![c] = clock] /\ prev' = prev
    BY <1>3 DEF R!ReadClock, R!Goto
  <2>2. R!TypeOK'
    BY <1>0, <1>1, <2>1 DEF R!TypeOK
  <2>3. ASSUME NEW d \in Clients
        PROVE  /\ rate_pc'[d] = "claim" => prev'[d] < now'[d]
               /\ rate_pc'[d] # "add" => fresh'[d] = 0
    BY <1>0, <1>1, <2>1 DEF R!TypeOK, LimiterInv
  <2> QED
    BY <1>2, <2>2, <2>3 DEF LimiterInv
<1>4. CASE R!Load(c) \/ R!ClaimFails(c)
  <2>1. /\ rate_pc[c] # "add"
        /\ rate_pc' = [rate_pc EXCEPT ![c] = IF now[c] > last_refill THEN "claim" ELSE "take"]
        /\ prev' = [prev EXCEPT ![c] = last_refill] /\ now' = now
    BY <1>4 DEF R!Load, R!ClaimFails, R!Goto, R!AfterWindow
  <2>2. R!TypeOK'
    BY <1>0, <1>1, <2>1 DEF R!TypeOK
  <2>3. ASSUME NEW d \in Clients
        PROVE  /\ rate_pc'[d] = "claim" => prev'[d] < now'[d]
               /\ rate_pc'[d] # "add" => fresh'[d] = 0
    BY <1>0, <1>1, <2>1 DEF R!TypeOK, LimiterInv
  <2> QED
    BY <1>2, <2>2, <2>3 DEF LimiterInv
<1>5. CASE R!Fail(c) \/ R!Return(c)
  <2>1. /\ rate_pc[c] # "add" /\ UNCHANGED <<now, prev>>
        /\ \E to \in {"poll", "idle"} : rate_pc' = [rate_pc EXCEPT ![c] = to]
    BY <1>5 DEF R!Fail, R!Return, R!Goto
  <2>2. R!TypeOK'
    BY <1>0, <1>1, <2>1 DEF R!TypeOK
  <2>3. ASSUME NEW d \in Clients
        PROVE  /\ rate_pc'[d] = "claim" => prev'[d] < now'[d]
               /\ rate_pc'[d] # "add" => fresh'[d] = 0
    BY <1>0, <1>1, <2>1 DEF R!TypeOK, LimiterInv
  <2> QED
    BY <1>2, <2>2, <2>3 DEF LimiterInv
<1> QED
  BY <1>3, <1>4, <1>5

LEMMA StepLimiterInv == LimiterInv /\ [FrontNext]_front_vars => LimiterInv'
<1> SUFFICES ASSUME LimiterInv, [FrontNext]_front_vars PROVE LimiterInv'
  OBVIOUS
<1> USE BackpressureAssumption
<1>1. CASE UNCHANGED limiter
  <2>1. R!TypeOK'
    BY <1>1 DEF LimiterInv, R!TypeOK, limiter
  <2>2. RefillAccounted'
    BY <1>1, NothingMoves DEF limiter
  <2> QED
    BY <1>1, <2>1, <2>2 DEF LimiterInv, limiter
<1>2. CASE Tick
  <2>1. /\ clock < MaxTime /\ clock' = clock + 1
        /\ UNCHANGED <<tokens, last_refill, rate_pc, now, prev, fresh, granted, spilled, truncated>>
    BY <1>2 DEF Tick, R!Tick
  <2>2. R!TypeOK
    BY DEF LimiterInv
  <2>3. R!TypeOK'
    <3>1. clock' \in 0 .. MaxTime /\ last_refill' \in 0 .. clock' /\ 0 .. clock \subseteq 0 .. clock'
      BY <2>1, <2>2 DEF R!TypeOK
    <3> QED
      BY <2>1, <2>2, <3>1 DEF R!TypeOK
  <2>4. RefillAccounted'
    BY <2>1, NothingMoves
  <2> QED
    BY <2>1, <2>3, <2>4 DEF LimiterInv
<1>3. ASSUME NEW c \in Clients, RateStep(c) PROVE LimiterInv'
  BY <1>3, ClaimKeeps, AddKeeps, TakeKeeps, LookingKeeps DEF RateStep
<1>4. ASSUME NEW c \in Clients, Admit(c) PROVE LimiterInv'
  BY <1>4, LookingKeeps DEF Admit
<1> QED
  BY <1>1, <1>2, <1>3, <1>4 DEF FrontNext, front_vars, SemStep, Complete

(***************************************************************************)
(* Every microsecond up to last_refill_ is turned into tokens exactly      *)
(* once, for any number of threads, any rate and any burst size: the CAS   *)
(* on last_refill_ in refill() hands out disjoint windows.                 *)
(***************************************************************************)
THEOREM RefillsOnce == FrontSpec => []RefillAccounted
<1>1. LimiterInv => RefillAccounted
  BY DEF LimiterInv
<1> QED
  BY InitLimiterInv, StepLimiterInv, <1>1, PTL DEF FrontSpec

(***************************************************************************)
(* try_acquire() never grants more than a full bucket and what the rate    *)
(* allows for the time that has passed.                                    *)
(***************************************************************************)
THEOREM NeverAboveRate == FrontSpec => []RateRespected
<1>1. LimiterInv => RateRespected
  <2> SUFFICES ASSUME LimiterInv PROVE RateRespected
    OBVIOUS
  <2>1. R!TypeOK /\ RefillAccounted
    BY DEF LimiterInv
  <2>2. /\ tokens \in Nat /\ granted \in Nat /\ spilled \in Nat /\ truncated \in Nat
        /\ last_refill \in Nat /\ clock \in Nat /\ last_refill <= clock
    BY <2>1, BackpressureAssumption DEF R!TypeOK
  <2>3. Cardinality(R!Pending) \in Nat
    <3>1. IsFiniteSet(UnitsOf(fresh, Clients))
      BY <2>1, UnitsFinite, BackpressureAssumption DEF R!TypeOK
    <3> QED
      BY <3>1, FS_CardinalityType DEF R!Pending, UnitsOf
  <2> DEFINE x == tokens + spilled + Cardinality(R!Pending)
  <2>4. x \in Nat /\ tokens + granted + spilled + Cardinality(R!Pending) = granted + x
    BY <2>2, <2>3
  <2>5. RateDen * (granted + x) + truncated = RateDen * Burst + RateNum * last_refill
    BY <2>1, <2>4 DEF RefillAccounted
  <2> HIDE DEF x
  <2>6. RateDen * (granted + x) = RateDen * granted + RateDen * x
    BY <2>2, <2>4, BackpressureAssumption
  <2>7. RateDen * granted \in Nat /\ RateDen * x \in Nat /\ RateDen * Burst \in Nat
    BY <2>2, <2>4, BackpressureAssumption
  <2>8. RateNum * last_refill \in Nat /\ RateNum * clock \in Nat /\ RateNum * last_refill <= RateNum * clock
    <3>1. clock - last_refill \in Nat /\ RateNum \in Nat
      BY <2>2, BackpressureAssumption
    <3>2. RateNum * (clock - last_refill) \in Nat
      BY <3>1
    <3>3. RateNum * (clock - last_refill) = RateNum * clock - RateNum * last_refill
      BY <2>2, <3>1
    <3>4. RateNum * last_refill \in Nat /\ RateNum * clock \in Nat
      BY <2>2, <3>1
    <3> QED
      BY <3>2, <3>3, <3>4
  <2> QED
    BY <2>2, <2>5, <2>6, <2>7, <2>8 DEF RateRespected
<1> QED
  BY InitLimiterInv, StepLimiterInv, <1>1, PTL DEF FrontSpec
==============================================================================
