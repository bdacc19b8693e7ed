----------------------------- MODULE PlanExecute ----------------------------
(***************************************************************************)
(* workflow/plan_execute.cpp: the LLM makes a plan, ReAct sub-sessions     *)
(* execute its steps one after the other, the LLM makes an answer of their *)
(* results.                                                                *)
(***************************************************************************)
EXTENDS Session, Sequences

CONSTANT
  MaxSteps      \* bound: steps of a plan

ASSUME PlanAssumption == MaxSteps \in Nat

VARIABLES
  steps,        \* steps.size()
  results       \* step.result of the steps executed

plan == <<steps, results>>
PlanStages == {"plan", "next", "begin", "step", "synthesize"}
PlanInit == steps = 0 /\ results = <<>>

\* generate_plan() returns n steps, or none.
Plan(n) ==
  /\ n > 0
  /\ StoreState("plan", "next", "EXECUTING_TOOLS")
  /\ steps' = n /\ UNCHANGED results

PlanFails == End("plan", "FAILED") /\ UNCHANGED plan

\* The check between the steps.
StepSeesCancel == cancel_requested

\* Mutant: the last step is left out.
MoreStepsButOne == step_count + 1 < steps
MoreSteps == step_count < steps

StepCancelled == MoreSteps /\ StepSeesCancel /\ End("next", "CANCELLED") /\ UNCHANGED plan
BeginStep == MoreSteps /\ ~StepSeesCancel /\ Proceed("next", "begin") /\ UNCHANGED plan
RunStep == CountStep("begin", "step") /\ UNCHANGED plan

\* react.run(sub_session) succeeds or fails; the plan goes on either way.
EndStep(r) ==
  /\ Proceed("step", "next")
  /\ results' = Append(results, r) /\ UNCHANGED steps

Synthesize ==
  ~MoreSteps /\ StoreState("next", "synthesize", "WAITING_FOR_LLM") /\ UNCHANGED plan

\* synthesize() returns an answer, or an empty one.
Synthesized(s) == End("synthesize", s) /\ UNCHANGED plan

PlanThrows == (\E at \in {"plan", "step", "synthesize"} : Throw(at)) /\ UNCHANGED plan

PlanRun ==
  \/ (\E n \in 1 .. MaxSteps : Plan(n)) \/ PlanFails
  \/ StepCancelled \/ BeginStep \/ RunStep \/ (\E r \in {"answer", "failed"} : EndStep(r))
  \/ Synthesize \/ (\E s \in {"COMPLETED", "FAILED"} : Synthesized(s)) \/ PlanThrows

PlanTypeOK ==
  /\ steps \in 0 .. MaxSteps
  /\ results \in Seq({"answer", "failed"}) /\ Len(results) <= MaxSteps
=============================================================================
