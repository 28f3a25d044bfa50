---------------------------- MODULE PlanExecution ----------------------------
(***************************************************************************)
(* Calls of the executor of plan_execution_schemas.py: execute() from      *)
(* outside, and its pass over the steps by itself.                         *)
(***************************************************************************)
EXTENDS PlanContract

CONSTANTS
    StepNamesInQuestion, ContextKeys,     \* ids of steps, keys of an environment
    PlansInQuestion, ContextsInQuestion

ASSUME PlanExecutionAssumption ==
    /\ PlansInQuestion \subseteq Plan(StepNamesInQuestion, ContextKeys)
    /\ ContextsInQuestion \subseteq ExecutionContext(ContextKeys)

VARIABLE planCall   \* the last call: [kind, plan, context, result]

PlanExecutionTypeOK ==
    /\ planCall.kind \in {"none", "execute", "context", "steps"}
    /\ planCall.result \subseteq PlanResult /\ Cardinality(planCall.result) <= 1

PlanExecutionInit ==
    planCall \in [kind : {"none"}, plan : PlansInQuestion, context : ContextsInQuestion,
                  result : {{}}]

CallExecute ==
    /\ planCall.kind = "none"
    /\ planCall' = [kind |-> "execute", plan |-> planCall.plan, context |-> planCall.context,
                    result |-> Execute(planCall.plan)]

\* _validate_plan() and _validate_context() that find nothing, then _execute_steps()
\* and _build_plan_result(), as execute() means to call them
CallSteps ==
    /\ planCall.kind = "none"
    /\ LET p == planCall.plan
           error == IF ValidatePlan(p) # {} THEN ValidatePlan(p)
                    ELSE ValidateContext(p, planCall.context)
           run == IF error # {} THEN [steps_executed |-> 0, error |-> error] ELSE ExecuteSteps(p)
       IN  planCall' = [kind |-> "steps", plan |-> p, context |-> planCall.context,
                        result |-> {BuildPlanResult(p, run.steps_executed, run.error)}]

PlanExecutionNext == CallExecute \/ CallSteps

-----------------------------------------------------------------------------
(* Properties *)

\* A plan that _validate_plan() lets through meets no unmet dependency: whatever
\* the failure policies of its steps, the pass carries out every step, and the
\* result is a success or the fault of the context.
ValidPlansSucceed ==
    \A r \in planCall.result :
        planCall.kind = "steps" /\ ValidatePlan(planCall.plan) = {} =>
            \/ r.status = "success" /\ r.steps_executed = Len(planCall.plan.steps) /\ r.error = {}
            \/ r.status = "failure" /\ r.error = ValidateContext(planCall.plan, planCall.context)

\* plan_execution_schemas.py:235: "All execution outcomes MUST be one of:
\* success, partial, failure".
PlanIsAnswered == planCall.kind = "execute" => planCall.result # {}
=============================================================================
