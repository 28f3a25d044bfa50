---------------------------- MODULE PlanContract ----------------------------
(***************************************************************************)
(* The plan executor of plan_execution_schemas.py: validation of a plan    *)
(* and of its context, the pass over the steps and the result, as          *)
(* operators.  A string is its length, a UUID whether it parses, a value   *)
(* of the wrong Python type a number out of range.                         *)
(***************************************************************************)
EXTENDS Optionals

ErrorSeverity == {"warn", "error", "fatal"}
ErrorCode == {"CONTEXT_MISSING", "INVALID_PAYLOAD", "DEADLINE_EXCEEDED",
    "DEPENDENCY_UNRESOLVED", "EXECUTION_HALTED", "STEP_SKIPPED"}

\* Of error, the step, the message and the cause are left out.
ExecutionError == [error_code : ErrorCode, severity : ErrorSeverity]
PlanResult ==
    [status : {"success", "partial", "failure"}, steps_executed : Nat,
     steps_total : Nat, error : Optional(ExecutionError)]

RetryPolicy ==
    [max_attempts : Int, backoff_ms : Int, backoff_multiplier : Int,
     max_backoff_ms : Int, retryable_error_codes : {"list", "other"}]
PlanStep(StepIds) ==
    [id : StepIds, uuid : BOOLEAN, action : Nat, payload : {"dict", "other"},
     depends_on : Seq(StepIds), on_failure : {"halt", "skip", "retry", "other"},
     timeout_ms : Optional(Int)]
Plan(StepIds, Keys) ==
    [uuid : BOOLEAN, version : Int, created_at : Int, name : Nat,
     context_requirements : Seq(Keys), steps : Seq(PlanStep(StepIds)),
     retry_policy : Optional(RetryPolicy), timeout_ms : Int,
     estimated_duration_ms : Optional(Int)]
ExecutionContext(Keys) ==
    [uuid : BOOLEAN, started_at : Int, deadline_ms : Int, environment : SUBSET Keys,
     parent_execution_id : Optional(BOOLEAN)]

Fatal(code) == [error_code |-> code, severity |-> "fatal"]
Positive(optional) == \A x \in optional : x > 0

-----------------------------------------------------------------------------
(* _validate_plan(): the code of the first check that fails, {} if none *)

HeaderOk(p) ==
    /\ p.uuid /\ p.version >= 1 /\ p.created_at > 0
    /\ p.name \in 1..255
    /\ Len(p.context_requirements) > 0
    /\ Len(p.steps) \in 1..1024

Index(p, id) == CHOOSE i \in DOMAIN p.steps : p.steps[i].id = id
StepIdsOf(p) == {p.steps[i].id : i \in DOMAIN p.steps}

StepOk(s) ==
    /\ s.uuid /\ s.action \in 1..100 /\ s.payload = "dict"
    /\ s.on_failure # "other"
    /\ Positive(s.timeout_ms)
StepsOk(p) ==
    /\ \A i \in DOMAIN p.steps : StepOk(p.steps[i])
    /\ Cardinality(StepIdsOf(p)) = Len(p.steps)

\* What is wrong with the dependency of step i on the step named dep.
EdgeError_mut_backward(p, i, dep) ==
    IF dep \notin StepIdsOf(p) THEN {"DEPENDENCY_UNRESOLVED"}
    ELSE IF dep = p.steps[i].id THEN {"INVALID_PAYLOAD"}
    ELSE IF Index(p, dep) < i THEN {"DEPENDENCY_UNRESOLVED"} ELSE {}
EdgeError(p, i, dep) ==
    IF dep \notin StepIdsOf(p) THEN {"DEPENDENCY_UNRESOLVED"}
    ELSE IF dep = p.steps[i].id THEN {"INVALID_PAYLOAD"}
    ELSE IF Index(p, dep) > i THEN {"DEPENDENCY_UNRESOLVED"} ELSE {}

\* An edge is a step and a place among its dependencies; the loops meet the bad
\* edge of the first step, and of its first place, first.
ErrorOfEdge(p, e) == EdgeError(p, e[1], p.steps[e[1]].depends_on[e[2]])
BadEdges(p) ==
    {e \in UNION {{i} \X DOMAIN p.steps[i].depends_on : i \in DOMAIN p.steps} :
        ErrorOfEdge(p, e) # {}}
FirstBadEdge(p) ==
    CHOOSE e \in BadEdges(p) :
        \A d \in BadEdges(p) : e[1] < d[1] \/ (e[1] = d[1] /\ e[2] <= d[2])

RetryPolicyOk(p) ==
    \A r \in p.retry_policy :
        /\ r.max_attempts >= 1 /\ r.backoff_ms >= 0
        /\ r.backoff_multiplier >= 1 /\ r.max_backoff_ms >= 0
        /\ r.retryable_error_codes = "list"
OptionalFieldsOk(p) == p.timeout_ms > 0 /\ Positive(p.estimated_duration_ms)

ValidatePlan(p) ==
    IF ~HeaderOk(p) \/ ~StepsOk(p) THEN {Fatal("INVALID_PAYLOAD")}
    ELSE IF BadEdges(p) # {} THEN {Fatal(c) : c \in ErrorOfEdge(p, FirstBadEdge(p))}
    ELSE IF ~RetryPolicyOk(p) \/ ~OptionalFieldsOk(p) THEN {Fatal("INVALID_PAYLOAD")}
    ELSE {}

-----------------------------------------------------------------------------
(* _validate_context() *)

ContextHeaderOk(c) == c.uuid /\ c.started_at > 0 /\ c.deadline_ms > 0

ValidateContext(p, c) ==
    IF ~ContextHeaderOk(c) THEN {Fatal("INVALID_PAYLOAD")}
    ELSE IF \/ c.deadline_ms <= c.started_at
            \/ c.deadline_ms - c.started_at < p.timeout_ms THEN {Fatal("DEADLINE_EXCEEDED")}
    ELSE IF ~(ToSet(p.context_requirements) \subseteq c.environment)
         THEN {Fatal("CONTEXT_MISSING")}
    ELSE IF FALSE \in c.parent_execution_id THEN {Fatal("INVALID_PAYLOAD")}
    ELSE {}

-----------------------------------------------------------------------------
(* _execute_steps(): a step is done as soon as its dependencies are, since  *)
(* actions are not carried out.  Each error replaces the one before it.     *)

UnmetDependency(on_failure) ==
    CASE on_failure = "halt" -> [error_code |-> "DEPENDENCY_UNRESOLVED", severity |-> "error"]
      [] on_failure = "skip" -> [error_code |-> "STEP_SKIPPED", severity |-> "warn"]
      [] on_failure = "retry" -> Fatal("EXECUTION_HALTED")

PassStep(run, s) ==
    IF run.halted THEN run
    ELSE IF ToSet(s.depends_on) \subseteq run.completed
         THEN [completed |-> run.completed \cup {s.id}, error |-> run.error,
               steps_executed |-> run.steps_executed + 1, halted |-> FALSE]
         ELSE [completed |-> run.completed, error |-> {UnmetDependency(s.on_failure)},
               steps_executed |-> run.steps_executed, halted |-> s.on_failure # "skip"]

ExecuteSteps(p) ==
    LET start == [completed |-> {}, steps_executed |-> 0, error |-> {}, halted |-> FALSE]
        pass[n \in 0..Len(p.steps)] ==
            IF n = 0 THEN start ELSE PassStep(pass[n - 1], p.steps[n])
    IN  pass[Len(p.steps)]

\* _build_plan_result()
BuildPlanResult(p, steps_executed, error) ==
    [status |->
        IF error = {} /\ steps_executed = Len(p.steps) THEN "success"
        ELSE IF \A e \in error : e.severity # "fatal" /\ steps_executed > 0 THEN "partial"
        ELSE "failure",
     steps_executed |-> steps_executed, steps_total |-> Len(p.steps), error |-> error]

-----------------------------------------------------------------------------
(* execute(): a plan that fails its validation gets its failure result.     *)
(* For any other the call self._validate_context(plan, ctx) passes one      *)
(* argument more than the method takes: a TypeError, and no result.         *)

Execute(p) ==
    LET error == ValidatePlan(p)
    IN  IF error # {} THEN {BuildPlanResult(p, 0, error)} ELSE {}
=============================================================================
