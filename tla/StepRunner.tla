------------------------------ MODULE StepRunner ------------------------------
(***************************************************************************)
(* PlanExecutor.run_plan() of plan_executor.py: plans whose steps name     *)
(* their successors, run at once under one semaphore, with retries and a   *)
(* dead letter for a failure that no step takes over.  What a step does is *)
(* left out: it succeeds or fails as its type allows.                      *)
(***************************************************************************)
EXTENDS Integers, FiniteSets

CONSTANTS
    PlanRuns,        \* calls of run_plan()
    StepPlans,       \* plan -> step -> [type, retries, on_success, on_failure]
    StartStep,       \* plan["start"] of every plan that has one
    MaxConcurrency   \* max_concurrency

StepTypes == {"call_ai", "eval", "notify", "wait", "unknown"}

\* With retries < 1 the loop of run_plan() turns for ever without an await.
ASSUME StepRunnerAssumption ==
    /\ MaxConcurrency \in Nat \ {0}
    /\ \A p \in DOMAIN StepPlans : \A s \in DOMAIN StepPlans[p] :
          /\ StepPlans[p][s].retries \in Nat \ {0}
          /\ StepPlans[p][s].type \in StepTypes

VARIABLE planRun

StepRunnerTypeOK ==
    \A r \in PlanRuns :
        /\ planRun[r].at \in
              {"new", "ready", "running", "resting", "publishing", "done", "raised"}
        /\ planRun[r].letters \in Nat
        /\ planRun[r].results \cup planRun[r].exhausted \subseteq planRun[r].entered
        /\ planRun[r].at \in {"ready", "running", "resting", "publishing"} =>
              planRun[r].current \in DOMAIN StepPlans[planRun[r].plan]

\* A plan without steps stands for one that is not well formed.
StepRunnerInit ==
    planRun \in [PlanRuns -> {[plan |-> p, at |-> "new", current |-> StartStep, attempt |-> 0,
        results |-> {}, letters |-> 0,
        entered |-> {},       \* history: steps that were tried
        exhausted |-> {}]     \* history: steps that failed for good
        : p \in DOMAIN StepPlans}]

Steps(r) == StepPlans[planRun[r].plan]
CurrentStep(r) == Steps(r)[planRun[r].current]

\* The loop of run_plan(): {} ends the plan, and so does the name of a step
\* that the plan does not have.
Transition(run, r, next) ==
    IF next \subseteq DOMAIN Steps(r) /\ next # {}
    THEN [run EXCEPT !.at = "ready", !.attempt = 0, !.current = CHOOSE s \in next : TRUE]
    ELSE [run EXCEPT !.at = "done"]

RunPlan(r) ==
    /\ planRun[r].at = "new"
    /\ planRun' = [planRun EXCEPT ![r] =
            IF DOMAIN Steps(r) = {} THEN [@ EXCEPT !.at = "raised"]
            ELSE Transition(@, r, {StartStep})]

\* The semaphore is held for one attempt and not for the delay between two.
Acquire_mut_forgetsAttempt(r) ==
    /\ planRun[r].at = "ready"
    /\ Cardinality({q \in PlanRuns : planRun[q].at = "running"}) < MaxConcurrency
    /\ planRun' = [planRun EXCEPT ![r].at = "running", ![r].attempt = 1,
                                  ![r].entered = @ \cup {planRun[r].current}]
Acquire(r) ==
    /\ planRun[r].at = "ready"
    /\ Cardinality({q \in PlanRuns : planRun[q].at = "running"}) < MaxConcurrency
    /\ planRun' = [planRun EXCEPT ![r].at = "running", ![r].attempt = @ + 1,
                                  ![r].entered = @ \cup {planRun[r].current}]

StepSucceeds(r) ==
    /\ planRun[r].at = "running" /\ CurrentStep(r).type # "unknown"
    /\ LET succeeded == [planRun[r] EXCEPT !.results = @ \cup {planRun[r].current}]
       IN  planRun' = [planRun EXCEPT ![r] =
              Transition(succeeded, r, CurrentStep(r).on_success)]

\* The failure of the last attempt goes to on_failure or to the dead letters.
StepFails_mut_onlyFollows(r) ==
    /\ planRun[r].at = "running" /\ CurrentStep(r).type # "wait"
    /\ LET failed == [planRun[r] EXCEPT !.exhausted = @ \cup {planRun[r].current}]
       IN  planRun' = [planRun EXCEPT ![r] =
              IF planRun[r].attempt < CurrentStep(r).retries THEN [@ EXCEPT !.at = "resting"]
              ELSE Transition(failed, r, CurrentStep(r).on_failure)]
StepFails(r) ==
    /\ planRun[r].at = "running" /\ CurrentStep(r).type # "wait"
    /\ LET failed == [planRun[r] EXCEPT !.exhausted = @ \cup {planRun[r].current}]
       IN  planRun' = [planRun EXCEPT ![r] =
              IF planRun[r].attempt < CurrentStep(r).retries THEN [@ EXCEPT !.at = "resting"]
              ELSE IF CurrentStep(r).on_failure = {} THEN [failed EXCEPT !.at = "publishing"]
              ELSE Transition(failed, r, CurrentStep(r).on_failure)]

RetryDelayOver(r) ==
    planRun[r].at = "resting" /\ planRun' = [planRun EXCEPT ![r].at = "ready"]

\* _handle_failure_to_dlq() asks once; a failure of the publication is logged.
HandleFailureToDlq(r) ==
    /\ planRun[r].at = "publishing"
    /\ planRun' = [planRun EXCEPT ![r].at = "done", ![r].letters = @ + 1]

PlanRunStep(r) ==
    \/ RunPlan(r) \/ Acquire(r) \/ StepSucceeds(r) \/ StepFails(r)
    \/ RetryDelayOver(r) \/ HandleFailureToDlq(r)
StepRunnerNext == \E r \in PlanRuns : PlanRunStep(r)

-----------------------------------------------------------------------------
(* Properties *)

\* When a plan has ended, every failure that used its retries up was taken over:
\* on_failure was tried, or one dead letter was sent (for the last failure).  The
\* name of a step that does not exist is the one way to lose a failure.
FailuresAreAnswered ==
    \A r \in PlanRuns : planRun[r].at = "done" =>
        /\ \A s \in planRun[r].exhausted :
              \/ Steps(r)[s].on_failure \cap planRun[r].entered # {}
              \/ Steps(r)[s].on_failure # {} /\ ~(Steps(r)[s].on_failure \subseteq DOMAIN Steps(r))
              \/ Steps(r)[s].on_failure = {} /\ planRun[r].letters = 1
        /\ (planRun[r].letters = 1) <=> \E s \in planRun[r].exhausted : Steps(r)[s].on_failure = {}

\* Every plan of finitely many steps and retries ends, although the plans wait
\* for one semaphore (a step that is waited for ends by itself or by its timeout),
\* and by then its failures are answered.
PlansEndAnswered ==
    <>(FailuresAreAnswered /\ \A r \in PlanRuns : planRun[r].at \in {"done", "raised"})
=============================================================================
