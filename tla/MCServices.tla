------------------------------ MODULE MCServices ------------------------------
(***************************************************************************)
(* The services beside the event flow.  They share no state, so a          *)
(* behaviour moves one of them, the focus, and leaves the others where     *)
(* they begin: every behaviour of each is there, and no product of them.   *)
(* Init, Next, vars and TypeOK without a prefix are those of HumanApproval.*)
(***************************************************************************)
EXTENDS HumanApproval, Orchestration, StepRunner, PolicyChain, Timeline,
        OutcomePolicy, Governance, HumanReview, DecisionRouting, PlanExecution,
        Counterfactual, Intelligence

VARIABLE focus
services == {"approval", "cooldown", "correlation", "plans", "policy", "timeline",
             "outcomes", "governance", "review", "routing", "filter", "execution",
             "simulation", "intelligence"}
allVars == <<focus, vars, orchestrationVars, planRun, chainVars, timelineVars,
             outcomeVars, governanceVars, reviewVars, routingVars, planCall, trails,
             intelligenceVars>>

-----------------------------------------------------------------------------
(* Constants *)

\* Two advisories, one of them presented in two versions that expire at
\* different times.
MCSnapshot(id, price, expiration) ==
    [advisory_id |-> id, price |-> price, expiration |-> expiration, complete |-> TRUE]
MCSnapshots ==
    {MCSnapshot("a", 1, 0), MCSnapshot("a", 2, 1), MCSnapshot("b", 1, 1),
     [MCSnapshot("b", 1, 1) EXCEPT !.complete = FALSE]}

\* Four plans: retries and a fallback; two failures, one with a dead letter;
\* names that lead nowhere; and a plan that is not well formed.
MCStep(type, retries, success, failure) ==
    [type |-> type, retries |-> retries, on_success |-> success, on_failure |-> failure]
MCStepPlans ==
    [retried |-> [start |-> MCStep("call_ai", 2, {"tell"}, {"tell"}),
                  tell |-> MCStep("notify", 1, {}, {})],
     chained |-> [start |-> MCStep("eval", 1, {"rest"}, {"rest"}),
                  rest |-> MCStep("wait", 1, {"last"}, {}),
                  last |-> MCStep("unknown", 2, {}, {})],
     astray |-> [start |-> MCStep("call_ai", 1, {"nowhere"}, {"nowhere"})],
     empty |-> [s \in {} |-> s]]

\* A long, a short, and one without a direction.
MCPaperTrade(signal, symbol, direction, sl, tp) ==
    [signal_type |-> signal, symbol |-> symbol, direction |-> direction,
     entry |-> 100, sl |-> sl, tp |-> tp]
MCPaperTrades ==
    {MCPaperTrade("choch", "eur", "long", 98, 103), MCPaperTrade("fvg", "eur", "short", 102, 97),
     MCPaperTrade("choch", "gbp", "none", 98, 103)}
MCMaxDrawdown == -5

MCTradeContexts ==
    {[symbol |-> "eur", timeframe |-> "m5"], [symbol |-> "gbp", timeframe |-> "h1"],
     [symbol |-> "jpy", timeframe |-> "d1"]}
MCTradePnl == {{-2}, {}}
MCKillzoneHours == {<<4, 1>>, <<2, 3>>}

MCPnlImpacts == {{}, {5}}

MCRaw(symbol, confidence, idem, sig, tags) ==
    [symbol |-> symbol, recommendation |-> "enter", idempotency_key |-> idem, signal_id |-> sig,
     confidence |-> confidence, tags |-> tags, urgent |-> tags = {}]
MCRawDecisions ==
    {MCRaw("EURUSD", {685}, {}, {}, {}), MCRaw("GBPUSD", {675}, {}, {}, {"news", "fx"}),
     MCRaw("XAUUSD", {}, {}, {}, {"news", "fx", "gold"}), MCRaw("GBPJPY", {2000}, {}, {}, {}),
     MCRaw("GBPUSD", {684}, {}, {}, {"gold"}), MCRaw("GBPUSD", {684}, {1}, {1}, {}),
     MCRaw("EURUSD", {685}, {}, {1}, {})}
MCRoutingRules ==
    <<[kind |-> "symbol", key |-> "EURUSD", channels |-> <<"telegram", "slack">>],
      [kind |-> "tags", key |-> {"news", "fx"}, channels |-> <<"slack", "discord">>],
      [kind |-> "tags", key |-> {"gold"}, channels |-> <<"discord", "email">>],
      [kind |-> "prefix", key |-> "GBP", channels |-> <<"discord">>]>>
MCOverrides == <<[symbol |-> "EURUSD", window |-> <<22, 2>>, channels |-> <<"slack">>]>>
MCQuietHours == {<<1, 5>>}
MCPrefixOf(pattern, symbol) == symbol \in {"GBPUSD", "GBPJPY"}
MCAdvisorySignals ==
    {[signal_type |-> "trend", confidence |-> {5}], [signal_type |-> "noise", confidence |-> {9}],
     [signal_type |-> "trend", confidence |-> {2}], [signal_type |-> "trend", confidence |-> {-1}],
     [signal_type |-> "trend", confidence |-> {}]}

\* Plans of two steps, each with one dependency or none, that may be of the step
\* before, after, of itself or of none there is; and plans with other faults.
MCExecStep(id, deps, failure) ==
    [id |-> id, uuid |-> TRUE, action |-> 1, payload |-> "dict", depends_on |-> deps,
     on_failure |-> failure, timeout_ms |-> {}]
MCPlan(steps) ==
    [uuid |-> TRUE, version |-> 1, created_at |-> 1, name |-> 4, context_requirements |-> <<"k">>,
     steps |-> steps, retry_policy |-> {}, timeout_ms |-> 3, estimated_duration_ms |-> {}]
MCRetry(attempts) ==
    [max_attempts |-> attempts, backoff_ms |-> 0, backoff_multiplier |-> 1, max_backoff_ms |-> 0,
     retryable_error_codes |-> "list"]
MCDependencies == {<<>>, <<"s1">>, <<"s2">>, <<"s9">>}
MCPlansInQuestion ==
    {MCPlan(<<MCExecStep("s1", d, f), MCExecStep("s2", e, g)>>) :
        d, e \in MCDependencies, f, g \in {"halt", "skip", "retry", "other"}}
    \cup {MCPlan(<<MCExecStep("s1", <<>>, "halt"), MCExecStep("s1", <<>>, "halt")>>), MCPlan(<<>>)}
    \cup {[MCPlan(<<MCExecStep("s1", <<>>, "halt")>>) EXCEPT !.retry_policy = {MCRetry(n)},
                                                             !.timeout_ms = t] : n, t \in 0..1}
MCContext(deadline, environment, parent) ==
    [uuid |-> TRUE, started_at |-> 1, deadline_ms |-> deadline, environment |-> environment,
     parent_execution_id |-> parent]
MCContextsInQuestion ==
    {MCContext(4, {"k"}, {}), MCContext(3, {"k"}, {}), MCContext(4, {}, {}),
     MCContext(4, {"k"}, {FALSE}), [MCContext(4, {"k"}, {}) EXCEPT !.uuid = FALSE]}

MCEvent(type, pnl, violations) == [event_type |-> type, pnl |-> pnl, violations |-> violations]
MCSimulatedEvents ==
    {MCEvent("TRADE_EXECUTED", {}, <<>>), MCEvent("OUTCOME_RECORDED", {6}, <<>>),
     MCEvent("OUTCOME_RECORDED", {-4}, <<>>), MCEvent("OUTCOME_RECORDED", {}, <<>>),
     MCEvent("GOVERNANCE_EVALUATED", {}, <<"day", "loss">>)}

MCReport(id, confidence, regret) ==
    [correlation_id |-> id, confidence |-> confidence, regret |-> regret]
MCReports ==
    {MCReport({1}, {0}, {2}), MCReport({1}, {40}, {90}), MCReport({2}, {80}, {2}),
     MCReport({2}, {120}, {}), MCReport({2}, {}, {50}), MCReport({}, {60}, {60})}

-----------------------------------------------------------------------------
ServicesInit ==
    /\ focus \in services
    /\ Init /\ OrchestrationInit /\ StepRunnerInit /\ PolicyChainInit /\ TimelineInit
    /\ OutcomePolicyInit /\ GovernanceInit /\ HumanReviewInit /\ DecisionRoutingInit
    /\ PlanExecutionInit /\ CounterfactualInit /\ IntelligenceInit
    /\ focus # "execution" => /\ planCall.plan = MCPlan(<<>>)
                              /\ planCall.context = MCContext(3, {"k"}, {})
    /\ focus # "plans" => \A r \in PlanRuns : planRun[r].plan = "empty"

Idle(f) ==
    /\ UNCHANGED focus
    /\ IF f = "approval" THEN TRUE ELSE UNCHANGED vars
    /\ IF f \in {"cooldown", "correlation"} THEN TRUE ELSE UNCHANGED orchestrationVars
    /\ IF f = "plans" THEN TRUE ELSE UNCHANGED planRun
    /\ IF f = "policy" THEN TRUE ELSE UNCHANGED chainVars
    /\ IF f = "timeline" THEN TRUE ELSE UNCHANGED timelineVars
    /\ IF f = "outcomes" THEN TRUE ELSE UNCHANGED outcomeVars
    /\ IF f = "governance" THEN TRUE ELSE UNCHANGED governanceVars
    /\ IF f = "review" THEN TRUE ELSE UNCHANGED reviewVars
    /\ IF f \in {"routing", "filter"} THEN TRUE ELSE UNCHANGED routingVars
    /\ IF f = "execution" THEN TRUE ELSE UNCHANGED planCall
    /\ IF f = "simulation" THEN TRUE ELSE UNCHANGED trails
    /\ IF f = "intelligence" THEN TRUE ELSE UNCHANGED intelligenceVars

ServicesNext ==
    \/ focus = "approval" /\ Next /\ Idle("approval")
    \/ focus = "cooldown" /\ CooldownNext /\ Idle("cooldown")
    \/ focus = "correlation" /\ CorrelationNext /\ Idle("correlation")
    \/ focus = "plans" /\ StepRunnerNext /\ Idle("plans")
    \/ focus = "policy" /\ PolicyChainNext /\ Idle("policy")
    \/ focus = "timeline" /\ TimelineNext /\ Idle("timeline")
    \/ focus = "outcomes" /\ OutcomePolicyNext /\ Idle("outcomes")
    \/ focus = "governance" /\ GovernanceNext /\ Idle("governance")
    \/ focus = "review" /\ HumanReviewNext /\ Idle("review")
    \/ focus = "routing" /\ ProcessNext /\ Idle("routing")
    \/ focus = "filter" /\ FilterNext /\ Idle("filter")
    \/ focus = "execution" /\ PlanExecutionNext /\ Idle("execution")
    \/ focus = "simulation" /\ CounterfactualNext /\ Idle("simulation")
    \/ focus = "intelligence" /\ IntelligenceNext /\ Idle("intelligence")

\* The event loop runs the tasks of the plans that are ready.
ServicesSpec ==
    ServicesInit /\ [][ServicesNext]_allVars /\ WF_planRun(focus = "plans" /\ StepRunnerNext)

\* Every service keeps records, times and positions of the kinds its code has.
ServicesTypeOK ==
    /\ TypeOK /\ OrchestrationTypeOK /\ StepRunnerTypeOK /\ PolicyChainTypeOK /\ TimelineTypeOK
    /\ OutcomePolicyTypeOK /\ GovernanceTypeOK /\ HumanReviewTypeOK /\ DecisionRoutingTypeOK
    /\ PlanExecutionTypeOK /\ CounterfactualTypeOK /\ IntelligenceTypeOK

\* PlansEndAnswered of the behaviours that run plans
PlansEndInFocus == focus = "plans" => PlansEndAnswered

\* The analytics of decisions: what timeline, review, simulator, archive and
\* memory keep and compute is true of what happened.
DecisionAnalyticsHold == TimelineIsSound /\ ReviewsReplay /\ SimulationIsSound /\ MemoryIsSound
===============================================================================
