----------------------------- MODULE MCEventFlow -----------------------------
(***************************************************************************)
(* Two events, one of which may share its key with an item of the queue.   *)
(***************************************************************************)
EXTENDS EventFlow

Good == [event_type |-> "decision", group |-> {"g"}, symbol |-> "eurusd",
    signal_type |-> "bos", model |-> "m", session |-> "london", killzone |-> FALSE,
    regime |-> "normal", cooldown_until |-> 0, exposure |-> [exposure |-> 1, max |-> 2],
    recommendation |-> "enter", confidence |-> 60, bias |-> "BIAS_UP", position_open |-> "no",
    plan |-> {}, paper |-> TRUE, key |-> "k", urgent |-> FALSE, channels |-> {"slack", "email"}]
Other == [Good EXCEPT !.key = "k2", !.group = {"h"}, !.session = "tokyo", !.urgent = TRUE,
    !.confidence = 40, !.bias = "UNDEFINED"]
Unlisted == [Other EXCEPT !.group = {}, !.paper = FALSE, !.symbol = "none"]
Losing == [Other EXCEPT !.model = "loser"]
Recalled == [Other EXCEPT !.signal_type = "choch", !.position_open = "yes", !.bias = "BIAS_DOWN"]
Marked == [Other EXCEPT !.killzone = TRUE]
Restricted == [Other EXCEPT !.regime = "restricted"]
Cooling == [Other EXCEPT !.cooldown_until = 1]
Exposed == [Other EXCEPT !.exposure = [exposure |-> 3, max |-> 2]]
NoBias == [Other EXCEPT !.bias = "none"]
OddPosition == [Other EXCEPT !.position_open = "other"]

Step == [id |-> "s1", uuid |-> TRUE, action |-> 1, payload |-> "dict", depends_on |-> <<>>,
    on_failure |-> "halt", timeout_ms |-> {}]
GoodPlan == [uuid |-> TRUE, version |-> 1, created_at |-> 1, name |-> 4,
    context_requirements |-> <<"k">>, steps |-> <<Step>>, retry_policy |-> {},
    timeout_ms |-> 1, estimated_duration_ms |-> {}]
BadPlan == [GoodPlan EXCEPT !.name = 0]
Planned == [Other EXCEPT !.plan = {GoodPlan}]
BadlyPlanned == [Other EXCEPT !.plan = {BadPlan}]
PlanEvent(p) == [Other EXCEPT !.event_type = "plan_execution", !.plan = p]
Unsupported == [Other EXCEPT !.event_type = "unsupported"]

MCDecisions == [good |-> Good, unlisted |-> Unlisted, losing |-> Losing,
    recalled |-> Recalled, marked |-> Marked, restricted |-> Restricted, cooling |-> Cooling,
    exposed |-> Exposed, nobias |-> NoBias, odd |-> OddPosition, planned |-> Planned,
    badplan |-> BadlyPlanned, noplan_event |-> PlanEvent({}),
    plan_event |-> PlanEvent({GoodPlan}), badplan_event |-> PlanEvent({BadPlan}),
    unsupported |-> Unsupported]
Form(e1, e2, q1, q2) == [e1 |-> e1, e2 |-> e2, q1 |-> q1, q2 |-> q2]
MCForms == {Form("good", "idle", "good", "idle"), Form("good", "recalled", "idle", "idle"),
        Form("idle", "idle", "good", "planned"), Form("idle", "nobias", "marked", "idle")}
    \cup {Form("unsupported", x, "idle", "idle") :
        x \in DOMAIN MCDecisions \ {"good", "nobias", "recalled"}}
MCMetrics == [key \in {"eurusd", "none"} \X {"m", "loser"} \X {"london", "tokyo"} |->
    IF key[2] = "loser" THEN {[count |-> 3, expectancy |-> -20, win_rate |-> 50]} ELSE {}]
Trade(signal_type, outcome, pnl, r) ==
    [symbol |-> "eurusd", signal_type |-> signal_type, session |-> "tokyo",
     outcome |-> outcome, pnl |-> pnl, r_multiple |-> r]
MCTrades == <<Trade("choch", "loss", -20, {-100}), Trade("choch", "win", 3, {}),
              Trade("choch", "breakeven", 0, {0}), Trade("bos", "win", 20, {200}),
              Trade("bos", "win", 5, {50})>>
MCChanges == {<<"killzone", SetTo(TRUE)>>, <<"killzone", Malformed(FALSE)>>,
              <<"cooldown", SetTo(2)>>, <<"exposure", SetTo([exposure |-> 1, max |-> 0])>>}
MCQueueOrder == <<"q1", "q2">>
MCMinExpectancy == -5
MCModes == {"bias_evaluation", "entry_evaluation"}
=============================================================================
