---------------------------- MODULE Counterfactual ----------------------------
(***************************************************************************)
(* CounterfactualEnforcementSimulator: what the timelines of trades would  *)
(* have come to had the violations of governance been enforced.            *)
(***************************************************************************)
EXTENDS Optionals

CONSTANTS
    SimulatedIds,    \* correlation ids
    SimulatedEvents, \* [event_type, pnl ({} when no number), violations]
    MaxSimulated     \* bound: events of all timelines

ASSUME CounterfactualAssumption ==
    /\ MaxSimulated \in Nat
    /\ \A e \in SimulatedEvents :
          /\ e.pnl \subseteq Int /\ e.violations \in Seq(ToSet(e.violations))
          /\ \A x \in e.pnl : x % 2 = 0    \* so that half of it is exact

VARIABLE trails      \* id -> events of its timeline

CounterfactualTypeOK ==
    \A c \in SimulatedIds : trails[c] = <<>> \/ ToSet(trails[c]) \subseteq SimulatedEvents

CounterfactualInit == trails = [c \in SimulatedIds |-> <<>>]

RecordSimulated(c, event) ==
    /\ SumFunction([d \in SimulatedIds |-> Len(trails[d])]) < MaxSimulated
    /\ trails' = [trails EXCEPT ![c] = Append(@, event)]

CounterfactualNext ==
    \E c \in SimulatedIds, event \in SimulatedEvents : RecordSimulated(c, event)

-----------------------------------------------------------------------------
(* simulate() *)

OfType(trail, type) == AtPlaces(trail, {i \in DOMAIN trail : trail[i].event_type = type})
Number(e) == IF e.pnl = {} THEN 0 ELSE CHOOSE x \in e.pnl : TRUE

\* Half of the losses is taken back and a third of the trades counted as
\* blocked, whether or not a rule was violated.  A pnl that cannot be compared
\* with 0 undoes both.
SimulateBlockedTrades_mut_blocksAll(trades, results, original) ==
    IF trades = <<>> \/ results = <<>> \/ \E i \in DOMAIN results : results[i].pnl = {}
    THEN [pnl |-> original, blocked |-> 0]
    ELSE [pnl |-> original - original \div 2, blocked |-> (Len(results) * 3) \div 10]
SimulateBlockedTrades(trades, results, original) ==
    IF trades = <<>> \/ results = <<>> \/ \E i \in DOMAIN results : results[i].pnl = {}
    THEN [pnl |-> original, blocked |-> 0]
    ELSE LET losing == SumSeq([i \in DOMAIN results |-> Min({0, Number(results[i])})])
         IN  [pnl |-> original - losing \div 2, blocked |-> (Len(results) * 3) \div 10]

\* The deepest fall below the highest total so far, starting from nothing
Fall_mut_noPeak(d, x) ==
    [total |-> d.total + x, peak |-> d.peak, worst |-> Max({d.worst, d.peak - (d.total + x)})]
Fall(d, x) ==
    LET total == d.total + x
        peak == Max({d.peak, total})
    IN  [total |-> total, peak |-> peak, worst |-> Max({d.worst, peak - total})]
SimulateDrawdown(gains) ==
    LET after[n \in 0..Len(gains)] ==
            IF n = 0 THEN [total |-> 0, peak |-> 0, worst |-> 0]
            ELSE Fall(after[n - 1], gains[n])
    IN  after[Len(gains)].worst

Gains(trail) ==
    LET results == OfType(trail, "OUTCOME_RECORDED") IN [i \in DOMAIN results |-> Number(results[i])]

\* How often each rule was violated
RuleImpactFrequency(rules) ==
    [r \in ToSet(rules) |-> Cardinality({i \in DOMAIN rules : rules[i] = r})]

Simulate(trail) ==
    LET results == OfType(trail, "OUTCOME_RECORDED")
        judged == OfType(trail, "GOVERNANCE_EVALUATED")
        violated == FlattenSeq([i \in DOMAIN judged |-> judged[i].violations])
        original == SumSeq(Gains(trail))
        simulated == SimulateBlockedTrades(OfType(trail, "TRADE_EXECUTED"), results, original)
    IN  [would_have_been_allowed |-> violated = <<>>, violated_rules |-> violated,
         pnl_difference |-> simulated.pnl - original, trades_blocked |-> simulated.blocked,
         max_drawdown_original |-> SimulateDrawdown(Gains(trail)),
         max_drawdown_counterfactual |->
            SimulateDrawdown([i \in DOMAIN results |-> Max({0, Number(results[i])})]),
         rule_impact |-> RuleImpactFrequency(violated)]

\* _compute_batch_summary() of the results of simulate_batch()
BatchSummary_mut_blockedOnly(results) ==
    LET rules == UNION {DOMAIN results[i].rule_impact : i \in DOMAIN results}
        blocked == {i \in DOMAIN results : ~results[i].would_have_been_allowed}
    IN  [total_simulations |-> Len(results), blocked_count |-> Cardinality(blocked),
         total_violations |-> Cardinality(blocked),
         total_pnl_difference |-> SumSeq([i \in DOMAIN results |-> results[i].pnl_difference]),
         rule_violation_totals |-> [r \in rules |-> SumSeq([i \in DOMAIN results |->
            IF r \in DOMAIN results[i].rule_impact THEN results[i].rule_impact[r] ELSE 0])]]
BatchSummary(results) ==
    LET rules == UNION {DOMAIN results[i].rule_impact : i \in DOMAIN results}
        blocked == {i \in DOMAIN results : ~results[i].would_have_been_allowed}
    IN  [total_simulations |-> Len(results), blocked_count |-> Cardinality(blocked),
         total_violations |-> SumFunction([i \in blocked |-> Len(results[i].violated_rules)]),
         total_pnl_difference |-> SumSeq([i \in DOMAIN results |-> results[i].pnl_difference]),
         rule_violation_totals |-> [r \in rules |-> SumSeq([i \in DOMAIN results |->
            IF r \in DOMAIN results[i].rule_impact THEN results[i].rule_impact[r] ELSE 0])]]

SimulateBatch(ids) == BatchSummary([i \in DOMAIN ids |-> Simulate(trails[ids[i]])])

-----------------------------------------------------------------------------
(* Properties *)

\* Whatever a timeline holds and in whatever order, simulated enforcement costs
\* nothing: the branch of simulate() that explains a worsened pnl is never taken,
\* and the drawdown never grows.
EnforcementNeverCosts ==
    \A c \in SimulatedIds :
        LET result == Simulate(trails[c])
        IN  /\ result.pnl_difference >= 0
            /\ result.max_drawdown_counterfactual <= result.max_drawdown_original

\* The drawdown that one pass over the outcomes finds is the largest loss between
\* any two moments of the timeline, its beginning among them.
DrawdownIsDeepestFall ==
    \A c \in SimulatedIds :
        LET gains == Gains(trails[c])
            total(n) == SumFunctionOnSet(gains, 1..n)
        IN  Simulate(trails[c]).max_drawdown_original =
                Max(UNION {{total(i) - total(j) : i \in 0..j} : j \in 0..Len(gains)})

\* However violations are spread over the evaluations and timelines of a batch,
\* an id that comes twice or has no event included, the totals by rule add up
\* to the total.
BatchAddsUp ==
    (\E c \in SimulatedIds : trails[c] # <<>>) => \A ids \in SimulatedIds \X SimulatedIds :
        LET summary == SimulateBatch(ids)
        IN  SumFunction(summary.rule_violation_totals) = summary.total_violations

\* simulate() and simulate_batch() are true of the timelines they read.
SimulationIsSound == EnforcementNeverCosts /\ DrawdownIsDeepestFall /\ BatchAddsUp
=============================================================================
