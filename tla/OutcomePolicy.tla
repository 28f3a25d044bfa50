---------------------------- MODULE OutcomePolicy ----------------------------
(***************************************************************************)
(* Paper trades and the policies that judge signals by their outcomes:     *)
(* BrokerSimulatorAdapter, DecisionOutcomeRecorder, the rules of           *)
(* OutcomePolicyEvaluator over OutcomeStatsService, and the shadow mode    *)
(* that keeps the audit trail.  Every rule awaits the database, so trades  *)
(* are recorded and rules come and go in the middle of an evaluation.      *)
(***************************************************************************)
EXTENDS Integers, Sequences, FiniteSets, SequencesExt, FiniteSetsExt

CONSTANTS
    PaperTrades,       \* decisions: [signal_type, symbol, direction, entry, sl, tp]
    Slippages,         \* what the slippage model may take
    MinWinRate,        \* per cent
    MinTrades,         \* min_win_rate_trades and min_avg_pnl_trades
    MaxStreak, MinAvgPnl,
    MaxDrawdown, MinDrawdownTrades,
    MaxOutcomes,       \* bound: rows in the table
    MaxEvaluations,    \* bound: calls of evaluate_decision()
    MaxRuleChanges     \* bound: calls of add_rule() and remove_rule()

ASSUME OutcomePolicyAssumption ==
    /\ MinTrades \in Nat /\ MaxStreak \in Nat \ {0} /\ MinDrawdownTrades \in Nat
    /\ MinWinRate \in 0..100 /\ MinAvgPnl \in Int /\ MaxDrawdown \in Int
    /\ MaxOutcomes \in Nat /\ MaxEvaluations \in Nat /\ MaxRuleChanges \in Nat
    /\ Slippages \subseteq Int
    /\ \A t \in PaperTrades : t.entry \in Nat /\ t.sl \in Nat /\ t.tp \in Nat

VARIABLES
    outcomes,          \* decision_outcomes in the order of closed_at, newest first
    rules,             \* OutcomePolicyEvaluator.rules, <<>> without an evaluator
    shadow,            \* _initialized and _evaluator: "new", "failed", "ready"
    evaluation,        \* evaluate_decision() under way, a sequence of at most one
    evaluationLog,     \* names of the rules in _evaluation_log
    auditTrail,        \* decisions in _audit_trail
    evaluations, ruleChanges
outcomeVars == <<outcomes, rules, shadow, evaluation, evaluationLog, auditTrail,
                 evaluations, ruleChanges>>

DefaultRules == <<"win_rate_threshold", "loss_streak", "avg_pnl_threshold", "symbol_drawdown">>
Signs == -1..1
Sign(x) == IF x > 0 THEN 1 ELSE IF x < 0 THEN -1 ELSE 0

\* A row; `sound` notes a trade whose stop and target are on their sides of the
\* entry and of the fill.
DecisionOutcome ==
    [signal_type : {t.signal_type : t \in PaperTrades}, symbol : {t.symbol : t \in PaperTrades},
     pnl : Int, outcome : {"win", "loss", "breakeven"}, r_sign : SUBSET Signs, sound : BOOLEAN]

OutcomePolicyTypeOK ==
    /\ ToSet(outcomes) \subseteq DecisionOutcome
    /\ ToSet(rules) \subseteq ToSet(DefaultRules)
    /\ shadow \in {"new", "failed", "ready"}
    /\ Len(evaluation) <= 1
    /\ ToSet(auditTrail) \subseteq {"allow", "veto"}
    /\ evaluations \in 0..MaxEvaluations /\ ruleChanges \in 0..MaxRuleChanges

OutcomePolicyInit ==
    /\ outcomes = <<>> /\ rules = <<>> /\ shadow = "new" /\ evaluation = <<>>
    /\ evaluationLog = <<>> /\ auditTrail = <<>> /\ evaluations = 0 /\ ruleChanges = 0

-----------------------------------------------------------------------------
(* Paper execution *)

FillPrice(trade, slippage) ==
    IF trade.direction = "short" THEN trade.entry - slippage ELSE trade.entry + slippage

Pnl(trade, exit) ==
    IF trade.direction = "short" THEN trade.entry - exit ELSE exit - trade.entry

\* The sign of _compute_r_multiple(), {} when the risk is zero
RSign_mut_longRisk(trade, fill, exit) ==
    LET risk == fill - trade.sl
        reward == IF trade.direction = "short" THEN fill - exit ELSE exit - fill
    IN  IF risk = 0 THEN {} ELSE {Sign(reward) * Sign(risk)}
RSign(trade, fill, exit) ==
    LET risk == IF trade.direction = "short" THEN trade.sl - fill ELSE fill - trade.sl
        reward == IF trade.direction = "short" THEN fill - exit ELSE exit - fill
    IN  IF risk = 0 THEN {} ELSE {Sign(reward) * Sign(risk)}

Abs(x) == IF x < 0 THEN -x ELSE x

\* execute_entry(); a direction that is not a string counts as the worst loss.
ExecuteEntry(trade, slippage, exit) ==
    IF trade.direction = "none"
    THEN [pnl |-> -Abs(trade.entry - trade.sl), r_sign |-> {-1}]
    ELSE [pnl |-> Pnl(trade, exit), r_sign |-> RSign(trade, FillPrice(trade, slippage), exit)]

\* What the recorder stores; it tries r again at the entry price.
RecordTradeOutcome(trade, slippage, result) ==
    LET fill == FillPrice(trade, slippage)
        onSides(low, high) == low < trade.entry /\ low < fill /\ trade.entry < high /\ fill < high
    IN  [signal_type |-> trade.signal_type, symbol |-> trade.symbol, pnl |-> result.pnl,
         outcome |-> CASE result.pnl > 0 -> "win" [] result.pnl < 0 -> "loss" [] OTHER -> "breakeven",
         r_sign |-> IF result.r_sign = {}
                    THEN RSign(trade, trade.entry, trade.entry + result.pnl) ELSE result.r_sign,
         sound |-> \/ trade.direction = "long" /\ onSides(trade.sl, trade.tp)
                   \/ trade.direction = "short" /\ onSides(trade.tp, trade.sl)]

-----------------------------------------------------------------------------
(* Statistics and rules *)

\* _get_filtered_outcomes(): the rows, by their places in the table
Of_mut_anySymbol(table, signal, symbol) ==
    {i \in DOMAIN table : table[i].signal_type = signal}
Of(table, signal, symbol) ==
    {i \in DOMAIN table : table[i].signal_type = signal /\ table[i].symbol = symbol}
Wins(table, rows) == Cardinality({i \in rows : table[i].outcome = "win"})
TotalPnl(table, rows) == MapThenSumSet(LAMBDA i : table[i].pnl, rows)

\* get_loss_streak(): the losses that closed after the last other outcome.
CurrentStreak(table, rows) ==
    Cardinality({i \in rows : \A j \in rows : j <= i => table[j].outcome = "loss"})

\* PolicyRule.evaluate() over the rows of one signal type and symbol
WinRateThreshold(table, rows) ==
    /\ Cardinality(rows) >= MinTrades /\ rows # {}
    /\ Wins(table, rows) * 100 < MinWinRate * Cardinality(rows)
LossStreak(table, rows) == CurrentStreak(table, rows) > MaxStreak
AvgPnLThreshold(table, rows) ==
    /\ Cardinality(rows) >= MinTrades /\ rows # {}
    /\ TotalPnl(table, rows) < MinAvgPnl * Cardinality(rows)
SymbolDrawdown(table, rows) ==
    /\ Cardinality(rows) >= MinDrawdownTrades /\ rows # {}
    /\ TotalPnl(table, rows) < MaxDrawdown

Vetoes(rule, table, rows) ==
    \/ rule = "win_rate_threshold" /\ WinRateThreshold(table, rows)
    \/ rule = "loss_streak" /\ LossStreak(table, rows)
    \/ rule = "avg_pnl_threshold" /\ AvgPnLThreshold(table, rows)
    \/ rule = "symbol_drawdown" /\ SymbolDrawdown(table, rows)

\* The rules in force that the table breaks now
Broken(table, inForce, signal, symbol) ==
    {r \in inForce : Vetoes(r, table, Of(table, signal, symbol))}

\* The symbol as a whole, over all its signal types
SymbolIsDown(table, symbol) ==
    SymbolDrawdown(table, {i \in DOMAIN table : table[i].symbol = symbol})

\* History of an evaluation, kept up to date by every change of table and rules
Standing(e) ==
    IF e.decision # "asking" THEN e ELSE
    [e EXCEPT !.broken = @ \cap Broken(outcomes', ToSet(rules'), e.signal_type, e.symbol),
              !.down = @ /\ "symbol_drawdown" \in ToSet(rules') /\ SymbolIsDown(outcomes', e.symbol)]
-----------------------------------------------------------------------------
(* Actions *)

\* _execute_paper_trade_if_enabled(): the close is drawn at random, so a new row
\* may close before or after any other; a row the database refuses is lost.
ExecutePaperTrade(trade, slippage, exit) ==
    /\ Len(outcomes) < MaxOutcomes
    /\ \E place \in 1..(Len(outcomes) + 1) :
          outcomes' = InsertAt(outcomes, place,
              RecordTradeOutcome(trade, slippage, ExecuteEntry(trade, slippage, exit)))
    /\ UNCHANGED rules
    /\ evaluation' = [i \in DOMAIN evaluation |-> Standing(evaluation[i])]
    /\ UNCHANGED <<shadow, evaluationLog, auditTrail, evaluations, ruleChanges>>

\* PolicyShadowModeManager.initialize(): a configuration that the rules refuse
\* is never tried again.
InitializeShadow(valid) ==
    /\ shadow = "new"
    /\ shadow' = IF valid THEN "ready" ELSE "failed"
    /\ rules' = IF valid THEN DefaultRules ELSE <<>>
    /\ UNCHANGED <<outcomes, evaluation, evaluationLog, auditTrail, evaluations, ruleChanges>>

\* An evaluation walks the list that self.rules names when it begins: it sees
\* what add_rule() appends to that list, but remove_rule() makes a new one.
AddRule(rule) ==
    /\ shadow = "ready" /\ ruleChanges < MaxRuleChanges /\ ruleChanges' = ruleChanges + 1
    /\ rule \notin ToSet(rules) /\ rules' = Append(rules, rule)
    /\ UNCHANGED outcomes
    /\ evaluation' = [i \in DOMAIN evaluation |->
          Standing([evaluation[i] EXCEPT !.left = IF evaluation[i].shared THEN Append(@, rule) ELSE @])]
    /\ UNCHANGED <<shadow, evaluationLog, auditTrail, evaluations>>

\* add_rule() keeps the names apart: one rule at most has the one that goes.
RemoveRule(rule) ==
    /\ ruleChanges < MaxRuleChanges /\ ruleChanges' = ruleChanges + 1
    /\ \E i \in DOMAIN rules : rules[i] = rule /\ rules' = RemoveAt(rules, i)
    /\ UNCHANGED outcomes
    /\ evaluation' = [i \in DOMAIN evaluation |-> Standing([evaluation[i] EXCEPT !.shared = FALSE])]
    /\ UNCHANGED <<shadow, evaluationLog, auditTrail, evaluations>>

\* evaluate_decision(): without an evaluator nothing is evaluated or kept.
EvaluateDecision(signal, symbol) ==
    /\ shadow = "ready" /\ \A i \in DOMAIN evaluation : evaluation[i].decision # "asking"
    /\ evaluations < MaxEvaluations /\ evaluations' = evaluations + 1
    /\ evaluation' = <<[signal_type |-> signal, symbol |-> symbol, left |-> rules, shared |-> TRUE,
          decision |-> IF rules = <<>> THEN "allow" ELSE "asking", answered |-> TRUE,
          broken |-> Broken(outcomes, ToSet(rules), signal, symbol),
          down |-> "symbol_drawdown" \in ToSet(rules) /\ SymbolIsDown(outcomes, symbol)]>>
    /\ auditTrail' = IF rules = <<>> THEN Append(auditTrail, "allow") ELSE auditTrail
    /\ UNCHANGED <<outcomes, rules, shadow, evaluationLog, ruleChanges>>

\* evaluate() asks the next rule; no rows and a failing database both let the
\* decision pass, and the first veto ends the evaluation.
AskRule_mut_lastRuleOnly ==
    \E i \in DOMAIN evaluation, answers \in BOOLEAN :
        LET e == evaluation[i]
            vetoed == Len(e.left) = 1 /\ answers
                      /\ Vetoes(Head(e.left), outcomes, Of(outcomes, e.signal_type, e.symbol))
            decision == IF vetoed THEN "veto" ELSE IF Len(e.left) = 1 THEN "allow" ELSE "asking"
        IN  /\ e.decision = "asking"
            /\ evaluation' = <<[e EXCEPT !.left = Tail(@), !.answered = @ /\ answers,
                                         !.decision = decision]>>
            /\ evaluationLog' = IF vetoed THEN Append(evaluationLog, Head(e.left)) ELSE evaluationLog
            /\ auditTrail' = IF decision = "asking" THEN auditTrail ELSE Append(auditTrail, decision)
            /\ UNCHANGED <<outcomes, rules, shadow, evaluations, ruleChanges>>
AskRule ==
    \E i \in DOMAIN evaluation, answers \in BOOLEAN :
        LET e == evaluation[i]
            vetoed == answers /\ Vetoes(Head(e.left), outcomes, Of(outcomes, e.signal_type, e.symbol))
            decision == IF vetoed THEN "veto" ELSE IF Len(e.left) = 1 THEN "allow" ELSE "asking"
        IN  /\ e.decision = "asking"
            /\ evaluation' = <<[e EXCEPT !.left = Tail(@), !.answered = @ /\ answers,
                                         !.decision = decision]>>
            /\ evaluationLog' = IF vetoed THEN Append(evaluationLog, Head(e.left)) ELSE evaluationLog
            /\ auditTrail' = IF decision = "asking" THEN auditTrail ELSE Append(auditTrail, decision)
            /\ UNCHANGED <<outcomes, rules, shadow, evaluations, ruleChanges>>

ClearAuditTrail ==
    /\ auditTrail # <<>> /\ auditTrail' = <<>>
    /\ UNCHANGED <<outcomes, rules, shadow, evaluation, evaluationLog, evaluations, ruleChanges>>

OutcomePolicyNext ==
    \/ \E t \in PaperTrades, slippage \in Slippages :
          ExecutePaperTrade(t, slippage, t.tp) \/ ExecutePaperTrade(t, slippage, t.sl)
    \/ \E valid \in BOOLEAN : InitializeShadow(valid)
    \/ \E r \in ToSet(DefaultRules) : AddRule(r) \/ RemoveRule(r)
    \/ \E t \in PaperTrades : EvaluateDecision(t.signal_type, t.symbol)
    \/ AskRule \/ ClearAuditTrail

-----------------------------------------------------------------------------
(* Properties *)

Answer(decision) == {i \in DOMAIN evaluation : evaluation[i].decision = decision}

\* A rule that is in force and broken from the beginning of an evaluation to its
\* end refuses the signal, whatever trades are recorded and whatever rules come
\* and go between its awaits, as long as the database answers.
BrokenRulesVeto ==
    \A i \in Answer("allow") : evaluation[i].answered => evaluation[i].broken = {}

\* A signal with fewer trades than the rules ask for is refused only by its
\* losses in a row: nothing that happens to other signals counts against it.
NewSignalsPass ==
    \A i \in Answer("veto") :
        LET rows == {j \in DOMAIN outcomes : /\ outcomes[j].signal_type = evaluation[i].signal_type
                                             /\ outcomes[j].symbol = evaluation[i].symbol}
        IN  \/ Cardinality(rows) >= MinTrades \/ Cardinality(rows) >= MinDrawdownTrades
            \/ Cardinality({j \in rows : outcomes[j].outcome = "loss"}) > MaxStreak

\* The R of a trade is taken from the fill and its pnl from the signal's price:
\* they agree on who won as long as both lie between stop and target.
RAgreesWithPnl ==
    \A i \in DOMAIN outcomes : outcomes[i].sound => outcomes[i].r_sign = {Sign(outcomes[i].pnl)}

\* outcome_policy_evaluator.py:415 and 443-445: "Veto signals if symbol has
\* exceeded max drawdown", "Stop trading EURUSD if it's lost $500 today".
SymbolDrawdownStops ==
    \A i \in Answer("allow") : evaluation[i].answered => ~evaluation[i].down

\* What holds of the policies over outcomes: a standing rule refuses, an unknown
\* signal passes, and the outcomes themselves are consistent.
OutcomePolicyHolds == BrokenRulesVeto /\ NewSignalsPass /\ RAgreesWithPnl
=============================================================================
