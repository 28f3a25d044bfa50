----------------------------- MODULE PolicyGates -----------------------------
(***************************************************************************)
(* The gates of pre_reasoning_policy_check() and the policies they ask,    *)
(* as operators on a decision, on what the policy store answers and on     *)
(* what the database holds.  Rates and multiples of R are percentages, a   *)
(* time is in seconds; a gate that lets pass answers {}.                   *)
(***************************************************************************)
EXTENDS Optionals

CONSTANTS
    Allowlist,       \* config: allowlist.enabled
    Metrics,         \* _metrics_snapshot: key -> [count, expectancy, win_rate]
    MinSample,       \* min_sample_size
    MinExpectancy,   \* expectancy threshold
    MinWinRate,      \* win rate threshold
    Adaptation,      \* config: outcome_adaptation.enabled
    WindowTrades     \* memory_top_n and window_last_n_trades

\* A PolicyStore's answer is what a backend says of a name: the orchestrator's
\* config first, then the markers of the snapshot itself.  A config value of
\* the wrong type makes the gate raise, and the gate falls back to the marker.
Unset(value) == [kind |-> "unset", value |-> value]
Malformed(value) == [kind |-> "malformed", value |-> value]
SetTo(value) == [kind |-> "set", value |-> value]
Marker(name, d) ==
    CASE name = "killzone" -> d.killzone
      [] name = "regime" -> d.regime
      [] name = "cooldown" -> d.cooldown_until
      [] name = "exposure" -> d.exposure
      [] name = "confidence_threshold" -> 50

GetPolicy(policy_config, name, d) ==
    IF policy_config[name].kind = "set" THEN policy_config[name].value ELSE Marker(name, d)

Veto(reason) == [result |-> "veto", reason |-> reason]
Defer(reason) == [result |-> "defer", reason |-> reason]
Verdict == [result : {"pass", "veto", "defer"}, reason : STRING]

-----------------------------------------------------------------------------
(* allowlist_loader.py *)

\* _make_key(): a key only of five fields that are all there.
GroupKey(d) == d.group

\* load(): a file that is missing or unreadable disables the list and leaves
\* the keys of the last good one.
Load(loader, file) ==
    IF file = {} THEN [loader EXCEPT !.loaded = FALSE]
    ELSE [loaded |-> TRUE, keys |-> CHOOSE keys \in file : TRUE]

\* The gate loads the file as long as no load has succeeded.
LoadedForGate(loader, file) ==
    IF Allowlist /\ ~loader.loaded THEN Load(loader, file) ELSE loader

AllowlistGate(d, loader) ==
    IF Allowlist /\ loader.loaded /\ GroupKey(d) # {} /\ ~(GroupKey(d) \subseteq loader.keys)
    THEN {Veto("not_in_allowlist")} ELSE {}

-----------------------------------------------------------------------------
(* The gates that ask the policy store *)

KillzoneGate(d, policy_config) ==
    IF GetPolicy(policy_config, "killzone", d) THEN {Veto("killzone")} ELSE {}

RegimeGate(d, policy_config) ==
    IF GetPolicy(policy_config, "regime", d) = "restricted"
    THEN {Veto("regime_restricted")} ELSE {}

\* 0 means that there is no cooldown.
CooldownGate(d, policy_config, now) ==
    IF GetPolicy(policy_config, "cooldown", d) > now THEN {Defer("cooldown")} ELSE {}

ExposureGate(d, policy_config) ==
    LET e == GetPolicy(policy_config, "exposure", d)
    IN  IF e.max # 0 /\ e.exposure > e.max THEN {Veto("risk_limit_exceeded")} ELSE {}

\* outcome_policy.check_performance()
CheckPerformance(key) ==
    \E stats \in Metrics[key] :
        /\ stats.count >= MinSample
        /\ (stats.expectancy < MinExpectancy \/ stats.win_rate < MinWinRate)
OutcomeGate(d) ==
    IF CheckPerformance(<<d.symbol, d.model, d.session>>)
    THEN {Veto("outcome_underperformance")} ELSE {}

-----------------------------------------------------------------------------
(* The gates that ask the database: closed trades, the newest first *)

\* get_outcomes_by_signal_type()
GetOutcomesBySignalType(trades, symbol, signal_type, session) ==
    LET matches(o) == /\ o.symbol = symbol /\ o.signal_type = signal_type
                      /\ session \in {"any", o.session}
        found == SelectSeq(trades, matches)
    IN  SubSeq(found, 1, IF Len(found) < WindowTrades THEN Len(found) ELSE WindowTrades)

\* _lookup_similar_signals(): the key holds the model where the query takes
\* the signal type; the multiple of R is made up from the profit.
LookupSimilarSignals(trades, key) ==
    LET multiple(o) == CASE o.outcome = "win" -> Max({100, o.pnl * 10})
                         [] o.outcome = "loss" -> Min({-100, o.pnl * 10})
                         [] o.outcome = "breakeven" -> 0
        found == GetOutcomesBySignalType(trades, key[1], key[2], "any")
    IN  [i \in DOMAIN found |-> multiple(found[i])]

\* memory_policy.check_similarity(), without the promotion it may note.
CheckSimilarity(multiples) == multiples # <<>> /\ MeanBelow(multiples, MinExpectancy)
MemoryGate(d, trades) ==
    IF CheckSimilarity(LookupSimilarSignals(trades, <<d.symbol, d.model, d.session>>))
    THEN {Veto("memory_underperformance")} ELSE {}

\* _compute_expectancy_and_win_rate() over the trades that have a multiple of R.
Valid(found) == SelectSeq(found, LAMBDA o : o.r_multiple # {})
Underperforms(valid) ==
    LET multiples == [i \in DOMAIN valid |-> CHOOSE r \in valid[i].r_multiple : TRUE]
        wins == SelectSeq(valid, LAMBDA o : o.outcome = "win")
    IN  MeanBelow(multiples, MinExpectancy) \/ 100 * Len(wins) < MinWinRate * Len(valid)

\* Once trades are found the gate ends the whole check, with a veto or a pass.
RecallGate(d, trades) ==
    LET found == GetOutcomesBySignalType(trades, d.symbol, d.signal_type, d.session)
        valid == Valid(found)
    IN  IF ~Adaptation \/ d.symbol = "none" \/ d.signal_type = "none" \/ found = <<>> THEN {}
        ELSE IF Len(valid) >= MinSample /\ Len(valid) > 0 /\ Underperforms(valid)
             THEN {Veto("memory_underperformance")}
             ELSE {[result |-> "pass", reason |-> "recalled"]}

-----------------------------------------------------------------------------
(* reasoning_mode_selector.py *)

HTFBiasState == {"UNDEFINED", "INVALIDATED", "BIAS_UP", "BIAS_DOWN", "BIAS_NEUTRAL"}
ReasoningMode == {"bias_evaluation", "entry_evaluation", "trade_management"}

\* select_mode(), after the checks of _select_reasoning_mode(): {} is a failure.
SelectMode(htf_bias_state, position_open) ==
    IF htf_bias_state \notin HTFBiasState \/ position_open = "other" THEN {}
    ELSE IF htf_bias_state \in {"UNDEFINED", "INVALIDATED"} THEN {"bias_evaluation"}
    ELSE IF position_open = "no" THEN {"entry_evaluation"}
    ELSE {"trade_management"}

-----------------------------------------------------------------------------
(* post_reasoning_policy_check() *)

ConfidenceGate(d, policy_config) ==
    LET answer == GetPolicy(policy_config, "confidence_threshold", d)
        minimum == IF answer = 0 THEN 50 ELSE answer
    IN  IF d.recommendation = "enter" /\ d.confidence < minimum
        THEN {Veto("low_confidence")} ELSE {}
=============================================================================
