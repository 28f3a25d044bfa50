------------------------- MODULE Stage10Controller -------------------------
(***************************************************************************)
(* Stage 10, reasoner_service/stage10_controller.py, composed with the     *)
(* engine of Stage 9: submit_trade() runs seven guardrail checks over its  *)
(* daily counters, the kill switches it shares with the engine and the     *)
(* broker's connection, forwards what passes to execute() and accounts for *)
(* the answer.                                                             *)
(*                                                                         *)
(* One thread runs submit_trade() and, inside it, execute().  Between its  *)
(* steps the operator sets switches and the trading mode, the broker acts  *)
(* on orders and loses or regains the connection, and the day may end.     *)
(* Money is counted in hundredths, as the engine's stop loss is.           *)
(***************************************************************************)
EXTENDS ExecutionEngine

CONSTANTS
    Intents,             \* the Stage8TradeIntents that may be submitted
    DailyMaxTrades,      \* daily_max_trades
    PerSymbolMaxTrades,  \* per_symbol_max_trades
    DailyMaxLoss,        \* daily_max_loss_usd, in hundredths
    MaxSubmissions,      \* bound: how many trades are submitted
    MaxInterventions     \* bound: how often switches, mode, connection change

VARIABLES
    stage10,         \* where submit_trade() stands
    intent,          \* its argument
    failed_checks,   \* the guardrail checks that have failed so far
    counters,        \* daily_counters
    stale,           \* daily_counters.is_stale(): 24 hours since the reset
    paper_mode,      \* the flag of enable_paper_mode()/disable_paper_mode()
    connected,       \* broker_adapter.is_connected()
    audit_logs,      \* audit_logs
    global_on,       \* history: the global switch on since submit_trade() began
    day_start,       \* history: orders and audit entries at the last reset
    interventions    \* how often the environment has intervened

counterVars == <<counters, stale, day_start>>
flowVars == <<stage10, intent, failed_checks, audit_logs>>
environmentVars == <<paper_mode, connected, interventions>>
stage10Vars == <<flowVars, counterVars, environmentVars, global_on>>
allVars == <<vars, stage10Vars>>

-----------------------------------------------------------------------------
(* Types *)

TradeIntent == [symbol : Symbols, entry : Nat, sl : Nat, tp : Nat, size : Nat]

Checks == {"broker_health", "global_kill_switch", "symbol_kill_switch",
           "daily_max_trades", "per_symbol_max_trades", "daily_max_loss"}

\* status: that of the ExecutionResult submit_trade() returns.
AuditLog == [symbol : Symbols, checks : SUBSET Checks,
             action : {"forwarded", "aborted", "paper_execution"},
             status : Stages]

DailyCounters == [trades_executed : Nat, total_loss : Int,
                  per_symbol : [Symbols -> Nat]]

NoTrades == [trades_executed |-> 0, total_loss |-> 0,
             per_symbol |-> [s \in Symbols |-> 0]]

-----------------------------------------------------------------------------
(* _create_frozen_snapshot(): the offsets relative to the entry, in per cent. *)

CreateFrozenSnapshot(i) ==
    [symbol |-> i.symbol, position_size |-> i.size, reference_price |-> i.entry,
     sl_offset_pct |-> (100 * (i.sl - i.entry)) \div i.entry,
     tp_offset_pct |-> (100 * (i.tp - i.entry)) \div i.entry,
     expired |-> FALSE, has_id |-> TRUE]

ASSUME Stage10Assumption ==
    /\ Intents \subseteq TradeIntent
    /\ \A i \in Intents :
          i.entry # 0 => /\ CreateFrozenSnapshot(i) \in Snapshots
                         /\ (100 * (i.sl - i.entry)) % i.entry = 0
                         /\ (100 * (i.tp - i.entry)) % i.entry = 0
    /\ DailyMaxTrades \in Nat
    /\ PerSymbolMaxTrades \in Nat
    /\ DailyMaxLoss \in Nat
    /\ MaxSubmissions \in Nat
    /\ MaxInterventions \in Nat

-----------------------------------------------------------------------------
(* submit_trade() *)

Abs(n) == IF n < 0 THEN -n ELSE n

\* Entry: the daily reset, which happens nowhere else.
SubmitTrade_mut_partial_reset(i) ==
    /\ stage10 = "idle"
    /\ intent' = i
    /\ failed_checks' = {}
    /\ stage10' = "broker"
    /\ IF stale
         THEN /\ counters' = [NoTrades EXCEPT !.per_symbol = counters.per_symbol]
              /\ stale' = FALSE
              /\ day_start' = [orders |-> Len(orders), audits |-> Len(audit_logs)]
         ELSE UNCHANGED counterVars
    /\ global_on' = IsActive(Global)
    /\ UNCHANGED <<vars, audit_logs, environmentVars>>
SubmitTrade(i) ==
    /\ stage10 = "idle"
    /\ intent' = i
    /\ failed_checks' = {}
    /\ stage10' = "broker"
    /\ IF stale
         THEN /\ counters' = NoTrades
              /\ stale' = FALSE
              /\ day_start' = [orders |-> Len(orders), audits |-> Len(audit_logs)]
         ELSE UNCHANGED counterVars
    /\ global_on' = IsActive(Global)
    /\ UNCHANGED <<vars, audit_logs, environmentVars>>

\* A check appends its result and the next one follows, whatever it found.
Check(from, to, failures) ==
    /\ stage10 = from
    /\ stage10' = to
    /\ failed_checks' = failed_checks \cup failures
    /\ UNCHANGED <<vars, intent, counterVars, environmentVars, audit_logs,
                   global_on>>

\* _check_broker_health()
CheckBrokerHealth ==
    Check("broker", "global", IF connected THEN {} ELSE {"broker_health"})

\* _check_global_kill_switch()
CheckGlobalKillSwitch_mut_symbol ==
    Check("global", "symbol",
          IF IsActive(intent.symbol) THEN {"global_kill_switch"} ELSE {})
CheckGlobalKillSwitch ==
    Check("global", "symbol",
          IF IsActive(Global) THEN {"global_kill_switch"} ELSE {})

\* _check_symbol_kill_switch()
CheckSymbolKillSwitch ==
    Check("symbol", "limits",
          IF IsActive(intent.symbol) THEN {"symbol_kill_switch"} ELSE {})

\* The estimate of _check_daily_max_loss(), at the proposed entry.
EstimatedLoss(i) == 100 * Abs(i.entry - i.sl) * i.size

\* _check_daily_max_trades(), _check_per_symbol_max_trades(),
\* _check_daily_max_loss(): they read what only this thread writes.
\* _check_paper_live_mode() passes in either mode.
CheckLimits_mut_off_by_one ==
    Check("limits", "decide",
          (IF counters.trades_executed > DailyMaxTrades
             THEN {"daily_max_trades"} ELSE {})
          \cup (IF counters.per_symbol[intent.symbol] > PerSymbolMaxTrades
             THEN {"per_symbol_max_trades"} ELSE {})
          \cup (IF counters.total_loss + EstimatedLoss(intent) > DailyMaxLoss
             THEN {"daily_max_loss"} ELSE {}))
CheckLimits_mut_no_estimate ==
    Check("limits", "decide",
          (IF counters.trades_executed >= DailyMaxTrades
             THEN {"daily_max_trades"} ELSE {})
          \cup (IF counters.per_symbol[intent.symbol] >= PerSymbolMaxTrades
             THEN {"per_symbol_max_trades"} ELSE {})
          \cup (IF counters.total_loss > DailyMaxLoss
             THEN {"daily_max_loss"} ELSE {}))
CheckLimits ==
    Check("limits", "decide",
          (IF counters.trades_executed >= DailyMaxTrades
             THEN {"daily_max_trades"} ELSE {})
          \cup (IF counters.per_symbol[intent.symbol] >= PerSymbolMaxTrades
             THEN {"per_symbol_max_trades"} ELSE {})
          \cup (IF counters.total_loss + EstimatedLoss(intent) > DailyMaxLoss
             THEN {"daily_max_loss"} ELSE {}))

AuditEntry(action, status) ==
    [symbol |-> intent.symbol, checks |-> failed_checks, action |-> action,
     status |-> status]

\* A check failed, or _create_frozen_snapshot() divides by an entry of 0: the
\* trade is aborted without reaching Stage 9.
Abort_mut_wrong_enum ==
    /\ stage10 = "decide"
    /\ failed_checks # {} \/ intent.entry = 0
    /\ audit_logs' = Append(audit_logs, AuditEntry("aborted", "aborted"))
    /\ stage10' = "idle"
    /\ global_on' = FALSE
    /\ UNCHANGED <<vars, intent, failed_checks, counterVars, environmentVars>>
Abort ==
    /\ stage10 = "decide"
    /\ failed_checks # {} \/ intent.entry = 0
    /\ audit_logs' = Append(audit_logs,
          AuditEntry("aborted", IF failed_checks # {} THEN "rejected" ELSE "failed"))
    /\ stage10' = "idle"
    /\ global_on' = FALSE
    /\ UNCHANGED <<vars, intent, failed_checks, counterVars, environmentVars>>

\* All guardrails passed: the call of execute().
Forward ==
    /\ stage10 = "decide"
    /\ failed_checks = {}
    /\ intent.entry # 0
    /\ Execute(CreateFrozenSnapshot(intent))
    /\ stage10' = "engine"
    /\ UNCHANGED <<intent, failed_checks, audit_logs, counterVars,
                   environmentVars, global_on>>

\* The loss of a fill if its stop loss is hit, added when both prices are known.
PotentialLoss(r) ==
    IF r.fill_price # 0 /\ r.sl # 0
      THEN Abs(100 * r.fill_price - r.sl) * r.position_size
      ELSE 0

Counted(c, symbol, r) ==
    [trades_executed |-> c.trades_executed + 1,
     total_loss |-> c.total_loss + PotentialLoss(r),
     per_symbol |-> [c.per_symbol EXCEPT ![symbol] = @ + 1]]

\* execute() returns: count a fill, write the audit entry, return.
Account_mut_fills_only ==
    /\ stage10 = "engine"
    /\ Return
    /\ counters' = IF result.status \in FilledStages
                     THEN Counted(counters, intent.symbol, result)
                     ELSE counters
    /\ audit_logs' = IF result.status \in FilledStages
                       THEN Append(audit_logs, AuditEntry("forwarded", result.status))
                       ELSE audit_logs
    /\ stage10' = "idle"
    /\ global_on' = FALSE
    /\ UNCHANGED <<intent, failed_checks, stale, day_start, environmentVars>>
Account ==
    /\ stage10 = "engine"
    /\ Return
    /\ counters' = IF result.status \in FilledStages
                     THEN Counted(counters, intent.symbol, result)
                     ELSE counters
    /\ audit_logs' = Append(audit_logs, AuditEntry("forwarded", result.status))
    /\ stage10' = "idle"
    /\ global_on' = FALSE
    /\ UNCHANGED <<intent, failed_checks, stale, day_start, environmentVars>>

-----------------------------------------------------------------------------
(* The environment *)

\* Counts and bounds what operator and connection do.
Intervene ==
    /\ interventions < MaxInterventions
    /\ interventions' = interventions + 1

\* set_kill_switch() of the shared manager.
SetSwitch(target, state) ==
    /\ Intervene
    /\ SetKillSwitch(target, state)
    /\ global_on' = (global_on /\ (target = Global => state # "off"))
    /\ UNCHANGED <<flowVars, counterVars, paper_mode, connected>>

\* enable_paper_mode(), disable_paper_mode()
SetPaperMode(on) ==
    /\ Intervene
    /\ paper_mode' = on
    /\ UNCHANGED <<vars, flowVars, counterVars, connected, global_on>>

SetConnected(on) ==
    /\ Intervene
    /\ connected' = on
    /\ UNCHANGED <<vars, flowVars, counterVars, paper_mode, global_on>>

\* 24 hours have passed since the last reset.
DayPasses ==
    /\ ~stale
    /\ stale' = TRUE
    /\ UNCHANGED <<vars, flowVars, counters, day_start, environmentVars,
                   global_on>>

-----------------------------------------------------------------------------
Init10 ==
    /\ Init
    /\ stage10 = "idle"
    /\ intent \in Intents
    /\ failed_checks = {}
    /\ counters = NoTrades
    /\ stale = FALSE
    /\ paper_mode = FALSE
    /\ connected = TRUE
    /\ audit_logs = <<>>
    /\ global_on = FALSE
    /\ day_start = [orders |-> 0, audits |-> 0]
    /\ interventions = 0

ControllerStep ==
    \/ CheckBrokerHealth \/ CheckGlobalKillSwitch \/ CheckSymbolKillSwitch
    \/ CheckLimits \/ Abort \/ Forward \/ Account

\* The bound on submissions is reached and nobody is inside submit_trade().
AllSubmitted ==
    /\ stage10 = "idle"
    /\ Len(audit_logs) = MaxSubmissions
    /\ UNCHANGED allVars

Next10 ==
    \/ \E i \in Intents : Len(audit_logs) < MaxSubmissions /\ SubmitTrade(i)
    \/ ControllerStep
    \/ (EngineStep \/ BrokerStep \/ Tick) /\ UNCHANGED stage10Vars
    \/ \E target \in Targets, state \in SwitchStates : SetSwitch(target, state)
    \/ \E on \in BOOLEAN : SetPaperMode(on) \/ SetConnected(on)
    \/ DayPasses
    \/ AllSubmitted

\* As for the engine: the thread runs on and time passes.
Fairness10 ==
    /\ WF_allVars(ControllerStep)
    /\ WF_allVars(EngineStep /\ UNCHANGED stage10Vars)
    /\ WF_allVars(Tick /\ UNCHANGED stage10Vars)

Spec10 == Init10 /\ [][Next10]_allVars
FairSpec10 == Spec10 /\ Fairness10

-----------------------------------------------------------------------------
(* Properties *)

\* Every variable of the controller keeps its type.
TypeOK10 ==
    /\ stage10 \in {"idle", "broker", "global", "symbol", "limits", "decide",
                    "engine"}
    /\ intent \in Intents
    /\ failed_checks \subseteq Checks
    /\ counters \in DailyCounters
    /\ stale \in BOOLEAN
    /\ paper_mode \in BOOLEAN
    /\ connected \in BOOLEAN
    /\ audit_logs \in Seq(AuditLog)
    /\ global_on \in BOOLEAN
    /\ day_start \in [orders : Nat, audits : Nat]
    /\ interventions \in 0..MaxInterventions

\* The audit entries since the last daily reset that report a fill.
FillsToday ==
    {k \in DOMAIN audit_logs : /\ k > day_start.audits
                               /\ audit_logs[k].status \in FilledStages}

\* The counters the guardrails read agree with the audit trail: they count the
\* fills reported since the last reset, in all and per symbol, no matter when the
\* day ended relative to the trade that was under way.
CountersMatchAudit ==
    /\ counters.trades_executed = Cardinality(FillsToday)
    /\ \A s \in Symbols : counters.per_symbol[s] =
          Cardinality({k \in FillsToday : audit_logs[k].symbol = s})

\* The daily limits hold for reported fills, for all symbols together and for
\* each one, although they are checked before the trade and counted after it.
CapsHold ==
    /\ counters.trades_executed <= DailyMaxTrades
    /\ \A s \in Symbols : counters.per_symbol[s] <= PerSymbolMaxTrades

\* The loss booked for a fill of intent i at a price.
LossAt(i, price) ==
    Abs(100 * price - CalculateSl(price, CreateFrozenSnapshot(i))) * i.size

\* The limit is checked against the proposed entry and the loss is booked at the
\* fill: the total exceeds daily_max_loss_usd by the slippage of one trade at
\* most, however many trades have slipped before.
LossOvershootBounded ==
    \/ counters.total_loss <= DailyMaxLoss
    \/ \E i \in Intents, price \in FillPrices :
          /\ i.entry # 0
          /\ counters.total_loss <= DailyMaxLoss + LossAt(i, price) - EstimatedLoss(i)

\* The first n audit entries that belong to forwarded trades.
ForwardedAmong(n) == {k \in 1..n : audit_logs[k].action # "aborted"}

\* "Always logs audit trail": the entries of forwarded trades are, in order, the
\* results of Stage 9, and only a trade with no failed check was forwarded.
AuditIsComplete ==
    /\ Cardinality(ForwardedAmong(Len(audit_logs))) = Len(results)
    /\ \A k \in ForwardedAmong(Len(audit_logs)) :
          LET n == Cardinality(ForwardedAmong(k))
          IN  /\ n \in DOMAIN results
              /\ audit_logs[k].status = results[n].status
              /\ audit_logs[k].checks = {}

\* While the global switch has been on since submit_trade() began no order goes
\* out, although the engine itself never looks at the global switch.
GlobalHaltStopsTrading == [][Len(orders') > Len(orders) => ~global_on]_allVars

\* submit_trade() always returns, with one more entry in the audit trail.
SubmissionReturns ==
    \A n \in 0..MaxSubmissions :
        (stage10 # "idle" /\ Len(audit_logs) = n)
            ~> (stage10 = "idle" /\ Len(audit_logs) = n + 1)

============================================================================
