--------------------------- MODULE Stage10Proofs ---------------------------
(***************************************************************************)
(* Proofs about Stage 10 composed with the engine, for every set of        *)
(* intents, every limit and any number of submissions.                     *)
(*                                                                         *)
(* The limits are read before execute() is called and the counters are     *)
(* written after it returns.  Inv10 carries what the checks established    *)
(* across the call: nobody else writes the counters meanwhile, and a       *)
(* global switch that has been on since submit_trade() began would have    *)
(* been seen.                                                              *)
(***************************************************************************)
EXTENDS Stage10Controller, ExecutionEngineProofs, FiniteSetTheorems

-----------------------------------------------------------------------------
(* The inductive invariant *)

\* submit_trade() is inside execute() exactly when the engine is not idle, and
\* the engine works on the snapshot of the intent.
Nesting ==
    /\ stage10 = "engine" <=> pc # "idle"
    /\ stage10 = "engine" => intent.entry # 0

\* The limits leave room for the trade under way.
Room ==
    /\ counters.trades_executed < DailyMaxTrades
    /\ counters.per_symbol[intent.symbol] < PerSymbolMaxTrades

\* A trade that has passed the checks has room.
Checked ==
    \/ stage10 = "decide" /\ failed_checks = {}
    \/ stage10 = "engine"
RoomKept == Checked => Room

\* A global switch that has been on since the submission began is on, and has
\* made its check fail.
HaltSeen ==
    /\ global_on /\ stage10 # "idle" => IsActive(Global)
    /\ global_on /\ stage10 \in {"symbol", "limits", "decide"} =>
          "global_kill_switch" \in failed_checks
    /\ stage10 = "engine" => ~global_on

Inv10 ==
    /\ IndInv
    /\ TypeOK10
    /\ Nesting
    /\ RoomKept
    /\ CapsHold
    /\ HaltSeen

-----------------------------------------------------------------------------
(* Every step of the composition is a step of the engine or leaves it alone. *)

LEMMA EngineStepOf10 ==
    ASSUME TypeOK10, Next10
    PROVE  [Step]_vars
<1>1. ASSUME Forward PROVE Step
  <2>1. CreateFrozenSnapshot(intent) \in Snapshots
    BY <1>1, Stage10Assumption DEF Forward, TypeOK10
  <2> QED
    BY <1>1, <2>1 DEF Forward, Step
<1>2. Account => Step
  BY DEF Account, Step
<1>3. ASSUME NEW t \in Targets, NEW state \in SwitchStates, SetSwitch(t, state)
      PROVE  Step
  BY <1>3 DEF SetSwitch, Step, OperatorStep
<1>4. CASE ControllerStep
  BY <1>1, <1>2, <1>4 DEF ControllerStep, CheckBrokerHealth, CheckGlobalKillSwitch,
     CheckSymbolKillSwitch, CheckLimits, Check, Abort
<1>5. ASSUME NEW i \in Intents, SubmitTrade(i) PROVE UNCHANGED vars
  BY <1>5 DEF SubmitTrade
<1>6. CASE \/ DayPasses \/ AllSubmitted
           \/ \E on \in BOOLEAN : SetPaperMode(on) \/ SetConnected(on)
  BY <1>6 DEF DayPasses, AllSubmitted, allVars, SetPaperMode, SetConnected
<1>7. EngineStep \/ BrokerStep \/ Tick => Step
  BY DEF Step
<1> QED
  BY <1>3, <1>4, <1>5, <1>6, <1>7 DEF Next10

-----------------------------------------------------------------------------
(* Types *)

\* The loss booked for a result is an integer.
LEMMA PotentialLossType ==
    ASSUME NEW r \in ExecutionResult
    PROVE  PotentialLoss(r) \in Int
<1>1. r.fill_price \in Nat /\ r.sl \in Int /\ r.position_size \in Int
  BY DEF ExecutionResult
<1>2. Abs(100 * r.fill_price - r.sl) \in Int
  BY <1>1 DEF Abs
<1> QED
  BY <1>1, <1>2 DEF PotentialLoss

LEMMA CountedType ==
    ASSUME NEW c \in DailyCounters, NEW symbol \in Symbols, NEW r \in ExecutionResult
    PROVE  /\ Counted(c, symbol, r) \in DailyCounters
           /\ Counted(c, symbol, r).trades_executed = c.trades_executed + 1
           /\ Counted(c, symbol, r).total_loss = c.total_loss + PotentialLoss(r)
           /\ Counted(c, symbol, r).per_symbol[symbol] = c.per_symbol[symbol] + 1
           /\ \A t \in Symbols \ {symbol} :
                 Counted(c, symbol, r).per_symbol[t] = c.per_symbol[t]
<1>1. c.trades_executed \in Nat /\ c.total_loss \in Int
      /\ c.per_symbol \in [Symbols -> Nat]
  BY DEF DailyCounters
<1>2. c.per_symbol[symbol] + 1 \in Nat
  BY <1>1
<1>3. [c.per_symbol EXCEPT ![symbol] = @ + 1] \in [Symbols -> Nat]
  BY <1>1, <1>2
<1> QED
  BY <1>1, <1>3, PotentialLossType DEF Counted, DailyCounters

LEMMA NoTradesType == NoTrades \in DailyCounters
BY DEF NoTrades, DailyCounters

\* An audit entry for the intent under way has its type.
LEMMA AuditType ==
    ASSUME TypeOK10, NEW action \in {"forwarded", "aborted"}, NEW status \in Stages
    PROVE  Append(audit_logs, AuditEntry(action, status)) \in Seq(AuditLog)
<1>1. intent.symbol \in Symbols
  BY Stage10Assumption DEF TypeOK10, TradeIntent
<1>2. AuditEntry(action, status) \in AuditLog
  BY <1>1 DEF AuditEntry, AuditLog, TypeOK10
<1>3. audit_logs \in Seq(AuditLog)
  BY DEF TypeOK10
<1> QED
  BY <1>2, <1>3, AppendProperties

LEMMA TypeStep10 ==
    ASSUME TypeOK, TypeOK10, [Next10]_allVars
    PROVE  TypeOK10'
<1> USE DEF environmentVars, counterVars, flowVars
<1>1. CASE UNCHANGED stage10Vars
  BY <1>1 DEF stage10Vars, TypeOK10
<1>2. ASSUME NEW i \in Intents, SubmitTrade(i) PROVE TypeOK10'
  <2>1. Len(orders) \in Nat /\ Len(audit_logs) \in Nat
    <3>1. orders \in Seq(Order) /\ audit_logs \in Seq(AuditLog)
      BY DEF TypeOK, TypeOK10
    <3> QED
      BY <3>1, LenProperties, Zenon
  <2>2. counters' \in DailyCounters /\ stale' \in BOOLEAN
        /\ day_start' \in [orders : Nat, audits : Nat]
    <3>1. CASE stale
      <4>1. counters' = NoTrades /\ stale' = FALSE
            /\ day_start' = [orders |-> Len(orders), audits |-> Len(audit_logs)]
        BY <1>2, <3>1 DEF SubmitTrade
      <4>2. day_start' \in [orders : Nat, audits : Nat]
        BY <2>1, <4>1
      <4> QED
        BY <4>1, <4>2, NoTradesType
    <3>2. CASE ~stale
      BY <1>2, <3>2 DEF SubmitTrade, TypeOK10
    <3> QED
      BY <3>1, <3>2
  <2>3. global_on' \in BOOLEAN
    BY <1>2 DEF SubmitTrade, IsActive
  <2> QED
    BY <1>2, <2>2, <2>3 DEF SubmitTrade, TypeOK10
<1>3. CASE CheckBrokerHealth \/ CheckGlobalKillSwitch \/ CheckSymbolKillSwitch
           \/ CheckLimits
  <2>1. failed_checks' \subseteq Checks
        /\ stage10' \in {"global", "symbol", "limits", "decide"}
    BY <1>3 DEF CheckBrokerHealth, CheckGlobalKillSwitch, CheckSymbolKillSwitch,
       CheckLimits, Check, Checks, TypeOK10
  <2>2. UNCHANGED <<intent, counterVars, environmentVars, audit_logs, global_on>>
    BY <1>3 DEF CheckBrokerHealth, CheckGlobalKillSwitch, CheckSymbolKillSwitch,
       CheckLimits, Check
  <2> QED
    BY <2>1, <2>2 DEF TypeOK10
<1>4. CASE Abort
  <2>1. "rejected" \in Stages /\ "failed" \in Stages
    BY DEF Stages
  <2>2. audit_logs' \in Seq(AuditLog)
    BY <1>4, <2>1, AuditType DEF Abort
  <2> QED
    BY <1>4, <2>2 DEF Abort, TypeOK10
<1>5. CASE Forward
  BY <1>5 DEF Forward, TypeOK10
<1>6. CASE Account
  <2>1. result \in ExecutionResult /\ result.status \in Stages
    BY DEF TypeOK, ExecutionResult
  <2>2. audit_logs' \in Seq(AuditLog)
    BY <1>6, <2>1, AuditType DEF Account
  <2>3. counters' \in DailyCounters
    <3>1. intent.symbol \in Symbols
      BY Stage10Assumption DEF TypeOK10, TradeIntent
    <3> QED
      BY <1>6, <2>1, <3>1, CountedType DEF Account, TypeOK10
  <2> QED
    BY <1>6, <2>2, <2>3 DEF Account, TypeOK10
<1>7. ASSUME NEW t \in Targets, NEW state \in SwitchStates, SetSwitch(t, state)
      PROVE  TypeOK10'
  BY <1>7, Stage10Assumption DEF SetSwitch, Intervene, TypeOK10
<1>8. ASSUME NEW on \in BOOLEAN, SetPaperMode(on) \/ SetConnected(on)
      PROVE  TypeOK10'
  BY <1>8, Stage10Assumption DEF SetPaperMode, SetConnected, Intervene, TypeOK10
<1>9. CASE DayPasses
  BY <1>9 DEF DayPasses, TypeOK10
<1> QED
  BY <1>1, <1>2, <1>3, <1>4, <1>5, <1>6, <1>7, <1>8, <1>9
  DEF Next10, ControllerStep, AllSubmitted, allVars

-----------------------------------------------------------------------------
(* What the checks establish *)

\* The three limit checks passed: there is room for the trade.
LEMMA LimitsLeaveRoom ==
    ASSUME TypeOK10, CheckLimits, failed_checks' = {}
    PROVE  Room'
<1>1. counters.trades_executed \in Nat /\ counters.per_symbol[intent.symbol] \in Nat
  <2>1. intent.symbol \in Symbols
    BY Stage10Assumption DEF TypeOK10, TradeIntent
  <2> QED
    BY <2>1 DEF TypeOK10, DailyCounters
<1>2. ~(counters.trades_executed >= DailyMaxTrades)
      /\ ~(counters.per_symbol[intent.symbol] >= PerSymbolMaxTrades)
  BY DEF CheckLimits, Check
<1>3. counters' = counters /\ intent' = intent
  BY DEF CheckLimits, Check, counterVars
<1> QED
  BY <1>1, <1>2, <1>3, Stage10Assumption DEF Room

\* The engine enters and leaves execute() only through Execute and Return.
LEMMA EngineStaysInCall ==
    ASSUME EngineStep \/ BrokerStep \/ Tick \/ OperatorStep
    PROVE  /\ (pc = "idle") <=> (pc' = "idle")
           /\ ~OperatorStep => kill_switches' = kill_switches
BY DEF EngineStep, BrokerStep, Tick, OperatorStep, SetKillSwitch, KillCheck,
   SubmitOrder, SubmitRaises, WaitCheck, QueryStatus, BrokerCallRaises, Decide,
   CancelPending, ReconcileOrder, ReconcilePositions, OrderStep, BrokerFill,
   BrokerDrop, BrokerSettle, BrokerClose, callVars, switchVars

\* A call keeps its snapshot, and only its return adds a result.
LEMMA CallKept ==
    ASSUME EngineStep \/ BrokerStep \/ Tick
    PROVE  snap' = snap /\ results' = results
<1>1. EngineStep => snap' = snap /\ results' = results
  BY DEF EngineStep, KillCheck, SubmitOrder, SubmitRaises, WaitCheck, QueryStatus,
     BrokerCallRaises, Decide, CancelPending, ReconcileOrder, ReconcilePositions
<1>2. BrokerStep => callVars' = callVars
  <2>1. ASSUME NEW o \in DOMAIN orders, OrderStep(o) PROVE callVars' = callVars
    BY <2>1, Zenon DEF OrderStep, BrokerFill, BrokerDrop, BrokerSettle
  <2>2. ASSUME NEW k \in DOMAIN positions, BrokerClose(k) PROVE callVars' = callVars
    BY <2>2, Zenon DEF BrokerClose
  <2> QED
    BY <2>1, <2>2 DEF BrokerStep
<1>3. Tick => callVars' = callVars
  BY DEF Tick
<1> QED
  BY <1>1, <1>2, <1>3 DEF callVars

\* Only a return from execute() brings the counters closer to the limits, and
\* the checks had left room for it.
LEMMA CapsAfterAccount ==
    ASSUME TypeOK, TypeOK10, RoomKept, CapsHold, Account
    PROVE  CapsHold'
<1>1. Room
  BY DEF Account, RoomKept, Checked
<1>2. intent.symbol \in Symbols /\ counters \in DailyCounters
      /\ result \in ExecutionResult
  BY Stage10Assumption DEF TypeOK10, TradeIntent, TypeOK
<1>3. CASE counters' = counters
  BY <1>3 DEF CapsHold
<1>4. CASE counters' = Counted(counters, intent.symbol, result)
  <2>1. /\ counters'.trades_executed = counters.trades_executed + 1
        /\ counters'.per_symbol[intent.symbol] = counters.per_symbol[intent.symbol] + 1
        /\ \A t \in Symbols \ {intent.symbol} :
              counters'.per_symbol[t] = counters.per_symbol[t]
    BY <1>2, <1>4, CountedType
  <2>2. counters.trades_executed \in Nat
        /\ counters.per_symbol[intent.symbol] \in Nat
    BY <1>2 DEF DailyCounters
  <2>3. counters'.trades_executed <= DailyMaxTrades
    BY <1>1, <2>1, <2>2, Stage10Assumption DEF Room
  <2>4. counters'.per_symbol[intent.symbol] <= PerSymbolMaxTrades
    BY <1>1, <2>1, <2>2, Stage10Assumption DEF Room
  <2> QED
    BY <2>1, <2>3, <2>4 DEF CapsHold
<1> QED
  BY <1>3, <1>4 DEF Account

\* A fresh day is within the limits.
LEMMA CapsAfterReset == counters' = NoTrades => CapsHold'
BY Stage10Assumption DEF NoTrades, CapsHold

-----------------------------------------------------------------------------
(* Inv10 is inductive *)

LEMMA Inv10Init == Init10 => Inv10
<1> SUFFICES ASSUME Init10 PROVE Inv10
  OBVIOUS
<1>1. IndInv
  BY IndInvInit DEF Init10
<1>2. TypeOK10
  <2>1. audit_logs \in Seq(AuditLog)
    BY EmptySeq DEF Init10
  <2>2. counters \in DailyCounters
    BY NoTradesType DEF Init10
  <2>3. interventions \in 0..MaxInterventions
    BY Stage10Assumption DEF Init10
  <2> QED
    BY <2>1, <2>2, <2>3 DEF Init10, TypeOK10
<1>3. CapsHold
  BY Stage10Assumption DEF Init10, NoTrades, CapsHold
<1>4. Nesting /\ RoomKept /\ HaltSeen
  BY DEF Init10, Init, Nesting, RoomKept, Checked, HaltSeen
<1> QED
  BY <1>1, <1>2, <1>3, <1>4 DEF Inv10

\* The controller's own part of the invariant; the engine's is IndInvStep.
LEMMA FlowStep ==
    ASSUME Inv10, [Next10]_allVars
    PROVE  Nesting' /\ RoomKept' /\ CapsHold' /\ HaltSeen'
<1> USE DEF environmentVars, counterVars, flowVars
<1> TypeOK /\ TypeOK10 /\ Nesting /\ RoomKept /\ CapsHold /\ HaltSeen
  BY DEF Inv10, IndInv
<1>1. CASE UNCHANGED allVars
  BY <1>1 DEF allVars, vars, stage10Vars, Nesting, RoomKept, Checked, Room,
     CapsHold, HaltSeen, IsActive
<1>2. ASSUME NEW i \in Intents, SubmitTrade(i)
      PROVE  Nesting' /\ RoomKept' /\ CapsHold' /\ HaltSeen'
  <2>1. Nesting' /\ RoomKept' /\ HaltSeen'
    BY <1>2 DEF SubmitTrade, vars, Nesting, RoomKept, Checked, HaltSeen, IsActive
  <2>2. CapsHold'
    BY <1>2, CapsAfterReset DEF SubmitTrade, CapsHold
  <2> QED
    BY <2>1, <2>2
<1>3. CASE CheckBrokerHealth \/ CheckGlobalKillSwitch \/ CheckSymbolKillSwitch
  <2>1. stage10 \in {"broker", "global", "symbol"}
        /\ stage10' \in {"global", "symbol", "limits"}
        /\ UNCHANGED <<vars, counters, intent, global_on>>
    BY <1>3 DEF CheckBrokerHealth, CheckGlobalKillSwitch, CheckSymbolKillSwitch, Check
  <2>2. Nesting' /\ RoomKept' /\ CapsHold'
    BY <2>1 DEF vars, Nesting, RoomKept, Checked, CapsHold
  <2>3. HaltSeen'
    BY <1>3, <2>1 DEF vars, HaltSeen, IsActive, CheckBrokerHealth,
       CheckGlobalKillSwitch, CheckSymbolKillSwitch, Check
  <2> QED
    BY <2>2, <2>3
<1>4. CASE CheckLimits
  <2>1. /\ stage10 = "limits" /\ stage10' = "decide"
        /\ failed_checks \subseteq failed_checks'
        /\ UNCHANGED <<vars, counters, intent, global_on>>
    BY <1>4 DEF CheckLimits, Check
  <2>2. Nesting' /\ CapsHold' /\ HaltSeen'
    BY <2>1 DEF vars, Nesting, CapsHold, HaltSeen, IsActive
  <2>3. RoomKept'
    BY <1>4, <2>1, LimitsLeaveRoom DEF RoomKept, Checked
  <2> QED
    BY <2>2, <2>3
<1>5. CASE Abort
  BY <1>5 DEF Abort, vars, Nesting, RoomKept, Checked, CapsHold, HaltSeen, IsActive
<1>6. CASE Forward
  <2>1. pc = "idle" /\ pc' # "idle" /\ kill_switches' = kill_switches
    BY <1>6 DEF Forward, Execute
  <2> QED
    BY <1>6, <2>1 DEF Forward, Nesting, RoomKept, Checked, Room, CapsHold,
       HaltSeen, IsActive
<1>7. CASE Account
  <2>1. Nesting' /\ RoomKept' /\ HaltSeen'
    BY <1>7 DEF Account, Return, Nesting, RoomKept, Checked, HaltSeen
  <2> QED
    BY <1>7, <2>1, CapsAfterAccount
<1>8. CASE (EngineStep \/ BrokerStep \/ Tick) /\ UNCHANGED stage10Vars
  <2>1. (pc = "idle") <=> (pc' = "idle")
    BY <1>8, EngineStaysInCall
  <2>2. kill_switches' = kill_switches
    BY <1>8 DEF EngineStep, BrokerStep, Tick, KillCheck, SubmitOrder, SubmitRaises,
       WaitCheck, QueryStatus, BrokerCallRaises, Decide, CancelPending,
       ReconcileOrder, ReconcilePositions, OrderStep, BrokerFill, BrokerDrop,
       BrokerSettle, BrokerClose, switchVars
  <2> QED
    BY <1>8, <2>1, <2>2 DEF stage10Vars, Nesting, RoomKept, Checked, Room, CapsHold,
       HaltSeen, IsActive
<1>9. ASSUME NEW t \in Targets, NEW state \in SwitchStates, SetSwitch(t, state)
      PROVE  Nesting' /\ RoomKept' /\ CapsHold' /\ HaltSeen'
  <2>1. pc' = pc /\ UNCHANGED <<stage10, intent, failed_checks, counters>>
    BY <1>9 DEF SetSwitch, SetKillSwitch, callVars
  <2>2. Nesting' /\ RoomKept' /\ CapsHold'
    BY <2>1 DEF Nesting, RoomKept, Checked, Room, CapsHold
  <2>3. global_on' => global_on /\ (t = Global => state # "off")
    BY <1>9 DEF SetSwitch
  <2>4. ASSUME global_on', stage10 # "idle" PROVE IsActive(Global)'
    <3>1. IsActive(Global) /\ Global \in Targets
      BY <2>3, <2>4 DEF HaltSeen, Targets
    <3>2. kill_switches' = [kill_switches EXCEPT ![t] = state]
          /\ kill_switches \in [Targets -> {"off", "warning", "active"}]
      BY <1>9 DEF SetSwitch, SetKillSwitch, TypeOK
    <3>3. state \in {"off", "warning", "active"}
      BY EngineAssumption
    <3> QED
      BY <2>3, <2>4, <3>1, <3>2, <3>3 DEF IsActive
  <2> QED
    BY <2>1, <2>2, <2>3, <2>4 DEF HaltSeen
<1>10. CASE DayPasses \/ \E on \in BOOLEAN : SetPaperMode(on) \/ SetConnected(on)
  <2>1. UNCHANGED <<vars, stage10, intent, failed_checks, counters, global_on>>
    BY <1>10 DEF DayPasses, SetPaperMode, SetConnected
  <2> QED
    BY <2>1 DEF vars, Nesting, RoomKept, Checked, Room, CapsHold, HaltSeen, IsActive
<1> QED
  BY <1>1, <1>2, <1>3, <1>4, <1>5, <1>6, <1>7, <1>8, <1>9, <1>10
  DEF Next10, ControllerStep, AllSubmitted

LEMMA Inv10Step == Inv10 /\ [Next10]_allVars => Inv10'
<1> SUFFICES ASSUME Inv10, [Next10]_allVars PROVE Inv10'
  OBVIOUS
<1>1. [Step]_vars
  BY EngineStepOf10 DEF Inv10, allVars
<1>2. IndInv'
  BY <1>1, IndInvStep DEF Inv10
<1>3. TypeOK10'
  BY TypeStep10 DEF Inv10, IndInv
<1> QED
  BY <1>2, <1>3, FlowStep DEF Inv10

LEMMA Invariance10 == Spec10 => []Inv10
BY Inv10Init, Inv10Step, PTL DEF Spec10

-----------------------------------------------------------------------------
(* The booked loss *)

\* What a fill under way reports: the size and stop loss of the call's own
\* snapshot, at a price the broker fills at.
Paid(r) ==
    /\ r.fill_price \in FillPrices
    /\ r.position_size = snap.position_size
    /\ r.sl = CalculateSl(r.fill_price, snap)

BookPaid ==
    \A o \in DOMAIN orders :
        orders[o].state = "filled" => orders[o].fill_price \in FillPrices

PaidInv ==
    /\ BookPaid
    /\ pc \in Waiting \cup Settling => CurrentOrder.quantity = snap.position_size
    /\ result.status \in FilledStages => Paid(result)

\* The loss limit leaves room for the estimate of the trade under way, and the
\* engine works on the snapshot of that trade.
LossRoomKept ==
    /\ Checked => counters.total_loss + EstimatedLoss(intent) <= DailyMaxLoss
    /\ stage10 = "engine" => snap = CreateFrozenSnapshot(intent)

\* The broker fills at its own prices.
LEMMA BrokerPays ==
    ASSUME TypeOK, BookPaid, BrokerStep
    PROVE  BookPaid'
<1>1. ASSUME NEW o \in DOMAIN orders, OrderStep(o)
      PROVE  BookPaid'
  <2>1. orders[o] \in Order
    BY ElementOfSeq, LenProperties DEF TypeOK
  <2>2. ASSUME NEW price \in FillPrices, BrokerFill(o, price)
        PROVE  BookPaid'
    <3> DEFINE e == [orders[o] EXCEPT !.state = "filled", !.fill_price = price]
    <3>1. orders' = [orders EXCEPT ![o] = e]
      BY <2>2 DEF BrokerFill
    <3>2. e.fill_price = price
      BY <2>1 DEF Order
    <3> HIDE DEF e
    <3> QED
      BY <3>1, <3>2 DEF BookPaid
  <2>3. CASE BrokerDrop(o)
    <3> DEFINE e == [orders[o] EXCEPT !.state = "cancelled"]
    <3>1. orders' = [orders EXCEPT ![o] = e]
      BY <2>3 DEF BrokerDrop
    <3>2. e.state # "filled"
      BY <2>1 DEF Order
    <3> HIDE DEF e
    <3> QED
      BY <3>1, <3>2 DEF BookPaid
  <2>4. ASSUME NEW protected \in Protections, BrokerSettle(o, protected)
        PROVE  BookPaid'
    <3> DEFINE e == [orders[o] EXCEPT !.opened = TRUE]
    <3>1. orders' = [orders EXCEPT ![o] = e]
      BY <2>4 DEF BrokerSettle
    <3>2. e.state = orders[o].state /\ e.fill_price = orders[o].fill_price
      BY <2>1 DEF Order
    <3> HIDE DEF e
    <3> QED
      BY <3>1, <3>2 DEF BookPaid
  <2> QED
    BY <1>1, <2>2, <2>3, <2>4 DEF OrderStep
<1>2. ASSUME NEW k \in DOMAIN positions, BrokerClose(k)
      PROVE  BookPaid'
  BY <1>2 DEF BrokerClose, BookPaid
<1> QED
  BY <1>1, <1>2 DEF BrokerStep

\* One case per action of the engine.
LEMMA PaidStep ==
    ASSUME IndInv, PaidInv, [Step]_vars
    PROVE  PaidInv'
<1> USE DEF Waiting, Settling
<1> TypeOK /\ OrderKnown /\ FillNoted /\ CallOrders /\ result \in ExecutionResult
  BY DEF IndInv, TypeOK
<1>1. CASE UNCHANGED vars
  BY <1>1 DEF vars, PaidInv, BookPaid, Paid, CurrentOrder, CalculateSl
<1>2. ASSUME NEW s \in Snapshots, Execute(s) PROVE PaidInv'
  BY <1>2 DEF Execute, brokerVars, PaidInv, BookPaid, FreshResult, FilledStages
<1>3. CASE KillCheck \/ SubmitRaises \/ BrokerCallRaises
  <2>1. result'.status \notin FilledStages \/ result' = result
    BY <1>3 DEF KillCheck, SubmitRaises, BrokerCallRaises, ExecutionResult, FilledStages
  <2>2. pc' \in {"submit", "returned"} /\ snap' = snap
    BY <1>3 DEF KillCheck, SubmitRaises, BrokerCallRaises
  <2>3. BookPaid'
    <3>1. CASE orders' = orders
      BY <3>1 DEF PaidInv, BookPaid
    <3>2. CASE orders' = Append(orders, NewOrder)
      BY <3>2, BookAfterSubmit DEF PaidInv, BookPaid, NewOrder
    <3> QED
      BY <1>3, <3>1, <3>2 DEF KillCheck, SubmitRaises, BrokerCallRaises, brokerVars
  <2> QED
    BY <2>1, <2>2, <2>3 DEF PaidInv, Paid, CalculateSl
<1>4. CASE SubmitOrder
  <2>1. /\ BookPaid' /\ orders'[Len(orders) + 1].quantity = snap.position_size
        /\ Len(orders) \in Nat
    BY <1>4, BookAfterSubmit DEF SubmitOrder, PaidInv, BookPaid, NewOrder
  <2>2. result'.order_id = Len(orders) + 1 /\ result'.status = result.status
        /\ result'.fill_price = result.fill_price /\ result'.sl = result.sl
        /\ result'.position_size = result.position_size
    BY <1>4 DEF SubmitOrder, ExecutionResult
  <2>3. snap' = snap
    BY <1>4 DEF SubmitOrder
  <2> QED
    BY <2>1, <2>2, <2>3 DEF PaidInv, Paid, CurrentOrder, CalculateSl
<1>5. CASE WaitCheck \/ QueryStatus
  BY <1>5 DEF WaitCheck, QueryStatus, brokerVars, PaidInv, BookPaid, Paid, CurrentOrder,
     CalculateSl
<1>6. CASE Decide
  <2>1. /\ orders' = orders /\ snap' = snap /\ result'.order_id = result.order_id
        /\ pc' \in {"returned", "cancel", "recon_order"}
    BY <1>6, WithFillFields DEF Decide, brokerVars, ExecutionResult
  <2>2. CurrentOrder' = CurrentOrder /\ BookPaid'
    BY <2>1 DEF CurrentOrder, PaidInv, BookPaid
  <2>3. result'.status \in FilledStages => Paid(result)' 
    <3>1. CASE result' = WithFill(result) /\ pc' = "recon_order"
      <4>1. fill # NoFill /\ pc = "decide"
        BY <1>6, <3>1 DEF Decide
      <4>2. CurrentOrder.state = "filled" /\ fill.price = CurrentOrder.fill_price
            /\ fill.size = CurrentOrder.quantity
        BY <4>1 DEF FillNoted
      <4>3. fill.price \in FillPrices /\ fill.size = snap.position_size
        BY <4>1, <4>2 DEF PaidInv, BookPaid, CurrentOrder, OrderKnown
      <4> QED
        BY <2>1, <3>1, <4>3, WithFillFields DEF Paid, CalculateSl
    <3>2. CASE result' = result
      BY <2>1, <3>2 DEF PaidInv, Paid, CalculateSl
    <3>3. CASE result'.status \notin FilledStages
      BY <3>3
    <3> QED
      BY <1>6, <3>1, <3>2, <3>3 DEF Decide, ExecutionResult, FilledStages
  <2> QED
    BY <1>6, <2>1, <2>2, <2>3 DEF PaidInv, Decide
<1>7. CASE CancelPending
  <2>1. OrdersKept /\ result' = result /\ snap' = snap /\ pc' = "recon_order"
    BY <1>7, CancelKeeps DEF CancelPending
  <2>2. result.order_id \in DOMAIN orders /\ pc = "cancel"
    BY <1>7 DEF CancelPending, OrderKnown
  <2>3. CurrentOrder'.quantity = CurrentOrder.quantity
    BY <2>1, <2>2 DEF OrdersKept, CurrentOrder
  <2>4. BookPaid'
    <3> DEFINE e == [CurrentOrder EXCEPT !.state = "cancelled"]
    <3>1. orders' = orders \/ orders' = [orders EXCEPT ![result.order_id] = e]
      BY <1>7 DEF CancelPending, CurrentOrder
    <3>2. e.state # "filled"
      BY <2>2, CurrentOrderType DEF Order
    <3> HIDE DEF e
    <3> QED
      BY <2>2, <3>1, <3>2 DEF PaidInv, BookPaid
  <2> QED
    BY <2>1, <2>2, <2>3, <2>4 DEF PaidInv, Paid, CalculateSl
<1>8. CASE ReconcileOrder \/ ReconcilePositions
  <2>1. SameOutcome(result', result)
    BY <1>8 DEF ReconcileOrder, ReconcilePositions, SameOutcome, ExecutionResult
  <2>2. orders' = orders /\ snap' = snap /\ pc \in Settling
    BY <1>8 DEF ReconcileOrder, ReconcilePositions, brokerVars
  <2> QED
    BY <2>1, <2>2 DEF SameOutcome, PaidInv, BookPaid, Paid, CurrentOrder, CalculateSl
<1>9. CASE Return
  BY <1>9 DEF Return, brokerVars, PaidInv, BookPaid, FreshResult, FilledStages
<1>10. CASE BrokerStep
  <2>1. BookPaid'
    BY <1>10, BrokerPays DEF PaidInv
  <2>2. OrdersKept
    <3>1. ASSUME NEW k \in DOMAIN positions, BrokerClose(k) PROVE OrdersKept
      BY <3>1 DEF BrokerClose, OrdersKept, TypeOK
    <3> QED
      BY <1>10, <3>1, OrderStepKeeps DEF BrokerStep
  <2>3. UNCHANGED <<pc, snap, result>>
    BY <1>10 DEF BrokerStep, OrderStep, BrokerFill, BrokerDrop, BrokerSettle,
       BrokerClose, callVars
  <2> QED
    BY <2>1, <2>2, <2>3 DEF OrderKnown, OrdersKept, PaidInv, Paid, CurrentOrder, CalculateSl
<1>11. CASE OperatorStep \/ Tick
  BY <1>11 DEF OperatorStep, SetKillSwitch, Tick, callVars, brokerVars, PaidInv,
     BookPaid, Paid, CurrentOrder, CalculateSl
<1> QED
  BY <1>1, <1>2, <1>3, <1>4, <1>5, <1>6, <1>7, <1>8, <1>9, <1>10, <1>11
  DEF Step, EngineStep

\* The estimate of the loss check is no negative number, and an actual loss is an
\* integer.
LEMMA LossTypes ==
    ASSUME NEW i \in Intents, i.entry # 0
    PROVE  /\ EstimatedLoss(i) \in Nat
           /\ \A price \in FillPrices : LossAt(i, price) \in Int
<1>1. i.entry \in Nat /\ i.sl \in Nat /\ i.tp \in Nat /\ i.size \in Nat
      /\ CreateFrozenSnapshot(i) \in Snapshots
  BY Stage10Assumption DEF TradeIntent
<1>2. \A m \in Int : Abs(m) \in Nat
  BY DEF Abs
<1>3. \A m, n \in Nat : 100 * m * n \in Nat
  OBVIOUS
<1>4. i.entry - i.sl \in Int
  BY <1>1
<1>5. EstimatedLoss(i) \in Nat
  <2> DEFINE a == Abs(i.entry - i.sl)
  <2>1. a \in Nat
    BY <1>2, <1>4
  <2> HIDE DEF a
  <2> QED
    BY <1>1, <1>3, <2>1 DEF EstimatedLoss, a
<1>6. ASSUME NEW price \in FillPrices PROVE LossAt(i, price) \in Int
  <2> DEFINE sl == CalculateSl(price, CreateFrozenSnapshot(i))
  <2>1. price \in Int
    BY EngineAssumption
  <2>2. sl \in Int
    <3>1. CreateFrozenSnapshot(i).sl_offset_pct \in Int
      BY <1>1, EngineAssumption DEF FrozenSnapshot
    <3> QED
      BY <2>1, <3>1 DEF CalculateSl
  <2>3. 100 * price - sl \in Int
    BY <2>1, <2>2
  <2>4. \A m, n \in Nat : m * n \in Int
    OBVIOUS
  <2> QED
    BY <1>1, <1>2, <2>3, <2>4, Zenon DEF LossAt
<1> QED
  BY <1>5, <1>6

\* What Stage 10 books for a fill is the loss of the intent at the price paid.
LEMMA BookedLoss ==
    ASSUME Inv10, PaidInv, LossRoomKept, stage10 = "engine",
           result.status \in FilledStages
    PROVE  \/ PotentialLoss(result) = 0
           \/ \E price \in FillPrices : PotentialLoss(result) = LossAt(intent, price)
<1>1. Paid(result) /\ snap = CreateFrozenSnapshot(intent)
  BY DEF PaidInv, LossRoomKept
<1>2. snap.position_size = intent.size
  BY <1>1 DEF CreateFrozenSnapshot
<1>3. /\ result.fill_price \in FillPrices
      /\ result.position_size = intent.size
      /\ result.sl = CalculateSl(result.fill_price, CreateFrozenSnapshot(intent))
  BY <1>1, <1>2 DEF Paid
<1>4. PotentialLoss(result) = 0
      \/ PotentialLoss(result) = LossAt(intent, result.fill_price)
  BY <1>3 DEF PotentialLoss, LossAt
<1> QED
  BY <1>3, <1>4

\* The invariant of the loss limit.
LossInv ==
    /\ Inv10
    /\ PaidInv
    /\ LossRoomKept
    /\ LossOvershootBounded

\* The total is counted after a fill for which the check had left room for the
\* estimate.
LEMMA OvershootAfterAccount ==
    ASSUME LossInv, Account
    PROVE  LossOvershootBounded'
<1> TypeOK /\ TypeOK10 /\ Inv10 /\ PaidInv /\ LossRoomKept
  BY DEF LossInv, Inv10, IndInv
<1>1. stage10 = "engine" /\ intent \in Intents /\ intent.entry # 0
      /\ intent.symbol \in Symbols /\ result \in ExecutionResult
      /\ counters \in DailyCounters
  BY Stage10Assumption DEF Account, TypeOK, TypeOK10, TradeIntent, Inv10, Nesting
<1>2. counters.total_loss \in Int /\ PotentialLoss(result) \in Int
  BY <1>1, PotentialLossType DEF DailyCounters
<1>3. counters.total_loss + EstimatedLoss(intent) <= DailyMaxLoss
  BY <1>1 DEF LossRoomKept, Checked
<1>4. EstimatedLoss(intent) \in Nat
      /\ \A price \in FillPrices : LossAt(intent, price) \in Int
  BY <1>1, LossTypes
<1>5. CASE counters' = counters
  BY <1>5 DEF LossInv, LossOvershootBounded, LossAt, EstimatedLoss
<1>6. CASE counters' = Counted(counters, intent.symbol, result)
           /\ result.status \in FilledStages
  <2>1. counters'.total_loss = counters.total_loss + PotentialLoss(result)
    BY <1>1, <1>6, CountedType
  <2>2. CASE PotentialLoss(result) = 0
    <3>1. counters'.total_loss <= DailyMaxLoss
      BY <1>2, <1>3, <1>4, <2>1, <2>2, Stage10Assumption
    <3> QED
      BY <3>1 DEF LossOvershootBounded
  <2>3. ASSUME NEW price \in FillPrices, PotentialLoss(result) = LossAt(intent, price)
        PROVE  LossOvershootBounded'
    <3>1. counters'.total_loss
             <= DailyMaxLoss + LossAt(intent, price) - EstimatedLoss(intent)
      BY <1>2, <1>3, <1>4, <2>1, <2>3, Stage10Assumption
    <3> QED
      BY <1>1, <3>1 DEF LossOvershootBounded, LossAt, EstimatedLoss
  <2> QED
    BY <1>1, <1>6, <2>2, <2>3, BookedLoss
<1> QED
  BY <1>5, <1>6 DEF Account

\* What is known of the room for the loss after each step of the controller.
LEMMA LossStep ==
    ASSUME LossInv, [Next10]_allVars
    PROVE  LossRoomKept' /\ LossOvershootBounded'
<1> USE DEF environmentVars, counterVars, flowVars
<1> TypeOK /\ TypeOK10 /\ Nesting /\ LossRoomKept /\ LossOvershootBounded
  BY DEF LossInv, Inv10, IndInv
<1>1. ASSUME UNCHANGED <<counters, intent, stage10, failed_checks>>,
             snap' = snap
      PROVE  LossRoomKept' /\ LossOvershootBounded'
  BY <1>1 DEF LossRoomKept, LossOvershootBounded, Checked, EstimatedLoss, LossAt,
     CalculateSl, CreateFrozenSnapshot
<1>2. ASSUME counters' = counters \/ counters' = NoTrades
      PROVE  LossOvershootBounded'
  BY <1>2, Stage10Assumption DEF LossOvershootBounded, NoTrades, EstimatedLoss, LossAt,
     CalculateSl, CreateFrozenSnapshot
<1>3. ASSUME NEW i \in Intents, SubmitTrade(i)
      PROVE  LossRoomKept' /\ LossOvershootBounded'
  BY <1>2, <1>3 DEF SubmitTrade, LossRoomKept, Checked
<1>4. CASE CheckBrokerHealth \/ CheckGlobalKillSwitch \/ CheckSymbolKillSwitch
  <2>1. stage10' \in {"global", "symbol", "limits"} /\ counters' = counters
    BY <1>4 DEF CheckBrokerHealth, CheckGlobalKillSwitch, CheckSymbolKillSwitch, Check
  <2> QED
    BY <1>2, <2>1 DEF LossRoomKept, Checked
<1>5. CASE CheckLimits
  <2>1. stage10' = "decide" /\ counters' = counters /\ intent' = intent
    BY <1>5 DEF CheckLimits, Check
  <2>2. failed_checks' = {} =>
           ~(counters.total_loss + EstimatedLoss(intent) > DailyMaxLoss)
    BY <1>5 DEF CheckLimits, Check
  <2>3. counters.total_loss \in Int
    BY DEF TypeOK10, DailyCounters
  <2>4. EstimatedLoss(intent) \in Int
    <3>1. intent.entry \in Nat /\ intent.sl \in Nat /\ intent.size \in Nat
      BY Stage10Assumption DEF TypeOK10, TradeIntent
    <3>2. Abs(intent.entry - intent.sl) \in Int
      BY <3>1 DEF Abs
    <3> QED
      BY <3>1, <3>2 DEF EstimatedLoss
  <2>5. Checked' =>
           counters.total_loss + EstimatedLoss(intent) <= DailyMaxLoss
    BY <2>1, <2>2, <2>3, <2>4, Stage10Assumption DEF Checked
  <2> QED
    BY <1>2, <2>1, <2>5 DEF LossRoomKept, EstimatedLoss
<1>6. CASE Abort
  BY <1>2, <1>6 DEF Abort, LossRoomKept, Checked
<1>7. CASE Forward
  <2>1. snap' = CreateFrozenSnapshot(intent) /\ intent' = intent /\ counters' = counters
        /\ Checked
    BY <1>7 DEF Forward, Execute, Checked
  <2> QED
    BY <1>2, <2>1 DEF LossRoomKept, EstimatedLoss, CreateFrozenSnapshot
<1>8. CASE Account
  BY <1>8, OvershootAfterAccount DEF Account, LossRoomKept, Checked
<1>9. CASE (EngineStep \/ BrokerStep \/ Tick) /\ UNCHANGED stage10Vars
  <2>1. snap' = snap
    BY <1>9, CallKept
  <2> QED
    BY <1>1, <1>9, <2>1 DEF stage10Vars
<1>10. ASSUME NEW t \in Targets, NEW state \in SwitchStates, SetSwitch(t, state)
      PROVE  LossRoomKept' /\ LossOvershootBounded'
  BY <1>1, <1>10 DEF SetSwitch, SetKillSwitch, callVars
<1>11. CASE \/ DayPasses \/ UNCHANGED allVars
            \/ \E on \in BOOLEAN : SetPaperMode(on) \/ SetConnected(on)
  BY <1>1, <1>11 DEF DayPasses, SetPaperMode, SetConnected, allVars, vars, stage10Vars
<1> QED
  BY <1>3, <1>4, <1>5, <1>6, <1>7, <1>8, <1>9, <1>10, <1>11
  DEF Next10, ControllerStep, AllSubmitted

LEMMA LossInvariance == Spec10 => []LossInv
<1>1. Init10 => LossInv
  <2>1. Init10 => PaidInv /\ LossRoomKept /\ LossOvershootBounded
    BY Stage10Assumption DEF Init10, Init, PaidInv, BookPaid, Waiting, Settling,
       FreshResult, FilledStages, LossRoomKept, Checked, LossOvershootBounded, NoTrades
  <2> QED
    BY <2>1, Inv10Init DEF LossInv
<1>2. LossInv /\ [Next10]_allVars => LossInv'
  <2> SUFFICES ASSUME LossInv, [Next10]_allVars PROVE LossInv'
    OBVIOUS
  <2>1. [Step]_vars
    BY EngineStepOf10 DEF LossInv, Inv10, allVars
  <2>2. PaidInv'
    BY <2>1, PaidStep DEF LossInv, Inv10
  <2> QED
    BY <2>2, LossStep, Inv10Step DEF LossInv
<1> QED
  BY <1>1, <1>2, PTL DEF Spec10

-----------------------------------------------------------------------------
(* The audit trail *)

\* Numbers of audit entries are counted in finite sets.
LEMMA EntriesAreFinite ==
    ASSUME TypeOK10
    PROVE  /\ DOMAIN audit_logs = 1..Len(audit_logs)
           /\ Len(audit_logs) \in Nat
           /\ \A S \in SUBSET DOMAIN audit_logs :
                 IsFiniteSet(S) /\ Cardinality(S) \in Nat
<1>1. DOMAIN audit_logs = 1..Len(audit_logs) /\ Len(audit_logs) \in Nat
  BY LenProperties DEF TypeOK10
<1>2. IsFiniteSet(1..Len(audit_logs))
  BY <1>1, FS_Interval
<1>3. ASSUME NEW S \in SUBSET DOMAIN audit_logs
      PROVE  IsFiniteSet(S) /\ Cardinality(S) \in Nat
  <2>1. IsFiniteSet(S)
    BY <1>1, <1>2, FS_Subset
  <2> QED
    BY <2>1, FS_CardinalityType
<1> QED
  BY <1>1, <1>3

\* One more entry leaves the earlier ones as they are.
LEMMA EntryAppended ==
    ASSUME TypeOK10, NEW action \in {"forwarded", "aborted"}, NEW status \in Stages,
           audit_logs' = Append(audit_logs, AuditEntry(action, status))
    PROVE  LET new == Len(audit_logs) + 1
           IN  /\ Len(audit_logs') = new
               /\ DOMAIN audit_logs' = DOMAIN audit_logs \cup {new}
               /\ new \notin DOMAIN audit_logs
               /\ \A k \in DOMAIN audit_logs : audit_logs'[k] = audit_logs[k]
               /\ audit_logs'[new] = AuditEntry(action, status)
<1> DEFINE new == Len(audit_logs) + 1
<1>1. audit_logs \in Seq(AuditLog) /\ AuditEntry(action, status) \in AuditLog
  <2>1. intent.symbol \in Symbols
    BY Stage10Assumption DEF TypeOK10, TradeIntent
  <2> QED
    BY <2>1 DEF AuditEntry, AuditLog, TypeOK10
<1>2. /\ audit_logs' \in Seq(AuditLog) /\ Len(audit_logs') = new
      /\ \A k \in 1..Len(audit_logs) : audit_logs'[k] = audit_logs[k]
      /\ audit_logs'[new] = AuditEntry(action, status)
  BY <1>1, AppendProperties
<1>3. DOMAIN audit_logs = 1..Len(audit_logs) /\ Len(audit_logs) \in Nat
      /\ DOMAIN audit_logs' = 1..Len(audit_logs')
  BY <1>1, <1>2, LenProperties
<1> QED
  BY <1>2, <1>3

\* What the counters count: the fills since a reset that no entry precedes.
CountInv ==
    /\ Inv10
    /\ day_start.audits <= Len(audit_logs)
    /\ CountersMatchAudit

FillsOf(s) == {k \in FillsToday : audit_logs[k].symbol = s}

\* An entry that reports no fill is not counted.
LEMMA FillsAfterOther ==
    ASSUME CountInv, NEW action \in {"forwarded", "aborted"},
           NEW status \in Stages \ FilledStages,
           audit_logs' = Append(audit_logs, AuditEntry(action, status)),
           day_start' = day_start
    PROVE  FillsToday' = FillsToday /\ \A s \in Symbols : FillsOf(s)' = FillsOf(s)
<1> DEFINE new == Len(audit_logs) + 1
<1>1. /\ DOMAIN audit_logs' = DOMAIN audit_logs \cup {new}
      /\ \A k \in DOMAIN audit_logs : audit_logs'[k] = audit_logs[k]
      /\ audit_logs'[new] = AuditEntry(action, status)
  BY EntryAppended DEF CountInv, Inv10
<1>2. audit_logs'[new].status \notin FilledStages
  BY <1>1 DEF AuditEntry
<1> HIDE DEF new
<1>3. FillsToday' = FillsToday
  BY <1>1, <1>2 DEF FillsToday
<1> QED
  BY <1>1, <1>3 DEF FillsOf, FillsToday

\* An entry that reports a fill is counted once, for its own symbol.
LEMMA FillsAfterFill ==
    ASSUME CountInv, NEW action \in {"forwarded", "aborted"},
           NEW status \in Stages \cap FilledStages,
           audit_logs' = Append(audit_logs, AuditEntry(action, status)),
           day_start' = day_start
    PROVE  /\ Cardinality(FillsToday') = Cardinality(FillsToday) + 1
           /\ \A s \in Symbols :
                 Cardinality(FillsOf(s)') =
                    IF s = intent.symbol THEN Cardinality(FillsOf(s)) + 1
                    ELSE Cardinality(FillsOf(s))
<1> TypeOK10
  BY DEF CountInv, Inv10
<1> DEFINE new == Len(audit_logs) + 1
<1>1. /\ DOMAIN audit_logs' = DOMAIN audit_logs \cup {new}
      /\ new \notin DOMAIN audit_logs
      /\ \A k \in DOMAIN audit_logs : audit_logs'[k] = audit_logs[k]
      /\ audit_logs'[new] = AuditEntry(action, status)
  BY EntryAppended
<1>2. audit_logs'[new].status \in FilledStages
      /\ audit_logs'[new].symbol = intent.symbol
  BY <1>1 DEF AuditEntry
<1>3. new > day_start.audits
  BY EntriesAreFinite DEF CountInv, TypeOK10
<1> HIDE DEF new
<1>4. FillsToday' = FillsToday \cup {new} /\ new \notin FillsToday
  BY <1>1, <1>2, <1>3 DEF FillsToday
<1>5. ASSUME NEW s \in Symbols, s = intent.symbol
      PROVE  FillsOf(s)' = FillsOf(s) \cup {new} /\ new \notin FillsOf(s)
  BY <1>1, <1>2, <1>4, <1>5 DEF FillsOf, FillsToday
<1>6. ASSUME NEW s \in Symbols, s # intent.symbol
      PROVE  FillsOf(s)' = FillsOf(s)
  BY <1>1, <1>2, <1>4, <1>6 DEF FillsOf, FillsToday
<1>7. IsFiniteSet(FillsToday) /\ \A s \in Symbols : IsFiniteSet(FillsOf(s))
  <2>1. FillsToday \subseteq DOMAIN audit_logs
        /\ \A s \in Symbols : FillsOf(s) \subseteq DOMAIN audit_logs
    BY DEF FillsToday, FillsOf
  <2> QED
    BY <2>1, EntriesAreFinite
<1>8. ASSUME NEW s \in Symbols
      PROVE  Cardinality(FillsOf(s)') =
                IF s = intent.symbol THEN Cardinality(FillsOf(s)) + 1
                ELSE Cardinality(FillsOf(s))
  <2>1. CASE s = intent.symbol
    <3>1. FillsOf(s)' = FillsOf(s) \cup {new} /\ new \notin FillsOf(s)
      BY <1>5, <2>1
    <3>2. IsFiniteSet(FillsOf(s))
      BY <1>7
    <3>3. Cardinality(FillsOf(s) \cup {new}) = Cardinality(FillsOf(s)) + 1
      BY <3>1, <3>2, FS_AddElement
    <3> QED
      BY <2>1, <3>1, <3>3
  <2>2. CASE s # intent.symbol
    BY <1>6, <2>2
  <2> QED
    BY <2>1, <2>2
<1>9. Cardinality(FillsToday') = Cardinality(FillsToday) + 1
  <2>1. Cardinality(FillsToday \cup {new}) = Cardinality(FillsToday) + 1
    BY <1>4, <1>7, FS_AddElement
  <2> QED
    BY <1>4, <2>1
<1> QED
  BY <1>8, <1>9

\* The counters and the trail move together: both in Account, for a fill; both
\* start again at a reset; neither otherwise.
LEMMA CountStep ==
    ASSUME CountInv, [Next10]_allVars
    PROVE  day_start'.audits <= Len(audit_logs') /\ CountersMatchAudit'
<1> USE DEF environmentVars, counterVars, flowVars
<1> TypeOK /\ TypeOK10 /\ CountersMatchAudit /\ day_start.audits <= Len(audit_logs)
  BY DEF CountInv, Inv10, IndInv
<1>1. /\ Len(audit_logs) \in Nat /\ day_start.audits \in Nat
      /\ intent.symbol \in Symbols /\ result \in ExecutionResult
      /\ counters \in DailyCounters
  BY EntriesAreFinite, Stage10Assumption DEF TypeOK, TypeOK10, TradeIntent
<1>2. CountersMatchAudit <=>
         /\ counters.trades_executed = Cardinality(FillsToday)
         /\ \A s \in Symbols : counters.per_symbol[s] = Cardinality(FillsOf(s))
  BY DEF CountersMatchAudit, FillsOf
<1>3. CountersMatchAudit' <=>
         /\ counters'.trades_executed = Cardinality(FillsToday')
         /\ \A s \in Symbols : counters'.per_symbol[s] = Cardinality(FillsOf(s)')
  BY DEF CountersMatchAudit, FillsOf
<1>4. ASSUME UNCHANGED <<audit_logs, day_start, counters>>
      PROVE  day_start'.audits <= Len(audit_logs') /\ CountersMatchAudit'
  BY <1>4 DEF CountersMatchAudit, FillsToday
<1>5. ASSUME NEW i \in Intents, SubmitTrade(i)
      PROVE  day_start'.audits <= Len(audit_logs') /\ CountersMatchAudit'
  <2>1. CASE ~stale
    BY <1>4, <1>5, <2>1 DEF SubmitTrade
  <2>2. CASE stale
    <3>1. /\ counters' = NoTrades /\ audit_logs' = audit_logs
          /\ day_start'.audits = Len(audit_logs)
      BY <1>5, <2>2 DEF SubmitTrade
    <3>2. FillsToday' = {}
      BY <1>1, <3>1, EntriesAreFinite DEF FillsToday
    <3>3. \A s \in Symbols : FillsOf(s)' = {}
      BY <3>2 DEF FillsOf
    <3>4. Cardinality(FillsToday') = 0
          /\ \A s \in Symbols : Cardinality(FillsOf(s)') = 0
      BY <3>2, <3>3, FS_EmptySet
    <3>5. counters'.trades_executed = 0
          /\ \A s \in Symbols : counters'.per_symbol[s] = 0
      BY <3>1 DEF NoTrades
    <3> QED
      BY <1>1, <1>3, <3>1, <3>4, <3>5
  <2> QED
    BY <2>1, <2>2
<1>6. CASE Abort
  <2> DEFINE status == IF failed_checks # {} THEN "rejected" ELSE "failed"
  <2>1. status \in Stages \ FilledStages
    BY DEF Stages, FilledStages
  <2>2. /\ audit_logs' = Append(audit_logs, AuditEntry("aborted", status))
        /\ UNCHANGED <<counters, day_start>>
    BY <1>6 DEF Abort
  <2> HIDE DEF status
  <2>3. Len(audit_logs') = Len(audit_logs) + 1
    BY <2>1, <2>2, EntryAppended
  <2>4. FillsToday' = FillsToday /\ \A s \in Symbols : FillsOf(s)' = FillsOf(s)
    BY <2>1, <2>2, FillsAfterOther
  <2> QED
    BY <1>1, <1>2, <1>3, <2>2, <2>3, <2>4
<1>7. CASE Account
  <2>1. /\ result.status \in Stages /\ day_start' = day_start
        /\ audit_logs' = Append(audit_logs, AuditEntry("forwarded", result.status))
    BY <1>1, <1>7 DEF Account, ExecutionResult
  <2>2. Len(audit_logs') = Len(audit_logs) + 1
    BY <2>1, EntryAppended
  <2>3. CASE result.status \in FilledStages
    <3>1. counters' = Counted(counters, intent.symbol, result)
      BY <1>7, <2>3 DEF Account
    <3>2. /\ counters'.trades_executed = counters.trades_executed + 1
          /\ counters'.per_symbol[intent.symbol]
                = counters.per_symbol[intent.symbol] + 1
          /\ \A t \in Symbols \ {intent.symbol} :
                counters'.per_symbol[t] = counters.per_symbol[t]
      BY <1>1, <3>1, CountedType
    <3>3. /\ Cardinality(FillsToday') = Cardinality(FillsToday) + 1
          /\ \A s \in Symbols :
                Cardinality(FillsOf(s)') =
                   IF s = intent.symbol THEN Cardinality(FillsOf(s)) + 1
                   ELSE Cardinality(FillsOf(s))
      BY <2>1, <2>3, FillsAfterFill
    <3> QED
      BY <1>1, <1>2, <1>3, <2>1, <2>2, <3>2, <3>3
  <2>4. CASE result.status \notin FilledStages
    <3>1. counters' = counters
      BY <1>7, <2>4 DEF Account
    <3>2. FillsToday' = FillsToday /\ \A s \in Symbols : FillsOf(s)' = FillsOf(s)
      BY <2>1, <2>4, FillsAfterOther
    <3> QED
      BY <1>1, <1>2, <1>3, <2>1, <2>2, <3>1, <3>2
  <2> QED
    BY <2>3, <2>4
<1>8. CASE CheckBrokerHealth \/ CheckGlobalKillSwitch \/ CheckSymbolKillSwitch
           \/ CheckLimits \/ Forward
  BY <1>4, <1>8 DEF CheckBrokerHealth, CheckGlobalKillSwitch, CheckSymbolKillSwitch,
     CheckLimits, Check, Forward
<1>9. CASE \/ UNCHANGED stage10Vars
           \/ \E t \in Targets, state \in SwitchStates : SetSwitch(t, state)
           \/ \E on \in BOOLEAN : SetPaperMode(on) \/ SetConnected(on)
           \/ DayPasses
  BY <1>4, <1>9 DEF stage10Vars, SetSwitch, SetPaperMode, SetConnected, DayPasses
<1> QED
  BY <1>5, <1>6, <1>7, <1>8, <1>9 DEF Next10, ControllerStep, AllSubmitted, allVars

LEMMA CountInvariance == Spec10 => []CountInv
<1>1. Init10 => CountInv
  <2> SUFFICES ASSUME Init10 PROVE CountInv
    OBVIOUS
  <2>1. FillsToday = {}
    BY EntriesAreFinite, Inv10Init DEF Init10, FillsToday
  <2>2. Cardinality({}) = 0
    BY FS_EmptySet
  <2>3. \A s \in Symbols : {k \in FillsToday : audit_logs[k].symbol = s} = {}
    BY <2>1
  <2>4. CountersMatchAudit
    BY <2>1, <2>2, <2>3 DEF Init10, NoTrades, CountersMatchAudit
  <2>5. day_start.audits <= Len(audit_logs)
    BY DEF Init10
  <2> QED
    BY <2>4, <2>5, Inv10Init DEF CountInv
<1>2. CountInv /\ [Next10]_allVars => CountInv'
  <2>1. CountInv => Inv10
    BY DEF CountInv
  <2>2. CountInv /\ [Next10]_allVars => day_start'.audits <= Len(audit_logs') /\ CountersMatchAudit'
    BY CountStep
  <2> QED
    BY <2>1, <2>2, Inv10Step DEF CountInv
<1> QED
  BY <1>1, <1>2, PTL DEF Spec10

\* The entries of forwarded trades are as many as the results, in the same order.
TrailInv ==
    /\ Inv10
    /\ stage10 = "engine" => failed_checks = {}
    /\ AuditIsComplete

\* One more entry changes nothing about the ones before it; it is counted itself
\* unless the trade was aborted.
LEMMA ForwardedAfter ==
    ASSUME TypeOK10, NEW action \in {"forwarded", "aborted"}, NEW status \in Stages,
           NEW new \in Nat, new = Len(audit_logs) + 1,
           audit_logs' = Append(audit_logs, AuditEntry(action, status))
    PROVE  /\ \A n \in 0..Len(audit_logs) : ForwardedAmong(n)' = ForwardedAmong(n)
           /\ ForwardedAmong(new)' =
                 IF action = "aborted" THEN ForwardedAmong(Len(audit_logs))
                 ELSE ForwardedAmong(Len(audit_logs)) \cup {new}
<1>1. /\ DOMAIN audit_logs = 1..Len(audit_logs) /\ Len(audit_logs) \in Nat
      /\ \A k \in DOMAIN audit_logs : audit_logs'[k] = audit_logs[k]
      /\ audit_logs'[new].action = action
  BY EntriesAreFinite, EntryAppended DEF AuditEntry
<1>2. \A n \in 0..Len(audit_logs) : ForwardedAmong(n)' = ForwardedAmong(n)
  BY <1>1 DEF ForwardedAmong
<1>3. 1..new = (1..Len(audit_logs)) \cup {new} /\ new \notin 1..Len(audit_logs)
  BY <1>1
<1>4. CASE action = "aborted"
  BY <1>1, <1>2, <1>3, <1>4 DEF ForwardedAmong
<1>5. CASE action # "aborted"
  BY <1>1, <1>2, <1>3, <1>5 DEF ForwardedAmong
<1> QED
  BY <1>2, <1>4, <1>5

\* An aborted trade leaves an entry, and no result.
LEMMA TrailAfterAbort ==
    ASSUME TrailInv, Abort
    PROVE  AuditIsComplete'
<1> TypeOK /\ TypeOK10 /\ AuditIsComplete
  BY DEF TrailInv, Inv10, IndInv
<1>0. PICK new \in Nat : new = Len(audit_logs) + 1
  BY EntriesAreFinite
<1> DEFINE status == IF failed_checks # {} THEN "rejected" ELSE "failed"
<1>1. status \in Stages
  BY DEF Stages
<1>2. audit_logs' = Append(audit_logs, AuditEntry("aborted", status))
      /\ results' = results
  BY DEF Abort, vars
<1> HIDE DEF status
<1>3. /\ Len(audit_logs') = new /\ Len(audit_logs) \in Nat
      /\ DOMAIN audit_logs = 1..Len(audit_logs)
      /\ \A k \in DOMAIN audit_logs : audit_logs'[k] = audit_logs[k]
  BY <1>0, <1>1, <1>2, EntryAppended, EntriesAreFinite
<1>4. /\ \A n \in 0..Len(audit_logs) : ForwardedAmong(n)' = ForwardedAmong(n)
      /\ ForwardedAmong(new)' = ForwardedAmong(Len(audit_logs))
  BY <1>0, <1>1, <1>2, ForwardedAfter
<1>5. ForwardedAmong(Len(audit_logs)) \subseteq 1..Len(audit_logs)
  BY DEF ForwardedAmong
<1>6. ForwardedAmong(Len(audit_logs))' = ForwardedAmong(Len(audit_logs))
  <2>1. ForwardedAmong(Len(audit_logs))' = ForwardedAmong(new)'
    BY <1>3 DEF ForwardedAmong
  <2> QED
    BY <1>4, <2>1
<1>7. ASSUME NEW k \in ForwardedAmong(Len(audit_logs))
      PROVE  /\ audit_logs'[k] = audit_logs[k]
             /\ ForwardedAmong(k)' = ForwardedAmong(k)
  BY <1>3, <1>4, <1>5
<1> QED
  BY <1>2, <1>6, <1>7 DEF AuditIsComplete

\* A forwarded trade leaves an entry and a result, which agree.
LEMMA TrailAfterAccount ==
    ASSUME TrailInv, Account
    PROVE  AuditIsComplete'
<1> TypeOK /\ TypeOK10 /\ AuditIsComplete
  BY DEF TrailInv, Inv10, IndInv
<1>0. PICK new \in Nat : new = Len(audit_logs) + 1
  BY EntriesAreFinite
<1> DEFINE F == ForwardedAmong(Len(audit_logs))
<1>1. result \in ExecutionResult /\ result.status \in Stages /\ failed_checks = {}
  BY DEF TypeOK, ExecutionResult, Account, TrailInv
<1>2. audit_logs' = Append(audit_logs, AuditEntry("forwarded", result.status))
      /\ results' = Append(results, result)
  BY DEF Account, Return
<1>3. /\ Len(audit_logs') = new /\ Len(audit_logs) \in Nat
      /\ DOMAIN audit_logs = 1..Len(audit_logs)
      /\ \A k \in DOMAIN audit_logs : audit_logs'[k] = audit_logs[k]
      /\ audit_logs'[new].status = result.status /\ audit_logs'[new].checks = {}
  BY <1>0, <1>1, <1>2, EntryAppended, EntriesAreFinite DEF AuditEntry
<1>4. /\ \A n \in 0..Len(audit_logs) : ForwardedAmong(n)' = ForwardedAmong(n)
      /\ ForwardedAmong(new)' = F \cup {new}
  BY <1>0, <1>1, <1>2, ForwardedAfter
<1>5. /\ results \in Seq(ExecutionResult) /\ Len(results) \in Nat
      /\ DOMAIN results = 1..Len(results)
      /\ DOMAIN results' = 1..(Len(results) + 1)
      /\ Len(results') = Len(results) + 1
      /\ results'[Len(results) + 1] = result
      /\ \A n \in 1..Len(results) : results'[n] = results[n]
  BY <1>1, <1>2, AppendProperties, LenProperties DEF TypeOK
<1>6. F \subseteq 1..Len(audit_logs) /\ new \notin 1..Len(audit_logs)
  BY <1>0, <1>3 DEF ForwardedAmong
<1>7. Cardinality(F \cup {new}) = Len(results) + 1
  <2>1. IsFiniteSet(F)
    BY <1>3, <1>6, EntriesAreFinite
  <2>2. Cardinality(F) = Len(results)
    BY DEF AuditIsComplete
  <2> HIDE DEF F
  <2> QED
    BY <1>6, <2>1, <2>2, FS_AddElement
<1>8. ForwardedAmong(Len(audit_logs))' = F \cup {new}
  <2>1. ForwardedAmong(Len(audit_logs))' = ForwardedAmong(new)'
    BY <1>3 DEF ForwardedAmong
  <2> QED
    BY <1>4, <2>1
<1>9. ASSUME NEW k \in F
      PROVE  LET n == Cardinality(ForwardedAmong(k)')
             IN  /\ n \in DOMAIN results'
                 /\ audit_logs'[k].status = results'[n].status
                 /\ audit_logs'[k].checks = {}
  <2>1. audit_logs'[k] = audit_logs[k] /\ ForwardedAmong(k)' = ForwardedAmong(k)
    BY <1>3, <1>4, <1>6
  <2>2. /\ Cardinality(ForwardedAmong(k)) \in DOMAIN results
        /\ audit_logs[k].status = results[Cardinality(ForwardedAmong(k))].status
        /\ audit_logs[k].checks = {}
    BY DEF AuditIsComplete
  <2> QED
    BY <1>5, <2>1, <2>2
<1>10. LET n == Cardinality(ForwardedAmong(new)')
       IN  /\ n \in DOMAIN results'
           /\ audit_logs'[new].status = results'[n].status
           /\ audit_logs'[new].checks = {}
  BY <1>3, <1>4, <1>5, <1>7
<1> HIDE DEF F
<1> QED
  BY <1>5, <1>7, <1>8, <1>9, <1>10 DEF AuditIsComplete

LEMMA TrailStep ==
    ASSUME TrailInv, [Next10]_allVars
    PROVE  (stage10 = "engine" => failed_checks = {})' /\ AuditIsComplete'
<1> USE DEF environmentVars, counterVars, flowVars
<1>1. ASSUME UNCHANGED <<audit_logs, results>>
      PROVE  AuditIsComplete'
  BY <1>1 DEF TrailInv, AuditIsComplete, ForwardedAmong
<1>2. ASSUME NEW i \in Intents, SubmitTrade(i)
      PROVE  (stage10 = "engine" => failed_checks = {})' /\ AuditIsComplete'
  BY <1>1, <1>2 DEF SubmitTrade, vars
<1>3. CASE CheckBrokerHealth \/ CheckGlobalKillSwitch \/ CheckSymbolKillSwitch
           \/ CheckLimits
  BY <1>1, <1>3 DEF CheckBrokerHealth, CheckGlobalKillSwitch, CheckSymbolKillSwitch,
     CheckLimits, Check, vars
<1>4. CASE Abort
  BY <1>4, TrailAfterAbort DEF Abort
<1>5. CASE Forward
  BY <1>1, <1>5 DEF Forward, Execute
<1>6. CASE Account
  BY <1>6, TrailAfterAccount DEF Account
<1>7. CASE (EngineStep \/ BrokerStep \/ Tick) /\ UNCHANGED stage10Vars
  BY <1>1, <1>7, CallKept DEF stage10Vars, TrailInv
<1>8. ASSUME NEW t \in Targets, NEW state \in SwitchStates, SetSwitch(t, state)
      PROVE  (stage10 = "engine" => failed_checks = {})' /\ AuditIsComplete'
  BY <1>1, <1>8 DEF SetSwitch, SetKillSwitch, callVars, TrailInv
<1>9. CASE \/ DayPasses \/ UNCHANGED allVars
           \/ \E on \in BOOLEAN : SetPaperMode(on) \/ SetConnected(on)
  BY <1>1, <1>9 DEF DayPasses, SetPaperMode, SetConnected, allVars, vars, stage10Vars,
     TrailInv
<1> QED
  BY <1>2, <1>3, <1>4, <1>5, <1>6, <1>7, <1>8, <1>9
  DEF Next10, ControllerStep, AllSubmitted

LEMMA TrailInvariance == Spec10 => []TrailInv
<1>1. Init10 => TrailInv
  <2> SUFFICES ASSUME Init10 PROVE TrailInv
    OBVIOUS
  <2>1. ForwardedAmong(Len(audit_logs)) = {}
    BY DEF Init10, ForwardedAmong
  <2>2. Len(results) = 0
    BY DEF Init10, Init
  <2>3. AuditIsComplete
    BY <2>1, <2>2, FS_EmptySet DEF AuditIsComplete
  <2> QED
    BY <2>3, Inv10Init DEF Init10, TrailInv
<1>2. TrailInv /\ [Next10]_allVars => TrailInv'
  BY TrailStep, Inv10Step DEF TrailInv
<1> QED
  BY <1>1, <1>2, PTL DEF Spec10

-----------------------------------------------------------------------------
(* Theorems *)

\* The controller's variables keep their types, whatever the engine returns.
THEOREM TypeCorrect10 == Spec10 => []TypeOK10
<1>1. Inv10 => TypeOK10
  BY DEF Inv10
<1> QED
  BY <1>1, Invariance10, PTL

\* What is proved of the engine on its own holds inside the composition: no
\* duplicate orders, true fills and sane levels for the calls of submit_trade().
THEOREM EngineGuaranteesHold ==
    Spec10 => [](NoSilentOutcome /\ OneOrderPerExecution /\ FillsAreBacked
                 /\ LevelsBracketFill)
<1>1. Inv10 => NoSilentOutcome /\ OneOrderPerExecution /\ FillsAreBacked
               /\ LevelsBracketFill
  BY DEF Inv10, IndInv, BookInv, ResultsTrue, Truth, NoSilentOutcome,
     FillsAreBacked, LevelsBracketFill
<1> QED
  BY <1>1, Invariance10, PTL

\* The daily limits on reported fills hold for every limit, although the counters
\* are read before the trade and written after it.
THEOREM DailyLimitsHold == Spec10 => []CapsHold
<1>1. Inv10 => CapsHold
  BY DEF Inv10
<1> QED
  BY <1>1, Invariance10, PTL

\* The loss limit is checked against the proposed entry and booked at the fill:
\* however many trades slip, the booked total exceeds daily_max_loss_usd by no more
\* than the slippage of a single trade.
THEOREM LossOvershoot == Spec10 => []LossOvershootBounded
<1>1. LossInv => LossOvershootBounded
  BY DEF LossInv
<1> QED
  BY <1>1, LossInvariance, PTL

\* The counters that the daily limits read are what the audit trail reports since
\* the last reset, in all and per symbol, wherever the day ends.
THEOREM CountersAreExact == Spec10 => []CountersMatchAudit
<1>1. CountInv => CountersMatchAudit
  BY DEF CountInv
<1> QED
  BY <1>1, CountInvariance, PTL

\* The entries of forwarded trades are, one by one and in order, the results of
\* Stage 9, and no trade with a failed check is among them.
THEOREM TrailIsComplete == Spec10 => []AuditIsComplete
<1>1. TrailInv => AuditIsComplete
  BY DEF TrailInv
<1> QED
  BY <1>1, TrailInvariance, PTL

\* Orders go out only from inside execute(), which submit_trade() does not enter
\* with the global switch on since it began.
LEMMA SubmissionsAreInCall ==
    ASSUME Inv10, [Next10]_allVars, Len(orders') > Len(orders)
    PROVE  ~global_on
<1>1. [Step]_vars
  BY EngineStepOf10 DEF Inv10, allVars
<1>2. pc = "submit"
  BY <1>1, OnlySubmitAdds DEF Inv10
<1> QED
  BY <1>2 DEF Inv10, Nesting, HaltSeen

\* While the global kill switch has been on since submit_trade() began nothing is
\* sent, however the operator interleaves with checks and engine.
THEOREM GlobalHaltProtects == Spec10 => GlobalHaltStopsTrading
<1>1. Inv10 /\ [Next10]_allVars => [Len(orders') > Len(orders) => ~global_on]_allVars
  BY SubmissionsAreInCall
<1> QED
  BY <1>1, Invariance10, PTL DEF Spec10, GlobalHaltStopsTrading

============================================================================
