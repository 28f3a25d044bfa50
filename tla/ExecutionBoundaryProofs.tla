----------------------- MODULE ExecutionBoundaryProofs -----------------------
(***************************************************************************)
(* Proofs about ExecutionBoundary for all intents, approvals and finite    *)
(* sets of callers, and for every bound on time, switches and attempts.    *)
(*                                                                         *)
(* A caller carries what the guards found across three calls during which  *)
(* switches, clock and log move.  Its clearance survives because the       *)
(* controller's history is only ever appended to; its right to an order    *)
(* because the log is.                                                     *)
(***************************************************************************)
EXTENDS ExecutionBoundary, FiniteSetTheorems, SequenceTheorems, TLAPS

-----------------------------------------------------------------------------
(* Types *)

\* None and a single value are optional values.
LEMMA OptionalValues ==
    ASSUME NEW S
    PROVE  /\ {} \in Optional(S)
           /\ \A x \in S : {x} \in Optional(S)
<1>1. Cardinality({}) = 0 /\ \A x \in S : Cardinality({x}) = 1
  BY FS_EmptySet, FS_Singleton
<1> QED
  BY <1>1 DEF Optional

\* A record of the logger has its type.
LEMMA RecordType ==
    ASSUME NEW event \in AuditEvents, NEW i \in IntentIds \cup {"system"},
           NEW a \in Optional(ApprovalIds)
    PROVE  /\ Record(event, i, a) \in ExecutionAuditRecord
           /\ Record(event, i, a).event_type = event
           /\ Record(event, i, a).intent_id = i
BY DEF Record, ExecutionAuditRecord

\* The log takes the record whether or not the file does, and keeps the others.
LEMMA LogGrows ==
    ASSUME TypeOK, NEW r \in ExecutionAuditRecord, AppendRecord(r)
    PROVE  LET new == Len(log) + 1
           IN  /\ log' \in Seq(ExecutionAuditRecord)
               /\ file' \in Seq(ExecutionAuditRecord)
               /\ Len(log) \in Nat /\ DOMAIN log = 1..Len(log)
               /\ DOMAIN log' = DOMAIN log \cup {new} /\ new \notin DOMAIN log
               /\ \A k \in DOMAIN log : log'[k] = log[k]
               /\ log'[new] = r
<1>1. log \in Seq(ExecutionAuditRecord) /\ file \in Seq(ExecutionAuditRecord)
  BY DEF TypeOK
<1>2. log' = Append(log, r) /\ (file' = file \/ file' = Append(file, r))
  BY DEF AppendRecord
<1>3. /\ log' \in Seq(ExecutionAuditRecord) /\ Len(log') = Len(log) + 1
      /\ \A k \in 1..Len(log) : log'[k] = log[k]
      /\ log'[Len(log) + 1] = r
  BY <1>1, <1>2, AppendProperties
<1>4. file' \in Seq(ExecutionAuditRecord)
  <2>1. Append(file, r) \in Seq(ExecutionAuditRecord)
    BY <1>1, AppendProperties
  <2> QED
    BY <1>1, <1>2, <2>1, Zenon
<1>5. Len(log) \in Nat /\ DOMAIN log = 1..Len(log) /\ DOMAIN log' = 1..Len(log')
  BY <1>1, <1>3, LenProperties
<1>6. DOMAIN log' = DOMAIN log \cup {Len(log) + 1} /\ Len(log) + 1 \notin DOMAIN log
  <2>1. \A n \in Nat : 1..(n + 1) = (1..n) \cup {n + 1} /\ n + 1 \notin 1..n
    OBVIOUS
  <2> QED
    BY <1>3, <1>5, <2>1
<1>7. \A k \in DOMAIN log : log'[k] = log[k]
  BY <1>3, <1>5
<1> QED
  BY <1>3, <1>4, <1>5, <1>6, <1>7

-----------------------------------------------------------------------------
(* The steps, by what they touch *)

SwitchStep ==
    \/ ActivateManualKill \/ DeactivateManualKill
    \/ ActivateCircuitBreaker \/ DeactivateCircuitBreaker
    \/ ActivateTimeout \/ DeactivateTimeout

LogStep ==
    \/ \E i \in IntentIds : LogIntentCreated(i)
    \/ \E a \in ApprovalIds : LogApproval(a)
    \/ LogSwitchChange

CallerStep(c) ==
    \/ \E job \in Jobs : AskHalted(c, job[1], job[2])
    \/ AskGuards(c) \/ LogExecutionStarted(c) \/ PlaceOrder(c)
    \/ OrderFails(c) \/ LogExecutionCompleted(c)

\* A halt ends only by its own event.
OwnRelease(s, event) ==
    /\ switch.manual_kill_active /\ ~s.manual_kill_active
         => event = "MANUAL_KILL_DEACTIVATED"
    /\ switch.circuit_breaker_active /\ ~s.circuit_breaker_active
         => event = "CIRCUIT_BREAKER_DEACTIVATED"
    /\ switch.timeout_active /\ ~s.timeout_active
         => event = "TIMEOUT_DEACTIVATED"

\* Every change of the switches is noted with its result.
LEMMA SwitchesMove ==
    ASSUME TypeOK, SwitchStep
    PROVE  \E s \in KillSwitchState, event \in SwitchEvents :
              Switched(s, event) /\ OwnRelease(s, event)
<1>1. /\ switch \in KillSwitchState /\ now \in 0..MaxTime /\ MaxTime \in Nat
      /\ switch.manual_kill_active \in BOOLEAN
      /\ switch.circuit_breaker_active \in BOOLEAN
      /\ switch.timeout_active \in BOOLEAN
  BY BoundaryAssumption DEF TypeOK, KillSwitchState
<1> USE DEF SwitchEvents, OwnRelease
<1>2. CASE ActivateManualKill
  <2> DEFINE s == [switch EXCEPT !.manual_kill_active = TRUE]
  <2>1. s \in KillSwitchState /\ OwnRelease(s, "MANUAL_KILL_ACTIVATED")
    BY <1>1 DEF KillSwitchState
  <2> QED
    BY <1>2, <2>1 DEF ActivateManualKill
<1>3. CASE DeactivateManualKill
  <2> DEFINE s == [switch EXCEPT !.manual_kill_active = FALSE]
  <2>1. s \in KillSwitchState /\ OwnRelease(s, "MANUAL_KILL_DEACTIVATED")
    BY <1>1 DEF KillSwitchState
  <2> QED
    BY <1>3, <2>1 DEF DeactivateManualKill
<1>4. CASE ActivateCircuitBreaker
  <2> DEFINE s == [switch EXCEPT !.circuit_breaker_active = TRUE]
  <2>1. s \in KillSwitchState /\ OwnRelease(s, "CIRCUIT_BREAKER_ACTIVATED")
    BY <1>1 DEF KillSwitchState
  <2> QED
    BY <1>4, <2>1 DEF ActivateCircuitBreaker
<1>5. CASE DeactivateCircuitBreaker
  <2> DEFINE s == [switch EXCEPT !.circuit_breaker_active = FALSE]
  <2>1. s \in KillSwitchState /\ OwnRelease(s, "CIRCUIT_BREAKER_DEACTIVATED")
    BY <1>1 DEF KillSwitchState
  <2> QED
    BY <1>5, <2>1 DEF DeactivateCircuitBreaker
<1>6. CASE ActivateTimeout
  <2>1. PICK duration \in 1..MaxTime :
            Switched([switch EXCEPT !.timeout_active = TRUE, !.timeout_triggered_at = now,
                                    !.timeout_duration_seconds = duration],
                     "TIMEOUT_ACTIVATED")
    BY <1>6 DEF ActivateTimeout
  <2> DEFINE s == [switch EXCEPT !.timeout_active = TRUE, !.timeout_triggered_at = now,
                                 !.timeout_duration_seconds = duration]
  <2>2. s \in KillSwitchState /\ OwnRelease(s, "TIMEOUT_ACTIVATED")
    <3>1. duration \in Nat
      BY <1>1
    <3>2. /\ s.timeout_active = TRUE
          /\ s.manual_kill_active = switch.manual_kill_active
          /\ s.circuit_breaker_active = switch.circuit_breaker_active
      BY <1>1 DEF KillSwitchState
    <3>3. s \in KillSwitchState
      BY <1>1, <3>1 DEF KillSwitchState
    <3> HIDE DEF s
    <3> QED
      BY <3>2, <3>3
  <2>3. Switched(s, "TIMEOUT_ACTIVATED")
    BY <2>1
  <2>4. "TIMEOUT_ACTIVATED" \in SwitchEvents
    OBVIOUS
  <2> HIDE DEF s, SwitchEvents, OwnRelease
  <2> QED
    BY <2>2, <2>3, <2>4
<1>7. CASE DeactivateTimeout
  <2> DEFINE s == [switch EXCEPT !.timeout_active = FALSE]
  <2>1. s \in KillSwitchState /\ OwnRelease(s, "TIMEOUT_DEACTIVATED")
    BY <1>1 DEF KillSwitchState
  <2> QED
    BY <1>7, <2>1 DEF DeactivateTimeout
<1> QED
  BY <1>2, <1>3, <1>4, <1>5, <1>6, <1>7 DEF SwitchStep

\* What a change of the switches leaves in the history.
LEMMA HistoryGrows ==
    ASSUME TypeOK, NEW s \in KillSwitchState, NEW event \in SwitchEvents,
           Switched(s, event)
    PROVE  LET new == Len(history) + 1
           IN  /\ history' \in Seq(StateChange) /\ switch' = s
               /\ Len(history) \in Nat /\ DOMAIN history = 1..Len(history)
               /\ Len(history') = new /\ DOMAIN history' = DOMAIN history \cup {new}
               /\ \A n \in DOMAIN history : history'[n] = history[n]
               /\ history'[new].state_snapshot = s /\ history'[new].event_type = event
<1> DEFINE e == [event_type |-> event, state_snapshot |-> s]
<1>1. history \in Seq(StateChange) /\ e \in StateChange
      /\ e.event_type = event /\ e.state_snapshot = s
  BY DEF TypeOK, StateChange
<1>2. history' = Append(history, e) /\ switch' = s
  BY DEF Switched
<1> HIDE DEF e
<1>3. /\ history' \in Seq(StateChange) /\ Len(history') = Len(history) + 1
      /\ \A n \in 1..Len(history) : history'[n] = history[n]
      /\ history'[Len(history) + 1] = e
  BY <1>1, <1>2, AppendProperties
<1>4. Len(history) \in Nat /\ DOMAIN history = 1..Len(history)
      /\ DOMAIN history' = 1..Len(history')
  BY <1>1, <1>3, LenProperties
<1> QED
  BY <1>1, <1>2, <1>3, <1>4

\* The human's entries are no executions.
LEMMA HumanEntries ==
    ASSUME TypeOK, LogStep
    PROVE  /\ \E r \in ExecutionAuditRecord :
                 /\ AppendRecord(r)
                 /\ r.event_type \notin {"execution_started", "execution_completed"}
           /\ UNCHANGED <<now, switch, history, caller, orders>>
           /\ remarks' \in Nat
<1> {} \in Optional(ApprovalIds) /\ \A a \in ApprovalIds : {a} \in Optional(ApprovalIds)
  BY OptionalValues
<1>1. ASSUME NEW i \in IntentIds, LogIntentCreated(i)
      PROVE  /\ AppendRecord(Record("intent_created", i, {}))
             /\ Record("intent_created", i, {}) \in ExecutionAuditRecord
             /\ Record("intent_created", i, {}).event_type = "intent_created"
  BY <1>1, RecordType DEF LogIntentCreated, AuditEvents
<1>2. ASSUME NEW a \in ApprovalIds, LogApproval(a)
      PROVE  \E event \in {"approval_granted", "approval_rejected"} :
                /\ AppendRecord(Record(event, ApprovalForms[a].intent_id, {a}))
                /\ Record(event, ApprovalForms[a].intent_id, {a})
                      \in ExecutionAuditRecord
                /\ Record(event, ApprovalForms[a].intent_id, {a}).event_type = event
  <2> DEFINE event == IF ApprovalForms[a].approved THEN "approval_granted"
                      ELSE "approval_rejected"
  <2>1. ApprovalForms[a].intent_id \in IntentIds
    BY BoundaryAssumption DEF HumanExecutionApproval
  <2>2. event \in AuditEvents /\ event \in {"approval_granted", "approval_rejected"}
    BY DEF AuditEvents
  <2>3. AppendRecord(Record(event, ApprovalForms[a].intent_id, {a}))
    BY <1>2 DEF LogApproval
  <2> HIDE DEF event
  <2> QED
    BY <2>1, <2>2, <2>3, RecordType
<1>3. ASSUME LogSwitchChange
      PROVE  \E event \in {"kill_switch_activated", "kill_switch_deactivated"} :
                /\ AppendRecord(Record(event, "system", {}))
                /\ Record(event, "system", {}) \in ExecutionAuditRecord
                /\ Record(event, "system", {}).event_type = event
  <2> DEFINE event == IF history[remarks + 2].event_type \in Activations
                      THEN "kill_switch_activated" ELSE "kill_switch_deactivated"
  <2>1. event \in AuditEvents
        /\ event \in {"kill_switch_activated", "kill_switch_deactivated"}
    BY DEF AuditEvents
  <2>2. AppendRecord(Record(event, "system", {}))
    BY <1>3 DEF LogSwitchChange
  <2> HIDE DEF event
  <2> QED
    BY <2>1, <2>2, RecordType
<1>4. UNCHANGED <<now, switch, history, caller, orders>> /\ remarks' \in Nat
  <2>1. remarks \in Nat
    BY DEF TypeOK
  <2>2. ASSUME NEW a \in ApprovalIds, LogApproval(a)
        PROVE  UNCHANGED <<now, switchVars, caller, orders, remarks>>
    BY <2>2, Zenon DEF LogApproval
  <2> QED
    BY <2>1, <2>2 DEF LogStep, LogIntentCreated, LogSwitchChange, switchVars
<1> QED
  BY <1>1, <1>2, <1>3, <1>4 DEF LogStep

\* A caller that has come back is idle, and keeps its intent and approval.
LEMMA IdleType ==
    ASSUME TypeOK, NEW c \in Callers
    PROVE  Idle(c) \in Caller /\ Idle(c).at = "idle"
<1>1. caller[c] \in Caller /\ 0 \in Nat /\ 0 \in 0..MaxTime
  BY BoundaryAssumption DEF TypeOK
<1> QED
  BY <1>1 DEF Idle, Caller

\* What one step of a caller does to it; the record it writes is of the intent of
\* that caller.
LEMMA CallerMoves ==
    ASSUME TypeOK, NEW c \in Callers, CallerStep(c)
    PROVE  /\ UNCHANGED <<now, switch, history, remarks>>
           /\ \E r \in Caller : caller' = [caller EXCEPT ![c] = r]
           /\ \/ UNCHANGED <<log, file>>
              \/ \E event \in AuditEvents, i \in IntentIds :
                    AppendRecord(Record(event, i, {}))
           /\ orders' = orders \/ orders' = Append(orders, OrderOf(caller[c]))
<1> USE DEF AuditEvents, switchVars, logVars
<1>1. /\ caller \in [Callers -> Caller] /\ caller[c] \in Caller
      /\ caller[c].intent \in IntentIds
      /\ now \in 0..MaxTime /\ 0 \in 0..MaxTime
  BY BoundaryAssumption DEF TypeOK, Caller
<1>2. Idle(c) \in Caller
  BY IdleType
<1>3. ASSUME NEW job \in Jobs, AskHalted(c, job[1], job[2])
      PROVE  /\ UNCHANGED <<now, switch, history, remarks, orders>>
             /\ \E r \in Caller : caller' = [caller EXCEPT ![c] = r]
             /\ \/ UNCHANGED <<log, file>>
                \/ AppendRecord(Record("execution_failed", job[1], {}))
             /\ job[1] \in IntentIds
  <2>1. job[1] \in IntentIds /\ job[2] \in Optional(ApprovalIds)
    BY BoundaryAssumption
  <2>2. [at |-> "asked", intent |-> job[1], approval |-> job[2], switched |-> 0,
         checked_at |-> 0] \in Caller
    BY <1>1, <2>1 DEF Caller
  <2> QED
    BY <1>2, <1>3, <2>1, <2>2 DEF AskHalted
<1>4. ASSUME AskGuards(c)
      PROVE  /\ UNCHANGED <<now, switch, history, remarks, orders>>
             /\ \E r \in Caller : caller' = [caller EXCEPT ![c] = r]
             /\ \/ UNCHANGED <<log, file>>
                \/ AppendRecord(Record("execution_failed", caller[c].intent, {}))
  <2> DEFINE r == [caller[c] EXCEPT !.at = "checked", !.checked_at = now,
                                    !.switched = Len(history)]
  <2>1. Len(history) \in Nat
    BY LenProperties DEF TypeOK
  <2>2. r \in Caller
    BY <1>1, <2>1 DEF Caller
  <2>3. caller' = [caller EXCEPT ![c] = r] \/ caller' = [caller EXCEPT ![c] = Idle(c)]
    BY <1>1, <1>4 DEF AskGuards
  <2> HIDE DEF r
  <2> QED
    BY <1>2, <1>4, <2>2, <2>3 DEF AskGuards
<1>5. ASSUME NEW at \in {"started", "placed"}, caller' = [caller EXCEPT ![c].at = at]
      PROVE  \E r \in Caller : caller' = [caller EXCEPT ![c] = r]
  <2>1. [caller[c] EXCEPT !.at = at] \in Caller
    BY <1>1 DEF Caller
  <2> QED
    BY <1>5, <2>1
<1>6. CASE LogExecutionStarted(c)
  BY <1>1, <1>5, <1>6 DEF LogExecutionStarted
<1>7. CASE PlaceOrder(c)
  BY <1>5, <1>7 DEF PlaceOrder
<1>8. CASE OrderFails(c)
  BY <1>1, <1>2, <1>8 DEF OrderFails
<1>9. CASE LogExecutionCompleted(c)
  BY <1>1, <1>2, <1>9 DEF LogExecutionCompleted
<1> QED
  BY <1>1, <1>3, <1>4, <1>6, <1>7, <1>8, <1>9 DEF CallerStep

\* An order is what the caller was cleared for.
LEMMA OrdersGrow ==
    ASSUME TypeOK, NEW c \in Callers, orders' = Append(orders, OrderOf(caller[c]))
    PROVE  LET new == Len(orders) + 1
           IN  /\ orders' \in Seq(Order) /\ Len(orders) \in Nat
               /\ DOMAIN orders = 1..Len(orders)
               /\ DOMAIN orders' = DOMAIN orders \cup {new} /\ new \notin DOMAIN orders
               /\ \A k \in DOMAIN orders : orders'[k] = orders[k]
               /\ orders'[new] = OrderOf(caller[c])
<1>1. orders \in Seq(Order) /\ OrderOf(caller[c]) \in Order
  BY DEF TypeOK, Caller, OrderOf, Order
<1>2. /\ orders' \in Seq(Order) /\ Len(orders') = Len(orders) + 1
      /\ \A k \in 1..Len(orders) : orders'[k] = orders[k]
      /\ orders'[Len(orders) + 1] = OrderOf(caller[c])
  BY <1>1, AppendProperties
<1>3. Len(orders) \in Nat /\ DOMAIN orders = 1..Len(orders)
      /\ DOMAIN orders' = 1..Len(orders')
  BY <1>1, <1>2, LenProperties
<1>4. \A n \in Nat : 1..(n + 1) = (1..n) \cup {n + 1} /\ n + 1 \notin 1..n
  OBVIOUS
<1> QED
  BY <1>2, <1>3, <1>4

LEMMA TypeInit == Init => TypeOK
<1> SUFFICES ASSUME Init PROVE TypeOK
  OBVIOUS
<1>1. NoSwitch \in KillSwitchState
  BY BoundaryAssumption DEF NoSwitch, KillSwitchState
<1>2. history \in Seq(StateChange)
  <2>1. [event_type |-> "INIT", state_snapshot |-> NoSwitch] \in StateChange
    BY <1>1 DEF StateChange, SwitchEvents
  <2> QED
    BY <2>1 DEF Init
<1>3. caller \in [Callers -> Caller]
  <2>1. (CHOOSE i \in IntentIds : TRUE) \in IntentIds
    BY BoundaryAssumption
  <2>2. {} \in Optional(ApprovalIds) /\ 0 \in 0..MaxTime
    BY OptionalValues, BoundaryAssumption
  <2> QED
    BY <2>1, <2>2 DEF Init, Caller
<1> QED
  BY <1>1, <1>2, <1>3, BoundaryAssumption DEF Init, TypeOK

LEMMA TypeStep == TypeOK /\ [Next]_vars => TypeOK'
<1> SUFFICES ASSUME TypeOK, [Next]_vars PROVE TypeOK'
  OBVIOUS
<1>1. CASE SwitchStep
  <2>1. PICK s \in KillSwitchState, event \in SwitchEvents : Switched(s, event)
    BY <1>1, SwitchesMove
  <2>2. history' \in Seq(StateChange) /\ switch' = s
    BY <2>1, HistoryGrows
  <2> QED
    BY <2>1, <2>2 DEF Switched, logVars, TypeOK
<1>2. CASE LogStep
  <2>1. log' \in Seq(ExecutionAuditRecord) /\ file' \in Seq(ExecutionAuditRecord)
    BY <1>2, HumanEntries, LogGrows
  <2>2. UNCHANGED <<now, switch, history, caller, orders>> /\ remarks' \in Nat
    BY <1>2, HumanEntries
  <2> QED
    BY <2>1, <2>2 DEF TypeOK
<1>3. ASSUME NEW c \in Callers, CallerStep(c) PROVE TypeOK'
  <2>1. caller' \in [Callers -> Caller]
    BY <1>3, CallerMoves DEF TypeOK
  <2>2. orders' \in Seq(Order)
    <3>1. CASE orders' = orders
      BY <3>1 DEF TypeOK
    <3>2. CASE orders' = Append(orders, OrderOf(caller[c]))
      BY <3>2, OrdersGrow
    <3> QED
      BY <1>3, <3>1, <3>2, CallerMoves
  <2>3. log' \in Seq(ExecutionAuditRecord) /\ file' \in Seq(ExecutionAuditRecord)
    <3>1. CASE UNCHANGED <<log, file>>
      BY <3>1 DEF TypeOK
    <3>2. ASSUME NEW event \in AuditEvents, NEW i \in IntentIds,
                 AppendRecord(Record(event, i, {}))
          PROVE  log' \in Seq(ExecutionAuditRecord)
                 /\ file' \in Seq(ExecutionAuditRecord)
      BY <3>2, RecordType, OptionalValues, LogGrows
    <3> QED
      BY <1>3, <3>1, <3>2, CallerMoves
  <2>4. UNCHANGED <<now, switch, history, remarks>>
    BY <1>3, CallerMoves
  <2> QED
    BY <2>1, <2>2, <2>3, <2>4 DEF TypeOK
<1>4. CASE Tick
  BY <1>4, BoundaryAssumption DEF Tick, switchVars, logVars, TypeOK
<1>5. CASE UNCHANGED vars
  BY <1>5 DEF vars, TypeOK
<1> QED
  BY <1>1, <1>2, <1>3, <1>4, <1>5 DEF Next, SwitchStep, LogStep, CallerStep

-----------------------------------------------------------------------------
(* What the history carries *)

\* The last entry of the history is the state of the switches.
HistoryIsCurrent ==
    Len(history) > 0 /\ SwitchAt(Len(history)) = switch

\* One approval was for the intent and valid when the guards were asked, and no
\* switch was on then, as history h has it.
Cleared(h, o) ==
    /\ o.switched \in DOMAIN h
    /\ ~Halted(h[o.switched].state_snapshot)
    /\ \E a \in o.approval :
          /\ ApprovalForms[a].intent_id = o.intent /\ ApprovalForms[a].approved
          /\ \A e \in ApprovalForms[a].expires_at : o.checked_at < e

PastGuards == {"checked", "started", "placed"}

\* The callers that have passed the guards, and the orders, were cleared.
ClearInv ==
    /\ TypeOK
    /\ HistoryIsCurrent
    /\ \A c \in Callers : caller[c].at \in PastGuards => Cleared(history, caller[c])
    /\ \A k \in DOMAIN orders : Cleared(history, orders[k])

\* The guards clear the caller for what it asked, by the switches of the moment.
LEMMA GuardsClear ==
    ASSUME ClearInv, NEW c \in Callers,
           ExecuteAllChecks(caller[c].intent, caller[c].approval),
           NEW r \in Caller, r.intent = caller[c].intent,
           r.approval = caller[c].approval, r.switched = Len(history),
           r.checked_at = now
    PROVE  Cleared(history, r)
<1>1. SwitchAt(Len(history)) = switch /\ Len(history) \in DOMAIN history
  BY LenProperties DEF ClearInv, TypeOK, HistoryIsCurrent
<1>2. ~Halted(switch)
  BY DEF ExecuteAllChecks, CheckKillSwitch, Halted
<1>3. caller[c].approval # {}
      /\ \A a \in caller[c].approval :
            /\ ApprovalForms[a].intent_id = caller[c].intent /\ ApprovalForms[a].approved
            /\ \A e \in ApprovalForms[a].expires_at : now < e
  BY DEF ExecuteAllChecks, CheckExplicitApproval, IsValid
<1> QED
  BY <1>1, <1>2, <1>3 DEF Cleared, SwitchAt

\* A caller past the guards has what it was cleared for, or was cleared just now.
LEMMA CallersStayCleared ==
    ASSUME ClearInv, NEW c \in Callers, CallerStep(c), NEW d \in Callers,
           caller'[d].at \in PastGuards
    PROVE  Cleared(history, caller'[d])
<1> USE DEF PastGuards
<1>1. caller \in [Callers -> Caller] /\ caller[c] \in Caller /\ TypeOK
  BY DEF ClearInv, TypeOK
<1>2. CASE d # c
  <2>1. caller'[d] = caller[d]
    BY <1>1, <1>2, CallerMoves
  <2> QED
    BY <2>1 DEF ClearInv
<1>3. CASE d = c
  <2>1. Idle(c).at = "idle" /\ Idle(c) \in Caller
    BY <1>1, IdleType
  <2>2. ASSUME NEW job \in Jobs, AskHalted(c, job[1], job[2]) PROVE FALSE
    BY <1>1, <1>3, <2>1, <2>2 DEF AskHalted
  <2>3. CASE AskGuards(c)
    <3> DEFINE r == [caller[c] EXCEPT !.at = "checked", !.checked_at = now,
                                      !.switched = Len(history)]
    <3>1. now \in 0..MaxTime /\ Len(history) \in Nat
      BY LenProperties, <1>1 DEF TypeOK
    <3>2. r \in Caller /\ r.intent = caller[c].intent
          /\ r.approval = caller[c].approval /\ r.switched = Len(history)
          /\ r.checked_at = now
      BY <1>1, <3>1 DEF Caller
    <3>3. caller' = [caller EXCEPT ![c] = r]
          /\ ExecuteAllChecks(caller[c].intent, caller[c].approval)
      <4>1. ~ caller' = [caller EXCEPT ![c] = Idle(c)]
        BY <1>1, <1>3, <2>1
      <4> QED
        BY <2>3, <4>1 DEF AskGuards
    <3> HIDE DEF r
    <3> QED
      BY <1>1, <1>3, <3>2, <3>3, GuardsClear
  <2>4. CASE LogExecutionStarted(c) \/ PlaceOrder(c)
    <3>1. caller[c].at \in PastGuards
      BY <2>4 DEF LogExecutionStarted, PlaceOrder
    <3>2. /\ caller'[c].intent = caller[c].intent
          /\ caller'[c].approval = caller[c].approval
          /\ caller'[c].switched = caller[c].switched
          /\ caller'[c].checked_at = caller[c].checked_at
      BY <1>1, <2>4 DEF LogExecutionStarted, PlaceOrder, Caller
    <3> QED
      BY <1>3, <3>1, <3>2 DEF ClearInv, Cleared
  <2>5. ASSUME OrderFails(c) \/ LogExecutionCompleted(c) PROVE FALSE
    BY <1>1, <1>3, <2>1, <2>5 DEF OrderFails, LogExecutionCompleted
  <2> QED
    BY <2>2, <2>3, <2>4, <2>5 DEF CallerStep
<1> QED
  BY <1>2, <1>3

LEMMA ClearInit == Init => ClearInv
<1> SUFFICES ASSUME Init PROVE ClearInv
  OBVIOUS
<1>1. \A c \in Callers : caller[c].at = "idle"
  BY DEF Init
<1> QED
  BY <1>1, TypeInit DEF Init, ClearInv, HistoryIsCurrent, SwitchAt, PastGuards

LEMMA ClearStep == ClearInv /\ [Next]_vars => ClearInv'
<1> SUFFICES ASSUME ClearInv, [Next]_vars PROVE ClearInv'
  OBVIOUS
<1> TypeOK /\ TypeOK'
  BY TypeStep DEF ClearInv
<1>1. ASSUME UNCHANGED <<history, switch, caller, orders>> PROVE ClearInv'
  BY <1>1 DEF ClearInv, HistoryIsCurrent, SwitchAt
<1>2. CASE SwitchStep
  <2>1. PICK s \in KillSwitchState, event \in SwitchEvents : Switched(s, event)
    BY <1>2, SwitchesMove
  <2>2. UNCHANGED <<caller, orders>>
    BY <2>1 DEF Switched
  <2>3. /\ switch' = s /\ Len(history) \in Nat /\ Len(history') = Len(history) + 1
        /\ DOMAIN history \subseteq DOMAIN history'
        /\ \A n \in DOMAIN history : history'[n] = history[n]
        /\ history'[Len(history) + 1].state_snapshot = s
    BY <2>1, HistoryGrows
  <2>4. HistoryIsCurrent'
    BY <2>3 DEF HistoryIsCurrent, SwitchAt
  <2>5. \A o : Cleared(history, o) => Cleared(history', o)
    BY <2>3 DEF Cleared
  <2> QED
    BY <2>2, <2>4, <2>5 DEF ClearInv
<1>3. CASE LogStep
  BY <1>1, <1>3, HumanEntries
<1>4. ASSUME NEW c \in Callers, CallerStep(c) PROVE ClearInv'
  <2>1. UNCHANGED <<switch, history>>
    BY <1>4, CallerMoves
  <2>2. \A d \in Callers : caller'[d].at \in PastGuards => Cleared(history, caller'[d])
    BY <1>4, CallersStayCleared
  <2>3. \A k \in DOMAIN orders' : Cleared(history, orders'[k])
    <3>1. CASE orders' = orders
      BY <3>1 DEF ClearInv
    <3>2. CASE orders' # orders
      <4>1. PlaceOrder(c)
        BY <1>4, <3>2 DEF CallerStep, AskHalted, AskGuards, LogExecutionStarted,
           OrderFails, LogExecutionCompleted
      <4>2. orders' = Append(orders, OrderOf(caller[c])) /\ caller[c].at = "started"
        BY <4>1 DEF PlaceOrder
      <4>3. Cleared(history, OrderOf(caller[c]))
        BY <4>2 DEF ClearInv, Cleared, OrderOf, PastGuards
      <4> QED
        BY <4>2, <4>3, OrdersGrow DEF ClearInv
    <3> QED
      BY <3>1, <3>2
  <2> QED
    BY <2>1, <2>2, <2>3 DEF ClearInv, HistoryIsCurrent, SwitchAt
<1>5. CASE Tick \/ UNCHANGED vars
  BY <1>1, <1>5 DEF Tick, switchVars, vars
<1> QED
  BY <1>2, <1>3, <1>4, <1>5 DEF Next, SwitchStep, LogStep, CallerStep

-----------------------------------------------------------------------------
(* What the log accounts for *)

\* One more record is one more of its kind for its intent.
LEMMA CountAfter ==
    ASSUME TypeOK, NEW r \in ExecutionAuditRecord, AppendRecord(r),
           NEW i \in IntentIds, NEW event \in AuditEvents
    PROVE  /\ Cardinality(GetLogs({i}, {event})) \in Nat
           /\ Cardinality(GetLogs({i}, {event})') =
                 IF r.intent_id = i /\ r.event_type = event
                 THEN Cardinality(GetLogs({i}, {event})) + 1
                 ELSE Cardinality(GetLogs({i}, {event}))
<1> DEFINE new == Len(log) + 1
<1> DEFINE L == GetLogs({i}, {event})
<1>1. /\ Len(log) \in Nat /\ DOMAIN log = 1..Len(log)
      /\ DOMAIN log' = DOMAIN log \cup {new} /\ new \notin DOMAIN log
      /\ \A k \in DOMAIN log : log'[k] = log[k]
      /\ log'[new] = r
  BY LogGrows
<1>2. IsFiniteSet(L) /\ Cardinality(L) \in Nat /\ new \notin L
  <2>1. L \subseteq 1..Len(log)
    BY <1>1 DEF GetLogs
  <2>2. IsFiniteSet(1..Len(log))
    BY <1>1, FS_Interval
  <2>3. IsFiniteSet(L)
    BY <2>1, <2>2, FS_Subset
  <2> QED
    BY <1>1, <2>1, <2>3, FS_CardinalityType
<1> HIDE DEF new
<1>3. CASE r.intent_id = i /\ r.event_type = event
  <2>1. GetLogs({i}, {event})' = L \cup {new}
    BY <1>1, <1>3 DEF GetLogs
  <2>2. Cardinality(L \cup {new}) = Cardinality(L) + 1
    BY <1>2, FS_AddElement
  <2> QED
    BY <1>2, <1>3, <2>1, <2>2
<1>4. CASE ~(r.intent_id = i /\ r.event_type = event)
  <2>1. GetLogs({i}, {event})' = L
    BY <1>1, <1>4 DEF GetLogs
  <2> QED
    BY <1>2, <1>4, <2>1
<1> QED
  BY <1>3, <1>4

\* 1 if q is at a step for an intent.
Mine(q, step, i) == IF q.at = step /\ q.intent = i THEN 1 ELSE 0

\* A caller leaves the step it was at for the one it is at now.
LEMMA InFlightAfter ==
    ASSUME TypeOK, NEW c \in Callers, NEW r \in Caller,
           caller' = [caller EXCEPT ![c] = r], NEW step \in {"started", "placed"}, NEW i \in IntentIds
    PROVE  /\ Cardinality(InFlight(step, i)) \in Nat
           /\ Cardinality(InFlight(step, i))' =
                 Cardinality(InFlight(step, i))
                 - Mine(caller[c], step, i) + Mine(r, step, i)
<1> DEFINE F == InFlight(step, i)
<1> DEFINE G == F \ {c}
<1>1. caller'[c] = r /\ \A d \in Callers \ {c} : caller'[d] = caller[d]
  BY DEF TypeOK
<1>2. IsFiniteSet(F) /\ IsFiniteSet(G) /\ Cardinality(F) \in Nat /\ Cardinality(G) \in Nat
  <2>1. F \subseteq Callers /\ G \subseteq Callers
    BY DEF InFlight
  <2>2. IsFiniteSet(F) /\ IsFiniteSet(G)
    BY <2>1, BoundaryAssumption, FS_Subset
  <2> QED
    BY <2>2, FS_CardinalityType
<1>3. Cardinality(G \cup {c}) = Cardinality(G) + 1
  BY <1>2, FS_AddElement
<1>4. F = IF caller[c].at = step /\ caller[c].intent = i THEN G \cup {c} ELSE G
  BY DEF InFlight
<1>5. (InFlight(step, i))' = IF r.at = step /\ r.intent = i THEN G \cup {c} ELSE G
  BY <1>1 DEF InFlight
<1> HIDE DEF F, G
<1> QED
  BY <1>2, <1>3, <1>4, <1>5 DEF F, Mine

LEMMA PlacedAfter ==
    ASSUME TypeOK, NEW c \in Callers, orders' = Append(orders, OrderOf(caller[c])),
           NEW i
    PROVE  Cardinality(Placed(i))' =
              IF caller[c].intent = i THEN Cardinality(Placed(i)) + 1
              ELSE Cardinality(Placed(i))
<1> DEFINE new == Len(orders) + 1
<1>1. /\ Len(orders) \in Nat /\ DOMAIN orders = 1..Len(orders)
      /\ DOMAIN orders' = DOMAIN orders \cup {new} /\ new \notin DOMAIN orders
      /\ \A k \in DOMAIN orders : orders'[k] = orders[k]
      /\ orders'[new] = OrderOf(caller[c])
  BY OrdersGrow
<1>2. IsFiniteSet(Placed(i)) /\ new \notin Placed(i)
  <2>1. Placed(i) \subseteq 1..Len(orders) /\ IsFiniteSet(1..Len(orders))
    BY <1>1, FS_Interval DEF Placed
  <2> QED
    BY <1>1, <2>1, FS_Subset DEF Placed
<1>3. orders'[new].intent = caller[c].intent
  BY <1>1 DEF OrderOf
<1> HIDE DEF new
<1>4. CASE caller[c].intent = i
  <2>1. Placed(i)' = Placed(i) \cup {new}
    BY <1>1, <1>3, <1>4 DEF Placed
  <2>2. Cardinality(Placed(i) \cup {new}) = Cardinality(Placed(i)) + 1
    BY <1>2, FS_AddElement
  <2> QED
    BY <1>4, <2>1, <2>2
<1>5. CASE caller[c].intent # i
  <2>1. Placed(i)' = Placed(i)
    BY <1>1, <1>3, <1>5 DEF Placed
  <2> QED
    BY <1>5, <2>1
<1> QED
  BY <1>4, <1>5

LEMMA PlacedType ==
    ASSUME TypeOK, NEW i
    PROVE  Cardinality(Placed(i)) \in Nat
<1>1. Placed(i) \subseteq 1..Len(orders) /\ Len(orders) \in Nat
  <2>1. orders \in Seq(Order)
    BY DEF TypeOK
  <2>2. Len(orders) \in Nat /\ DOMAIN orders = 1..Len(orders)
    BY <2>1, LenProperties
  <2> QED
    BY <2>2 DEF Placed
<1>2. IsFiniteSet(Placed(i))
  <2>1. IsFiniteSet(1..Len(orders))
    BY <1>1, FS_Interval
  <2> QED
    BY <1>1, <2>1, FS_Subset
<1> QED
  BY <1>2, FS_CardinalityType

\* A caller that was cleared has its intent in the log, and one that has begun its
\* start after it.
AccountInv ==
    /\ TypeOK
    /\ AuditAccountsForOrders
    /\ \A c \in Callers :
          /\ caller[c].at \in PastGuards => Logged("intent_created", caller[c].intent)
          /\ caller[c].at \in {"started", "placed"} => StartIsShown(caller[c].intent)

\* What the log has shown it keeps showing.
LEMMA ShownStays ==
    ASSUME TypeOK, NEW r \in ExecutionAuditRecord, AppendRecord(r), NEW i \in IntentIds
    PROVE  /\ Logged("intent_created", i) => Logged("intent_created", i)'
           /\ StartIsShown(i) => StartIsShown(i)'
           /\ Logged("intent_created", i) /\ r.intent_id = i
                 /\ r.event_type = "execution_started" => StartIsShown(i)'
<1> DEFINE new == Len(log) + 1
<1>1. /\ Len(log) \in Nat /\ DOMAIN log = 1..Len(log)
      /\ DOMAIN log' = DOMAIN log \cup {new}
      /\ \A k \in DOMAIN log : log'[k] = log[k]
      /\ log'[new] = r
  BY LogGrows
<1>0. \A k \in DOMAIN log : k < new
  BY <1>1
<1> HIDE DEF new
<1>2. Logged("intent_created", i) => Logged("intent_created", i)'
  BY <1>1 DEF Logged
<1>3. ASSUME StartIsShown(i) PROVE StartIsShown(i)'
  <2>1. PICK j, k \in DOMAIN log :
           /\ j < k /\ log[j].intent_id = i /\ log[j].event_type = "intent_created"
           /\ log[k].intent_id = i /\ log[k].event_type = "execution_started"
    BY <1>3 DEF StartIsShown
  <2>2. /\ j \in DOMAIN log' /\ k \in DOMAIN log'
        /\ log'[j] = log[j] /\ log'[k] = log[k]
    BY <1>1, <2>1
  <2> QED
    BY <2>1, <2>2 DEF StartIsShown
<1>4. ASSUME Logged("intent_created", i), r.intent_id = i,
             r.event_type = "execution_started"
      PROVE  StartIsShown(i)'
  <2>1. PICK j \in DOMAIN log : log[j].event_type = "intent_created" /\ log[j].intent_id = i
    BY <1>4 DEF Logged
  <2>2. /\ j \in DOMAIN log' /\ new \in DOMAIN log' /\ j < new
        /\ log'[j].intent_id = i /\ log'[j].event_type = "intent_created"
        /\ log'[new].intent_id = i /\ log'[new].event_type = "execution_started"
    BY <1>0, <1>1, <1>4, <2>1
  <2> QED
    BY <2>2 DEF StartIsShown
<1> QED
  BY <1>2, <1>3, <1>4

\* The balance for one intent, and what is known of a single caller.
Balanced(i) ==
    /\ Cardinality(Placed(i)) = Cardinality(GetLogs({i}, {"execution_completed"}))
                               + Cardinality(InFlight("placed", i))
    /\ Cardinality(Placed(i)) + Cardinality(InFlight("started", i))
          <= Cardinality(GetLogs({i}, {"execution_started"}))

Justified(q) ==
    /\ q.at \in PastGuards => Logged("intent_created", q.intent)
    /\ q.at \in {"started", "placed"} => StartIsShown(q.intent)

LEMMA AccountParts ==
    /\ AccountInv <=>
         /\ TypeOK /\ \A i \in IntentIds : Balanced(i) /\ (Placed(i) # {} => StartIsShown(i))
         /\ \A c \in Callers : Justified(caller[c])
    /\ AccountInv' <=>
         /\ TypeOK'
         /\ \A i \in IntentIds : Balanced(i)' /\ (Placed(i)' # {} => StartIsShown(i)')
         /\ \A c \in Callers : Justified(caller[c])'
BY DEF AccountInv, AuditAccountsForOrders, Balanced, Justified

\* A record that is no start and no completion, or a step without a record, changes
\* no count of the log.
LEMMA OtherRecords ==
    ASSUME AccountInv, NEW i \in IntentIds,
           \/ log' = log
           \/ \E r \in ExecutionAuditRecord :
                 /\ AppendRecord(r)
                 /\ r.event_type \notin {"execution_started", "execution_completed"}
    PROVE  /\ Cardinality(GetLogs({i}, {"execution_completed"}))'
                 = Cardinality(GetLogs({i}, {"execution_completed"}))
           /\ Cardinality(GetLogs({i}, {"execution_started"}))'
                 = Cardinality(GetLogs({i}, {"execution_started"}))
           /\ Logged("intent_created", i) => Logged("intent_created", i)'
           /\ StartIsShown(i) => StartIsShown(i)'
<1> TypeOK
  BY DEF AccountInv
<1>1. CASE log' = log
  BY <1>1 DEF GetLogs, Logged, StartIsShown
<1>2. ASSUME NEW r \in ExecutionAuditRecord, AppendRecord(r),
             r.event_type \notin {"execution_started", "execution_completed"}
      PROVE  /\ Cardinality(GetLogs({i}, {"execution_completed"}))'
                   = Cardinality(GetLogs({i}, {"execution_completed"}))
             /\ Cardinality(GetLogs({i}, {"execution_started"}))'
                   = Cardinality(GetLogs({i}, {"execution_started"}))
             /\ Logged("intent_created", i) => Logged("intent_created", i)'
             /\ StartIsShown(i) => StartIsShown(i)'
  <2>1. "execution_completed" \in AuditEvents /\ "execution_started" \in AuditEvents
    BY DEF AuditEvents
  <2> QED
    BY <1>2, <2>1, CountAfter, ShownStays
<1> QED
  BY <1>1, <1>2

LEMMA LogsType ==
    ASSUME TypeOK, NEW i, NEW event
    PROVE  Cardinality(GetLogs({i}, {event})) \in Nat
<1>1. GetLogs({i}, {event}) \subseteq 1..Len(log) /\ Len(log) \in Nat
  <2>1. log \in Seq(ExecutionAuditRecord)
    BY DEF TypeOK
  <2>2. Len(log) \in Nat /\ DOMAIN log = 1..Len(log)
    BY <2>1, LenProperties
  <2> QED
    BY <2>2 DEF GetLogs
<1>2. IsFiniteSet(GetLogs({i}, {event}))
  <2>1. IsFiniteSet(1..Len(log))
    BY <1>1, FS_Interval
  <2> QED
    BY <1>1, <2>1, FS_Subset
<1> QED
  BY <1>2, FS_CardinalityType

\* The guards pass only what the log shows.
LEMMA GuardsSeeIntent ==
    ASSUME NEW i, NEW approval, ExecuteAllChecks(i, approval)
    PROVE  Logged("intent_created", i)
<1>1. PICK a \in approval : TRUE
  BY DEF ExecuteAllChecks, CheckExplicitApproval
<1>2. GetLogs({i}, {"intent_created"}) # {}
  BY <1>1 DEF ExecuteAllChecks, CheckAuditTrail
<1> QED
  BY <1>2 DEF GetLogs, Logged


\* What a caller's step means for the books: nothing, a start, an order or a
\* completion.
Quiet(c, r) ==
    /\ caller[c].at # "placed" /\ r.at \in {"idle", "asked", "checked"}
    /\ r.at = "checked" => Logged("intent_created", r.intent)
    /\ orders' = orders
    /\ \/ log' = log
       \/ \E e \in ExecutionAuditRecord :
             /\ AppendRecord(e)
             /\ e.event_type \notin {"execution_started", "execution_completed"}

Starts(c, r) ==
    /\ caller[c].at = "checked" /\ r.at = "started" /\ r.intent = caller[c].intent
    /\ orders' = orders
    /\ AppendRecord(Record("execution_started", caller[c].intent, {}))

Orders(c, r) ==
    /\ caller[c].at = "started" /\ r.at = "placed" /\ r.intent = caller[c].intent
    /\ orders' = Append(orders, OrderOf(caller[c]))
    /\ log' = log

Completes(c, r) ==
    /\ caller[c].at = "placed" /\ r.at = "idle"
    /\ orders' = orders
    /\ AppendRecord(Record("execution_completed", caller[c].intent, {}))

LEMMA FailureIsNoStart ==
    ASSUME NEW i \in IntentIds
    PROVE  /\ Record("execution_failed", i, {}) \in ExecutionAuditRecord
           /\ Record("execution_failed", i, {}).event_type
                 \notin {"execution_started", "execution_completed"}
<1>1. "execution_failed" \in AuditEvents /\ {} \in Optional(ApprovalIds)
  BY OptionalValues DEF AuditEvents
<1>2. /\ Record("execution_failed", i, {}) \in ExecutionAuditRecord
      /\ Record("execution_failed", i, {}).event_type = "execution_failed"
  BY <1>1, RecordType
<1> QED
  BY <1>2

LEMMA CallerBooks ==
    ASSUME TypeOK, NEW c \in Callers, CallerStep(c)
    PROVE  \E r \in Caller :
              /\ caller' = [caller EXCEPT ![c] = r]
              /\ Quiet(c, r) \/ Starts(c, r) \/ Orders(c, r) \/ Completes(c, r)
<1>1. /\ caller \in [Callers -> Caller] /\ caller[c] \in Caller
      /\ caller[c].intent \in IntentIds
      /\ now \in 0..MaxTime /\ 0 \in 0..MaxTime
  BY BoundaryAssumption DEF TypeOK, Caller
<1>2. Idle(c) \in Caller /\ Idle(c).at = "idle"
  <2>1. Idle(c).at = "idle"
    BY <1>1 DEF Idle, Caller
  <2> QED
    BY <2>1, IdleType
<1>3. ASSUME NEW job \in Jobs, AskHalted(c, job[1], job[2])
      PROVE  \E r \in Caller : caller' = [caller EXCEPT ![c] = r] /\ Quiet(c, r)
  <2>1. job[1] \in IntentIds /\ job[2] \in Optional(ApprovalIds)
    BY BoundaryAssumption
  <2> DEFINE asked == [at |-> "asked", intent |-> job[1], approval |-> job[2],
                       switched |-> 0, checked_at |-> 0]
  <2>2. asked \in Caller /\ asked.at = "asked"
    BY <1>1, <2>1 DEF Caller
  <2>3. caller[c].at = "idle" /\ orders' = orders
    BY <1>3 DEF AskHalted
  <2>4. CASE Halted(switch)
    <3>1. /\ caller' = [caller EXCEPT ![c] = Idle(c)]
          /\ AppendRecord(Record("execution_failed", job[1], {}))
      BY <1>3, <2>4 DEF AskHalted
    <3>2. Quiet(c, Idle(c))
      BY <1>2, <2>1, <2>3, <3>1, FailureIsNoStart DEF Quiet
    <3> QED
      BY <1>2, <3>1, <3>2
  <2>5. CASE ~Halted(switch)
    <3>1. caller' = [caller EXCEPT ![c] = asked] /\ log' = log
      BY <1>3, <2>5 DEF AskHalted, logVars
    <3> HIDE DEF asked
    <3>2. Quiet(c, asked)
      BY <2>2, <2>3, <3>1 DEF Quiet
    <3> QED
      BY <2>2, <3>1, <3>2
  <2> QED
    BY <2>4, <2>5
<1>4. ASSUME AskGuards(c)
      PROVE  \E r \in Caller : caller' = [caller EXCEPT ![c] = r] /\ Quiet(c, r)
  <2> DEFINE r == [caller[c] EXCEPT !.at = "checked", !.checked_at = now,
                                    !.switched = Len(history)]
  <2>1. Len(history) \in Nat
    BY LenProperties DEF TypeOK
  <2>2. r \in Caller
    BY <1>1, <2>1 DEF Caller
  <2>3. r.at = "checked" /\ r.intent = caller[c].intent
    BY <1>1 DEF Caller
  <2>4. caller[c].at = "asked" /\ orders' = orders
    BY <1>4 DEF AskGuards
  <2>5. CASE ExecuteAllChecks(caller[c].intent, caller[c].approval)
    <3>1. caller' = [caller EXCEPT ![c] = r] /\ log' = log
      BY <1>1, <1>4, <2>5 DEF AskGuards, logVars
    <3>2. Logged("intent_created", caller[c].intent)
      BY <2>5, GuardsSeeIntent
    <3> HIDE DEF r
    <3>3. Quiet(c, r)
      BY <2>3, <2>4, <3>1, <3>2 DEF Quiet
    <3> QED
      BY <2>2, <3>1, <3>3
  <2>6. CASE ~ExecuteAllChecks(caller[c].intent, caller[c].approval)
    <3>1. /\ caller' = [caller EXCEPT ![c] = Idle(c)]
          /\ AppendRecord(Record("execution_failed", caller[c].intent, {}))
      BY <1>4, <2>6 DEF AskGuards
    <3>2. Quiet(c, Idle(c))
      BY <1>1, <1>2, <2>4, <3>1, FailureIsNoStart DEF Quiet
    <3> QED
      BY <1>2, <3>1, <3>2
  <2> QED
    BY <2>5, <2>6
<1>5. ASSUME LogExecutionStarted(c)
      PROVE  \E r \in Caller : caller' = [caller EXCEPT ![c] = r] /\ Starts(c, r)
  <2> DEFINE r == [caller[c] EXCEPT !.at = "started"]
  <2>1. r \in Caller /\ r.at = "started" /\ r.intent = caller[c].intent
    BY <1>1 DEF Caller
  <2>2. caller' = [caller EXCEPT ![c] = r]
    BY <1>1, <1>5 DEF LogExecutionStarted
  <2> HIDE DEF r
  <2>3. Starts(c, r)
    BY <1>5, <2>1 DEF LogExecutionStarted, Starts
  <2> QED
    BY <2>1, <2>2, <2>3
<1>6. ASSUME PlaceOrder(c)
      PROVE  \E r \in Caller : caller' = [caller EXCEPT ![c] = r] /\ Orders(c, r)
  <2> DEFINE r == [caller[c] EXCEPT !.at = "placed"]
  <2>1. r \in Caller /\ r.at = "placed" /\ r.intent = caller[c].intent
    BY <1>1 DEF Caller
  <2>2. caller' = [caller EXCEPT ![c] = r]
    BY <1>1, <1>6 DEF PlaceOrder
  <2> HIDE DEF r
  <2>3. Orders(c, r)
    BY <1>6, <2>1 DEF PlaceOrder, Orders, logVars
  <2> QED
    BY <2>1, <2>2, <2>3
<1>7. ASSUME OrderFails(c)
      PROVE  \E r \in Caller : caller' = [caller EXCEPT ![c] = r] /\ Quiet(c, r)
  <2>1. /\ caller[c].at = "started" /\ orders' = orders
        /\ caller' = [caller EXCEPT ![c] = Idle(c)]
        /\ AppendRecord(Record("execution_failed", caller[c].intent, {}))
    BY <1>7 DEF OrderFails
  <2>2. Quiet(c, Idle(c))
    BY <1>1, <1>2, <2>1, FailureIsNoStart DEF Quiet
  <2> QED
    BY <1>2, <2>1, <2>2
<1>8. ASSUME LogExecutionCompleted(c)
      PROVE  \E r \in Caller : caller' = [caller EXCEPT ![c] = r] /\ Completes(c, r)
  BY <1>2, <1>8 DEF LogExecutionCompleted, Completes
<1> QED
  BY <1>3, <1>4, <1>5, <1>6, <1>7, <1>8 DEF CallerStep

\* The callers that did not move stay justified, if the log keeps what it showed.
LEMMA OthersStayJustified ==
    ASSUME AccountInv, NEW c \in Callers, NEW r \in Caller,
           caller' = [caller EXCEPT ![c] = r],
           \A i \in IntentIds : /\ Logged("intent_created", i) => Logged("intent_created", i)'
                                /\ StartIsShown(i) => StartIsShown(i)',
           Justified(r)'
    PROVE  \A d \in Callers : Justified(caller[d])'
<1>1. /\ caller \in [Callers -> Caller]
      /\ \A d \in Callers : Justified(caller[d]) /\ caller[d].intent \in IntentIds
  BY AccountParts DEF TypeOK, Caller
<1> SUFFICES ASSUME NEW d \in Callers PROVE Justified(caller[d])'
  OBVIOUS
<1>2. CASE d = c
  <2>1. caller'[d] = r
    BY <1>1, <1>2
  <2> QED
    BY <2>1 DEF Justified
<1>3. CASE d # c
  <2>1. caller'[d] = caller[d]
    BY <1>1, <1>3
  <2> QED
    BY <1>1, <2>1 DEF Justified
<1> QED
  BY <1>2, <1>3

\* The numbers of the balance for an intent, before and after a caller's move.
LEMMA MovedCounts ==
    ASSUME TypeOK, NEW c \in Callers, NEW r \in Caller,
           caller' = [caller EXCEPT ![c] = r], NEW i \in IntentIds
    PROVE  /\ Cardinality(InFlight("started", i)) \in Nat
           /\ Cardinality(InFlight("placed", i)) \in Nat
           /\ Cardinality(Placed(i)) \in Nat
           /\ Cardinality(GetLogs({i}, {"execution_completed"})) \in Nat
           /\ Cardinality(GetLogs({i}, {"execution_started"})) \in Nat
           /\ Cardinality(InFlight("started", i))' =
                 Cardinality(InFlight("started", i))
                 - Mine(caller[c], "started", i) + Mine(r, "started", i)
           /\ Cardinality(InFlight("placed", i))' =
                 Cardinality(InFlight("placed", i))
                 - Mine(caller[c], "placed", i) + Mine(r, "placed", i)
<1>1. "started" \in {"started", "placed"} /\ "placed" \in {"started", "placed"}
  OBVIOUS
<1>2. /\ Cardinality(InFlight("started", i)) \in Nat
      /\ Cardinality(InFlight("started", i))' =
            Cardinality(InFlight("started", i))
            - Mine(caller[c], "started", i) + Mine(r, "started", i)
  BY <1>1, InFlightAfter
<1>3. /\ Cardinality(InFlight("placed", i)) \in Nat
      /\ Cardinality(InFlight("placed", i))' =
            Cardinality(InFlight("placed", i))
            - Mine(caller[c], "placed", i) + Mine(r, "placed", i)
  BY <1>1, InFlightAfter
<1>4. /\ Cardinality(Placed(i)) \in Nat
      /\ Cardinality(GetLogs({i}, {"execution_completed"})) \in Nat
      /\ Cardinality(GetLogs({i}, {"execution_started"})) \in Nat
  BY PlacedType, LogsType
<1> QED
  BY <1>2, <1>3, <1>4

\* The books after each kind of step.
BooksKept ==
    /\ \A i \in IntentIds :
          /\ Balanced(i)' /\ (Placed(i)' # {} => StartIsShown(i)')
          /\ Logged("intent_created", i) => Logged("intent_created", i)'
          /\ StartIsShown(i) => StartIsShown(i)'

LEMMA QuietBooks ==
    ASSUME AccountInv, NEW c \in Callers, NEW r \in Caller,
           caller' = [caller EXCEPT ![c] = r], Quiet(c, r)
    PROVE  BooksKept /\ Justified(r)'
<1>0. TypeOK /\ caller[c] \in Caller /\ r.intent \in IntentIds
  BY DEF AccountInv, TypeOK, Caller
<1>1. ASSUME NEW i \in IntentIds
      PROVE  /\ Balanced(i)' /\ (Placed(i)' # {} => StartIsShown(i)')
             /\ Logged("intent_created", i) => Logged("intent_created", i)'
             /\ StartIsShown(i) => StartIsShown(i)'
  <2>1. /\ Mine(caller[c], "placed", i) = 0 /\ Mine(r, "placed", i) = 0
        /\ Mine(r, "started", i) = 0 /\ Mine(caller[c], "started", i) \in {0, 1}
    BY DEF Quiet, Mine
  <2>2. /\ Cardinality(GetLogs({i}, {"execution_completed"}))'
              = Cardinality(GetLogs({i}, {"execution_completed"}))
        /\ Cardinality(GetLogs({i}, {"execution_started"}))'
              = Cardinality(GetLogs({i}, {"execution_started"}))
        /\ Logged("intent_created", i) => Logged("intent_created", i)'
        /\ StartIsShown(i) => StartIsShown(i)'
    BY OtherRecords DEF Quiet
  <2>3. Placed(i)' = Placed(i) /\ Cardinality(Placed(i))' = Cardinality(Placed(i))
    BY DEF Quiet, Placed
  <2>4. Balanced(i) /\ (Placed(i) # {} => StartIsShown(i))
    BY AccountParts
  <2>5. /\ Cardinality(InFlight("placed", i))' = Cardinality(InFlight("placed", i))
        /\ Cardinality(InFlight("started", i))' <= Cardinality(InFlight("started", i))
        /\ Cardinality(InFlight("started", i))' \in Int
    <3>1. /\ Cardinality(InFlight("started", i)) \in Nat
          /\ Cardinality(InFlight("placed", i)) \in Nat
          /\ Cardinality(InFlight("started", i))' =
                Cardinality(InFlight("started", i))
                - Mine(caller[c], "started", i) + Mine(r, "started", i)
          /\ Cardinality(InFlight("placed", i))' =
                Cardinality(InFlight("placed", i))
                - Mine(caller[c], "placed", i) + Mine(r, "placed", i)
      BY <1>0, MovedCounts
    <3> QED
      BY <2>1, <3>1
  <2>6. Balanced(i)'
    <3>1. /\ Cardinality(InFlight("started", i)) \in Nat
          /\ Cardinality(Placed(i)) \in Nat
          /\ Cardinality(GetLogs({i}, {"execution_started"})) \in Nat
      BY <1>0, MovedCounts
    <3> QED
      BY <2>2, <2>3, <2>4, <2>5, <3>1 DEF Balanced
  <2> QED
    BY <2>2, <2>3, <2>4, <2>6
<1>2. Justified(r)'
  BY <1>0, <1>1 DEF Quiet, Justified, PastGuards
<1> QED
  BY <1>1, <1>2 DEF BooksKept

LEMMA StartBooks ==
    ASSUME AccountInv, NEW c \in Callers, NEW r \in Caller,
           caller' = [caller EXCEPT ![c] = r], Starts(c, r)
    PROVE  BooksKept /\ Justified(r)'
<1>0. TypeOK /\ caller[c] \in Caller /\ caller[c].intent \in IntentIds
  BY DEF AccountInv, TypeOK, Caller
<1> DEFINE e == Record("execution_started", caller[c].intent, {})
<1>1. /\ e \in ExecutionAuditRecord /\ AppendRecord(e)
      /\ e.intent_id = caller[c].intent /\ e.event_type = "execution_started"
  <2>1. "execution_started" \in AuditEvents /\ {} \in Optional(ApprovalIds)
    BY OptionalValues DEF AuditEvents
  <2> QED
    BY <1>0, <2>1, RecordType DEF Starts
<1> HIDE DEF e
<1>2. Logged("intent_created", caller[c].intent)
  BY AccountParts DEF Starts, Justified, PastGuards
<1>3. ASSUME NEW i \in IntentIds
      PROVE  /\ Balanced(i)' /\ (Placed(i)' # {} => StartIsShown(i)')
             /\ Logged("intent_created", i) => Logged("intent_created", i)'
             /\ StartIsShown(i) => StartIsShown(i)'
  <2>1. /\ Logged("intent_created", i) => Logged("intent_created", i)'
        /\ StartIsShown(i) => StartIsShown(i)'
    BY <1>0, <1>1, ShownStays
  <2>2. /\ Mine(caller[c], "placed", i) = 0 /\ Mine(r, "placed", i) = 0
        /\ Mine(caller[c], "started", i) = 0
        /\ Mine(r, "started", i) = IF caller[c].intent = i THEN 1 ELSE 0
    BY DEF Starts, Mine
  <2>3. /\ Cardinality(GetLogs({i}, {"execution_completed"}))'
              = Cardinality(GetLogs({i}, {"execution_completed"}))
        /\ Cardinality(GetLogs({i}, {"execution_started"}))'
              = IF caller[c].intent = i
                THEN Cardinality(GetLogs({i}, {"execution_started"})) + 1
                ELSE Cardinality(GetLogs({i}, {"execution_started"}))
    <3>1. "execution_completed" \in AuditEvents /\ "execution_started" \in AuditEvents
      BY DEF AuditEvents
    <3> QED
      BY <1>0, <1>1, <3>1, CountAfter
  <2>4. Placed(i)' = Placed(i) /\ Cardinality(Placed(i))' = Cardinality(Placed(i))
    BY DEF Starts, Placed
  <2>5. Balanced(i) /\ (Placed(i) # {} => StartIsShown(i))
    BY AccountParts
  <2>6. Balanced(i)'
    <3>1. /\ Cardinality(InFlight("started", i)) \in Nat
          /\ Cardinality(InFlight("placed", i)) \in Nat
          /\ Cardinality(Placed(i)) \in Nat
          /\ Cardinality(GetLogs({i}, {"execution_started"})) \in Nat
          /\ Cardinality(InFlight("started", i))' =
                Cardinality(InFlight("started", i))
                - Mine(caller[c], "started", i) + Mine(r, "started", i)
          /\ Cardinality(InFlight("placed", i))' =
                Cardinality(InFlight("placed", i))
                - Mine(caller[c], "placed", i) + Mine(r, "placed", i)
      BY <1>0, MovedCounts
    <3> QED
      BY <2>2, <2>3, <2>4, <2>5, <3>1 DEF Balanced
  <2> QED
    BY <2>1, <2>4, <2>5, <2>6
<1>4. StartIsShown(r.intent)'
  <2>1. PICK i \in IntentIds : i = caller[c].intent
    BY <1>0
  <2>2. StartIsShown(i)'
    BY <1>0, <1>1, <1>2, <2>1, ShownStays
  <2>3. r.intent = i
    BY <2>1 DEF Starts
  <2> QED
    BY <2>2, <2>3
<1> QED
  BY <1>0, <1>2, <1>3, <1>4 DEF BooksKept, Justified, PastGuards, Starts

LEMMA OrderBooks ==
    ASSUME AccountInv, NEW c \in Callers, NEW r \in Caller,
           caller' = [caller EXCEPT ![c] = r], Orders(c, r)
    PROVE  BooksKept /\ Justified(r)'
<1>0. TypeOK /\ caller[c] \in Caller /\ caller[c].intent \in IntentIds
  BY DEF AccountInv, TypeOK, Caller
<1>1. ASSUME NEW i \in IntentIds
      PROVE  /\ Logged("intent_created", i) => Logged("intent_created", i)'
             /\ StartIsShown(i) => StartIsShown(i)'
             /\ Cardinality(GetLogs({i}, {"execution_completed"}))'
                   = Cardinality(GetLogs({i}, {"execution_completed"}))
             /\ Cardinality(GetLogs({i}, {"execution_started"}))'
                   = Cardinality(GetLogs({i}, {"execution_started"}))
  BY OtherRecords DEF Orders
<1>2. Logged("intent_created", caller[c].intent) /\ StartIsShown(caller[c].intent)
  BY AccountParts DEF Orders, Justified, PastGuards
<1>3. ASSUME NEW i \in IntentIds
      PROVE  Balanced(i)' /\ (Placed(i)' # {} => StartIsShown(i)')
  <2>1. /\ Mine(caller[c], "placed", i) = 0 /\ Mine(r, "started", i) = 0
        /\ Mine(caller[c], "started", i) = IF caller[c].intent = i THEN 1 ELSE 0
        /\ Mine(r, "placed", i) = IF caller[c].intent = i THEN 1 ELSE 0
    BY DEF Orders, Mine
  <2>2. Cardinality(Placed(i))' = IF caller[c].intent = i
                                  THEN Cardinality(Placed(i)) + 1
                                  ELSE Cardinality(Placed(i))
    BY <1>0, PlacedAfter DEF Orders
  <2>3. Balanced(i) /\ (Placed(i) # {} => StartIsShown(i))
    BY AccountParts
  <2>4. Balanced(i)'
    <3>1. /\ Cardinality(InFlight("started", i)) \in Nat
          /\ Cardinality(InFlight("placed", i)) \in Nat
          /\ Cardinality(Placed(i)) \in Nat
          /\ Cardinality(GetLogs({i}, {"execution_started"})) \in Nat
          /\ Cardinality(GetLogs({i}, {"execution_completed"})) \in Nat
          /\ Cardinality(InFlight("started", i))' =
                Cardinality(InFlight("started", i))
                - Mine(caller[c], "started", i) + Mine(r, "started", i)
          /\ Cardinality(InFlight("placed", i))' =
                Cardinality(InFlight("placed", i))
                - Mine(caller[c], "placed", i) + Mine(r, "placed", i)
      BY <1>0, MovedCounts
    <3>2. /\ Cardinality(GetLogs({i}, {"execution_completed"}))'
                = Cardinality(GetLogs({i}, {"execution_completed"}))
          /\ Cardinality(GetLogs({i}, {"execution_started"}))'
                = Cardinality(GetLogs({i}, {"execution_started"}))
      BY <1>1
    <3> QED
      BY <2>1, <2>2, <2>3, <3>1, <3>2 DEF Balanced
  <2>5. caller[c].intent # i => Placed(i)' = Placed(i)
    BY <1>0, OrdersGrow DEF Orders, Placed, OrderOf
  <2> QED
    BY <1>1, <1>2, <2>3, <2>4, <2>5
<1>4. StartIsShown(r.intent)' /\ Logged("intent_created", r.intent)'
  BY <1>0, <1>1, <1>2 DEF Orders
<1> QED
  BY <1>1, <1>3, <1>4 DEF BooksKept, Justified

LEMMA CompletionBooks ==
    ASSUME AccountInv, NEW c \in Callers, NEW r \in Caller,
           caller' = [caller EXCEPT ![c] = r], Completes(c, r)
    PROVE  BooksKept /\ Justified(r)'
<1>0. TypeOK /\ caller[c] \in Caller /\ caller[c].intent \in IntentIds
  BY DEF AccountInv, TypeOK, Caller
<1> DEFINE e == Record("execution_completed", caller[c].intent, {})
<1>1. /\ e \in ExecutionAuditRecord /\ AppendRecord(e)
      /\ e.intent_id = caller[c].intent /\ e.event_type = "execution_completed"
  <2>1. "execution_completed" \in AuditEvents /\ {} \in Optional(ApprovalIds)
    BY OptionalValues DEF AuditEvents
  <2> QED
    BY <1>0, <2>1, RecordType DEF Completes
<1> HIDE DEF e
<1>2. ASSUME NEW i \in IntentIds
      PROVE  /\ Balanced(i)' /\ (Placed(i)' # {} => StartIsShown(i)')
             /\ Logged("intent_created", i) => Logged("intent_created", i)'
             /\ StartIsShown(i) => StartIsShown(i)'
  <2>1. /\ Logged("intent_created", i) => Logged("intent_created", i)'
        /\ StartIsShown(i) => StartIsShown(i)'
    BY <1>0, <1>1, ShownStays
  <2>2. /\ Mine(caller[c], "started", i) = 0 /\ Mine(r, "started", i) = 0
        /\ Mine(r, "placed", i) = 0
        /\ Mine(caller[c], "placed", i) = IF caller[c].intent = i THEN 1 ELSE 0
    BY DEF Completes, Mine
  <2>3. /\ Cardinality(GetLogs({i}, {"execution_started"}))'
              = Cardinality(GetLogs({i}, {"execution_started"}))
        /\ Cardinality(GetLogs({i}, {"execution_completed"}))'
              = IF caller[c].intent = i
                THEN Cardinality(GetLogs({i}, {"execution_completed"})) + 1
                ELSE Cardinality(GetLogs({i}, {"execution_completed"}))
    <3>1. "execution_completed" \in AuditEvents /\ "execution_started" \in AuditEvents
      BY DEF AuditEvents
    <3> QED
      BY <1>0, <1>1, <3>1, CountAfter
  <2>4. Placed(i)' = Placed(i) /\ Cardinality(Placed(i))' = Cardinality(Placed(i))
    BY DEF Completes, Placed
  <2>5. Balanced(i) /\ (Placed(i) # {} => StartIsShown(i))
    BY AccountParts
  <2>6. Balanced(i)'
    <3>1. /\ Cardinality(InFlight("started", i)) \in Nat
          /\ Cardinality(InFlight("placed", i)) \in Nat
          /\ Cardinality(Placed(i)) \in Nat
          /\ Cardinality(GetLogs({i}, {"execution_completed"})) \in Nat
          /\ Cardinality(InFlight("started", i))' =
                Cardinality(InFlight("started", i))
                - Mine(caller[c], "started", i) + Mine(r, "started", i)
          /\ Cardinality(InFlight("placed", i))' =
                Cardinality(InFlight("placed", i))
                - Mine(caller[c], "placed", i) + Mine(r, "placed", i)
      BY <1>0, MovedCounts
    <3> QED
      BY <2>2, <2>3, <2>4, <2>5, <3>1 DEF Balanced
  <2> QED
    BY <2>1, <2>4, <2>5, <2>6
<1>3. Justified(r)'
  BY DEF Completes, Justified, PastGuards
<1> QED
  BY <1>2, <1>3 DEF BooksKept

LEMMA AccountInit == Init => AccountInv
<1> SUFFICES ASSUME Init PROVE AccountInv
  OBVIOUS
<1>1. /\ \A c \in Callers : caller[c].at = "idle"
      /\ log = <<>> /\ DOMAIN log = {} /\ orders = <<>> /\ DOMAIN orders = {}
  BY DEF Init
<1>2. Cardinality({}) = 0
  BY FS_EmptySet
<1>3. ASSUME NEW i \in IntentIds
      PROVE  /\ Placed(i) = {} /\ InFlight("placed", i) = {} /\ InFlight("started", i) = {}
             /\ GetLogs({i}, {"execution_completed"}) = {}
             /\ GetLogs({i}, {"execution_started"}) = {}
  BY <1>1 DEF Placed, InFlight, GetLogs
<1>4. ASSUME NEW i \in IntentIds PROVE Balanced(i) /\ (Placed(i) # {} => StartIsShown(i))
  <2>1. /\ Cardinality(Placed(i)) = 0
        /\ Cardinality(InFlight("placed", i)) = 0
        /\ Cardinality(InFlight("started", i)) = 0
        /\ Cardinality(GetLogs({i}, {"execution_completed"})) = 0
        /\ Cardinality(GetLogs({i}, {"execution_started"})) = 0
    BY <1>2, <1>3
  <2> QED
    BY <1>3, <2>1 DEF Balanced
<1>5. \A c \in Callers : Justified(caller[c])
  BY <1>1 DEF Justified, PastGuards
<1> QED
  BY <1>4, <1>5, TypeInit, AccountParts

LEMMA AccountStep == AccountInv /\ [Next]_vars => AccountInv'
<1> SUFFICES ASSUME AccountInv, [Next]_vars PROVE AccountInv'
  OBVIOUS
<1> TypeOK /\ TypeOK'
  BY TypeStep DEF AccountInv
<1>1. ASSUME UNCHANGED <<caller, orders>>,
             \/ log' = log
             \/ \E e \in ExecutionAuditRecord :
                   /\ AppendRecord(e)
                   /\ e.event_type \notin {"execution_started", "execution_completed"}
      PROVE  AccountInv'
  <2>1. ASSUME NEW i \in IntentIds
        PROVE  /\ Balanced(i)' /\ (Placed(i)' # {} => StartIsShown(i)')
               /\ Logged("intent_created", i) => Logged("intent_created", i)'
               /\ StartIsShown(i) => StartIsShown(i)'
    <3>1. /\ Cardinality(GetLogs({i}, {"execution_completed"}))'
                = Cardinality(GetLogs({i}, {"execution_completed"}))
          /\ Cardinality(GetLogs({i}, {"execution_started"}))'
                = Cardinality(GetLogs({i}, {"execution_started"}))
          /\ Logged("intent_created", i) => Logged("intent_created", i)'
          /\ StartIsShown(i) => StartIsShown(i)'
      BY <1>1, OtherRecords
    <3>2. /\ Placed(i)' = Placed(i) /\ InFlight("placed", i)' = InFlight("placed", i)
          /\ InFlight("started", i)' = InFlight("started", i)
      BY <1>1 DEF Placed, InFlight
    <3> QED
      BY <3>1, <3>2, AccountParts DEF Balanced
  <2>2. \A d \in Callers : Justified(caller[d]) /\ caller[d].intent \in IntentIds
    BY AccountParts DEF TypeOK, Caller
  <2>3. \A d \in Callers : Justified(caller[d])'
    BY <1>1, <2>1, <2>2 DEF Justified
  <2> QED
    BY <2>1, <2>3, AccountParts
<1>2. CASE SwitchStep
  BY <1>1, <1>2, SwitchesMove DEF Switched, logVars
<1>3. CASE LogStep
  BY <1>1, <1>3, HumanEntries
<1>4. ASSUME NEW c \in Callers, CallerStep(c) PROVE AccountInv'
  <2>1. PICK r \in Caller :
            /\ caller' = [caller EXCEPT ![c] = r]
            /\ Quiet(c, r) \/ Starts(c, r) \/ Orders(c, r) \/ Completes(c, r)
    BY <1>4, CallerBooks
  <2>2. BooksKept /\ Justified(r)'
    BY <2>1, QuietBooks, StartBooks, OrderBooks, CompletionBooks
  <2>3. \A d \in Callers : Justified(caller[d])'
    BY <2>1, <2>2, OthersStayJustified DEF BooksKept
  <2> QED
    BY <2>2, <2>3, AccountParts DEF BooksKept
<1>5. CASE Tick \/ UNCHANGED vars
  BY <1>1, <1>5 DEF Tick, logVars, vars
<1> QED
  BY <1>2, <1>3, <1>4, <1>5 DEF Next, SwitchStep, LogStep, CallerStep

-----------------------------------------------------------------------------
(* What a step leaves of the history, the log and the file *)

\* A sequence is a prefix of itself, and of itself with one more element.
LEMMA AppendKeepsPrefix ==
    ASSUME NEW T, NEW s \in Seq(T), NEW e \in T
    PROVE  /\ IsPrefix(s, s)
           /\ IsPrefix(s, Append(s, e))
           /\ Last(Append(s, e)) = e
           /\ Len(Append(s, e)) = Len(s) + 1
<1> DEFINE t == Append(s, e)
<1>1. /\ t \in Seq(T) /\ Len(t) = Len(s) + 1
      /\ \A k \in 1..Len(s) : t[k] = s[k]
      /\ t[Len(s) + 1] = e
  BY AppendProperties
<1>2. Len(s) \in Nat /\ DOMAIN s = 1..Len(s) /\ \A k \in 1..Len(s) : s[k] \in T
  BY LenProperties, ElementOfSeq
<1> HIDE DEF t
<1>3. SubSeq(s, 1, Len(s)) = s
  BY SubSeqFull
<1>4. SubSeq(t, 1, Len(s)) = s
  <2> DEFINE u == SubSeq(t, 1, Len(s))
  <2>0. 1 \in Int /\ Len(s) \in Int /\ \A k \in 1..Len(s) : t[k] \in T
    BY <1>1, <1>2
  <2>1. /\ u \in Seq(T)
        /\ Len(u) = IF 1 <= Len(s) THEN Len(s) - 1 + 1 ELSE 0
        /\ \A k \in 1..(Len(s) - 1 + 1) : u[k] = t[1 + k - 1]
    BY <2>0, SubSeqProperties
  <2> HIDE DEF u
  <2>2. Len(u) = Len(s)
    BY <1>2, <2>1
  <2>3. \A k \in 1..Len(u) : u[k] = s[k]
    BY <1>1, <1>2, <2>1, <2>2
  <2>4. u = s
    BY <2>1, <2>2, <2>3, SeqEqual
  <2> QED
    BY <2>4 DEF u
<1>5. Len(s) <= Len(s) /\ Len(s) <= Len(t)
  BY <1>1, <1>2
<1>6. IsPrefix(s, s) /\ IsPrefix(s, t)
  BY <1>3, <1>4, <1>5 DEF IsPrefix
<1>7. Last(t) = e
  BY <1>1 DEF Last
<1> QED
  BY <1>1, <1>6, <1>7 DEF t

\* The file takes a record only together with the log.
LEMMA FileFollows ==
    ASSUME TypeOK,
           UNCHANGED logVars \/ \E r \in ExecutionAuditRecord : AppendRecord(r)
    PROVE  FileFollowsLog
<1>1. log \in Seq(ExecutionAuditRecord) /\ file \in Seq(ExecutionAuditRecord)
  BY DEF TypeOK
<1>2. \E r \in ExecutionAuditRecord : TRUE
  BY OptionalValues, RecordType, BoundaryAssumption DEF AuditEvents
<1>3. IsPrefix(log, log) /\ IsPrefix(file, file)
  BY <1>1, <1>2, AppendKeepsPrefix
<1>4. CASE UNCHANGED logVars
  BY <1>3, <1>4 DEF FileFollowsLog, logVars
<1>5. ASSUME NEW r \in ExecutionAuditRecord, AppendRecord(r)
      PROVE  FileFollowsLog
  <2>1. /\ IsPrefix(log, Append(log, r)) /\ Last(Append(log, r)) = r
        /\ Len(Append(log, r)) = Len(log) + 1
        /\ IsPrefix(file, Append(file, r)) /\ Last(Append(file, r)) = r
    BY <1>1, AppendKeepsPrefix
  <2>2. log' = Append(log, r) /\ (file' = file \/ file' = Append(file, r))
    BY <1>5 DEF AppendRecord
  <2>3. CASE file' = file
    BY <1>3, <2>1, <2>2, <2>3, Zenon DEF FileFollowsLog
  <2>4. CASE file' = Append(file, r)
    BY <2>1, <2>2, <2>4, Zenon DEF FileFollowsLog
  <2> QED
    BY <2>2, <2>3, <2>4
<1> QED
  BY <1>4, <1>5

\* The switches and their history.
LEMMA Releases ==
    ASSUME ClearInv, SwitchStep \/ UNCHANGED switchVars
    PROVE  HaltsNeedTheirOwnRelease
<1> TypeOK /\ HistoryIsCurrent
  BY DEF ClearInv
<1>1. CASE SwitchStep
  <2>1. PICK s \in KillSwitchState, event \in SwitchEvents :
            Switched(s, event) /\ OwnRelease(s, event)
    BY <1>1, SwitchesMove
  <2>2. /\ switch' = s /\ Len(history') = Len(history) + 1
        /\ history'[Len(history) + 1].state_snapshot = s
        /\ history'[Len(history) + 1].event_type = event
    BY <2>1, HistoryGrows
  <2> QED
    BY <2>1, <2>2 DEF HaltsNeedTheirOwnRelease, OwnRelease
<1>2. CASE UNCHANGED switchVars
  BY <1>2 DEF HaltsNeedTheirOwnRelease, HistoryIsCurrent, SwitchAt, switchVars
<1> QED
  BY <1>1, <1>2

LEMMA KeptStep ==
    ASSUME ClearInv, [Next]_vars
    PROVE  HaltsNeedTheirOwnRelease /\ FileFollowsLog
<1> TypeOK
  BY DEF ClearInv
<1>1. CASE SwitchStep
  <2>1. UNCHANGED logVars
    BY <1>1, SwitchesMove DEF Switched
  <2> QED
    BY <1>1, <2>1, Releases, FileFollows
<1>2. CASE LogStep
  BY <1>2, HumanEntries, Releases, FileFollows DEF switchVars
<1>3. ASSUME NEW c \in Callers, CallerStep(c)
      PROVE  HaltsNeedTheirOwnRelease /\ FileFollowsLog
  <2>1. /\ UNCHANGED switchVars
        /\ \/ UNCHANGED logVars
           \/ \E event \in AuditEvents, i \in IntentIds : AppendRecord(Record(event, i, {}))
    BY <1>3, CallerMoves DEF switchVars, logVars
  <2>2. \A event \in AuditEvents, i \in IntentIds :
            Record(event, i, {}) \in ExecutionAuditRecord
    BY OptionalValues, RecordType
  <2> QED
    BY <2>1, <2>2, Releases, FileFollows
<1>4. CASE Tick \/ UNCHANGED vars
  BY <1>4, Releases, FileFollows DEF Tick, switchVars, logVars, vars
<1> QED
  BY <1>1, <1>2, <1>3, <1>4 DEF Next, SwitchStep, LogStep, CallerStep

-----------------------------------------------------------------------------
(* Theorems *)

LEMMA ClearInvariance == Spec => []ClearInv
BY ClearInit, ClearStep, PTL DEF Spec

LEMMA AccountInvariance == Spec => []AccountInv
BY AccountInit, AccountStep, PTL DEF Spec

\* The state of the package is well typed whatever switches, clock and callers do.
THEOREM BoundaryTypes == Spec => []TypeOK
<1>1. ClearInv => TypeOK
  BY DEF ClearInv
<1> QED
  BY <1>1, ClearInvariance, PTL

\* Every order that reached the broker was cleared: at the moment the guards were
\* asked its approval was for this intent, granted and current, and no switch was on.
THEOREM OrdersHadClearance == Spec => []OrdersWereCleared
<1>1. ClearInv => OrdersWereCleared
  BY DEF ClearInv, Cleared, OrdersWereCleared, SwitchAt
<1> QED
  BY <1>1, ClearInvariance, PTL

\* The audit trail accounts for every order of every intent.
THEOREM TrailAccountsForOrders == Spec => []AuditAccountsForOrders
<1>1. AccountInv => AuditAccountsForOrders
  BY DEF AccountInv
<1> QED
  BY <1>1, AccountInvariance, PTL

\* A halt ends only by its own release, the history and the log are never rewritten,
\* and the file holds only what the log holds.
THEOREM NothingIsRewritten == Spec => RecordsAreKept
<1>1. ClearInv /\ [Next]_vars => [HaltsNeedTheirOwnRelease /\ FileFollowsLog]_vars
  BY KeptStep
<1> QED
  BY <1>1, ClearInvariance, PTL DEF Spec, RecordsAreKept

=============================================================================
