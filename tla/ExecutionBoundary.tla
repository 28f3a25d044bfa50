-------------------------- MODULE ExecutionBoundary --------------------------
(***************************************************************************)
(* The package execution_boundary: intents and approvals written by        *)
(* humans, the kill switch controller with its history, the append-only    *)
(* audit logger with its file, and the safety guards.  The package never   *)
(* trades; the caller that asks it for leave and then places an order is   *)
(* external, and follows the sequence of the integration guide:            *)
(* is_halted(), execute_all_checks(), log_execution_started(), the broker, *)
(* log_execution_completed() or log_execution_failed().                    *)
(*                                                                         *)
(* Several callers, the operators of the switches and the clock take turns *)
(* between any two of these calls.  An optional value is a set with at     *)
(* most one member.                                                        *)
(***************************************************************************)
EXTENDS Integers, Sequences, FiniteSets, SequencesExt

CONSTANTS
    IntentForms,    \* intent_id -> the ExecutionIntent the human writes
    ApprovalForms,  \* approval_id -> the HumanExecutionApproval
    Callers,        \* tasks that execute an intent under an approval
    LogFile,        \* is log_file configured, and could the file be made?
    Jobs,           \* the pairs of an intent and an optional approval they try
    MaxTime,        \* bound: the clock stops there
    MaxSwitches,    \* bound: changes of the kill switches
    MaxAttempts,    \* bound: attempts of the callers
    MaxLostWrites   \* bound: writes to the file that fail

IntentIds == DOMAIN IntentForms
ApprovalIds == DOMAIN ApprovalForms
Optional(S) == {x \in SUBSET S : Cardinality(x) <= 1}

ExecutionIntentType == {"open_position", "close_position", "modify_position",
    "halt_all_trading", "resume_trading", "manual_override"}
ApprovalAuthority == {"human_trader", "risk_officer", "system_admin"}

\* human_rationale is never empty: __post_init__() raises.
ExecutionIntent ==
    [intent_type : ExecutionIntentType, max_loss : Optional(Int),
     max_position_size : Optional(Int), expires_at : Optional(Nat)]

\* approval_conditions: how many there are.
HumanExecutionApproval ==
    [intent_id : IntentIds, approved : BOOLEAN, authority_level : ApprovalAuthority,
     conditional_approval : BOOLEAN, approval_conditions : Nat,
     expires_at : Optional(Nat)]

ASSUME BoundaryAssumption ==
    /\ IntentIds # {} /\ IsFiniteSet(Callers)
    /\ \A i \in IntentIds : IntentForms[i] \in ExecutionIntent
    /\ \A a \in ApprovalIds : ApprovalForms[a] \in HumanExecutionApproval
    /\ LogFile \in BOOLEAN
    /\ Jobs \subseteq IntentIds \X Optional(ApprovalIds)
    /\ MaxTime \in Nat /\ MaxSwitches \in Nat
    /\ MaxAttempts \in Nat /\ MaxLostWrites \in Nat

VARIABLES
    now,
    switch,      \* KillSwitchState
    history,     \* the controller's _history
    log,         \* the logger's _memory_log
    file,        \* the lines of log_file
    caller,      \* caller -> where it is in the sequence
    orders,      \* history: the orders that reached the broker
    remarks      \* changes of the switches the operator has entered in the log

vars == <<now, switch, history, log, file, caller, orders, remarks>>
switchVars == <<switch, history>>
logVars == <<log, file>>

KillSwitchState ==
    [manual_kill_active : BOOLEAN, circuit_breaker_active : BOOLEAN,
     timeout_active : BOOLEAN, timeout_triggered_at : 0..MaxTime,
     timeout_duration_seconds : Nat]

SwitchEvents == {"INIT", "MANUAL_KILL_ACTIVATED", "MANUAL_KILL_DEACTIVATED",
    "CIRCUIT_BREAKER_ACTIVATED", "CIRCUIT_BREAKER_DEACTIVATED",
    "TIMEOUT_ACTIVATED", "TIMEOUT_DEACTIVATED"}
StateChange == [event_type : SwitchEvents, state_snapshot : KillSwitchState]

Activations == {"MANUAL_KILL_ACTIVATED", "CIRCUIT_BREAKER_ACTIVATED", "TIMEOUT_ACTIVATED"}
AuditEvents == {"intent_created", "approval_granted", "approval_rejected",
    "execution_started", "execution_completed", "execution_failed",
    "kill_switch_activated", "kill_switch_deactivated"}
ExecutionAuditRecord ==
    [event_type : AuditEvents, intent_id : IntentIds \cup {"system"},
     approval_id : Optional(ApprovalIds)]

\* switched: how long the controller's history was when the guards passed.
Caller ==
    [at : {"idle", "asked", "checked", "started", "placed"}, intent : IntentIds,
     approval : Optional(ApprovalIds), switched : Nat, checked_at : 0..MaxTime]
Order == [intent : IntentIds, approval : Optional(ApprovalIds), switched : Nat,
          checked_at : 0..MaxTime]

-----------------------------------------------------------------------------
(* The kill switch controller *)

\* KillSwitchState.is_halted
Halted(s) == s.manual_kill_active \/ s.circuit_breaker_active \/ s.timeout_active

\* get_halt_reason()
HaltReason(s) ==
    CASE s.manual_kill_active -> "MANUAL"
      [] ~s.manual_kill_active /\ s.circuit_breaker_active -> "CIRCUIT_BREAKER"
      [] ~s.manual_kill_active /\ ~s.circuit_breaker_active /\ s.timeout_active -> "TIMEOUT"
      [] ~Halted(s) -> "none"

\* check_timeout_expired(): only tells; nothing is cleared.
TimeoutExpired(s, time) ==
    s.timeout_active /\ time - s.timeout_triggered_at >= s.timeout_duration_seconds

\* The state changes, then _log_state_change() takes its snapshot.
Switched_mut_boolean(s, event) ==
    /\ Len(history) <= MaxSwitches
    /\ switch' = s
    /\ history' = Append(history, s)
    /\ UNCHANGED <<now, logVars, caller, orders, remarks>>
Switched_mut_logFirst(s, event) ==
    /\ Len(history) <= MaxSwitches
    /\ switch' = s
    /\ history' = Append(history, [event_type |-> event, state_snapshot |-> switch])
    /\ UNCHANGED <<now, logVars, caller, orders, remarks>>
Switched(s, event) ==
    /\ Len(history) <= MaxSwitches
    /\ switch' = s
    /\ history' = Append(history, [event_type |-> event, state_snapshot |-> s])
    /\ UNCHANGED <<now, logVars, caller, orders, remarks>>

ActivateManualKill ==
    Switched([switch EXCEPT !.manual_kill_active = TRUE], "MANUAL_KILL_ACTIVATED")

DeactivateManualKill ==
    Switched([switch EXCEPT !.manual_kill_active = FALSE], "MANUAL_KILL_DEACTIVATED")

ActivateCircuitBreaker ==
    Switched([switch EXCEPT !.circuit_breaker_active = TRUE], "CIRCUIT_BREAKER_ACTIVATED")

DeactivateCircuitBreaker ==
    Switched([switch EXCEPT !.circuit_breaker_active = FALSE], "CIRCUIT_BREAKER_DEACTIVATED")

\* A second activation starts the time again.
ActivateTimeout ==
    \E duration \in 1..MaxTime :
        Switched([switch EXCEPT !.timeout_active = TRUE, !.timeout_triggered_at = now,
                                !.timeout_duration_seconds = duration],
                 "TIMEOUT_ACTIVATED")

DeactivateTimeout ==
    Switched([switch EXCEPT !.timeout_active = FALSE], "TIMEOUT_DEACTIVATED")

-----------------------------------------------------------------------------
(* The audit logger *)

Record(event, intent, approval) ==
    [event_type |-> event, intent_id |-> intent, approval_id |-> approval]

\* _append_record(): the write to the file may fail, in silence.
AppendRecord_mut_fileOnly(r) ==
    /\ log' = IF LogFile THEN log ELSE Append(log, r)
    /\ file' = IF LogFile THEN Append(file, r) ELSE file
AppendRecord_mut_fileFirst(r) ==
    \/ LogFile /\ UNCHANGED <<log, file>>
    \/ log' = Append(log, r) /\ file' = IF LogFile THEN Append(file, r) ELSE file
AppendRecord(r) ==
    /\ log' = Append(log, r)
    /\ \/ /\ LogFile => Len(log) - Len(file) < MaxLostWrites
          /\ file' = file
       \/ LogFile /\ file' = Append(file, r)

Logged(event, intent) == \E k \in DOMAIN log :
    log[k].event_type = event /\ log[k].intent_id = intent

\* The human writes an intent: ExecutionIntent(), then log_intent_created().
LogIntentCreated(i) ==
    /\ ~Logged("intent_created", i)
    /\ AppendRecord(Record("intent_created", i, {}))
    /\ UNCHANGED <<now, switchVars, caller, orders, remarks>>

\* log_approval_granted() or log_approval_rejected(), by what the human wrote; the
\* guide shows an intent to the approver after it was logged.
LogApproval(a) ==
    LET approval == ApprovalForms[a] IN
    /\ Logged("intent_created", approval.intent_id)
    /\ \A k \in DOMAIN log : log[k].approval_id # {a}
    /\ AppendRecord(Record(IF approval.approved THEN "approval_granted"
                           ELSE "approval_rejected", approval.intent_id, {a}))
    /\ UNCHANGED <<now, switchVars, caller, orders, remarks>>

\* The operator enters a change of the switches in the audit log too, some time
\* later: log_kill_switch_activated() or log_kill_switch_deactivated().
LogSwitchChange ==
    /\ remarks < Len(history) - 1
    /\ remarks' = remarks + 1
    /\ AppendRecord(Record(
            IF history[remarks + 2].event_type \in Activations
            THEN "kill_switch_activated" ELSE "kill_switch_deactivated", "system", {}))
    /\ UNCHANGED <<now, switchVars, caller, orders>>

\* get_logs(intent_id, event_type): the records, by their numbers in the log.
GetLogs(intents, events) ==
    {k \in DOMAIN log : log[k].intent_id \in intents /\ log[k].event_type \in events}

-----------------------------------------------------------------------------
(* The safety guards *)

\* HumanExecutionApproval.is_valid(): the last moment itself is too late.
IsValid(approval, time) == \A e \in approval.expires_at : time < e

\* "approval" is empty when the caller has none.
CheckExplicitApproval_mut_anyIntent(i, approval, time) ==
    /\ approval # {}
    /\ \A a \in approval : /\ ApprovalForms[a].approved
                           /\ IsValid(ApprovalForms[a], time)
CheckExplicitApproval(i, approval, time) ==
    /\ approval # {}
    /\ \A a \in approval : /\ ApprovalForms[a].intent_id = i
                           /\ ApprovalForms[a].approved
                           /\ IsValid(ApprovalForms[a], time)

CheckKillSwitch(s) ==
    ~s.manual_kill_active /\ ~s.circuit_breaker_active /\ ~s.timeout_active

CheckIntentConstraints(intent, time) ==
    /\ \A v \in intent.max_loss : v >= 0
    /\ \A v \in intent.max_position_size : v > 0
    /\ \A e \in intent.expires_at : e >= time

\* The conditions themselves are not looked at.
CheckApprovalConditions(approval) ==
    approval.conditional_approval => approval.approval_conditions > 0

CheckApprovalAuthority(approval, intent_type) ==
    CASE approval.authority_level = "system_admin" -> TRUE
      [] approval.authority_level = "risk_officer" -> intent_type # "manual_override"
      [] approval.authority_level = "human_trader" ->
            intent_type \in {"open_position", "close_position", "modify_position"}

\* Any record that names the approval will do.
CheckAuditTrail(i, a) ==
    /\ GetLogs({i}, {"intent_created"}) # {}
    /\ \E k \in DOMAIN log : log[k].approval_id = {a}

ExecuteAllChecks(i, approval) ==
    /\ CheckExplicitApproval(i, approval, now)
    /\ CheckKillSwitch(switch)
    /\ CheckIntentConstraints(IntentForms[i], now)
    /\ \A a \in approval :
        /\ CheckApprovalConditions(ApprovalForms[a])
        /\ CheckApprovalAuthority(ApprovalForms[a], IntentForms[i].intent_type)
        /\ CheckAuditTrail(i, a)

-----------------------------------------------------------------------------
(* The external caller *)

Attempts == Cardinality(GetLogs(IntentIds, {"execution_started", "execution_failed"}))
            + Cardinality({c \in Callers : caller[c].at \in {"asked", "checked"}})

Idle(c) == [caller[c] EXCEPT !.at = "idle", !.switched = 0, !.checked_at = 0]

\* is_halted(): a halt is recorded as a failed execution.
AskHalted(c, i, approval) ==
    /\ caller[c].at = "idle" /\ Attempts < MaxAttempts
    /\ IF Halted(switch)
       THEN /\ AppendRecord(Record("execution_failed", i, {}))
            /\ caller' = [caller EXCEPT ![c] = Idle(c)]
       ELSE /\ caller' = [caller EXCEPT ![c] =
                    [at |-> "asked", intent |-> i, approval |-> approval,
                     switched |-> 0, checked_at |-> 0]]
            /\ UNCHANGED logVars
    /\ UNCHANGED <<now, switchVars, orders, remarks>>

AskGuards(c) ==
    /\ caller[c].at = "asked"
    /\ IF ExecuteAllChecks(caller[c].intent, caller[c].approval)
       THEN /\ caller' = [caller EXCEPT ![c].at = "checked", ![c].checked_at = now,
                                        ![c].switched = Len(history)]
            /\ UNCHANGED logVars
       ELSE /\ AppendRecord(Record("execution_failed", caller[c].intent, {}))
            /\ caller' = [caller EXCEPT ![c] = Idle(c)]
    /\ UNCHANGED <<now, switchVars, orders, remarks>>

LogExecutionStarted(c) ==
    /\ caller[c].at = "checked"
    /\ caller' = [caller EXCEPT ![c].at = "started"]
    /\ AppendRecord(Record("execution_started", caller[c].intent, {}))
    /\ UNCHANGED <<now, switchVars, orders, remarks>>

OrderOf(r) == [intent |-> r.intent, approval |-> r.approval, switched |-> r.switched,
               checked_at |-> r.checked_at]

PlaceOrder(c) ==
    /\ caller[c].at = "started"
    /\ caller' = [caller EXCEPT ![c].at = "placed"]
    /\ orders' = Append(orders, OrderOf(caller[c]))
    /\ UNCHANGED <<now, switchVars, logVars, remarks>>

\* The broker refused, and no order exists.
OrderFails(c) ==
    /\ caller[c].at = "started"
    /\ caller' = [caller EXCEPT ![c] = Idle(c)]
    /\ AppendRecord(Record("execution_failed", caller[c].intent, {}))
    /\ UNCHANGED <<now, switchVars, orders, remarks>>

LogExecutionCompleted(c) ==
    /\ caller[c].at = "placed"
    /\ caller' = [caller EXCEPT ![c] = Idle(c)]
    /\ AppendRecord(Record("execution_completed", caller[c].intent, {}))
    /\ UNCHANGED <<now, switchVars, orders, remarks>>

Tick ==
    /\ now < MaxTime
    /\ now' = now + 1
    /\ UNCHANGED <<switchVars, logVars, caller, orders, remarks>>

-----------------------------------------------------------------------------
NoSwitch == [manual_kill_active |-> FALSE, circuit_breaker_active |-> FALSE,
             timeout_active |-> FALSE, timeout_triggered_at |-> 0,
             timeout_duration_seconds |-> 300]

\* Without a file, or with one that could not be made, records stay in memory.
Init ==
    /\ now = 0
    /\ switch = NoSwitch
    /\ history = <<[event_type |-> "INIT", state_snapshot |-> NoSwitch]>>
    /\ log = <<>> /\ file = <<>>
    /\ caller = [c \in Callers |->
            [at |-> "idle", intent |-> CHOOSE i \in IntentIds : TRUE, approval |-> {}, switched |-> 0,
             checked_at |-> 0]]
    /\ orders = <<>>
    /\ remarks = 0

Next ==
    \/ ActivateManualKill \/ DeactivateManualKill
    \/ ActivateCircuitBreaker \/ DeactivateCircuitBreaker
    \/ ActivateTimeout \/ DeactivateTimeout
    \/ \E i \in IntentIds : LogIntentCreated(i)
    \/ \E a \in ApprovalIds : LogApproval(a)
    \/ LogSwitchChange
    \/ \E c \in Callers :
        \/ \E job \in Jobs : AskHalted(c, job[1], job[2])
        \/ AskGuards(c) \/ LogExecutionStarted(c) \/ PlaceOrder(c)
        \/ OrderFails(c) \/ LogExecutionCompleted(c)
    \/ Tick

Spec == Init /\ [][Next]_vars

-----------------------------------------------------------------------------
(* Properties *)

TypeOK ==
    /\ now \in 0..MaxTime
    /\ switch \in KillSwitchState
    /\ history \in Seq(StateChange)
    /\ log \in Seq(ExecutionAuditRecord) /\ file \in Seq(ExecutionAuditRecord)
    /\ caller \in [Callers -> Caller]
    /\ orders \in Seq(Order)
    /\ remarks \in Nat

\* The switches in force when the controller's history was n entries long.
SwitchAt(n) == history[n].state_snapshot

\* Every order stands on one approval that was for this very intent, was granted
\* by someone entitled to, and had not expired, with no switch on, all at the one
\* moment at which the guards were asked, however the switches, the clock and the
\* other callers moved since: execute_all_checks(), and the snapshots of
\* _log_state_change() from which that moment can be reconstructed.
OrdersWereCleared ==
    \A k \in DOMAIN orders :
        LET o == orders[k] IN
        \E a \in o.approval :
            /\ ApprovalForms[a].intent_id = o.intent /\ ApprovalForms[a].approved
            /\ \A e \in ApprovalForms[a].expires_at : o.checked_at < e
            /\ ~Halted(SwitchAt(o.switched))

\* The callers at a step for an intent, its orders, and whether the log shows the
\* intent and then a start.
InFlight(step, i) == {c \in Callers : caller[c].at = step /\ caller[c].intent = i}
Placed(i) == {k \in DOMAIN orders : orders[k].intent = i}
StartIsShown(i) ==
    \E j, k \in DOMAIN log :
        /\ j < k /\ log[j].intent_id = i /\ log[j].event_type = "intent_created"
        /\ log[k].intent_id = i /\ log[k].event_type = "execution_started"

\* The audit trail accounts for the broker: for each intent, an execution was
\* started before each order, and each completion, and each failure after a start,
\* answers for one: nothing was ordered that the log does not show, even when every
\* write to the file fails.
AuditAccountsForOrders ==
    \A i \in IntentIds :
        /\ Cardinality(Placed(i)) = Cardinality(GetLogs({i}, {"execution_completed"}))
                                   + Cardinality(InFlight("placed", i))
        /\ Cardinality(Placed(i)) + Cardinality(InFlight("started", i))
              <= Cardinality(GetLogs({i}, {"execution_started"}))
        /\ Placed(i) # {} => StartIsShown(i)

\* A halt of any kind ends only when a human ends that very kind: no clock, no
\* expiry and no other switch's deactivation clears it (check_timeout_expired()
\* only tells), and the history's last entry always is the state in force.
HaltsNeedTheirOwnRelease ==
    /\ history'[Len(history')].state_snapshot = switch'
    /\ switch.manual_kill_active /\ ~switch'.manual_kill_active
         => history'[Len(history')].event_type = "MANUAL_KILL_DEACTIVATED"
    /\ switch.circuit_breaker_active /\ ~switch'.circuit_breaker_active
         => history'[Len(history')].event_type = "CIRCUIT_BREAKER_DEACTIVATED"
    /\ switch.timeout_active /\ ~switch'.timeout_active
         => history'[Len(history')].event_type = "TIMEOUT_DEACTIVATED"

\* The file lags but never lies: it is what the memory log holds, in its order,
\* less the records whose write failed; and both only grow: _append_record().
FileFollowsLog ==
    /\ IsPrefix(log, log') /\ IsPrefix(file, file')
    /\ file' # file => Len(log') = Len(log) + 1 /\ Last(file') = Last(log')

\* What no step may do to switches, history, log and file
RecordsAreKept == [][HaltsNeedTheirOwnRelease /\ FileFollowsLog]_vars

=============================================================================
