--------------------------- MODULE ExecutionEngine ---------------------------
(***************************************************************************)
(* Stage 9, reasoner_service/execution_engine.py: the execution of one     *)
(* approved advisory (FrozenSnapshot) after another against a broker.      *)
(*                                                                         *)
(* ExecutionEngine.execute() runs in one thread.  It is split here at      *)
(* every point where another party can act: before each call to the        *)
(* broker, each read of the kill switches and each read of the clock.      *)
(* The other parties are the operator, who sets kill switches, the broker, *)
(* who fills, refuses and settles orders when it likes, and time.          *)
(*                                                                         *)
(* Time is the TimeoutController's clock alone: the seconds since start(), *)
(* which stop mattering once they exceed HARD_TIMEOUT_SECONDS, so the      *)
(* counter saturates there and needs no bound.  Prices are integers; stop  *)
(* loss and take profit are kept in hundredths so that the percentage      *)
(* offsets apply exactly.                                                  *)
(***************************************************************************)
EXTENDS Integers, Sequences, FiniteSets

CONSTANTS
    Symbols,         \* tradable symbols
    Snapshots,       \* the FrozenSnapshots a caller may pass to execute()
    FillPrices,      \* prices at which the broker may fill a market order
    Protections,     \* whether positions show up with stop loss and take profit
    SwitchStates,    \* kill switch states the operator uses
    HardTimeout,     \* TimeoutController.HARD_TIMEOUT_SECONDS, in ticks
    MaxExecutions    \* bound: how many times execute() is called

Global == "global"
Targets == Symbols \cup {Global}

\* What execute() reads of a snapshot; "expired" is the outcome of comparing
\* expiration_timestamp with the clock at the moment of the call.
FrozenSnapshot ==
    [symbol : Symbols, position_size : Int, reference_price : Int,
     sl_offset_pct : Int, tp_offset_pct : Int,
     expired : BOOLEAN, has_id : BOOLEAN]

ASSUME EngineAssumption ==
    /\ Global \notin Symbols
    /\ Snapshots \subseteq FrozenSnapshot
    /\ FillPrices \subseteq Nat \ {0}
    /\ Protections \subseteq BOOLEAN
    /\ SwitchStates \subseteq {"off", "warning", "active"}
    /\ HardTimeout \in Nat
    /\ MaxExecutions \in Nat

VARIABLES
    kill_switches,   \* KillSwitchManager.kill_switches
    elapsed,         \* TimeoutController: ticks since start(), or NotStarted
    pc,              \* where execute() stands
    snap,            \* its argument
    fill,            \* fill_info of _wait_for_fill()
    result,          \* the ExecutionResult being filled in
    results,         \* the ExecutionResults returned so far
    orders,          \* the broker's orders, in order of submission
    positions,       \* the broker's open positions, in get_positions() order
    halted,          \* history: the symbol's switch has been on since the call
    halted_global    \* history: the global switch has been on since the call

brokerVars == <<orders, positions>>
switchVars == <<kill_switches, halted, halted_global>>
callVars   == <<pc, snap, fill, result, results>>
vars == <<kill_switches, elapsed, pc, snap, fill, result, results,
          orders, positions, halted, halted_global>>

-----------------------------------------------------------------------------
(* Types *)

NotStarted == -1
NoFill == [price |-> 0, size |-> 0]

Stages == {"submitted", "rejected", "failed", "failed_timeout",
           "filled", "executed_full_late"}
FinalStages == Stages \ {"submitted"}
FilledStages == {"filled", "executed_full_late"}

ReconStates == {"none", "matched", "mismatch", "missing_position",
                "missing_sl_tp"}
OrderStates == {"pending", "filled", "cancelled"}

ExecutionResult ==
    [status : Stages, order_id : Nat, fill_price : Nat, position_size : Int,
     sl : Int, tp : Int, recon : ReconStates, recon_order_state : OrderStates
     \cup {"unknown"}]

\* exec: the call that placed the order (1 for the first execute()).
Order == [exec : Nat, symbol : Symbols, quantity : Int,
          state : OrderStates, fill_price : Nat, opened : BOOLEAN]
Position == [order : Nat, size : Int, protected : BOOLEAN]

PcLabels == {"idle", "kill_check", "submit", "poll", "query", "decide",
             "cancel", "recon_order", "recon_positions", "returned"}

-----------------------------------------------------------------------------
(* KillSwitchManager *)

\* is_active(): WARNING stops submission as ACTIVE does.
IsActive(target) == kill_switches[target] \in {"active", "warning"}

\* set_kill_switch(): the operator, at any moment of an execution.
SetKillSwitch(target, state) ==
    /\ kill_switches' = [kill_switches EXCEPT ![target] = state]
    /\ LET on == state \in {"active", "warning"}
       IN /\ halted' = (halted /\ (target = snap.symbol => on))
          /\ halted_global' = (halted_global /\ (target = Global => on))
    /\ UNCHANGED <<elapsed, callVars, brokerVars>>

-----------------------------------------------------------------------------
(* TimeoutController *)

\* is_expired()
IsExpired == elapsed > HardTimeout

Tick_mut_unbounded ==
    /\ elapsed \in 0..(HardTimeout + 1)
    /\ elapsed' = elapsed + 1
    /\ UNCHANGED <<switchVars, callVars, brokerVars>>
Tick ==
    /\ elapsed \in 0..HardTimeout
    /\ elapsed' = elapsed + 1
    /\ UNCHANGED <<switchVars, callVars, brokerVars>>

-----------------------------------------------------------------------------
(* BrokerAdapter: an interface in the code.  An order is pending until the *)
(* broker fills it or drops it, whether or not anybody still polls it; the *)
(* position of a filled order shows up in get_positions() some time after  *)
(* the fill, with or without the protective levels (no call of the engine  *)
(* sends them), and goes when the position is closed.                      *)

BrokerFill(o, price) ==
    /\ orders[o].state = "pending"
    /\ orders' = [orders EXCEPT ![o] = [@ EXCEPT !.state = "filled",
                                                !.fill_price = price]]
    /\ UNCHANGED <<elapsed, switchVars, callVars, positions>>

BrokerDrop(o) ==
    /\ orders[o].state = "pending"
    /\ orders' = [orders EXCEPT ![o].state = "cancelled"]
    /\ UNCHANGED <<elapsed, switchVars, callVars, positions>>

BrokerSettle(o, protected) ==
    /\ orders[o].state = "filled"
    /\ ~orders[o].opened
    /\ orders' = [orders EXCEPT ![o].opened = TRUE]
    /\ positions' = Append(positions, [order |-> o, size |-> orders[o].quantity,
                                       protected |-> protected])
    /\ UNCHANGED <<elapsed, switchVars, callVars>>

BrokerClose(k) ==
    /\ positions' = [i \in 1..(Len(positions) - 1) |->
                        positions[IF i < k THEN i ELSE i + 1]]
    /\ UNCHANGED <<elapsed, switchVars, callVars, orders>>

-----------------------------------------------------------------------------
(* ReconciliationService.reconcile(): one query, positions[0] stands for   *)
(* the position of the flow.  A later finding overwrites an earlier one.   *)

Reconcile(expected_size, expects_levels) ==
    IF expects_levels /\ (positions = <<>> \/ ~positions[1].protected)
      THEN "missing_sl_tp"
    ELSE IF expected_size # 0 /\ positions = <<>>
      THEN "missing_position"
    ELSE IF expected_size # 0 /\ positions[1].size # expected_size
      THEN "mismatch"
    ELSE "matched"

\* requires_manual_resolution
NeedsManual(r) == r.recon \in {"mismatch", "missing_position", "missing_sl_tp"}

-----------------------------------------------------------------------------
(* ExecutionEngine *)

\* _validate_preconditions()
PreconditionsHold(s) ==
    /\ ~s.expired
    /\ s.has_id
    /\ s.position_size > 0
    /\ s.sl_offset_pct < 0
    /\ s.tp_offset_pct > 0

\* _calculate_sl(), _calculate_tp(), in hundredths of the price unit.
CalculateSl(price, s) == price * (100 + s.sl_offset_pct)
CalculateTp(price, s) == price * (100 + s.tp_offset_pct)

FreshResult ==
    [status |-> "submitted", order_id |-> 0, fill_price |-> 0,
     position_size |-> 0, sl |-> 0, tp |-> 0, recon |-> "none",
     recon_order_state |-> "unknown"]

ThisExec == Len(results) + 1

\* execute(): entry, log_execution_start() and the precondition check.
Execute(s) ==
    /\ pc = "idle"
    /\ snap' = s
    /\ fill' = NoFill
    /\ halted' = IsActive(s.symbol)
    /\ halted_global' = IsActive(Global)
    /\ IF PreconditionsHold(s)
         THEN /\ pc' = "kill_check"
              /\ result' = FreshResult
         ELSE /\ pc' = "returned"
              /\ result' = [FreshResult EXCEPT !.status = "rejected"]
    /\ UNCHANGED <<kill_switches, elapsed, results, brokerVars>>

\* Step 3: only the switch of the symbol is consulted.
KillCheck_mut_dropped ==
    /\ pc = "kill_check"
    /\ pc' = "submit"
    /\ UNCHANGED <<elapsed, switchVars, snap, fill, result, results, brokerVars>>
KillCheck ==
    /\ pc = "kill_check"
    /\ IF IsActive(snap.symbol)
         THEN /\ pc' = "returned"
              /\ result' = [result EXCEPT !.status = "rejected"]
         ELSE pc' = "submit" /\ UNCHANGED result
    /\ UNCHANGED <<elapsed, switchVars, snap, fill, results, brokerVars>>

NewOrder == [exec |-> ThisExec, symbol |-> snap.symbol,
             quantity |-> snap.position_size, state |-> "pending",
             fill_price |-> 0, opened |-> FALSE]

\* Step 4: start the clock, submit, note the order id.
SubmitOrder_mut_no_clock ==
    /\ pc = "submit"
    /\ orders' = Append(orders, NewOrder)
    /\ result' = [result EXCEPT !.order_id = Len(orders) + 1]
    /\ pc' = "poll"
    /\ UNCHANGED <<elapsed, switchVars, snap, fill, results, positions>>
SubmitOrder ==
    /\ pc = "submit"
    /\ elapsed' = 0
    /\ orders' = Append(orders, NewOrder)
    /\ result' = [result EXCEPT !.order_id = Len(orders) + 1]
    /\ pc' = "poll"
    /\ UNCHANGED <<switchVars, snap, fill, results, positions>>

\* submit_order() raises; the order may have reached the broker all the same.
SubmitRaises_mut_rejected ==
    /\ pc = "submit"
    /\ elapsed' = 0
    /\ orders' \in {orders, Append(orders, NewOrder)}
    /\ result' = [result EXCEPT !.status = "rejected"]
    /\ pc' = "returned"
    /\ UNCHANGED <<switchVars, snap, fill, results, positions>>
SubmitRaises ==
    /\ pc = "submit"
    /\ elapsed' = 0
    /\ orders' \in {orders, Append(orders, NewOrder)}
    /\ result' = [result EXCEPT !.status = "failed"]
    /\ pc' = "returned"
    /\ UNCHANGED <<switchVars, snap, fill, results, positions>>

\* _wait_for_fill(): the loop condition ...
WaitCheck ==
    /\ pc = "poll"
    /\ pc' = IF IsExpired THEN "decide" ELSE "query"
    /\ UNCHANGED <<elapsed, switchVars, snap, fill, result, results, brokerVars>>

CurrentOrder == orders[result.order_id]

\* ... and its body: get_order_status(), then return the fill or sleep.
QueryStatus_mut_any_final ==
    /\ pc = "query"
    /\ IF CurrentOrder.state # "pending"
         THEN /\ fill' = [price |-> CurrentOrder.fill_price,
                          size |-> CurrentOrder.quantity]
              /\ pc' = "decide"
         ELSE pc' = "poll" /\ UNCHANGED fill
    /\ UNCHANGED <<elapsed, switchVars, snap, result, results, brokerVars>>
QueryStatus_mut_gives_up ==
    /\ pc = "query"
    /\ IF CurrentOrder.state = "filled"
         THEN /\ fill' = [price |-> CurrentOrder.fill_price,
                          size |-> CurrentOrder.quantity]
              /\ pc' = "decide"
         ELSE /\ pc' = IF CurrentOrder.state = "cancelled" THEN "decide" ELSE "poll"
              /\ UNCHANGED fill
    /\ UNCHANGED <<elapsed, switchVars, snap, result, results, brokerVars>>
QueryStatus ==
    /\ pc = "query"
    /\ IF CurrentOrder.state = "filled"
         THEN /\ fill' = [price |-> CurrentOrder.fill_price,
                          size |-> CurrentOrder.quantity]
              /\ pc' = "decide"
         ELSE pc' = "poll" /\ UNCHANGED fill
    /\ UNCHANGED <<elapsed, switchVars, snap, result, results, brokerVars>>

\* A broker query raises: the except clause of execute().  What was noted of the
\* fill stays in the result; a report reconcile() had begun is lost.
BrokerCallRaises_mut_resubmits ==
    /\ pc \in {"query", "recon_order", "recon_positions"}
    /\ result' = [result EXCEPT !.status = "failed", !.recon_order_state = "unknown"]
    /\ pc' = IF pc = "query" THEN "submit" ELSE "returned"
    /\ UNCHANGED <<elapsed, switchVars, snap, fill, results, brokerVars>>
BrokerCallRaises ==
    /\ pc \in {"query", "recon_order", "recon_positions"}
    /\ result' = [result EXCEPT !.status = "failed", !.recon_order_state = "unknown"]
    /\ pc' = "returned"
    /\ UNCHANGED <<elapsed, switchVars, snap, fill, results, brokerVars>>

\* What execute() notes of a fill.
WithFill_mut_reference(r) ==
    [r EXCEPT !.status = IF IsExpired THEN "executed_full_late" ELSE "filled",
              !.fill_price = fill.price, !.position_size = fill.size,
              !.sl = CalculateSl(snap.reference_price, snap),
              !.tp = CalculateTp(snap.reference_price, snap)]
WithFill(r) ==
    [r EXCEPT !.status = IF IsExpired THEN "executed_full_late" ELSE "filled",
              !.fill_price = fill.price, !.position_size = fill.size,
              !.sl = CalculateSl(fill.price, snap),
              !.tp = CalculateTp(fill.price, snap)]

\* "if is_expired() and not fill_info ... elif fill_info": with neither, the
\* code falls through and returns the default status.  The slippage divides by
\* the reference price, so a fill with a reference price of 0 ends as FAILED.
Decide ==
    /\ pc = "decide"
    /\ IF IsExpired /\ fill = NoFill
         THEN /\ result' = [result EXCEPT !.status = "failed_timeout"]
              /\ pc' = "cancel"
       ELSE IF fill = NoFill
         THEN pc' = "returned" /\ UNCHANGED result
       ELSE IF snap.reference_price = 0
         THEN /\ result' = [result EXCEPT !.status = "failed"]
              /\ pc' = "returned"
       ELSE result' = WithFill(result) /\ pc' = "recon_order"
    /\ UNCHANGED <<elapsed, switchVars, snap, fill, results, brokerVars>>

\* cancel_order(), fire and forget: it succeeds, is refused or raises; the
\* engine goes on in the same way.
CancelPending ==
    /\ pc = "cancel"
    /\ orders' \in {orders} \cup
          (IF CurrentOrder.state = "pending"
             THEN {[orders EXCEPT ![result.order_id].state = "cancelled"]}
             ELSE {})
    /\ pc' = "recon_order"
    /\ UNCHANGED <<elapsed, switchVars, snap, fill, result, results, positions>>

\* reconcile(): get_order_status() ...
ReconcileOrder ==
    /\ pc = "recon_order"
    /\ result' = [result EXCEPT !.recon_order_state = CurrentOrder.state]
    /\ pc' = "recon_positions"
    /\ UNCHANGED <<elapsed, switchVars, snap, fill, results, brokerVars>>

\* ... then get_positions() and the verdict.  After a timeout nothing is
\* expected; after a fill the filled size and the calculated levels are.
ReconcilePositions ==
    /\ pc = "recon_positions"
    /\ result' = [result EXCEPT !.recon =
                     IF result.status = "failed_timeout" THEN Reconcile(0, FALSE)
                     ELSE Reconcile(result.position_size, TRUE)]
    /\ pc' = "returned"
    /\ UNCHANGED <<elapsed, switchVars, snap, fill, results, brokerVars>>

\* log_execution_result() and return to the caller.
Return ==
    /\ pc = "returned"
    /\ results' = Append(results, result)
    /\ pc' = "idle"
    /\ fill' = NoFill
    /\ result' = FreshResult
    /\ halted' = FALSE
    /\ halted_global' = FALSE
    /\ UNCHANGED <<kill_switches, elapsed, snap, brokerVars>>

-----------------------------------------------------------------------------
(* The specification of the engine used on its own, as its tests use it.   *)

Init ==
    /\ kill_switches = [t \in Targets |-> "off"]
    /\ elapsed = NotStarted
    /\ pc = "idle"
    /\ snap \in Snapshots
    /\ fill = NoFill
    /\ result = FreshResult
    /\ results = <<>>
    /\ orders = <<>>
    /\ positions = <<>>
    /\ halted = FALSE
    /\ halted_global = FALSE

EngineStep ==
    \/ KillCheck \/ SubmitOrder \/ SubmitRaises \/ WaitCheck \/ QueryStatus
    \/ BrokerCallRaises \/ Decide \/ CancelPending
    \/ ReconcileOrder \/ ReconcilePositions

OrderStep(o) ==
    \/ \E price \in FillPrices : BrokerFill(o, price)
    \/ BrokerDrop(o)
    \/ \E protected \in Protections : BrokerSettle(o, protected)

BrokerStep ==
    \/ \E o \in DOMAIN orders : OrderStep(o)
    \/ \E k \in DOMAIN positions : BrokerClose(k)

OperatorStep ==
    \E target \in Targets, state \in SwitchStates : SetKillSwitch(target, state)

Next ==
    \/ \E s \in Snapshots : Len(results) < MaxExecutions /\ Execute(s)
    \/ EngineStep
    \/ Return
    \/ BrokerStep
    \/ OperatorStep
    \/ Tick

\* The thread inside execute() keeps running and time keeps passing; the
\* broker and the operator owe nothing.
Fairness == WF_vars(EngineStep) /\ WF_vars(Return) /\ WF_vars(Tick)

Spec == Init /\ [][Next]_vars
FairSpec == Spec /\ Fairness

-----------------------------------------------------------------------------
(* Properties *)

\* Every variable keeps the type the code gives it.
TypeOK ==
    /\ kill_switches \in [Targets -> {"off", "warning", "active"}]
    /\ elapsed \in NotStarted..(HardTimeout + 1)
    /\ pc \in PcLabels
    /\ snap \in Snapshots
    /\ fill \in [price : Nat, size : Int]
    /\ result \in ExecutionResult
    /\ results \in Seq(ExecutionResult)
    /\ orders \in Seq(Order)
    /\ positions \in Seq(Position)
    /\ halted \in BOOLEAN
    /\ halted_global \in BOOLEAN

\* execute() never returns the default status SUBMITTED: the branch after
\* _wait_for_fill() where neither the timeout nor a fill is found, which falls
\* through without a verdict, cannot be reached however the broker and the
\* clock interleave with the two separate calls of is_expired().
NoSilentOutcome ==
    \A i \in DOMAIN results : results[i].status \in FinalStages

\* "Never place duplicate orders", "Never retry after timeout": one call of
\* execute() puts at most one order at the broker, whatever the broker's calls
\* return or raise.
OneOrderPerExecution ==
    \A i, j \in DOMAIN orders : orders[i].exec = orders[j].exec => i = j

\* A result that reports a fill is backed by the broker: the order it names was
\* placed by that very call, is filled there, at the price and size reported.
FillsAreBacked ==
    \A i \in DOMAIN results :
        results[i].status \in FilledStages =>
            LET o == results[i].order_id
            IN /\ o \in DOMAIN orders
               /\ orders[o].exec = i
               /\ orders[o].state = "filled"
               /\ orders[o].fill_price = results[i].fill_price
               /\ orders[o].quantity = results[i].position_size

\* The protective levels of every reported fill lie on either side of the price
\* that was actually paid, for every slippage, and the size is positive.
LevelsBracketFill ==
    \A i \in DOMAIN results :
        results[i].status \in FilledStages =>
            /\ results[i].sl < 100 * results[i].fill_price
            /\ 100 * results[i].fill_price < results[i].tp
            /\ results[i].position_size > 0

\* "BEFORE order -> abort cleanly": while the switch of the symbol has been on
\* (WARNING or ACTIVE) since execute() was entered, no order goes out.
HaltedSendsNothing == [][Len(orders') > Len(orders) => ~halted]_vars

\* The engine keeps the contract of Stage 9 with its callers: of every order at
\* the broker the status of the call tells that it may be there (REJECTED means
\* that nothing was sent, a fill or a timeout that an order was), no order goes
\* out between calls, and no call returns without a verdict.
Contract == INSTANCE ExecutionContract WITH
    running  <- pc # "idle",
    book     <- [o \in DOMAIN orders |-> orders[o].exec],
    outcomes <- [i \in DOMAIN results |-> results[i].status]
KeepsContract == Contract!Spec

\* Hard timeout: execute() always returns, even when the broker never fills,
\* refuses to cancel or drops the order.
ExecuteReturns == (pc # "idle") ~> (pc = "idle")

-----------------------------------------------------------------------------
(* What the comments and the documentation say and the code does not do    *)

\* "Late fills AFTER timeout are VALID (mark EXECUTED_FULL_LATE)": an order that
\* the reconciliation of a timeout finds filled is not reported as
\* FAILED_TIMEOUT with a clean reconciliation.
LateFillIsNotATimeout ==
    \A i \in DOMAIN results :
        ~ /\ results[i].status = "failed_timeout"
          /\ results[i].recon_order_state = "filled"
          /\ ~NeedsManual(results[i])

=============================================================================
