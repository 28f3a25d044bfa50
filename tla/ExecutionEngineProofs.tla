----------------------- MODULE ExecutionEngineProofs -----------------------
(***************************************************************************)
(* Proofs about ExecutionEngine for every set of symbols, snapshots and    *)
(* prices, every timeout and any number of executions.                     *)
(*                                                                         *)
(* None of the safety properties is inductive: what a call returns depends *)
(* on what it noted several steps earlier, and on what the broker cannot   *)
(* undo meanwhile.  IndInv says, for each point of execute(), what is      *)
(* known there of the clock, the fill, the result and the broker's orders. *)
(***************************************************************************)
EXTENDS ExecutionEngine, SequenceTheorems, TLAPS

-----------------------------------------------------------------------------
(* The inductive invariant *)

\* After submit_order() has returned and before execute() does.
Waiting == {"poll", "query", "decide"}
Settling == {"cancel", "recon_order", "recon_positions"}

\* The order id a call has noted is that of an order at the broker.
OrderKnown == pc \in Waiting \cup Settling => result.order_id \in DOMAIN orders

\* No order belongs to the current call before it has submitted, and the one it
\* has noted is its own.
CallOrders ==
    /\ pc \in {"idle", "kill_check", "submit"} =>
          \A o \in DOMAIN orders : orders[o].exec # ThisExec
    /\ pc \in Waiting \cup Settling => CurrentOrder.exec = ThisExec

\* What the broker fills has a price, and what the engine sends has a size.
SaneOrders ==
    \A o \in DOMAIN orders :
        /\ orders[o].quantity > 0
        /\ orders[o].state = "filled" => orders[o].fill_price > 0

\* Past the precondition check the snapshot satisfies it.
CheckedSnapshot ==
    pc \notin {"idle", "returned"} => PreconditionsHold(snap)

\* A fill is noted only once, and is the one the broker reports.
FillNoted ==
    /\ pc \in {"kill_check", "submit", "poll", "query"} => fill = NoFill
    /\ pc = "decide" =>
          \/ fill = NoFill /\ IsExpired
          \/ /\ fill # NoFill
             /\ CurrentOrder.state = "filled"
             /\ fill.price = CurrentOrder.fill_price
             /\ fill.size = CurrentOrder.quantity

\* A result that is consistent with the orders of call number i in the book.
Truth(r, i, book) ==
    /\ r.status \in FinalStages
    /\ r.status = "rejected" => \A o \in DOMAIN book : book[o].exec # i
    /\ r.status \in FilledStages \cup {"failed_timeout"} =>
          \E o \in DOMAIN book : book[o].exec = i
    /\ r.status \in FilledStages =>
          /\ r.order_id \in DOMAIN book
          /\ book[r.order_id].exec = i
          /\ book[r.order_id].state = "filled"
          /\ book[r.order_id].fill_price = r.fill_price
          /\ book[r.order_id].quantity = r.position_size
          /\ r.sl < 100 * r.fill_price
          /\ 100 * r.fill_price < r.tp
          /\ r.position_size > 0

\* The result under construction: once there is a verdict it is a true one.
ResultNoted ==
    /\ pc = "cancel" => result.status = "failed_timeout"
    /\ pc \in Settling \cup {"returned"} => Truth(result, ThisExec, orders)

ResultsTrue == \A i \in DOMAIN results : Truth(results[i], i, orders)

\* The part of the invariant that concerns the book and the results returned; no order
\* belongs to a later call.
BookInv ==
    /\ \A o \in DOMAIN orders : orders[o].exec \in 1..ThisExec
    /\ OneOrderPerExecution
    /\ SaneOrders
    /\ ResultsTrue

\* While "halted" holds the switch of the symbol is on, and past the kill switch
\* check "halted" does not hold.
HaltKnown ==
    /\ halted /\ pc # "idle" => IsActive(snap.symbol)
    /\ pc = "submit" => ~halted

IndInv ==
    /\ TypeOK
    /\ OrderKnown
    /\ BookInv
    /\ CallOrders
    /\ CheckedSnapshot
    /\ FillNoted
    /\ ResultNoted
    /\ HaltKnown

-----------------------------------------------------------------------------
(* Types *)

\* A step of the engine or of its environment, without the bound of Next.
Step ==
    \/ \E s \in Snapshots : Execute(s)
    \/ EngineStep
    \/ Return
    \/ BrokerStep
    \/ OperatorStep
    \/ Tick

\* The result of a call that has not decided anything yet has its type.
LEMMA FreshResultType == FreshResult \in ExecutionResult
BY DEF FreshResult, ExecutionResult, Stages, ReconStates, OrderStates

\* Updates of single fields keep the type and the other fields.
LEMMA StatusUpdate ==
    ASSUME NEW r \in ExecutionResult, NEW status \in Stages
    PROVE  /\ [r EXCEPT !.status = status] \in ExecutionResult
           /\ [r EXCEPT !.status = status].status = status
           /\ [r EXCEPT !.status = status].order_id = r.order_id
BY DEF ExecutionResult

LEMMA OrderIdUpdate ==
    ASSUME NEW r \in ExecutionResult, NEW id \in Nat
    PROVE  /\ [r EXCEPT !.order_id = id] \in ExecutionResult
           /\ [r EXCEPT !.order_id = id].order_id = id
           /\ [r EXCEPT !.order_id = id].status = r.status
BY DEF ExecutionResult

\* Two results that differ in their reconciliation only.
SameOutcome(q, r) ==
    /\ q.status = r.status
    /\ q.order_id = r.order_id
    /\ q.fill_price = r.fill_price
    /\ q.position_size = r.position_size
    /\ q.sl = r.sl
    /\ q.tp = r.tp

LEMMA ReconUpdate ==
    ASSUME NEW r \in ExecutionResult, NEW recon \in ReconStates
    PROVE  /\ [r EXCEPT !.recon = recon] \in ExecutionResult
           /\ SameOutcome([r EXCEPT !.recon = recon], r)
BY DEF ExecutionResult, SameOutcome

LEMMA ReconOrderUpdate ==
    ASSUME NEW r \in ExecutionResult, NEW state \in OrderStates \cup {"unknown"}
    PROVE  /\ [r EXCEPT !.recon_order_state = state] \in ExecutionResult
           /\ SameOutcome([r EXCEPT !.recon_order_state = state], r)
BY DEF ExecutionResult, SameOutcome

LEMMA FailedUpdate ==
    ASSUME NEW r \in ExecutionResult
    PROVE  LET q == [r EXCEPT !.status = "failed", !.recon_order_state = "unknown"]
           IN  q \in ExecutionResult /\ q.status = "failed"
BY DEF ExecutionResult, Stages

Noted(r, status, price, size, sl, tp) ==
    [r EXCEPT !.status = status, !.fill_price = price, !.position_size = size,
              !.sl = sl, !.tp = tp]

LEMMA FillUpdate ==
    ASSUME NEW r \in ExecutionResult, NEW status \in Stages, NEW price \in Nat,
           NEW size \in Int, NEW sl \in Int, NEW tp \in Int
    PROVE  /\ Noted(r, status, price, size, sl, tp) \in ExecutionResult
           /\ Noted(r, status, price, size, sl, tp).status = status
           /\ Noted(r, status, price, size, sl, tp).order_id = r.order_id
           /\ Noted(r, status, price, size, sl, tp).fill_price = price
           /\ Noted(r, status, price, size, sl, tp).position_size = size
           /\ Noted(r, status, price, size, sl, tp).sl = sl
           /\ Noted(r, status, price, size, sl, tp).tp = tp
BY DEF ExecutionResult, Noted

\* The order execute() sends is an order of the broker's book.
LEMMA NewOrderType ==
    ASSUME TypeOK
    PROVE  NewOrder \in Order
<1>1. Len(results) \in Nat
  BY DEF TypeOK
<1>2. snap.symbol \in Symbols /\ snap.position_size \in Int
  BY EngineAssumption DEF TypeOK, FrozenSnapshot
<1> QED
  BY <1>1, <1>2 DEF NewOrder, ThisExec, Order, OrderStates

\* The broker's book after a submission.
LEMMA BookAfterSubmit ==
    ASSUME TypeOK, orders' = Append(orders, NewOrder)
    PROVE  /\ orders' \in Seq(Order)
           /\ Len(orders') = Len(orders) + 1
           /\ DOMAIN orders = 1..Len(orders)
           /\ DOMAIN orders' = 1..(Len(orders) + 1)
           /\ \A o \in DOMAIN orders : orders'[o] = orders[o]
           /\ orders'[Len(orders) + 1] = NewOrder
           /\ Len(orders) \in Nat
<1>1. orders \in Seq(Order) /\ NewOrder \in Order
  BY NewOrderType DEF TypeOK
<1>2. /\ orders' \in Seq(Order)
      /\ Len(orders') = Len(orders) + 1
      /\ \A o \in 1..Len(orders) : orders'[o] = orders[o]
      /\ orders'[Len(orders) + 1] = NewOrder
  BY <1>1, AppendProperties
<1>3. DOMAIN orders = 1..Len(orders) /\ Len(orders) \in Nat
  BY <1>1, LenProperties
<1>4. DOMAIN orders' = 1..Len(orders')
  BY <1>2, LenProperties
<1> QED
  BY <1>2, <1>3, <1>4

\* What the broker may do to its book between submissions: an order keeps its
\* call and its size, and a fill is for ever and has a price.
OrdersKept ==
    /\ orders' \in Seq(Order)
    /\ DOMAIN orders' = DOMAIN orders
    /\ Len(orders') = Len(orders)
    /\ \A o \in DOMAIN orders :
          /\ orders'[o].exec = orders[o].exec
          /\ orders'[o].quantity = orders[o].quantity
          /\ orders[o].state = "filled" =>
                /\ orders'[o].state = "filled"
                /\ orders'[o].fill_price = orders[o].fill_price
          /\ orders[o].state # "filled" /\ orders'[o].state = "filled" =>
                orders'[o].fill_price > 0

\* Replacing one order by a later version of it keeps the book in that sense.
LEMMA OrderUpdate ==
    ASSUME TypeOK, NEW o \in DOMAIN orders, NEW e \in Order,
           orders' = [orders EXCEPT ![o] = e],
           e.exec = orders[o].exec, e.quantity = orders[o].quantity,
           orders[o].state = "filled" =>
               e.state = "filled" /\ e.fill_price = orders[o].fill_price,
           orders[o].state # "filled" /\ e.state = "filled" => e.fill_price > 0
    PROVE  OrdersKept
<1>1. orders \in Seq(Order) /\ DOMAIN orders = 1..Len(orders)
  BY LenProperties DEF TypeOK
<1>2. /\ orders' \in Seq(Order)
      /\ Len(orders') = Len(orders)
      /\ \A j \in 1..Len(orders) : orders'[j] = IF j = o THEN e ELSE orders[j]
  BY <1>1, ExceptSeq
<1>3. DOMAIN orders' = 1..Len(orders')
  BY <1>2, LenProperties
<1> QED
  BY <1>1, <1>2, <1>3 DEF OrdersKept

\* The broker's own steps on an order keep the book.
LEMMA OrderStepKeeps ==
    ASSUME TypeOK, NEW o \in DOMAIN orders, OrderStep(o)
    PROVE  OrdersKept
<1> orders[o] \in Order
  BY ElementOfSeq, LenProperties DEF TypeOK
<1>1. ASSUME NEW price \in FillPrices, BrokerFill(o, price)
      PROVE  OrdersKept
  <2> DEFINE e == [orders[o] EXCEPT !.state = "filled", !.fill_price = price]
  <2>1. price \in Nat /\ price > 0
    BY EngineAssumption
  <2>2. e \in Order /\ e.exec = orders[o].exec /\ e.quantity = orders[o].quantity
        /\ e.fill_price = price
    BY <2>1 DEF Order, OrderStates
  <2>3. orders' = [orders EXCEPT ![o] = e] /\ orders[o].state # "filled"
    BY <1>1 DEF BrokerFill
  <2> HIDE DEF e
  <2> QED
    BY <2>1, <2>2, <2>3, OrderUpdate
<1>2. CASE BrokerDrop(o)
  <2> DEFINE e == [orders[o] EXCEPT !.state = "cancelled"]
  <2>1. e \in Order /\ e.exec = orders[o].exec /\ e.quantity = orders[o].quantity
        /\ e.state = "cancelled"
    BY DEF Order, OrderStates
  <2>2. orders' = [orders EXCEPT ![o] = e] /\ orders[o].state # "filled"
    BY <1>2 DEF BrokerDrop
  <2> HIDE DEF e
  <2> QED
    BY <2>1, <2>2, OrderUpdate
<1>3. ASSUME NEW protected \in Protections, BrokerSettle(o, protected)
      PROVE  OrdersKept
  <2> DEFINE e == [orders[o] EXCEPT !.opened = TRUE]
  <2>1. e \in Order /\ e.exec = orders[o].exec /\ e.quantity = orders[o].quantity
        /\ e.state = orders[o].state /\ e.fill_price = orders[o].fill_price
    BY DEF Order, OrderStates
  <2>2. orders' = [orders EXCEPT ![o] = e]
    BY <1>3 DEF BrokerSettle
  <2> HIDE DEF e
  <2> QED
    BY <2>1, <2>2, OrderUpdate
<1> QED
  BY <1>1, <1>2, <1>3 DEF OrderStep

\* So does the cancellation of the current order, which leaves a fill alone.
LEMMA CancelKeeps ==
    ASSUME TypeOK, OrderKnown, CancelPending
    PROVE  OrdersKept
<1>1. result.order_id \in DOMAIN orders
  BY DEF CancelPending, OrderKnown, Waiting, Settling
<1>2. CASE orders' = orders
  BY <1>2 DEF OrdersKept, TypeOK
<1>3. CASE orders' # orders
  <2> DEFINE o == result.order_id
  <2> DEFINE e == [orders[o] EXCEPT !.state = "cancelled"]
  <2>1. orders[o] \in Order
    BY <1>1, ElementOfSeq, LenProperties DEF TypeOK
  <2>2. e \in Order /\ e.exec = orders[o].exec /\ e.quantity = orders[o].quantity
        /\ e.state = "cancelled"
    BY <2>1 DEF Order, OrderStates
  <2>3. orders' = [orders EXCEPT ![o] = e] /\ orders[o].state # "filled"
    BY <1>3 DEF CancelPending, CurrentOrder
  <2> HIDE DEF e, o
  <2> QED
    BY <1>1, <2>2, <2>3, OrderUpdate DEF o
<1> QED
  BY <1>2, <1>3

\* Protective levels computed from a price and a snapshot are integers.
LEMMA LevelTypes ==
    ASSUME TypeOK, NEW p \in Int
    PROVE  CalculateSl(p, snap) \in Int /\ CalculateTp(p, snap) \in Int
<1>1. snap.sl_offset_pct \in Int /\ snap.tp_offset_pct \in Int
  BY EngineAssumption DEF TypeOK, FrozenSnapshot
<1> QED
  BY <1>1 DEF CalculateSl, CalculateTp

\* Where the engine asks for its order there is one.
LEMMA CurrentOrderType ==
    ASSUME TypeOK, OrderKnown, pc \in Waiting \cup Settling
    PROVE  CurrentOrder \in Order
BY ElementOfSeq, LenProperties DEF TypeOK, OrderKnown, CurrentOrder

\* What execute() notes of a fill.
LEMMA WithFillFields ==
    ASSUME TypeOK
    PROVE  /\ WithFill(result) \in ExecutionResult
           /\ WithFill(result).status \in FilledStages
           /\ WithFill(result).order_id = result.order_id
           /\ WithFill(result).fill_price = fill.price
           /\ WithFill(result).position_size = fill.size
           /\ WithFill(result).sl = CalculateSl(fill.price, snap)
           /\ WithFill(result).tp = CalculateTp(fill.price, snap)
<1>1. fill.price \in Nat /\ fill.size \in Int /\ result \in ExecutionResult
  BY DEF TypeOK
<1>2. CalculateSl(fill.price, snap) \in Int /\ CalculateTp(fill.price, snap) \in Int
  BY <1>1, LevelTypes
<1> DEFINE status == IF IsExpired THEN "executed_full_late" ELSE "filled"
<1>3. status \in Stages /\ status \in FilledStages
  BY DEF Stages, FilledStages
<1>4. WithFill(result) = Noted(result, status, fill.price, fill.size,
                              CalculateSl(fill.price, snap),
                              CalculateTp(fill.price, snap))
  BY DEF WithFill, Noted
<1> HIDE DEF status
<1> QED
  BY <1>1, <1>2, <1>3, <1>4, FillUpdate

\* Every step keeps the types; the order id a call has noted, which the engine
\* uses to ask the broker, has to be known together with them.
LEMMA TypeStep ==
    ASSUME TypeOK, OrderKnown, [Step]_vars
    PROVE  TypeOK' /\ OrderKnown'
<1> USE EngineAssumption
<1> USE DEF Waiting, Settling
<1>1. CASE UNCHANGED vars
  BY <1>1 DEF TypeOK, OrderKnown, vars
<1>2. ASSUME NEW s \in Snapshots, Execute(s)
      PROVE  TypeOK' /\ OrderKnown'
  <2>1. result' \in ExecutionResult
    BY <1>2, FreshResultType DEF Execute, ExecutionResult, Stages
  <2> QED
    BY <1>2, <2>1 DEF Execute, TypeOK, OrderKnown, PcLabels, brokerVars, NoFill,
       IsActive
<1>3. CASE KillCheck
  <2>1. result' \in ExecutionResult
    <3>1. [result EXCEPT !.status = "rejected"] \in ExecutionResult
      BY StatusUpdate DEF TypeOK, Stages
    <3> QED
      BY <1>3, <3>1, Zenon DEF KillCheck, TypeOK
  <2> QED
    BY <1>3, <2>1 DEF KillCheck, TypeOK, OrderKnown, PcLabels, brokerVars, switchVars
<1>4. CASE SubmitOrder
  <2>1. /\ orders' \in Seq(Order) /\ Len(orders) \in Nat
        /\ DOMAIN orders' = 1..(Len(orders) + 1)
    BY <1>4, BookAfterSubmit DEF SubmitOrder
  <2>2. result' \in ExecutionResult /\ result'.order_id = Len(orders) + 1
    <3>1. result \in ExecutionResult /\ Len(orders) + 1 \in Nat
      BY <2>1 DEF TypeOK
    <3> QED
      BY <1>4, <3>1, OrderIdUpdate, Zenon DEF SubmitOrder
  <2> QED
    BY <1>4, <2>1, <2>2 DEF SubmitOrder, TypeOK, OrderKnown, PcLabels, switchVars,
       NotStarted
<1>5. CASE SubmitRaises
  <2>1. orders' \in Seq(Order)
    BY <1>5, BookAfterSubmit DEF SubmitRaises, TypeOK
  <2>2. result' \in ExecutionResult
    BY <1>5, StatusUpdate DEF SubmitRaises, TypeOK, Stages
  <2> QED
    BY <1>5, <2>1, <2>2 DEF SubmitRaises, TypeOK, OrderKnown, PcLabels, switchVars,
       NotStarted
<1>6. CASE WaitCheck
  BY <1>6 DEF WaitCheck, TypeOK, OrderKnown, PcLabels, switchVars, brokerVars
<1>7. CASE QueryStatus
  <2>1. CurrentOrder.fill_price \in Nat /\ CurrentOrder.quantity \in Int
    BY <1>7, CurrentOrderType DEF QueryStatus, Order
  <2>2. fill' \in [price : Nat, size : Int]
    BY <1>7, <2>1 DEF QueryStatus, TypeOK
  <2> QED
    BY <1>7, <2>2 DEF QueryStatus, TypeOK, OrderKnown, PcLabels, switchVars,
       brokerVars
<1>8. CASE BrokerCallRaises
  <2>1. result' \in ExecutionResult
    BY <1>8, FailedUpdate DEF BrokerCallRaises, TypeOK
  <2> QED
    BY <1>8, <2>1 DEF BrokerCallRaises, TypeOK, OrderKnown, PcLabels, switchVars,
       brokerVars
<1>9. CASE Decide
  <2>1. WithFill(result) \in ExecutionResult
        /\ WithFill(result).order_id = result.order_id
    BY WithFillFields
  <2>2. /\ result' \in ExecutionResult
        /\ pc' \in PcLabels
        /\ pc' \in Waiting \cup Settling => result'.order_id = result.order_id
    <3>1. result \in ExecutionResult /\ "failed" \in Stages
          /\ "failed_timeout" \in Stages
      BY DEF TypeOK, Stages
    <3>2. \A status \in Stages :
             /\ [result EXCEPT !.status = status] \in ExecutionResult
             /\ [result EXCEPT !.status = status].order_id = result.order_id
      BY <3>1, StatusUpdate, Zenon
    <3>3. \E status \in Stages :
             result' \in {result, [result EXCEPT !.status = status], WithFill(result)}
      BY <1>9, <3>1, Zenon DEF Decide
    <3>4. pc' \in PcLabels
      BY <1>9 DEF Decide, PcLabels
    <3> QED
      BY <2>1, <3>1, <3>2, <3>3, <3>4, Zenon
  <2> QED
    BY <1>9, <2>1, <2>2 DEF Decide, TypeOK, OrderKnown, switchVars, brokerVars
<1>10. CASE CancelPending
  <2>1. orders' \in Seq(Order) /\ DOMAIN orders' = DOMAIN orders
    BY <1>10, CancelKeeps DEF OrdersKept
  <2> QED
    BY <1>10, <2>1 DEF CancelPending, TypeOK, OrderKnown, PcLabels, switchVars
<1>11. CASE ReconcileOrder
  <2>1. CurrentOrder.state \in OrderStates
    BY <1>11, CurrentOrderType DEF ReconcileOrder, Order
  <2>2. result' \in ExecutionResult /\ result'.order_id = result.order_id
    BY <1>11, <2>1, ReconOrderUpdate DEF ReconcileOrder, TypeOK, SameOutcome
  <2> QED
    BY <1>11, <2>2 DEF ReconcileOrder, TypeOK, OrderKnown, PcLabels, switchVars,
       brokerVars
<1>12. CASE ReconcilePositions
  <2>1. \A e, l : Reconcile(e, l) \in ReconStates
    BY DEF Reconcile, ReconStates
  <2>2. result' \in ExecutionResult
    BY <1>12, <2>1, ReconUpdate DEF ReconcilePositions, TypeOK
  <2> QED
    BY <1>12, <2>2 DEF ReconcilePositions, TypeOK, OrderKnown, PcLabels,
       switchVars, brokerVars
<1>13. CASE Return
  <2>1. results' \in Seq(ExecutionResult)
    <3>1. results \in Seq(ExecutionResult) /\ result \in ExecutionResult
      BY DEF TypeOK
    <3> QED
      BY <1>13, <3>1, AppendProperties, Zenon DEF Return
  <2>2. result' \in ExecutionResult
    BY <1>13, FreshResultType, Zenon DEF Return
  <2>3. fill' \in [price : Nat, size : Int] /\ pc' = "idle"
        /\ pc' \in PcLabels
    BY <1>13 DEF Return, NoFill, PcLabels
  <2>4. UNCHANGED <<kill_switches, elapsed, snap, orders, positions>>
        /\ halted' = FALSE /\ halted_global' = FALSE
    BY <1>13 DEF Return, brokerVars
  <2> QED
    BY <2>1, <2>2, <2>3, <2>4 DEF TypeOK, OrderKnown
<1>14. ASSUME NEW o \in DOMAIN orders, OrderStep(o)
       PROVE  TypeOK' /\ OrderKnown'
  <2>1. orders' \in Seq(Order) /\ DOMAIN orders' = DOMAIN orders
    BY <1>14, OrderStepKeeps DEF OrdersKept
  <2>3. positions' \in Seq(Position)
    <3>1. ASSUME NEW protected \in Protections, BrokerSettle(o, protected)
          PROVE  positions' \in Seq(Position)
      <4>1. [order |-> o, size |-> orders[o].quantity, protected |-> protected]
               \in Position
        <5>1. orders[o] \in Order /\ o \in Nat
          BY ElementOfSeq, LenProperties DEF TypeOK
        <5> QED
          BY <5>1 DEF Position, Order
      <4> QED
        BY <3>1, <4>1, AppendProperties DEF BrokerSettle, TypeOK
    <3> QED
      BY <1>14, <3>1 DEF OrderStep, BrokerFill, BrokerDrop, TypeOK
  <2>2. UNCHANGED <<elapsed, switchVars, callVars>>
    BY <1>14 DEF OrderStep, BrokerFill, BrokerDrop, BrokerSettle
  <2> QED
    BY <2>1, <2>2, <2>3 DEF TypeOK, OrderKnown, switchVars, callVars
<1>15. ASSUME NEW k \in DOMAIN positions, BrokerClose(k)
       PROVE  TypeOK' /\ OrderKnown'
  <2>1. positions' \in Seq(Position)
    BY <1>15 DEF BrokerClose, TypeOK
  <2> QED
    BY <1>15, <2>1 DEF BrokerClose, TypeOK, OrderKnown, switchVars, callVars
<1>16. ASSUME NEW t \in Targets, NEW state \in SwitchStates, SetKillSwitch(t, state)
       PROVE  TypeOK' /\ OrderKnown'
  BY <1>16 DEF SetKillSwitch, TypeOK, OrderKnown, callVars, brokerVars
<1>17. CASE Tick
  BY <1>17 DEF Tick, TypeOK, OrderKnown, switchVars, callVars, brokerVars, NotStarted
<1> QED
  BY <1>1, <1>2, <1>3, <1>4, <1>5, <1>6, <1>7, <1>8, <1>9, <1>10, <1>11, <1>12,
     <1>13, <1>14, <1>15, <1>16, <1>17
  DEF Step, EngineStep, BrokerStep, OperatorStep
-----------------------------------------------------------------------------
(* Preservation of the invariant *)

\* Results of earlier calls stay true whatever the broker does to its book ...
LEMMA TruthKept ==
    ASSUME OrdersKept, NEW r, NEW i, Truth(r, i, orders)
    PROVE  Truth(r, i, orders')
BY DEF OrdersKept, Truth, FilledStages, FinalStages

\* ... and whatever the current call adds to it.
LEMMA TruthAfterSubmit ==
    ASSUME TypeOK, orders' = Append(orders, NewOrder),
           NEW r, NEW i, i # ThisExec, Truth(r, i, orders)
    PROVE  Truth(r, i, orders')
<1>1. /\ DOMAIN orders = 1..Len(orders)
      /\ DOMAIN orders' = 1..(Len(orders) + 1)
      /\ \A o \in DOMAIN orders : orders'[o] = orders[o]
      /\ orders'[Len(orders) + 1].exec = ThisExec
      /\ Len(orders) \in Nat
  BY BookAfterSubmit DEF NewOrder
<1> QED
  BY <1>1 DEF Truth, FilledStages, FinalStages

\* Truth does not depend on the reconciliation.
LEMMA TruthSameOutcome ==
    ASSUME NEW q, NEW r, NEW i, NEW book, SameOutcome(q, r), Truth(r, i, book)
    PROVE  Truth(q, i, book)
BY DEF SameOutcome, Truth

\* Stop loss and take profit lie on either side of a positive price.
LEMMA LevelsBracket ==
    ASSUME NEW p \in Nat, p > 0, NEW sl \in Int, sl < 0, NEW tp \in Int, tp > 0
    PROVE  p * (100 + sl) < 100 * p /\ 100 * p < p * (100 + tp)
<1>1. p * sl < 0 /\ p * tp > 0
  OBVIOUS
<1>2. p * (100 + sl) = 100 * p + p * sl /\ p * (100 + tp) = 100 * p + p * tp
  OBVIOUS
<1> QED
  BY <1>1, <1>2

LEMMA BookKept ==
    ASSUME BookInv, OrdersKept, results' = results
    PROVE  BookInv'
<1>1. ResultsTrue'
  BY TruthKept DEF BookInv, ResultsTrue
<1>2. ThisExec' = ThisExec
  BY DEF ThisExec
<1> QED
  BY <1>1, <1>2 DEF BookInv, OrdersKept, OneOrderPerExecution, SaneOrders

\* A submission adds an order of the current call to a book that had none.
LEMMA BookSubmitted ==
    ASSUME TypeOK, BookInv, PreconditionsHold(snap), results' = results,
           \A o \in DOMAIN orders : orders[o].exec # ThisExec,
           orders' = Append(orders, NewOrder)
    PROVE  BookInv'
<1>1. /\ DOMAIN orders = 1..Len(orders)
      /\ DOMAIN orders' = 1..(Len(orders) + 1)
      /\ \A o \in DOMAIN orders : orders'[o] = orders[o]
      /\ orders'[Len(orders) + 1] = NewOrder
      /\ Len(orders) \in Nat
  BY BookAfterSubmit
<1>2. ThisExec' = ThisExec /\ ThisExec \in Nat /\ ThisExec \in 1..ThisExec
      /\ \A i \in DOMAIN results : i # ThisExec
  BY LenProperties DEF ThisExec, TypeOK
<1>3. NewOrder.exec = ThisExec /\ NewOrder.quantity > 0 /\ NewOrder.state = "pending"
  BY DEF NewOrder, PreconditionsHold
<1>4. ResultsTrue'
  BY <1>2, TruthAfterSubmit DEF BookInv, ResultsTrue
<1>5. OneOrderPerExecution'
  BY <1>1, <1>3 DEF BookInv, OneOrderPerExecution
<1>6. SaneOrders'
  BY <1>1, <1>3 DEF BookInv, SaneOrders
<1>7. \A o \in DOMAIN orders' : orders'[o].exec \in 1..ThisExec
  BY <1>1, <1>2, <1>3 DEF BookInv
<1> QED
  BY <1>2, <1>4, <1>5, <1>6, <1>7 DEF BookInv
\* What is left to show for a step once types and book are dealt with.
CallInv == CallOrders /\ CheckedSnapshot /\ FillNoted /\ ResultNoted /\ HaltKnown

\* Steps of the broker: the call does not move, and what it knows stays true.
LEMMA BrokerKeepsCall ==
    ASSUME IndInv, OrdersKept, UNCHANGED <<elapsed, switchVars, callVars>>
    PROVE  BookInv' /\ CallInv'
<1>1. UNCHANGED <<pc, snap, fill, result, results, elapsed, kill_switches, halted>>
  BY DEF callVars, switchVars
<1>2. ThisExec' = ThisExec
  BY <1>1 DEF ThisExec
<1>3. BookInv'
  BY <1>1, BookKept DEF IndInv
<1>4. CallOrders'
  BY <1>1, <1>2 DEF IndInv, CallOrders, OrdersKept, CurrentOrder, OrderKnown
<1>5. FillNoted'
  BY <1>1 DEF IndInv, FillNoted, OrdersKept, CurrentOrder, IsExpired, OrderKnown,
     Waiting
<1>6. ResultNoted'
  BY <1>1, <1>2, TruthKept DEF IndInv, ResultNoted
<1>7. CheckedSnapshot' /\ HaltKnown'
  BY <1>1 DEF IndInv, CheckedSnapshot, PreconditionsHold, HaltKnown, IsActive
<1> QED
  BY <1>3, <1>4, <1>5, <1>6, <1>7 DEF CallInv

\* Steps of the call that leave the book alone keep what was said of it.
LEMMA SameBook ==
    ASSUME TypeOK, BookInv, orders' = orders, results' = results
    PROVE  BookInv' /\ ThisExec' = ThisExec
<1>1. OrdersKept
  BY DEF OrdersKept, TypeOK
<1> QED
  BY <1>1, BookKept DEF ThisExec

\* One case per action: what each point of execute() passes on to the next.
LEMMA CallStep ==
    ASSUME IndInv, [Step]_vars
    PROVE  BookInv' /\ CallInv'
<1> USE DEF Waiting, Settling
<1>1. CASE UNCHANGED vars
  <2>1. OrdersKept
    BY <1>1 DEF vars, OrdersKept, IndInv, TypeOK
  <2> QED
    BY <1>1, <2>1, BrokerKeepsCall DEF vars, switchVars, callVars
<1>2. ASSUME NEW s \in Snapshots, Execute(s)
      PROVE  BookInv' /\ CallInv'
  <2>1. orders' = orders /\ results' = results /\ snap' = s /\ fill' = NoFill
        /\ kill_switches' = kill_switches /\ halted' = IsActive(s.symbol)
        /\ pc' \in {"kill_check", "returned"}
        /\ (pc' = "kill_check" => PreconditionsHold(s))
        /\ (pc' = "returned" => result'.status = "rejected")
    BY <1>2 DEF Execute, brokerVars, FreshResult
  <2>2. BookInv' /\ ThisExec' = ThisExec
    BY <2>1, SameBook DEF IndInv
  <2>3. \A o \in DOMAIN orders : orders[o].exec # ThisExec
    BY <1>2 DEF Execute, IndInv, CallOrders
  <2>4. ResultNoted'
    BY <2>1, <2>2, <2>3 DEF ResultNoted, Truth, FinalStages, FilledStages, Stages
  <2>5. HaltKnown'
    BY <2>1 DEF HaltKnown, IsActive
  <2> QED
    BY <2>1, <2>2, <2>3, <2>4, <2>5 DEF CallInv, CallOrders, CheckedSnapshot,
       PreconditionsHold, FillNoted
<1>3. CASE KillCheck
  <2>1. orders' = orders /\ results' = results /\ snap' = snap /\ fill' = fill
        /\ kill_switches' = kill_switches /\ halted' = halted /\ pc = "kill_check"
        /\ pc' \in {"submit", "returned"}
        /\ (pc' = "submit" => ~IsActive(snap.symbol))
        /\ (pc' = "returned" => result' = [result EXCEPT !.status = "rejected"])
    BY <1>3 DEF KillCheck, brokerVars, switchVars
  <2>2. BookInv' /\ ThisExec' = ThisExec
    BY <2>1, SameBook DEF IndInv
  <2>3. \A o \in DOMAIN orders : orders[o].exec # ThisExec
    BY <2>1 DEF IndInv, CallOrders
  <2>4. pc' = "returned" => result'.status = "rejected"
    BY <2>1 DEF IndInv, TypeOK, ExecutionResult
  <2>5. ResultNoted'
    BY <2>1, <2>2, <2>3, <2>4 DEF ResultNoted, Truth, FinalStages, FilledStages, Stages
  <2>6. HaltKnown'
    BY <2>1 DEF IndInv, HaltKnown, IsActive
  <2>7. fill = NoFill /\ PreconditionsHold(snap)
    BY <2>1 DEF IndInv, FillNoted, CheckedSnapshot
  <2> QED
    BY <2>1, <2>2, <2>3, <2>5, <2>6, <2>7 DEF CallInv, CallOrders, CheckedSnapshot,
       PreconditionsHold, FillNoted
<1>4. CASE SubmitOrder
  <2>1. orders' = Append(orders, NewOrder) /\ results' = results /\ snap' = snap
        /\ fill' = fill /\ kill_switches' = kill_switches /\ halted' = halted
        /\ pc = "submit" /\ pc' = "poll"
        /\ result' = [result EXCEPT !.order_id = Len(orders) + 1]
    BY <1>4 DEF SubmitOrder, switchVars
  <2>2. fill = NoFill /\ PreconditionsHold(snap) /\ BookInv /\ TypeOK
        /\ \A o \in DOMAIN orders : orders[o].exec # ThisExec
    BY <2>1 DEF IndInv, FillNoted, CheckedSnapshot, CallOrders
  <2>3. BookInv'
    BY <2>1, <2>2, BookSubmitted
  <2>4. CurrentOrder'.exec = ThisExec /\ ThisExec' = ThisExec
    <3>1. result'.order_id = Len(orders) + 1
      BY <2>1 DEF IndInv, TypeOK, ExecutionResult
    <3>2. orders'[Len(orders) + 1].exec = ThisExec
      BY <2>1, <2>2, BookAfterSubmit DEF NewOrder
    <3> QED
      BY <2>1, <3>1, <3>2 DEF CurrentOrder, ThisExec
  <2>5. HaltKnown'
    BY <2>1 DEF IndInv, HaltKnown, IsActive
  <2> QED
    BY <2>1, <2>2, <2>3, <2>4, <2>5 DEF CallInv, CallOrders, CheckedSnapshot,
       PreconditionsHold, FillNoted, ResultNoted
<1>5. CASE SubmitRaises
  <2>1. orders' \in {orders, Append(orders, NewOrder)} /\ results' = results
        /\ snap' = snap /\ kill_switches' = kill_switches /\ halted' = halted
        /\ pc = "submit" /\ pc' = "returned"
        /\ result' = [result EXCEPT !.status = "failed"]
    BY <1>5 DEF SubmitRaises, switchVars
  <2>2. PreconditionsHold(snap) /\ BookInv /\ TypeOK
        /\ \A o \in DOMAIN orders : orders[o].exec # ThisExec
    BY <2>1 DEF IndInv, CheckedSnapshot, CallOrders
  <2>3. BookInv'
    BY <2>1, <2>2, BookSubmitted, SameBook
  <2>4. result'.status = "failed"
    BY <2>1 DEF IndInv, TypeOK, ExecutionResult
  <2>5. ResultNoted'
    BY <2>1, <2>4 DEF ResultNoted, Truth, FinalStages, FilledStages, Stages
  <2>6. HaltKnown'
    BY <2>1 DEF IndInv, HaltKnown, IsActive
  <2> QED
    BY <2>1, <2>3, <2>5, <2>6 DEF CallInv, CallOrders, CheckedSnapshot, FillNoted
<1>6. CASE WaitCheck
  <2>1. UNCHANGED <<orders, results, snap, fill, result, kill_switches, halted, elapsed>>
        /\ pc = "poll" /\ pc' \in {"decide", "query"} /\ (pc' = "decide" => IsExpired)
    BY <1>6 DEF WaitCheck, brokerVars, switchVars
  <2>2. BookInv' /\ ThisExec' = ThisExec
    BY <2>1, SameBook DEF IndInv
  <2> QED
    BY <2>1, <2>2 DEF IndInv, CallInv, CallOrders, CurrentOrder, CheckedSnapshot,
       PreconditionsHold, FillNoted, IsExpired, ResultNoted, HaltKnown, IsActive
<1>7. CASE QueryStatus
  <2>1. UNCHANGED <<orders, results, snap, result, kill_switches, halted, elapsed>>
        /\ pc = "query" /\ pc' \in {"decide", "poll"}
        /\ (pc' = "poll" => fill' = fill)
        /\ (pc' = "decide" => /\ CurrentOrder.state = "filled"
                              /\ fill' = [price |-> CurrentOrder.fill_price,
                                          size |-> CurrentOrder.quantity])
    BY <1>7 DEF QueryStatus, brokerVars, switchVars
  <2>2. BookInv' /\ ThisExec' = ThisExec
    BY <2>1, SameBook DEF IndInv
  <2>3. result.order_id \in DOMAIN orders /\ CurrentOrder.quantity > 0
    BY <2>1 DEF IndInv, OrderKnown, BookInv, SaneOrders, CurrentOrder
  <2>4. FillNoted'
    <3>1. pc' = "decide" => fill'.size > 0 /\ fill' # NoFill
      BY <2>1, <2>3 DEF NoFill
    <3> QED
      BY <2>1, <3>1 DEF IndInv, FillNoted, CurrentOrder
  <2> QED
    BY <2>1, <2>2, <2>4 DEF IndInv, CallInv, CallOrders, CurrentOrder, CheckedSnapshot,
       PreconditionsHold, ResultNoted, HaltKnown, IsActive
<1>8. CASE BrokerCallRaises
  <2>1. UNCHANGED <<orders, results, snap, fill, kill_switches, halted>>
        /\ pc # "idle" /\ pc' = "returned"
        /\ result' = [result EXCEPT !.status = "failed", !.recon_order_state = "unknown"]
    BY <1>8 DEF BrokerCallRaises, brokerVars, switchVars
  <2>2. BookInv' /\ ThisExec' = ThisExec
    BY <2>1, SameBook DEF IndInv
  <2>3. result'.status = "failed"
    BY <2>1, FailedUpdate DEF IndInv, TypeOK
  <2>4. ResultNoted'
    BY <2>1, <2>3 DEF ResultNoted, Truth, FinalStages, FilledStages, Stages
  <2> QED
    BY <2>1, <2>2, <2>4 DEF IndInv, CallInv, CallOrders, CheckedSnapshot,
       FillNoted, HaltKnown, IsActive
<1>9. CASE Decide
  <2>1. UNCHANGED <<orders, results, snap, fill, kill_switches, halted>> /\ pc = "decide"
    BY <1>9 DEF Decide, brokerVars, switchVars
  <2>2. BookInv' /\ ThisExec' = ThisExec
    BY <2>1, SameBook DEF IndInv
  <2>3. /\ result.order_id \in DOMAIN orders /\ CurrentOrder.exec = ThisExec
        /\ PreconditionsHold(snap) /\ result \in ExecutionResult
    BY <2>1 DEF IndInv, OrderKnown, CallOrders, CheckedSnapshot, TypeOK
  <2>4. CASE IsExpired /\ fill = NoFill
    <3>1. result' = [result EXCEPT !.status = "failed_timeout"] /\ pc' = "cancel"
      BY <1>9, <2>4 DEF Decide
    <3>2. result'.status = "failed_timeout" /\ result'.order_id = result.order_id
      BY <2>3, <3>1 DEF ExecutionResult
    <3>3. Truth(result', ThisExec, orders)
      BY <2>3, <3>2 DEF Truth, FinalStages, FilledStages, Stages, CurrentOrder
    <3> QED
      BY <2>1, <2>2, <2>3, <3>1, <3>2, <3>3 DEF IndInv, CallInv, CallOrders,
         CurrentOrder, CheckedSnapshot, PreconditionsHold, FillNoted, ResultNoted,
         HaltKnown, IsActive
  <2>5. CASE fill # NoFill
    <3>1. /\ CurrentOrder.state = "filled" /\ fill.price = CurrentOrder.fill_price
          /\ fill.size = CurrentOrder.quantity
      BY <2>1, <2>5 DEF IndInv, FillNoted
    <3>2. fill.price \in Nat /\ fill.price > 0 /\ fill.size > 0
      BY <2>3, <3>1 DEF IndInv, TypeOK, BookInv, SaneOrders, CurrentOrder
    <3>3. CASE snap.reference_price = 0
      <4>1. result' = [result EXCEPT !.status = "failed"] /\ pc' = "returned"
        BY <1>9, <2>5, <3>3 DEF Decide
      <4>2. result'.status = "failed"
        BY <2>3, <4>1 DEF ExecutionResult
      <4>3. Truth(result', ThisExec, orders)
        BY <4>2 DEF Truth, FinalStages, FilledStages, Stages
      <4> QED
        BY <2>1, <2>2, <4>1, <4>3 DEF IndInv, CallInv, CallOrders,
           CheckedSnapshot, FillNoted, ResultNoted, HaltKnown, IsActive
    <3>4. CASE snap.reference_price # 0
      <4>1. result' = WithFill(result) /\ pc' = "recon_order"
        BY <1>9, <2>5, <3>4 DEF Decide
      <4>2. /\ result'.status \in FilledStages
            /\ result'.order_id = result.order_id
            /\ result'.fill_price = fill.price
            /\ result'.position_size = fill.size
            /\ result'.sl = fill.price * (100 + snap.sl_offset_pct)
            /\ result'.tp = fill.price * (100 + snap.tp_offset_pct)
        BY <4>1, WithFillFields DEF IndInv, CalculateSl, CalculateTp
      <4>3. result'.sl < 100 * fill.price /\ 100 * fill.price < result'.tp
        <5>1. snap.sl_offset_pct \in Int /\ snap.tp_offset_pct \in Int
              /\ snap.sl_offset_pct < 0 /\ snap.tp_offset_pct > 0
          BY <2>3, EngineAssumption DEF IndInv, TypeOK, FrozenSnapshot, PreconditionsHold
        <5> QED
          BY <3>2, <4>2, <5>1, LevelsBracket
      <4>4. Truth(result', ThisExec, orders)
        BY <2>3, <3>1, <3>2, <4>2, <4>3
        DEF Truth, FinalStages, FilledStages, Stages, CurrentOrder
      <4> QED
        BY <2>1, <2>2, <2>3, <4>1, <4>2, <4>4 DEF IndInv, CallInv, CallOrders,
           CurrentOrder, CheckedSnapshot, PreconditionsHold, FillNoted, ResultNoted,
           HaltKnown, IsActive
    <3> QED
      BY <3>3, <3>4
  <2>6. fill # NoFill \/ (IsExpired /\ fill = NoFill)
    BY <2>1 DEF IndInv, FillNoted
  <2> QED
    BY <2>4, <2>5, <2>6
<1>10. CASE CancelPending
  <2>1. UNCHANGED <<results, snap, fill, result, kill_switches, halted>>
        /\ pc = "cancel" /\ pc' = "recon_order"
    BY <1>10 DEF CancelPending, switchVars
  <2>2. OrdersKept
    BY <1>10, CancelKeeps DEF IndInv
  <2>3. BookInv' /\ ThisExec' = ThisExec
    BY <2>1, <2>2, BookKept DEF IndInv, ThisExec
  <2>4. Truth(result, ThisExec, orders')
    BY <2>1, <2>2, TruthKept DEF IndInv, ResultNoted
  <2>5. orders'[result.order_id].exec = ThisExec
    BY <2>1, <2>2 DEF IndInv, OrderKnown, CallOrders, OrdersKept, CurrentOrder
  <2> QED
    BY <2>1, <2>3, <2>4, <2>5 DEF IndInv, CallInv, CallOrders, CurrentOrder,
       CheckedSnapshot, PreconditionsHold, FillNoted, ResultNoted, HaltKnown, IsActive
<1>11. CASE ReconcileOrder \/ ReconcilePositions
  <2>1. UNCHANGED <<orders, results, snap, fill, kill_switches, halted>>
        /\ pc \in {"recon_order", "recon_positions"}
        /\ pc' \in {"recon_positions", "returned"}
    BY <1>11 DEF ReconcileOrder, ReconcilePositions, brokerVars, switchVars
  <2>2. BookInv' /\ ThisExec' = ThisExec
    BY <2>1, SameBook DEF IndInv
  <2>3. SameOutcome(result', result)
    <3>1. CASE ReconcileOrder
      <4>1. CurrentOrder.state \in OrderStates
        BY <2>1, CurrentOrderType DEF IndInv, Order
      <4> QED
        BY <3>1, <4>1, ReconOrderUpdate DEF ReconcileOrder, IndInv, TypeOK
    <3>2. CASE ReconcilePositions
      <4>1. \A e, l : Reconcile(e, l) \in ReconStates
        BY DEF Reconcile, ReconStates
      <4> QED
        BY <3>2, <4>1, ReconUpdate DEF ReconcilePositions, IndInv, TypeOK
    <3> QED
      BY <1>11, <3>1, <3>2
  <2>4. Truth(result', ThisExec, orders)
    BY <2>1, <2>3, TruthSameOutcome DEF IndInv, ResultNoted
  <2>5. result'.order_id = result.order_id
    BY <2>3 DEF SameOutcome
  <2> QED
    BY <2>1, <2>2, <2>4, <2>5 DEF IndInv, CallInv, CallOrders, CurrentOrder,
       CheckedSnapshot, PreconditionsHold, FillNoted, ResultNoted, HaltKnown, IsActive
<1>12. CASE Return
  <2>1. UNCHANGED <<orders, kill_switches, snap>> /\ pc = "returned" /\ pc' = "idle"
        /\ results' = Append(results, result) /\ halted' = FALSE
    BY <1>12 DEF Return, brokerVars
  <2>2. /\ Len(results) \in Nat /\ Len(results') = Len(results) + 1
        /\ DOMAIN results = 1..Len(results)
        /\ DOMAIN results' = 1..(Len(results) + 1)
        /\ \A i \in DOMAIN results : results'[i] = results[i]
        /\ results'[Len(results) + 1] = result
    BY <2>1, AppendProperties, LenProperties DEF IndInv, TypeOK
  <2>3. ThisExec \in Nat /\ ThisExec' = ThisExec + 1
    BY <2>2 DEF ThisExec
  <2>4. ResultsTrue'
    BY <2>1, <2>2 DEF IndInv, BookInv, ResultsTrue, ResultNoted, ThisExec
  <2>5. \A o \in DOMAIN orders : orders[o].exec \in 1..ThisExec
    BY DEF IndInv, BookInv
  <2>6. BookInv'
    BY <2>1, <2>3, <2>4, <2>5 DEF IndInv, BookInv, OneOrderPerExecution, SaneOrders
  <2>7. CallOrders'
    BY <2>1, <2>3, <2>5 DEF CallOrders
  <2> QED
    BY <2>1, <2>6, <2>7 DEF CallInv, CheckedSnapshot, FillNoted, ResultNoted, HaltKnown
<1>13. ASSUME NEW o \in DOMAIN orders, OrderStep(o)
       PROVE  BookInv' /\ CallInv'
  <2>1. OrdersKept
    BY <1>13, OrderStepKeeps DEF IndInv
  <2>2. UNCHANGED <<elapsed, switchVars, callVars>>
    BY <1>13 DEF OrderStep, BrokerFill, BrokerDrop, BrokerSettle
  <2> QED
    BY <2>1, <2>2, BrokerKeepsCall
<1>14. ASSUME NEW k \in DOMAIN positions, BrokerClose(k)
       PROVE  BookInv' /\ CallInv'
  <2>1. OrdersKept
    BY <1>14 DEF BrokerClose, OrdersKept, IndInv, TypeOK
  <2> QED
    BY <1>14, <2>1, BrokerKeepsCall DEF BrokerClose
<1>15. ASSUME NEW t \in Targets, NEW state \in SwitchStates, SetKillSwitch(t, state)
       PROVE  BookInv' /\ CallInv'
  <2>1. UNCHANGED <<orders, results, snap, fill, result, elapsed, pc>>
        /\ kill_switches' = [kill_switches EXCEPT ![t] = state]
        /\ (halted' => halted /\ (t = snap.symbol => state \in {"active", "warning"}))
    BY <1>15 DEF SetKillSwitch, callVars, brokerVars
  <2>2. BookInv' /\ ThisExec' = ThisExec
    BY <2>1, SameBook DEF IndInv
  <2>3. snap.symbol \in DOMAIN kill_switches
    BY EngineAssumption DEF IndInv, TypeOK, FrozenSnapshot, Targets
  <2>4. HaltKnown'
    BY <2>1, <2>3 DEF IndInv, HaltKnown, IsActive
  <2> QED
    BY <2>1, <2>2, <2>4 DEF IndInv, CallInv, CallOrders, CurrentOrder,
       CheckedSnapshot, PreconditionsHold, FillNoted, IsExpired, ResultNoted
<1>16. CASE Tick
  <2>1. UNCHANGED <<orders, results, snap, fill, result, pc, kill_switches, halted>>
        /\ elapsed \in Int /\ elapsed' = elapsed + 1
    BY <1>16, EngineAssumption DEF Tick, callVars, brokerVars, switchVars
  <2>2. BookInv' /\ ThisExec' = ThisExec
    BY <2>1, SameBook DEF IndInv
  <2>3. IsExpired => IsExpired'
    BY <2>1, EngineAssumption DEF IsExpired
  <2> QED
    BY <2>1, <2>2, <2>3 DEF IndInv, CallInv, CallOrders, CurrentOrder,
       CheckedSnapshot, PreconditionsHold, FillNoted, ResultNoted, HaltKnown, IsActive
<1> QED
  BY <1>1, <1>2, <1>3, <1>4, <1>5, <1>6, <1>7, <1>8, <1>9, <1>10, <1>11, <1>12,
     <1>13, <1>14, <1>15, <1>16
  DEF Step, EngineStep, BrokerStep, OperatorStep

-----------------------------------------------------------------------------
(* The theorems *)

LEMMA StepOfNext == Next => Step
BY DEF Next, Step

\* Before the first call nothing has been sent and nothing is known.
LEMMA IndInvInit == Init => IndInv
<1> SUFFICES ASSUME Init PROVE IndInv
  OBVIOUS
<1> USE DEF Init
<1>1. TypeOK
  <2>1. elapsed \in NotStarted..(HardTimeout + 1)
    BY EngineAssumption DEF NotStarted
  <2>2. pc \in PcLabels /\ fill \in [price : Nat, size : Int]
        /\ kill_switches \in [Targets -> {"off", "warning", "active"}]
    BY DEF PcLabels, NoFill
  <2>3. results \in Seq(ExecutionResult) /\ orders \in Seq(Order)
        /\ positions \in Seq(Position)
    BY EmptySeq
  <2> QED
    BY <2>1, <2>2, <2>3, FreshResultType DEF TypeOK
<1>2. DOMAIN orders = {} /\ DOMAIN results = {}
  OBVIOUS
<1>3. BookInv
  BY <1>2 DEF BookInv, OneOrderPerExecution, SaneOrders, ResultsTrue
<1> QED
  BY <1>1, <1>2, <1>3 DEF IndInv, OrderKnown, CallOrders, CheckedSnapshot, FillNoted,
     ResultNoted, HaltKnown, Waiting, Settling

LEMMA IndInvStep == IndInv /\ [Step]_vars => IndInv'
BY TypeStep, CallStep DEF IndInv, CallInv

LEMMA Invariance == Spec => []IndInv
<1>1. IndInv /\ [Next]_vars => IndInv'
  BY IndInvStep, StepOfNext
<1> QED
  BY <1>1, IndInvInit, PTL DEF Spec

\* The engine's variables keep their types; in particular it never asks the
\* broker for an order that does not exist.
THEOREM TypeCorrect == Spec => []TypeOK
<1>1. IndInv => TypeOK
  BY DEF IndInv
<1> QED
  BY <1>1, Invariance, PTL

\* execute() never returns the default status, for any timeout, any number of
\* calls and any interleaving of polling, clock and broker.
THEOREM AlwaysAVerdict == Spec => []NoSilentOutcome
<1>1. IndInv => NoSilentOutcome
  BY DEF IndInv, BookInv, ResultsTrue, Truth, NoSilentOutcome
<1> QED
  BY <1>1, Invariance, PTL

\* One call of execute() places one order at most.
THEOREM NoDuplicateOrders == Spec => []OneOrderPerExecution
<1>1. IndInv => OneOrderPerExecution
  BY DEF IndInv, BookInv
<1> QED
  BY <1>1, Invariance, PTL

\* Every fill reported is a fill of the call's own order at the broker, at the
\* price and of the size reported.
THEOREM ReportedFillsAreReal == Spec => []FillsAreBacked
<1>1. IndInv => FillsAreBacked
  BY DEF IndInv, BookInv, ResultsTrue, Truth, FillsAreBacked
<1> QED
  BY <1>1, Invariance, PTL

\* Stop loss and take profit bracket the price paid, whatever the slippage.
THEOREM LevelsAreSane == Spec => []LevelsBracketFill
<1>1. IndInv => LevelsBracketFill
  BY DEF IndInv, BookInv, ResultsTrue, Truth, LevelsBracketFill
<1> QED
  BY <1>1, Invariance, PTL

\* Only a submission adds to the broker's book.
LEMMA OnlySubmitAdds ==
    ASSUME IndInv, [Step]_vars, Len(orders') > Len(orders)
    PROVE  pc = "submit"
<1> SUFFICES ASSUME pc # "submit" PROVE FALSE
  OBVIOUS
<1>1. ASSUME NEW o \in DOMAIN orders, OrderStep(o) PROVE OrdersKept
  BY <1>1, OrderStepKeeps DEF IndInv
<1>2. CancelPending => OrdersKept
  BY CancelKeeps DEF IndInv
<1>3. OrdersKept \/ orders' = orders
  BY <1>1, <1>2 DEF Step, vars, Execute, EngineStep, KillCheck, SubmitOrder,
     SubmitRaises, WaitCheck, QueryStatus, BrokerCallRaises, Decide,
     ReconcileOrder, ReconcilePositions, Return, BrokerStep, BrokerClose,
     OperatorStep, SetKillSwitch, Tick, brokerVars
<1>4. Len(orders') = Len(orders)
  BY <1>3 DEF OrdersKept
<1>5. Len(orders) \in Nat
  BY LenProperties DEF IndInv, TypeOK
<1> QED
  BY <1>4, <1>5

\* "BEFORE order -> abort cleanly": no order while the symbol's switch has been
\* on since the call began, whenever the operator flips switches.
THEOREM HaltProtects == Spec => HaltedSendsNothing
<1>1. IndInv /\ [Next]_vars => [Len(orders') > Len(orders) => ~halted]_vars
  BY OnlySubmitAdds, StepOfNext DEF IndInv, HaltKnown
<1> QED
  BY <1>1, Invariance, PTL DEF Spec, HaltedSendsNothing

-----------------------------------------------------------------------------
(* The engine implements ExecutionContract *)

\* The abstract state.
Book == [o \in DOMAIN orders |-> orders[o].exec]
Outcomes == [i \in DOMAIN results |-> results[i].status]

LEMMA AbstractTypes ==
    ASSUME TypeOK
    PROVE  /\ Book \in Seq(Nat) /\ Len(Book) = Len(orders)
           /\ Outcomes \in Seq(Stages) /\ Len(Outcomes) = Len(results)
<1>1. DOMAIN orders = 1..Len(orders) /\ Len(orders) \in Nat
      /\ \A o \in DOMAIN orders : orders[o].exec \in Nat
  <2>1. orders \in Seq(Order)
    BY DEF TypeOK
  <2>2. \A o \in Order : o.exec \in Nat
    BY DEF Order
  <2> QED
    BY <2>1, <2>2, LenProperties, ElementOfSeq
<1>2. DOMAIN results = 1..Len(results) /\ Len(results) \in Nat
      /\ \A i \in DOMAIN results : results[i] \in ExecutionResult
  <2>1. results \in Seq(ExecutionResult)
    BY DEF TypeOK
  <2> QED
    BY <2>1, LenProperties, ElementOfSeq
<1>3. \A r \in ExecutionResult : r.status \in Stages
  BY DEF ExecutionResult
<1>4. \A i \in DOMAIN results : results[i].status \in Stages
  BY <1>2, <1>3
<1>5. Book \in Seq(Nat) /\ DOMAIN Book = 1..Len(orders)
  BY <1>1 DEF Book
<1>6. Outcomes \in Seq(Stages) /\ DOMAIN Outcomes = 1..Len(results)
  BY <1>2, <1>4 DEF Outcomes
<1> QED
  BY <1>1, <1>2, <1>5, <1>6, LenProperties

\* In abstract terms an order of the current call is a placed one.
LEMMA AbstractPlaced ==
    ASSUME TypeOK
    PROVE  /\ Contract!Call = ThisExec
           /\ \A i : Contract!Placed(i) <=> \E o \in DOMAIN orders : orders[o].exec = i
<1>1. Contract!Call = Len(Outcomes) + 1
  BY DEF Contract!Call, Outcomes
<1> QED
  BY <1>1, AbstractTypes DEF ThisExec, Contract!Placed

\* A submission appends the current call to the abstract book.
LEMMA AbstractSubmit ==
    ASSUME TypeOK, orders' = Append(orders, NewOrder)
    PROVE  Book' = Append(Book, ThisExec)
<1>1. /\ DOMAIN orders = 1..Len(orders)
      /\ DOMAIN orders' = 1..(Len(orders) + 1)
      /\ \A o \in DOMAIN orders : orders'[o] = orders[o]
      /\ orders'[Len(orders) + 1].exec = ThisExec
      /\ Len(orders) \in Nat
  BY BookAfterSubmit DEF NewOrder
<1>2. Book \in Seq(Nat) /\ Len(Book) = Len(orders) /\ ThisExec \in Nat
  BY AbstractTypes, LenProperties DEF TypeOK, ThisExec
<1> DEFINE after == Append(Book, ThisExec)
<1>3. /\ after \in Seq(Nat) /\ Len(after) = Len(orders) + 1
      /\ \A o \in 1..Len(orders) : after[o] = orders[o].exec
      /\ after[Len(orders) + 1] = ThisExec
  BY <1>1, <1>2, AppendProperties DEF Book
<1>4. Book' \in Seq(Nat) /\ Len(Book') = Len(orders) + 1
      /\ \A o \in 1..(Len(orders) + 1) : Book'[o] = orders'[o].exec
  BY <1>1, <1>2, <1>3 DEF Book
<1> HIDE DEF after
<1>5. ASSUME NEW o \in 1..(Len(orders) + 1)
      PROVE  Book'[o] = after[o]
  <2>1. Book'[o] = orders'[o].exec
    BY <1>4
  <2>2. CASE o = Len(orders) + 1
    BY <1>1, <1>3, <2>1, <2>2
  <2>3. CASE o # Len(orders) + 1
    <3>1. o \in 1..Len(orders)
      BY <1>1, <2>3
    <3>2. orders'[o] = orders[o] /\ after[o] = orders[o].exec
      BY <1>1, <1>3, <3>1
    <3> QED
      BY <2>1, <3>2
  <2> QED
    BY <2>2, <2>3
<1>6. Book' = after
  BY <1>3, <1>4, <1>5, SeqEqual
<1> QED
  BY <1>6 DEF after

LEMMA AbstractInit == Init => Contract!Init
<1> SUFFICES ASSUME Init PROVE Contract!Init
  OBVIOUS
<1>1. Book = <<>> /\ Outcomes = <<>>
  BY DEF Init, Book, Outcomes
<1>2. (pc # "idle") = FALSE
  BY DEF Init
<1> QED
  BY <1>1, <1>2 DEF Contract!Init, Book, Outcomes

\* Steps that neither begin nor end a call nor submit are invisible.
LEMMA AbstractStutter ==
    ASSUME OrdersKept \/ orders' = orders, results' = results,
           (pc # "idle") <=> (pc' # "idle")
    PROVE  UNCHANGED Contract!contractVars
<1>1. Book' = Book
  BY DEF Book, OrdersKept
<1>2. Outcomes' = Outcomes
  BY DEF Outcomes
<1> QED
  BY <1>1, <1>2 DEF Contract!contractVars, Book, Outcomes

\* Every step of the engine or its environment is a step of the contract.
LEMMA AbstractStep ==
    ASSUME IndInv, [Step]_vars
    PROVE  [Contract!Next]_(Contract!contractVars)
<1> TypeOK
  BY DEF IndInv
<1>1. ASSUME NEW s \in Snapshots, Execute(s) PROVE Contract!Begin
  <2>1. pc = "idle" /\ pc' # "idle" /\ UNCHANGED <<orders, results>>
    BY <1>1 DEF Execute, brokerVars
  <2> QED
    BY <2>1 DEF Contract!Begin
<1>2. ASSUME pc = "submit", pc' # "idle", results' = results,
             orders' = Append(orders, NewOrder)
      PROVE  Contract!Place
  <2>1. Book' = Append(Book, ThisExec)
    BY <1>2, AbstractSubmit
  <2>2. ~Contract!Placed(Contract!Call) /\ Contract!Call = ThisExec
    BY <1>2, AbstractPlaced DEF IndInv, CallOrders
  <2>3. (pc # "idle") = TRUE /\ (pc' # "idle") = TRUE
    BY <1>2
  <2> QED
    BY <1>2, <2>1, <2>2, <2>3 DEF Contract!Place, Book
<1>3. ASSUME Return PROVE Contract!Finish
  <2>1. pc = "returned" /\ pc' = "idle" /\ results' = Append(results, result)
        /\ orders' = orders
    BY <1>3 DEF Return, brokerVars
  <2>2. Truth(result, ThisExec, orders)
    BY <2>1 DEF IndInv, ResultNoted
  <2>3. /\ result.status \in {"rejected", "failed", "failed_timeout", "filled",
                              "executed_full_late"}
        /\ Contract!Truthful(result.status, Contract!Placed(Contract!Call))
    BY <2>2, AbstractPlaced DEF Truth, FinalStages, FilledStages, Stages,
       Contract!Truthful
  <2>4. Outcomes' = Append(Outcomes, result.status)
    <3>1. results \in Seq(ExecutionResult) /\ result \in ExecutionResult
          /\ result.status \in Stages
      BY DEF TypeOK, ExecutionResult
    <3>2. /\ results' \in Seq(ExecutionResult) /\ Len(results') = Len(results) + 1
          /\ DOMAIN results = 1..Len(results) /\ Len(results) \in Nat
          /\ DOMAIN results' = 1..Len(results')
          /\ \A i \in 1..Len(results) : results'[i] = results[i]
          /\ results'[Len(results) + 1] = result
      BY <2>1, <3>1, AppendProperties, LenProperties
    <3> DEFINE after == Append(Outcomes, result.status)
    <3>3. /\ after \in Seq(Stages) /\ Len(after) = Len(results) + 1
          /\ \A i \in 1..Len(results) : after[i] = results[i].status
          /\ after[Len(results) + 1] = result.status
      <4>1. Outcomes \in Seq(Stages) /\ Len(Outcomes) = Len(results)
        BY AbstractTypes
      <4>2. \A i \in 1..Len(results) : Outcomes[i] = results[i].status
        BY <3>2 DEF Outcomes
      <4> QED
        BY <3>1, <4>1, <4>2, AppendProperties
    <3>4. DOMAIN after = 1..(Len(results) + 1)
      BY <3>3, LenProperties
    <3>5. Outcomes' = [i \in 1..(Len(results) + 1) |-> results'[i].status]
      BY <3>2 DEF Outcomes
    <3>6. after = [i \in 1..(Len(results) + 1) |-> after[i]]
      BY <3>3, <3>4
    <3> HIDE DEF after
    <3>7. ASSUME NEW i \in 1..(Len(results) + 1)
          PROVE  results'[i].status = after[i]
      <4>1. CASE i = Len(results) + 1
        BY <3>2, <3>3, <4>1
      <4>2. CASE i # Len(results) + 1
        <5>1. i \in 1..Len(results)
          BY <3>2, <4>2
        <5> QED
          BY <3>2, <3>3, <5>1
      <4> QED
        BY <4>1, <4>2
    <3>8. Outcomes' = after
      BY <3>5, <3>6, <3>7
    <3> QED
      BY <3>8 DEF after
  <2> QED
    BY <2>1, <2>3, <2>4 DEF Contract!Finish, Outcomes
<1>4. CASE UNCHANGED vars
  BY <1>4, AbstractStutter DEF vars
<1>5. CASE SubmitOrder
  BY <1>2, <1>5 DEF SubmitOrder, Contract!Next
<1>6. CASE SubmitRaises
  BY <1>2, <1>6, AbstractStutter DEF SubmitRaises, Contract!Next
<1>7. CASE CancelPending
  <2>1. OrdersKept
    BY <1>7, CancelKeeps DEF IndInv
  <2> QED
    BY <1>7, <2>1, AbstractStutter DEF CancelPending
<1>8. ASSUME NEW o \in DOMAIN orders, OrderStep(o)
      PROVE  UNCHANGED Contract!contractVars
  <2>1. OrdersKept
    BY <1>8, OrderStepKeeps DEF IndInv
  <2>2. results' = results /\ pc' = pc
    BY <1>8 DEF OrderStep, BrokerFill, BrokerDrop, BrokerSettle, callVars
  <2> QED
    BY <2>1, <2>2, AbstractStutter
<1>9. CASE \/ KillCheck \/ WaitCheck \/ QueryStatus \/ BrokerCallRaises \/ Decide
           \/ ReconcileOrder \/ ReconcilePositions \/ OperatorStep \/ Tick
           \/ \E k \in DOMAIN positions : BrokerClose(k)
  <2>1. /\ orders' = orders /\ results' = results
        /\ (pc # "idle") <=> (pc' # "idle")
    BY <1>9 DEF KillCheck, WaitCheck, QueryStatus, BrokerCallRaises, Decide,
       ReconcileOrder, ReconcilePositions, OperatorStep, SetKillSwitch, Tick,
       BrokerClose, brokerVars, callVars
  <2> QED
    BY <2>1, AbstractStutter
<1> QED
  BY <1>1, <1>3, <1>4, <1>5, <1>6, <1>7, <1>8, <1>9
  DEF Step, EngineStep, BrokerStep, Contract!Next

\* The engine implements the contract of Stage 9: whoever calls execute() may
\* reason with ExecutionContract instead.
THEOREM ImplementsContract == Spec => KeepsContract
<1>1. IndInv /\ [Next]_vars => [Contract!Next]_(Contract!contractVars)
  BY AbstractStep, StepOfNext
<1> QED
  BY <1>1, AbstractInit, Invariance, PTL DEF Spec, KeepsContract, Contract!Spec

============================================================================
