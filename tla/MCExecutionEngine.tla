------------------------- MODULE MCExecutionEngine -------------------------
(* A small instance of ExecutionEngine: one symbol, two calls, a timeout of  *)
(* one tick, fills below and above the reference price.                      *)
EXTENDS ExecutionEngine

Snapshot(size, reference_price, sl) ==
    [symbol |-> "EURUSD", position_size |-> size,
     reference_price |-> reference_price,
     sl_offset_pct |-> sl, tp_offset_pct |-> 3,
     expired |-> FALSE, has_id |-> TRUE]

\* A valid snapshot, one without a reference price (which no precondition
\* excludes) and one whose stop loss lies above the entry, as that of a short
\* trade does.
MCSnapshots == {Snapshot(1, 100, -2), Snapshot(2, 0, -2), Snapshot(1, 100, 2)}
MCFillPrices == {90, 110}
MCSymbols == {"EURUSD"}
MCSwitchStates == {"off", "warning"}
============================================================================
