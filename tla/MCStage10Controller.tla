------------------------ MODULE MCStage10Controller ------------------------
(* Stage 10 over the engine: intents on two symbols, limits that a second or  *)
(* third trade meets, an intent without an entry price and a short one.       *)
EXTENDS Stage10Controller

Intent(symbol, entry, sl, tp, size) ==
    [symbol |-> symbol, entry |-> entry, sl |-> sl, tp |-> tp, size |-> size]

Long == Intent("EURUSD", 100, 98, 103, 1)
LongOther == Intent("XAUUSD", 100, 98, 103, 2)
Short == Intent("EURUSD", 100, 102, 97, 1)
NoEntry == Intent("EURUSD", 0, 0, 3, 1)

MCSymbols == {"EURUSD", "XAUUSD"}
MCIntents == {Long, LongOther}
MCOddIntents == {Long, Short, NoEntry}
SnapshotsOf(S) == {CreateFrozenSnapshot(i) : i \in {j \in S : j.entry # 0}}
MCSnapshots == SnapshotsOf(MCIntents)
MCOddSnapshots == SnapshotsOf(MCOddIntents)
MCFillPrices == {50, 150}
MCSwitchStates == {"off", "active"}
============================================================================
