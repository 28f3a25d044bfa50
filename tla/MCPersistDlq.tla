---------------------------- MODULE MCPersistDlq ----------------------------
(* Decisions for the queue in memory, where entries stand behind each other, *)
(* and for Redis, where the tasks share a client and its circuit.            *)
EXTENDS PersistDlq

CONSTANTS d1, d2
MCTwoDecisions == {d1, d2}
MCOneDecision == {d1}
=============================================================================
