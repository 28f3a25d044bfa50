------------------------- MODULE ExecutionContract -------------------------
(***************************************************************************)
(* What a caller of Stage 9 may rely on, with the engine's own steps left  *)
(* out: calls of execute() follow one another, a call puts at most one     *)
(* order at the broker, only while it runs, and answers with a final       *)
(* status that tells the truth about that order.                           *)
(***************************************************************************)
EXTENDS Naturals, Sequences

VARIABLES
    running,     \* a call of execute() is in progress
    book,        \* for each order at the broker, the call that placed it
    outcomes     \* the statuses returned so far

contractVars == <<running, book, outcomes>>

Call == Len(outcomes) + 1
Placed(call) == \E o \in DOMAIN book : book[o] = call

\* A status that a call may return, given whether it placed an order: a fill and
\* a timeout presuppose an order, a rejection excludes it, a failure says nothing.
Truthful(status, placed) ==
    \/ status = "rejected" /\ ~placed
    \/ status \in {"filled", "executed_full_late", "failed_timeout"} /\ placed
    \/ status = "failed"

Init == running = FALSE /\ book = <<>> /\ outcomes = <<>>

Begin ==
    /\ ~running
    /\ running' = TRUE
    /\ UNCHANGED <<book, outcomes>>

Place ==
    /\ running
    /\ ~Placed(Call)
    /\ book' = Append(book, Call)
    /\ UNCHANGED <<running, outcomes>>

Finish ==
    /\ running
    /\ running' = FALSE
    /\ \E status \in {"rejected", "failed", "failed_timeout", "filled",
                      "executed_full_late"} :
          /\ Truthful(status, Placed(Call))
          /\ outcomes' = Append(outcomes, status)
    /\ UNCHANGED book

Next == Begin \/ Place \/ Finish

Spec == Init /\ [][Next]_contractVars
============================================================================
