------------------------------ MODULE Optionals ------------------------------
(***************************************************************************)
(* A value that Python may leave None is a set with at most one member;    *)
(* and what list comprehensions and sums compute.                          *)
(***************************************************************************)
EXTENDS Integers, Sequences, FiniteSets, SequencesExt, FiniteSetsExt

Optional(S) == {x \in SUBSET S : Cardinality(x) <= 1}

\* `value or default`: None and 0 both give way to the default.
Or(optional, default) ==
    IF optional = {} \/ optional = {0} THEN default ELSE CHOOSE x \in optional : TRUE

\* The members of s at some of its places, in their order.
AtPlaces(s, places) ==
    LET rank(i) == Cardinality({j \in places : j <= i})
    IN  [n \in 1..Cardinality(places) |-> s[CHOOSE i \in places : rank(i) = n]]

\* The mean of the sequence s compared with a bound, in whole units.
SumSeq(s) == SumFunction(s)
MeanBelow(s, bound) == SumSeq(s) < bound * Len(s)
MeanAbove(s, bound) == SumSeq(s) > bound * Len(s)

\* The last n members of s.
LastOf(s, n) == SubSeq(s, IF Len(s) > n THEN Len(s) - n + 1 ELSE 1, Len(s))
=============================================================================
