-------------------------------- MODULE Ranking --------------------------------
(***************************************************************************)
(* Python's sort(key=..., reverse=True), as the evaluation of models and    *)
(* the table of their memory use it: the highest value first, equals in the *)
(* order they had.                                                          *)
(***************************************************************************)
EXTENDS Integers, FiniteSets

\* Of the indices S with their values, those that come before i.
Above(S, value, i) == {j \in S : value[j] > value[i] \/ (value[j] = value[i] /\ j < i)}

Descending(S, value) ==
    [k \in 1 .. Cardinality(S) |-> CHOOSE i \in S : Cardinality(Above(S, value, i)) = k - 1]
================================================================================
