------------------------------- MODULE Sorting -------------------------------
(* A set of numbers as a sequence, the smallest first.                     *)
EXTENDS Integers, FiniteSets

Ascending(S) ==
    [k \in 1..Cardinality(S) |-> CHOOSE n \in S : Cardinality({m \in S : m <= n}) = k]
=============================================================================
