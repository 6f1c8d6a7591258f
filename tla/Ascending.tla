----------------------------- MODULE Ascending -----------------------------
(* A finite set of numbers as a sequence.                                  *)
EXTENDS Naturals, FiniteSets

InOrder(f) == \A i, j \in DOMAIN f : i < j => f[i] < f[j]

Sorted(S) == CHOOSE f \in [1..Cardinality(S) -> S] : InOrder(f)
=============================================================================
