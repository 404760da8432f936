------------------------------- MODULE Ordered -------------------------------
(***************************************************************************)
(* Sets of numbers in order, and parts of sequences: what std::set, erase  *)
(* and remove_if leave.  An element is told by its rank, so that facts on  *)
(* cardinalities are all that proofs about them need.                      *)
(***************************************************************************)
EXTENDS Naturals, FiniteSets

\* How many numbers of a set come no later than x.
Rank(S, x) == Cardinality({y \in S : y <= x})

\* The numbers of a set as a sequence, the smallest first.
Sorted(S) == [i \in 1 .. Cardinality(S) |-> CHOOSE x \in S : Rank(S, x) = i]

\* The entries of s at the places I, in the order of s.
Selected(s, I) == [i \in 1 .. Cardinality(I) |-> s[Sorted(I)[i]]]
=============================================================================
