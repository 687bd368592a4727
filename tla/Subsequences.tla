----------------------------- MODULE Subsequences -----------------------------
(***************************************************************************)
(* The elements of a list at some of its positions, in their order: what a *)
(* Python comprehension with a condition keeps.  It is described by counts *)
(* and not by recursion, so that it can be reasoned about.                 *)
(***************************************************************************)
EXTENDS Naturals, FiniteSets

\* Where position i comes among the positions I.
PlaceIn(I, i) == Cardinality({j \in I : j <= i})

Subsequence(s, I) == [k \in 1 .. Cardinality(I) |-> s[CHOOSE i \in I : PlaceIn(I, i) = k]]
=============================================================================
