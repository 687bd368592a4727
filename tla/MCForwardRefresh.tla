------------------------- MODULE MCForwardRefresh -------------------------
(***************************************************************************)
(* Instances of ForwardRefresh for TLC: two callers with every failure,    *)
(* and two callers whose failures do not overlap another call.             *)
(***************************************************************************)
EXTENDS ForwardRefresh, TLC

CONSTANTS c1, c2, n1, n2, v1, v2

TwoCallers  == {c1, c2}
TwoNames    == {n1, n2}
OneContent  == {v1}
TwoContents == {v1, v2}

Symmetry == Permutations(TwoNames) \cup Permutations(TwoCallers)
=============================================================================
