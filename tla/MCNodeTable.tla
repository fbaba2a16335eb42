----------------------------- MODULE MCNodeTable -----------------------------
(* Two callers, two profiles, for TLC.                                     *)
EXTENDS NodeTable, TLC

CONSTANTS n1, c1, c2, slow, fast

OneNode == {n1}
TwoCallers == {c1, c2}
TwoRates == {slow, fast}
CallerSymmetry == Permutations(TwoCallers)
=============================================================================
