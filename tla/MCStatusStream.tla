-------------------------- MODULE MCStatusStream --------------------------
(***************************************************************************)
(* StatusStream for TLC: the discovery task and the TPDO listener.         *)
(***************************************************************************)
EXTENDS StatusStream, TLC

CONSTANTS discovery, tpdo

Tasks == {discovery, tpdo}

TaskSymmetry == Permutations(Tasks)
=============================================================================
