---------------------------- MODULE MCMeowSession ----------------------------
(* Instances of MeowSession for TLC. *)
EXTENDS MeowSession
=============================================================================
