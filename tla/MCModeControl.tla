--------------------------- MODULE MCModeControl ---------------------------
(***************************************************************************)
(* ModeControl for TLC: profile position and profile velocity.             *)
(***************************************************************************)
EXTENDS ModeControl

CONSTANTS pp, pv

TwoModes == {pp, pv}
=============================================================================
