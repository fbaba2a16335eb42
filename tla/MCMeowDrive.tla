----------------------------- MODULE MCMeowDrive -----------------------------
(* A two-object mode (MIT) and a one-object mode, for TLC.                 *)
EXTENDS MeowDrive

CONSTANTS Mit, Torque

TwoModes == {Mit, Torque}
TwoWidths == [m \in TwoModes |-> IF m = Mit THEN 2 ELSE 1]
=============================================================================
