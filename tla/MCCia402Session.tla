------------------------- MODULE MCCia402Session -------------------------
(***************************************************************************)
(* Instances of Cia402Session for TLC: devices a and b of one node id.     *)
(***************************************************************************)
EXTENDS Cia402Session

CONSTANTS a, b

TwoDevices == {a, b}
OneDevice  == {a}
NoDevice   == {}
OnlyA      == {a}

TwoStates == {"PreOperational", "Operational"}
=============================================================================
