---------------------------- MODULE MCPdoConfig -----------------------------
(* Two slots, two rates, two target ranges, and a slot that does not exist. *)
EXTENDS PdoConfig

Ask(timer, shared, slot, total, mapping) ==
  [timer |-> timer, shared |-> shared, slot |-> slot, total |-> total, mapping |-> mapping]

TwoTimers == {1, 4}
MixedRequests ==
  {Ask(1, TRUE, 0, 2, 1), Ask(4, TRUE, 1, 2, 2), Ask(4, FALSE, 2, 2, 2)}
=============================================================================
