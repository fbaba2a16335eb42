--------------------------- MODULE MCDeviceSettings ---------------------------
(* Instances of DeviceSettings for TLC. *)
EXTENDS DeviceSettings

Fd(nominal, data, brs, node) ==
  [nominal |-> nominal, data |-> data, brs |-> brs, node |-> node]

(* A device out of the box, with a wrong nominal rate, and a classic one. *)
MCFactory == {Fd("other", "1M", TRUE, Own), Fd("1M", None, None, Own)}

(* New rates and a new node id. *)
MCUpdates == {Fd("1M", "5M", TRUE, Other), Fd("1M", None, None, Other)}
=============================================================================
