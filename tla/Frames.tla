------------------------------- MODULE Frames -------------------------------
(***************************************************************************)
(* CAN frames of the driver and of its nodes: COB-IDs (canopen/cob.rs),    *)
(* NMT and heartbeat frames (canopen/nmt.rs, heartbeat.rs), and which      *)
(* background task of a manager takes a received frame for what            *)
(* (run_discovery, run_tpdo_listener).  No state.                          *)
(*                                                                         *)
(* An identifier is a number, its function code the multiple of 128 in it. *)
(***************************************************************************)
EXTENDS Integers, Sequences

NodeIds == 1 .. 127

-----------------------------------------------------------------------------
(* COB-IDs.                                                                 *)

Unaddressed == {"Nmt", "Sync", "Time"}

FunctionCode == [
  Nmt |-> 0, Sync |-> 128, Emergency |-> 128, Time |-> 256,
  Tpdo1 |-> 384, Rpdo1 |-> 512, Tpdo2 |-> 640, Rpdo2 |-> 768,
  Tpdo3 |-> 896, Rpdo3 |-> 1024, Tpdo4 |-> 1152, Rpdo4 |-> 1280,
  Tsdo |-> 1408, Rsdo |-> 1536, Heartbeat |-> 1792]

Objects   == DOMAIN FunctionCode
Addressed == Objects \ Unaddressed

Invalid == "InvalidNodeId"

CobId(object, node) ==
  IF object \in Unaddressed THEN FunctionCode[object]
  ELSE IF node \in NodeIds THEN FunctionCode[object] + node ELSE Invalid

CodeOf(id) == (id \div 128) * 128
NodeOf(id) == id % 128

(* The objects an identifier may stand for, with the node: none or one.     *)
ParseCobId(id) ==
  {<<object, 0>> : object \in {o \in Unaddressed : FunctionCode[o] = id}}
  \cup {<<object, NodeOf(id)>> :
          object \in {o \in Addressed : FunctionCode[o] = CodeOf(id) /\ NodeOf(id) # 0}}

(* Identifiers custom frames have to avoid: every object's, and LSS.        *)
IsReservedStandard(id) ==
  \/ id \in {FunctionCode[o] : o \in Unaddressed}
  \/ NodeOf(id) # 0 /\ CodeOf(id) \in {FunctionCode[o] : o \in Addressed}
  \/ id \in 1664 .. 1791 \/ id \in 1920 .. 2047

IsReservedExtended(id) == id \in {9, 169, 170} \/ id \in 65024 .. 65279

-----------------------------------------------------------------------------
(* NMT.  A frame has a kind, a standard or an extended id and its bytes.    *)

Frame(id, bytes) == [kind |-> "Data", standard |-> TRUE, id |-> id, bytes |-> bytes]

NmtStateByte == [BootUp |-> 0, Stopped |-> 4, Operational |-> 5, PreOperational |-> 127]
NmtCommandByte == [
  StartRemoteNode |-> 1, StopRemoteNode |-> 2, EnterPreOperational |-> 128,
  ResetNode |-> 129, ResetCommunication |-> 130]

NmtCommand(command, node) == Frame(0, <<NmtCommandByte[command], node>>)

Heartbeat(node, state) == Frame(1792 + (node % 128), <<NmtStateByte[state]>>)

(* The node and the state in a heartbeat: none or one.                      *)
ParseHeartbeat(f) ==
  IF /\ f.kind = "Data" /\ f.standard
     /\ CodeOf(f.id) = 1792 /\ NodeOf(f.id) # 0 /\ Len(f.bytes) = 1
  THEN {<<NodeOf(f.id), s>> : s \in {t \in DOMAIN NmtStateByte : NmtStateByte[t] = f.bytes[1]}}
  ELSE {}

(* What the driver sends once per period while it lives *)
Broadcast(host) == Heartbeat(host, "Operational")

(* An entry of 0x1016: producer and timeout *)
ConsumerEntry(producer, timeout) == (producer % 256) * 65536 + timeout

(* BRS first, then the length *)
PdoFrameKind(len, brs) == IF brs THEN "FdBrs" ELSE IF len <= 8 THEN "Data" ELSE "Fd"

-----------------------------------------------------------------------------
(* Who takes a frame.  A subscription is a filter on the function code.     *)

Subscribed(f, code) == f.standard /\ CodeOf(f.id) = code

(* run_discovery, for both families: heartbeats other than our own *)
ToDiscovery(f, host) ==
  IF Subscribed(f, 1792) THEN {h \in ParseHeartbeat(f) : h[1] # host} ELSE {}

(* run_tpdo_listener, for both families: frames of any kind by their id *)
ToTpdo1(f) == IF Subscribed(f, 384) /\ NodeOf(f.id) # 0 THEN {NodeOf(f.id)} ELSE {}
ToTpdo2(f) == IF Subscribed(f, 640) /\ NodeOf(f.id) # 0 THEN {NodeOf(f.id)} ELSE {}
=============================================================================
