--------------------------- MODULE DeviceSettings ---------------------------
(***************************************************************************)
(* The settings transactions of Cia402Manager on one node id: the guarded  *)
(* change of CAN settings (apply_device_settings, change_node_id) and the  *)
(* position preset (cia402/manager.rs, cia402/device_can.rs), against      *)
(* devices that lose power, are swapped or restart between any two SDOs,   *)
(* noticed or not, and against another device that may already own the     *)
(* wanted node id.                                                         *)
(*                                                                         *)
(* Two dialects: an 0x2001 motor keeps written fields in RAM until 0x1010  *)
(* stores them all; an 0x2100 box writes through, a little later.          *)
(* Devices of one dialect count as one product here.                       *)
(***************************************************************************)
EXTENDS Naturals, Sequences

CONSTANTS
  Motors,      \* devices of the 0x2001 dialect
  FdBoxes,     \* devices of the 0x2100 dialect that have CAN FD
  ClassicBoxes,\* devices of the 0x2100 dialect that have not
  None,        \* no value
  Own, Other,  \* the node id the calls go to, and one they may ask for
  Factory,     \* settings a device may come with: [FdConfigs or ClassicConfigs]
  Updates,     \* settings a caller may ask for, see ValidUpdate
  NmtStates,   \* NMT states a running device reports
  HbCapacity   \* bound on heartbeat frames in flight

Devices  == Motors \cup FdBoxes \cup ClassicBoxes
Fields   == {"nominal", "data", "brs", "node"}
Nominals == {"1M", "other"}
DataRates == {"1M", "5M"}
Configs  ==
  [nominal : Nominals, data : DataRates, brs : BOOLEAN, node : {Own, Other}]
    \cup [nominal : Nominals, data : {None}, brs : {None}, node : {Own, Other}]

ASSUME KindsDisjoint == Motors \cap (FdBoxes \cup ClassicBoxes) = {}
ASSUME NodesDiffer == Own # Other
ASSUME ConfigsAssumption ==
  /\ \A config \in Factory : config \in Configs /\ config.node = Own
  /\ Updates \subseteq Configs
ASSUME NoneIsNothing == None \notin Configs \cup DataRates \cup BOOLEAN
ASSUME NmtAssumption ==
  "PreOperational" \in NmtStates /\ {"BootUp", None} \cap NmtStates = {}
ASSUME CapacityAssumption == HbCapacity \in Nat

VARIABLES
  (* MotorEntryInner of node Own, and what the map knows of node Other *)
  online, nmtState,
  identity,     \* identity: the product, or None
  canConfig,    \* the settings the latest successful call has cached, or None
  otherOnline,  \* the entry of node Other is online
  (* the call holding node Own in inflight_ops *)
  op, pc,
  moved,        \* session_epoch or nmt_revision left its DeviceSessionToken
  expected,     \* product the call was made for
  target,       \* DeviceSettingsUpdate
  snapshot,     \* settings it read
  plan,         \* writes it has yet to send
  (* the device, the other one, and the heartbeat frames of node Own *)
  powered, who, address, devNmt, drive, ram, nv, otherUp, hbq,
  (* history *)
  missed,       \* a Boot-Up of node Own was lost since the session began
  dirty,        \* a write was sent since the settings in canConfig were cached
  unlucky       \* the owner of Other came up late or its answer got lost

entryVars  == <<online, nmtState, identity, canConfig, otherOnline>>
callVars   == <<op, pc, moved, expected, target, snapshot, plan>>
deviceVars == <<powered, who, address, devNmt, drive, ram, nv, otherUp, hbq>>
histVars   == <<missed, dirty, unlucky>>
vars == <<entryVars, callVars, deviceVars, histVars>>

ConfigurationStates == {"PreOperational", "Stopped"}
SettingsPcs == {"verify", "read", "probe", "plan", "write"}
PresetPcs   == {"verify", "disable", "poll", "command"}

(* CanConfigDialect: dialect_for_tuple of the device's identity *)
Product(d) == IF d \in Motors THEN "Object2001" ELSE "Object2100"

Fits(d, config) == (config.data = None) = (d \in ClassicBoxes)

Init ==
  /\ online = FALSE /\ nmtState = None /\ identity = None /\ canConfig = None
  /\ otherOnline = FALSE
  /\ op = "none" /\ pc = "idle" /\ moved = FALSE /\ expected = None
  /\ target = None /\ snapshot = None /\ plan = <<>>
  /\ powered = FALSE /\ who \in Devices /\ address = Own
  /\ devNmt = "PreOperational" /\ drive = "disabled"
  /\ \E config \in Factory : Fits(who, config) /\ nv = config /\ ram = config
  /\ otherUp \in BOOLEAN /\ hbq = <<>>
  /\ missed = FALSE /\ dirty = FALSE /\ unlucky = FALSE

-----------------------------------------------------------------------------
(* The devices and the bus.                                                 *)

(* The device answers under node id Own. *)
Here == powered /\ address = Own

Boot(d, config) ==
  /\ who' = d /\ nv' = config /\ ram' = config /\ address' = config.node
  /\ devNmt' = "PreOperational" /\ drive' = "disabled"

(* The Boot-Up reaches the host, or it is lost: run_discovery goes on after *)
(* a receive error.  A heartbeat that is lost is one never emitted.         *)
BootUpSent ==
  \/ address' = Other /\ UNCHANGED <<hbq, missed>>
  \/ address' = Own /\ Len(hbq) < HbCapacity
       /\ hbq' = Append(hbq, "BootUp") /\ UNCHANGED missed
  \/ address' = Own /\ missed' = TRUE /\ UNCHANGED hbq

(* The device comes back with what it has stored, or another one with its  *)
(* own settings takes its place.                                           *)
PowerOn ==
  /\ ~powered
  /\ powered' = TRUE
  /\ \/ Boot(who, nv)
     \/ \E d \in Devices, config \in Factory : Fits(d, config) /\ Boot(d, config)
  /\ BootUpSent
  /\ UNCHANGED <<otherUp, entryVars, callVars, dirty, unlucky>>

PowerOff ==
  /\ powered
  /\ powered' = FALSE
  /\ ram' = nv /\ address' = nv.node
  /\ devNmt' = "PreOperational" /\ drive' = "disabled"
  /\ UNCHANGED <<who, nv, otherUp, hbq>>
  /\ UNCHANGED <<entryVars, callVars, histVars>>

EmitHeartbeat ==
  /\ Here /\ Len(hbq) < HbCapacity
  /\ hbq' = Append(hbq, devNmt)
  /\ UNCHANGED <<powered, who, address, devNmt, drive, ram, nv, otherUp>>
  /\ UNCHANGED <<entryVars, callVars, histVars>>

(* NMT commands are not sent by these calls, but by initialize() and others. *)
DeviceNmtChange ==
  /\ Here
  /\ devNmt' \in NmtStates \ {devNmt}
  /\ UNCHANGED <<powered, who, address, drive, ram, nv, otherUp, hbq>>
  /\ UNCHANGED <<entryVars, callVars, histVars>>

(* set_mode and the like share the node's exclusive section. *)
EnableDrive ==
  /\ op = "none" /\ Here /\ who \in Motors /\ devNmt = "Operational"
  /\ drive' = "enabled"
  /\ UNCHANGED <<powered, who, address, devNmt, ram, nv, otherUp, hbq>>
  /\ UNCHANGED <<entryVars, callVars, histVars>>

(* A drive told to stop does so in its own time. *)
DriveStops ==
  /\ drive = "stopping"
  /\ drive' = "disabled"
  /\ UNCHANGED <<powered, who, address, devNmt, ram, nv, otherUp, hbq>>
  /\ UNCHANGED <<entryVars, callVars, histVars>>

(* Write-through persistence of an 0x2100 box (persistence_pending). *)
PersistLater ==
  /\ powered /\ who \notin Motors /\ nv # ram
  /\ nv' = ram
  /\ UNCHANGED <<powered, who, address, devNmt, drive, ram, otherUp, hbq>>
  /\ UNCHANGED <<entryVars, callVars, histVars>>

(* Another device on node id Other.  One that comes up when the id has been *)
(* given away, or is about to be, is nothing the probe could have found.    *)
OtherComesUp ==
  /\ ~otherUp
  /\ otherUp' = TRUE
  /\ unlucky' = (unlucky \/ Other \in {address, ram.node, nv.node}
                         \/ pc \in {"plan", "write"})
  /\ UNCHANGED <<powered, who, address, devNmt, drive, ram, nv, hbq, missed, dirty>>
  /\ UNCHANGED <<entryVars, callVars>>

OtherIsHeard ==
  /\ otherUp /\ otherOnline' = TRUE
  /\ UNCHANGED <<online, nmtState, identity, canConfig, callVars, deviceVars, histVars>>

-----------------------------------------------------------------------------
(* What the background tasks do to the entry; Cia402Session has the whole.  *)

(* invalidate_for_new_device_session; the history starts over with it *)
Invalidate ==
  identity' = None /\ canConfig' = None /\ missed' = FALSE /\ dirty' = FALSE

ReceiveHeartbeat ==
  /\ hbq # <<>>
  /\ hbq' = Tail(hbq)
  /\ online' = TRUE
  /\ nmtState' = Head(hbq)
  /\ moved' = (op # "none" /\ (moved \/ nmtState' # nmtState \/ Head(hbq) = "BootUp"))
  /\ IF Head(hbq) = "BootUp" THEN Invalidate
                            ELSE UNCHANGED <<identity, canConfig, missed, dirty>>
  /\ UNCHANGED <<otherOnline, op, pc, expected, target, snapshot, plan, unlucky>>
  /\ UNCHANGED <<powered, who, address, devNmt, drive, ram, nv, otherUp>>

(* run_liveness_monitor *)
GoOffline ==
  /\ online
  /\ online' = FALSE /\ nmtState' = None
  /\ Invalidate
  /\ moved' = (op # "none")
  /\ UNCHANGED <<otherOnline, op, pc, expected, target, snapshot, plan>>
  /\ UNCHANGED <<deviceVars, unlucky>>

(* identify_and_cache_in_session *)
Identify ==
  /\ op = "none" /\ Here /\ identity = None
  /\ identity' = Product(who)
  /\ UNCHANGED <<online, nmtState, canConfig, otherOnline, callVars, deviceVars, histVars>>

-----------------------------------------------------------------------------
(* The calls.                                                               *)

(* validate_settings_target; both node ids are valid ones *)
ValidUpdate(product, update) ==
  /\ update.nominal = "1M"
  /\ (update.data = None) = (update.brs = None)
  /\ product = "Object2001" => update.data # None

(* InflightGuard and require_current_session_online *)
Begin(call, product, update) ==
  /\ op = "none"
  /\ online /\ nmtState # None
  /\ call # "preset" => nmtState \in ConfigurationStates
  /\ op' = call /\ pc' = "verify" /\ moved' = FALSE
  /\ expected' = product /\ target' = update /\ snapshot' = None /\ plan' = <<>>
  /\ UNCHANGED <<entryVars, deviceVars, histVars>>

CallApply(product, update) ==
  ValidUpdate(product, update) /\ Begin("apply", product, update)

(* change_node_id: for the cached identity, whatever settings it will read. *)
CallChangeNodeId(node) ==
  identity # None /\ Begin("change", identity, [node |-> node])

(* set_position_preset_for *)
CallPreset == Begin("preset", "Object2001", None)

Release ==
  /\ op' = "none" /\ pc' = "idle" /\ moved' = FALSE /\ expected' = None
  /\ target' = None /\ snapshot' = None /\ plan' = <<>>

(* ensure_device_session.  The check after one write and that before the    *)
(* next differ by a pause; the later one is kept.                           *)
SessionHolds ==
  /\ online /\ ~moved
  /\ op # "preset" => nmtState \in ConfigurationStates

At(p) == pc = p /\ SessionHolds

OnlyCall == UNCHANGED <<entryVars, histVars>>
SameCall == UNCHANGED <<op, moved, expected>>

(* The device answers an SDO to objects of the expected product. *)
Answers == Here /\ Product(who) = expected

(* verify_identity_tuple_in_session *)
VerifyIdentity ==
  /\ At("verify") /\ Answers
  /\ pc' = IF op = "preset" THEN "disable" ELSE "read"
  /\ SameCall /\ OnlyCall /\ UNCHANGED <<target, snapshot, plan, deviceVars>>

(* Mutant: a device without BRS is told not to use it. *)
WithBrsOff(current, node) == [current EXCEPT !.node = node, !.brs = FALSE]

(* update_with_new_node_id *)
WithNewNodeId(current, node) == [current EXCEPT !.node = node]

(* read_device_settings_snapshot *)
ReadSettings ==
  /\ At("read") /\ Answers
  /\ snapshot' = ram
  /\ target' = IF op = "change" THEN WithNewNodeId(ram, target.node) ELSE target
  /\ pc' = "probe"
  /\ SameCall /\ OnlyCall /\ UNCHANGED <<plan, deviceVars>>

(* What the probe's SDO gets to see, if the answer of the owner is lost.    *)
ProbeSees(lost) == IF otherUp /\ ~lost THEN {"value", "abort"} ELSE {"timeout"}

(* Mutant: a device that refuses to answer counts as absent. *)
NotReadable(seen) == seen # "value"

(* probe_target_node_id_available goes on after a protocol timeout only *)
ProvesFree(seen) == seen = "timeout"

(* reject_online_node_id_collision, and then the probe *)
ProbeTarget ==
  /\ At("probe")
  /\ \/ target.node = Own /\ UNCHANGED unlucky
     \/ /\ target.node # Own /\ ~otherOnline
        /\ \E lost \in BOOLEAN : \E seen \in ProbeSees(lost) :
             ProvesFree(seen) /\ unlucky' = (unlucky \/ (otherUp /\ lost))
  /\ pc' = "plan"
  /\ SameCall /\ UNCHANGED <<target, snapshot, plan, entryVars, deviceVars, missed, dirty>>

(* A field is written when it differs. *)
Write(f, current, update) == IF current[f] # update[f] THEN <<f>> ELSE <<>>

(* Mutant: nothing is stored when nothing changed. *)
NoStoreIfEqual(current, update) ==
  IF current = update THEN <<>>
  ELSE Write("nominal", current, update) \o Write("data", current, update)
         \o Write("brs", current, update) \o Write("node", current, update) \o <<"store">>

(* build_object_2001_settings_plan: what differs, the node id last, and the *)
(* store in any case.                                                       *)
Plan2001(current, update) ==
  Write("nominal", current, update) \o Write("data", current, update)
    \o Write("brs", current, update) \o Write("node", current, update) \o <<"store">>

(* build_object_2100_settings_plan: everything the shape has, node id last. *)
Plan2100(current, update) ==
  IF current.data = None THEN <<"nominal", "node">>
                         ELSE <<"nominal", "data", "brs", "node">>

(* build_device_settings_plan, with the checks its builders repeat *)
BuildPlan ==
  /\ At("plan")
  /\ target.nominal = "1M"
  /\ (snapshot.data = None) = (target.data = None)
  /\ plan' = IF expected = "Object2001" THEN Plan2001(snapshot, target)
                                        ELSE Plan2100(snapshot, target)
  /\ snapshot' = None
  /\ pc' = "write"
  /\ SameCall /\ OnlyCall /\ UNCHANGED <<target, deviceVars>>

(* One SDO of sdo_download_session_checked.  A device of another shape      *)
(* refuses fields it does not have.                                         *)
WriteNext ==
  /\ At("write") /\ plan # <<>> /\ Answers
  /\ LET f == Head(plan)
     IN /\ f \in {"data", "brs"} => ram.data # None
        /\ ram' = IF f = "store" THEN ram ELSE [ram EXCEPT ![f] = target[f]]
        /\ nv'  = IF f = "store" THEN ram ELSE nv
  /\ plan' = Tail(plan)
  /\ dirty' = (canConfig # None)
  /\ SameCall
  /\ UNCHANGED <<pc, target, snapshot, entryVars, missed, unlucky>>
  /\ UNCHANGED <<powered, who, address, devNmt, drive, otherUp, hbq>>

(* cache_applied_settings, and the call returns Ok. *)
CacheApplied ==
  /\ At("write") /\ plan = <<>>
  /\ canConfig' = target
  /\ dirty' = FALSE
  /\ Release
  /\ UNCHANGED <<online, nmtState, identity, otherOnline, deviceVars, missed, unlucky>>

(* The preset: the disable command ... *)
DisableDrive ==
  /\ At("disable") /\ Answers
  /\ drive' = IF drive = "disabled" THEN drive ELSE "stopping"
  /\ pc' = "poll"
  /\ SameCall /\ OnlyCall /\ UNCHANGED <<target, snapshot, plan>>
  /\ UNCHANGED <<powered, who, address, devNmt, ram, nv, otherUp, hbq>>

(* Mutant: the command is taken for its effect. *)
StoppingWillDo == drive # "enabled"

(* ... the status word (or 0x4402), polled until it says so ... *)
ReadsDisabled == drive = "disabled"

PollDisabled ==
  /\ At("poll") /\ Answers /\ ReadsDisabled
  /\ pc' = "command"
  /\ SameCall /\ OnlyCall /\ UNCHANGED <<target, snapshot, plan, deviceVars>>

(* ... and 0x3001: the position, and then the command that makes it so. *)
WritePreset ==
  /\ At("command") /\ Answers
  /\ Release
  /\ OnlyCall /\ UNCHANGED deviceVars

(* A failed check, an SDO error (the write may have had its effect all the  *)
(* same), a deadline, or the caller dropping the future.                    *)
CallFails ==
  /\ op # "none"
  /\ Release
  /\ OnlyCall /\ UNCHANGED deviceVars

-----------------------------------------------------------------------------

Calls ==
  \/ \E update \in Updates, product \in {"Object2001", "Object2100"} :
       CallApply(product, update)
  \/ \E node \in {Own, Other} : CallChangeNodeId(node)
  \/ CallPreset

CallStep ==
  \/ VerifyIdentity \/ ReadSettings \/ ProbeTarget
  \/ BuildPlan \/ WriteNext \/ CacheApplied
  \/ DisableDrive \/ PollDisabled \/ WritePreset
  \/ CallFails

Environment ==
  \/ PowerOn \/ PowerOff \/ EmitHeartbeat \/ DeviceNmtChange
  \/ EnableDrive \/ DriveStops \/ PersistLater \/ OtherComesUp \/ OtherIsHeard
  \/ ReceiveHeartbeat \/ GoOffline \/ Identify

Next == Calls \/ CallStep \/ Environment

Spec == Init /\ [][Next]_vars

-----------------------------------------------------------------------------
(* Properties.                                                              *)

FlagsOK ==
  /\ online \in BOOLEAN /\ otherOnline \in BOOLEAN /\ moved \in BOOLEAN
  /\ powered \in BOOLEAN /\ otherUp \in BOOLEAN
  /\ missed \in BOOLEAN /\ dirty \in BOOLEAN /\ unlucky \in BOOLEAN

EntryOK ==
  /\ nmtState \in NmtStates \cup {"BootUp", None}
  /\ identity \in {"Object2001", "Object2100", None}
  /\ canConfig \in Configs \cup {None}

CallOK ==
  /\ op \in {"none", "apply", "change", "preset"}
  /\ pc \in {"idle"} \cup SettingsPcs \cup PresetPcs
  /\ expected \in {"Object2001", "Object2100", None}
  /\ target \in Configs \cup [node : {Own, Other}] \cup {None}
  /\ snapshot \in Configs \cup {None}
  /\ plan \in Seq(Fields \cup {"store"})

DeviceOK ==
  /\ who \in Devices /\ address \in {Own, Other} /\ devNmt \in NmtStates
  /\ drive \in {"enabled", "stopping", "disabled"}
  /\ ram \in Configs /\ nv \in Configs
  /\ hbq \in Seq(NmtStates \cup {"BootUp"})

TypeOK == FlagsOK /\ EntryOK /\ CallOK /\ DeviceOK

(* What the host cannot know (yet): the device is not there any more, its   *)
(* Boot-Up has not been processed, or one was lost in this session.         *)
RestartPending ==
  ~Here \/ missed \/ \E i \in 1 .. Len(hbq) : hbq[i] = "BootUp"

(* What an 0x2001 motor has stored; what an 0x2100 box is going to store. *)
Kept == IF who \in Motors THEN nv ELSE ram

(* A transaction that returned Ok has left the whole target with the        *)
(* device, also when it repeated one that had written its fields and failed *)
(* before the store, or when the device restarted half-way and was heard.   *)
(* (With its Boot-Up lost the writes before the restart are gone and the    *)
(* call returns Ok all the same: nothing it reads would tell.)              *)
AppliedMeansStored ==
  canConfig # None /\ ~dirty => Kept = canConfig \/ RestartPending

(* The transaction does not put two devices on one node id, unless the      *)
(* other one could not be found when its id was probed.                     *)
NoDuplicateId == powered /\ address = Other /\ otherUp => unlucky

(* The preset command reaches a motor, and a stopped one: neither a slow    *)
(* stop nor a change of devices the host could hear of slips through.       *)
PresetOnDisabledDrive ==
  pc = "command" => (drive = "disabled" /\ who \in Motors) \/ RestartPending \/ moved
=============================================================================
