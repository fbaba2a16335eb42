------------------------ MODULE DeviceSettingsProofs ------------------------
(***************************************************************************)
(* Proofs about DeviceSettings for any devices, settings and bound on the  *)
(* heartbeats in flight: the guarded change of a node id never gives away  *)
(* an id whose owner it could have found; the preset command reaches a     *)
(* stopped motor, and an Ok means stored settings, but for a restart the   *)
(* host has not heard of, be its Boot-Up under way or lost.                *)
(***************************************************************************)
EXTENDS DeviceSettings, SequenceTheorems, TLAPS

(* The part of the types that the proofs need. *)
Shapes ==
  /\ DOMAIN ram = Fields /\ DOMAIN nv = Fields
  /\ moved \in BOOLEAN
  /\ devNmt \in NmtStates
  /\ hbq \in Seq(NmtStates \cup {"BootUp"})

(* Node id Other is in use or about to be only if its owner was not found. *)
OtherIsFree ==
  /\ Other \in {address, ram.node, nv.node} /\ otherUp => unlucky
  /\ pc \in {"plan", "write"} /\ target.node = Other /\ otherUp => unlucky

(* The call that holds the node is at one of its steps; a preset is a       *)
(* motor's.                                                                 *)
CallInOrder ==
  /\ op = "none" => pc = "idle"
  /\ pc \in {"disable", "poll", "command"} => op = "preset"
  /\ op = "preset" => expected = "Object2001"

(* NoDuplicateId needs OtherIsFree: the id is given away by a write, kept in *)
(* RAM or stored, and takes effect at a boot that may be much later.         *)
(* PresetOnDisabledDrive needs CallInOrder: nothing enables the drive while  *)
(* the preset holds the node.                                                *)
SettingsInv == Shapes /\ OtherIsFree /\ CallInOrder /\ PresetOnDisabledDrive

LEMMA ConfigShape == \A config \in Configs : DOMAIN config = Fields
  BY DEF Configs, Fields

LEMMA InitHolds == Init => SettingsInv
<1> SUFFICES ASSUME Init PROVE SettingsInv
  OBVIOUS
<1>1. ram \in Configs /\ ram = nv /\ ram.node = Own /\ address = Own
  BY ConfigsAssumption DEF Init
<1>2. Shapes
  BY <1>1, ConfigShape, NmtAssumption, EmptySeq DEF Init, Shapes
<1>3. OtherIsFree
  BY <1>1, NodesDiffer DEF Init, OtherIsFree
<1> QED
  BY <1>2, <1>3 DEF Init, SettingsInv, CallInOrder, PresetOnDisabledDrive

(* The devices' own steps keep their shape.                                 *)
LEMMA DeviceShapes ==
  ASSUME SettingsInv, Environment
  PROVE  Shapes'
<1>s. Shapes
  BY DEF SettingsInv
<1>1. CASE PowerOn
  <2>1. /\ DOMAIN ram' = Fields /\ DOMAIN nv' = Fields
        /\ devNmt' = "PreOperational"
        /\ hbq' \in {hbq, Append(hbq, "BootUp")}
        /\ moved' = moved
    BY <1>1, <1>s, ConfigsAssumption, ConfigShape DEF PowerOn, Boot, BootUpSent, Shapes, callVars
  <2> QED
    BY <2>1, <1>s, NmtAssumption DEF Shapes
<1>2. CASE PowerOff
  BY <1>2, <1>s, NmtAssumption DEF PowerOff, Shapes, callVars
<1>3. CASE EmitHeartbeat \/ DeviceNmtChange
  BY <1>3, <1>s DEF EmitHeartbeat, DeviceNmtChange, Shapes, callVars
<1>4. CASE EnableDrive \/ DriveStops \/ PersistLater \/ OtherComesUp \/ OtherIsHeard
  BY <1>4, <1>s DEF EnableDrive, DriveStops, PersistLater, OtherComesUp, OtherIsHeard,
                    Shapes, callVars, deviceVars
<1>5. CASE ReceiveHeartbeat
  BY <1>5, <1>s DEF ReceiveHeartbeat, Shapes
<1>6. CASE GoOffline \/ Identify
  BY <1>6, <1>s DEF GoOffline, Identify, Shapes, callVars, deviceVars
<1> QED
  BY <1>1, <1>2, <1>3, <1>4, <1>5, <1>6 DEF Environment

(* A restart the host has not heard of stays one until the session ends,    *)
(* and then the cache is empty and the call's session has moved.  Without   *)
(* one the device keeps what it holds; a box may store it.                  *)
LEMMA RestartStays ==
  ASSUME Shapes, Environment
  PROVE  /\ RestartPending =>
              RestartPending' \/ (canConfig' = None /\ (op # "none" => moved'))
         /\ op # "none" =>
              /\ moved => moved'
              /\ drive' = drive \/ drive' = "disabled"
         /\ UNCHANGED <<op, pc, expected, target, snapshot, plan>>
         /\ canConfig' # None => UNCHANGED <<canConfig, dirty>>
         /\ RestartPending' \/ (UNCHANGED <<who, ram>> /\ (nv' = nv \/ who \notin Motors))
<1>1. CASE PowerOn
  <2>1. /\ UNCHANGED <<callVars, dirty, canConfig>>
        /\ drive' = "disabled"
        /\ powered' /\ ~powered
        /\ \/ address' = Other
           \/ hbq' = Append(hbq, "BootUp")
           \/ missed'
    BY <1>1, Zenon DEF PowerOn, Boot, BootUpSent, entryVars
  <2>2. RestartPending'
    <3>1. CASE hbq' = Append(hbq, "BootUp")
      <4>1. /\ Len(hbq') = Len(hbq) + 1 /\ Len(hbq) + 1 \in 1 .. Len(hbq')
            /\ hbq'[Len(hbq) + 1] = "BootUp"
        BY <3>1 DEF Shapes
      <4> QED
        BY <4>1 DEF RestartPending
    <3>2. CASE missed' \/ address' = Other
      BY <3>2, NodesDiffer DEF RestartPending, Here
    <3> QED
      BY <2>1, <3>1, <3>2
  <2> QED
    BY <2>1, <2>2 DEF callVars
<1>2. CASE PowerOff
  BY <1>2 DEF PowerOff, RestartPending, Here, callVars, entryVars, histVars
<1>3. CASE EmitHeartbeat
  <2>1. RestartPending => RestartPending'
    <3> SUFFICES ASSUME RestartPending PROVE RestartPending'
      OBVIOUS
    <3>1. Here /\ hbq' = Append(hbq, devNmt) /\ UNCHANGED missed
      BY <1>3 DEF EmitHeartbeat, histVars
    <3>2. CASE missed
      BY <3>1, <3>2 DEF RestartPending
    <3>3. CASE \E i \in 1 .. Len(hbq) : hbq[i] = "BootUp"
      <4>1. PICK i \in 1 .. Len(hbq) : hbq[i] = "BootUp"
        BY <3>3
      <4>2. i \in 1 .. Len(hbq') /\ hbq'[i] = "BootUp"
        BY <3>1, <4>1 DEF Shapes
      <4> QED
        BY <4>2 DEF RestartPending
    <3> QED
      BY <3>1, <3>2, <3>3 DEF RestartPending
  <2> QED
    BY <1>3, <2>1 DEF EmitHeartbeat, callVars, entryVars, histVars
<1>4. CASE DeviceNmtChange \/ DriveStops \/ PersistLater \/ OtherComesUp \/ OtherIsHeard
  BY <1>4 DEF DeviceNmtChange, DriveStops, PersistLater, OtherComesUp, OtherIsHeard,
              RestartPending, Here, callVars, deviceVars, entryVars, histVars
<1>5. CASE ReceiveHeartbeat
  <2> DEFINE Noticed == canConfig' = None /\ (op # "none" => moved')
  <2>1. RestartPending => RestartPending' \/ Noticed
    <3> SUFFICES ASSUME RestartPending, Here, ~Noticed PROVE RestartPending'
      BY <1>5 DEF RestartPending, ReceiveHeartbeat, Here
    <3>2. hbq # <<>> /\ hbq' = Tail(hbq) /\ Head(hbq) # "BootUp" /\ UNCHANGED missed
      <4>1. Head(hbq) # "BootUp"
        BY <1>5, Zenon DEF ReceiveHeartbeat, Invalidate
      <4> QED
        BY <1>5, <4>1, Zenon DEF ReceiveHeartbeat
    <3>3. CASE missed
      BY <3>2, <3>3 DEF RestartPending
    <3>4. CASE ~missed
      <4>0. PICK i \in 1 .. Len(hbq) : hbq[i] = "BootUp"
        BY <3>4 DEF RestartPending
      <4>1. i - 1 \in 1 .. Len(hbq') /\ hbq'[i - 1] = "BootUp"
        BY <3>2, <4>0 DEF Shapes
      <4> QED
        BY <4>1 DEF RestartPending
    <3> QED
      BY <3>3, <3>4
  <2> QED
    BY <1>5, <2>1 DEF ReceiveHeartbeat, Invalidate, histVars
<1>6. CASE GoOffline
  BY <1>6 DEF GoOffline, Invalidate, RestartPending, Here, deviceVars, histVars
<1>7. CASE EnableDrive \/ Identify
  BY <1>7 DEF EnableDrive, Identify, RestartPending, Here, callVars, deviceVars, entryVars, histVars
<1> QED
  BY <1>1, <1>2, <1>3, <1>4, <1>5, <1>6, <1>7 DEF Environment

(* The environment never lets Other's owner slip past OtherIsFree.          *)
LEMMA OtherStaysFree ==
  ASSUME SettingsInv, Environment
  PROVE  OtherIsFree'
<1>i. OtherIsFree
  BY DEF SettingsInv
<1>1. CASE PowerOn
  <2>1. /\ ram' = nv' /\ address' = nv'.node
        /\ nv' = nv \/ nv'.node = Own
        /\ UNCHANGED <<otherUp, unlucky, pc, target>>
    BY <1>1, ConfigsAssumption DEF PowerOn, Boot, callVars, histVars
  <2> QED
    BY <1>i, <2>1, NodesDiffer DEF OtherIsFree
<1>2. CASE PowerOff
  BY <1>2, <1>i DEF PowerOff, OtherIsFree, callVars, histVars
<1>3. CASE EmitHeartbeat \/ DeviceNmtChange \/ EnableDrive \/ DriveStops
  BY <1>3, <1>i DEF EmitHeartbeat, DeviceNmtChange, EnableDrive, DriveStops, OtherIsFree,
                    callVars, histVars
<1>4. CASE PersistLater \/ OtherIsHeard
  BY <1>4, <1>i DEF PersistLater, OtherIsHeard, OtherIsFree, callVars, deviceVars, histVars
<1>5. CASE OtherComesUp
  <2>1. UNCHANGED <<address, ram, nv, pc, target>>
    BY <1>5 DEF OtherComesUp, callVars
  <2>2. Other \in {address, ram.node, nv.node} \/ pc \in {"plan", "write"} => unlucky'
    BY <1>5, Zenon DEF OtherComesUp
  <2> QED
    BY <2>1, <2>2 DEF OtherIsFree
<1>6. CASE ReceiveHeartbeat \/ GoOffline \/ Identify
  BY <1>6, <1>i DEF ReceiveHeartbeat, GoOffline, Identify, OtherIsFree, callVars,
                    deviceVars, histVars
<1> QED
  BY <1>1, <1>2, <1>3, <1>4, <1>5, <1>6 DEF Environment

(* Without a call under way, or with one, what the environment does.        *)
LEMMA EnvironmentStep ==
  ASSUME SettingsInv, Environment
  PROVE  SettingsInv'
<1>s. Shapes /\ CallInOrder /\ PresetOnDisabledDrive
  BY DEF SettingsInv
<1>1. Shapes' /\ OtherIsFree'
  BY DeviceShapes, OtherStaysFree
<1>2. UNCHANGED <<op, pc, expected>>
  BY DEF Environment, PowerOn, PowerOff, EmitHeartbeat, DeviceNmtChange, EnableDrive,
         DriveStops, PersistLater, OtherComesUp, OtherIsHeard, ReceiveHeartbeat, GoOffline,
         Identify, callVars
<1>3. CallInOrder'
  BY <1>s, <1>2 DEF CallInOrder
<1>4. PresetOnDisabledDrive'
  <2>1. CASE op = "none"
    BY <1>s, <1>2, <2>1 DEF CallInOrder, PresetOnDisabledDrive
  <2>2. CASE op # "none"
    BY <1>s, <1>2, <2>2, RestartStays DEF PresetOnDisabledDrive
  <2> QED
    BY <2>1, <2>2
<1> QED
  BY <1>1, <1>3, <1>4 DEF SettingsInv

(* A call begins with a fresh token and nothing planned.                    *)
LEMMA BeginStep ==
  ASSUME SettingsInv, NEW call \in {"apply", "change", "preset"}, NEW product, NEW update,
         call = "preset" => product = "Object2001", Begin(call, product, update)
  PROVE  SettingsInv'
  BY DEF SettingsInv, Begin, Shapes, OtherIsFree, CallInOrder, PresetOnDisabledDrive,
         deviceVars, histVars

(* The steps of a settings transaction up to its plan.                      *)
LEMMA PrepareStep ==
  ASSUME SettingsInv, VerifyIdentity \/ ReadSettings \/ ProbeTarget \/ BuildPlan
  PROVE  SettingsInv'
<1>s. Shapes /\ OtherIsFree /\ CallInOrder /\ PresetOnDisabledDrive
  BY DEF SettingsInv
<1>1. CASE VerifyIdentity
  BY <1>1, <1>s DEF VerifyIdentity, At, SettingsInv, Shapes, OtherIsFree, CallInOrder,
                    PresetOnDisabledDrive, SameCall, OnlyCall, entryVars, histVars, deviceVars
<1>2. CASE ReadSettings
  BY <1>2, <1>s DEF ReadSettings, At, SettingsInv, Shapes, OtherIsFree, CallInOrder,
                    PresetOnDisabledDrive, SameCall, OnlyCall, entryVars, histVars, deviceVars
<1>3. CASE ProbeTarget
  <2>1. /\ pc' = "plan" /\ UNCHANGED <<target, op, expected, moved, deviceVars>>
        /\ pc = "probe"
    BY <1>3 DEF ProbeTarget, At, SameCall
  <2>2. unlucky => unlucky'
    <3>1. CASE UNCHANGED unlucky
      BY <3>1
    <3>2. CASE \E lost \in BOOLEAN : unlucky' = (unlucky \/ (otherUp /\ lost))
      BY <3>2, Zenon
    <3> QED
      BY <1>3, <3>1, <3>2 DEF ProbeTarget
  <2>3. target.node # Own /\ otherUp => unlucky'
    <3> SUFFICES ASSUME target.node # Own, otherUp PROVE unlucky'
      OBVIOUS
    <3>1. PICK lost \in BOOLEAN : \E seen \in ProbeSees(lost) :
             ProvesFree(seen) /\ unlucky' = (unlucky \/ (otherUp /\ lost))
      BY <1>3 DEF ProbeTarget
    <3>2. lost
      BY <3>1 DEF ProbeSees, ProvesFree
    <3> QED
      BY <3>1, <3>2, Zenon
  <2>4. OtherIsFree'
    BY <1>s, <2>1, <2>2, <2>3, NodesDiffer DEF OtherIsFree, deviceVars
  <2> QED
    BY <1>s, <2>1, <2>4
       DEF SettingsInv, Shapes, CallInOrder, PresetOnDisabledDrive, deviceVars
<1>4. CASE BuildPlan
  BY <1>4, <1>s DEF BuildPlan, At, SettingsInv, Shapes, OtherIsFree, CallInOrder,
                    PresetOnDisabledDrive, SameCall, OnlyCall, entryVars, histVars, deviceVars
<1> QED
  BY <1>1, <1>2, <1>3, <1>4

(* One write: only the target's own node id can get into the device.        *)
LEMMA WriteStep ==
  ASSUME SettingsInv, WriteNext
  PROVE  SettingsInv'
<1>s. Shapes /\ OtherIsFree /\ CallInOrder /\ PresetOnDisabledDrive
  BY DEF SettingsInv
<1>1. /\ pc = "write" /\ UNCHANGED <<pc, op, expected, moved, target, unlucky>>
      /\ UNCHANGED <<powered, who, address, devNmt, drive, otherUp, hbq>>
  BY DEF WriteNext, At, SameCall
<1>2. PICK f : /\ ram' = IF f = "store" THEN ram ELSE [ram EXCEPT ![f] = target[f]]
               /\ nv' = IF f = "store" THEN ram ELSE nv
  BY DEF WriteNext
<1>3. DOMAIN ram' = Fields /\ DOMAIN nv' = Fields
  BY <1>s, <1>2 DEF Shapes
<1>4. ram'.node \in {ram.node, target.node} /\ nv'.node \in {ram.node, nv.node}
  BY <1>s, <1>2 DEF Shapes, Fields
<1>5. Shapes' /\ OtherIsFree'
  BY <1>s, <1>1, <1>3, <1>4 DEF Shapes, OtherIsFree
<1> QED
  BY <1>s, <1>1, <1>5 DEF SettingsInv, CallInOrder, PresetOnDisabledDrive

(* The steps of the preset, and the ends of the calls.                      *)
LEMMA OtherCallSteps ==
  ASSUME SettingsInv,
         CacheApplied \/ DisableDrive \/ PollDisabled \/ WritePreset \/ CallFails
  PROVE  SettingsInv'
<1>s. Shapes /\ OtherIsFree /\ CallInOrder /\ PresetOnDisabledDrive
  BY DEF SettingsInv
<1>1. CASE CacheApplied \/ WritePreset \/ CallFails
  <2>1. UNCHANGED <<deviceVars, unlucky>> /\ Release
    BY <1>1 DEF CacheApplied, WritePreset, CallFails, OnlyCall, histVars
  <2>2. Shapes' /\ OtherIsFree'
    BY <1>s, <2>1 DEF Release, Shapes, OtherIsFree, deviceVars
  <2>3. CallInOrder' /\ PresetOnDisabledDrive'
    BY <2>1 DEF Release, CallInOrder, PresetOnDisabledDrive
  <2> QED
    BY <2>2, <2>3 DEF SettingsInv
<1>2. CASE DisableDrive
  BY <1>2, <1>s DEF DisableDrive, At, SettingsInv, Shapes, OtherIsFree, CallInOrder,
                    PresetOnDisabledDrive, SameCall, OnlyCall, entryVars, histVars
<1>3. CASE PollDisabled
  <2>1. drive = "disabled" /\ who \in Motors
    BY <1>3, <1>s DEF PollDisabled, ReadsDisabled, Answers, Product, At, CallInOrder
  <2> QED
    BY <1>3, <1>s, <2>1 DEF PollDisabled, At, SettingsInv, Shapes, OtherIsFree, CallInOrder,
                            PresetOnDisabledDrive, SameCall, OnlyCall, entryVars, histVars,
                            deviceVars
<1> QED
  BY <1>1, <1>2, <1>3

(* Every step keeps the invariant.                                          *)
LEMMA SettingsStep ==
  ASSUME SettingsInv, [Next]_vars
  PROVE  SettingsInv'
<1>1. CASE Calls
  <2>1. CASE CallPreset
    BY <2>1, BeginStep DEF CallPreset
  <2>2. CASE \E node \in {Own, Other} : CallChangeNodeId(node)
    BY <2>2, BeginStep DEF CallChangeNodeId
  <2>3. CASE \E update \in Updates, product \in {"Object2001", "Object2100"} :
               CallApply(product, update)
    BY <2>3, BeginStep DEF CallApply
  <2> QED
    BY <1>1, <2>1, <2>2, <2>3 DEF Calls
<1>2. CASE CallStep
  BY <1>2, PrepareStep, WriteStep, OtherCallSteps DEF CallStep
<1>3. CASE Environment
  BY <1>3, EnvironmentStep
<1>4. CASE UNCHANGED vars
  BY <1>4 DEF vars, SettingsInv, Shapes, OtherIsFree, CallInOrder, PresetOnDisabledDrive,
              RestartPending, Here, callVars, deviceVars, histVars
<1> QED
  BY <1>1, <1>2, <1>3, <1>4 DEF Next

(* The invariant holds, for any devices, settings and capacity.             *)
THEOREM SettingsInvariant == Spec => []SettingsInv
  BY InitHolds, SettingsStep, PTL DEF Spec

(* A settings transaction does not put two devices on one node id, unless   *)
(* the other one could not be found when its id was probed.                 *)
THEOREM NoIdGivenTwice == Spec => []NoDuplicateId
<1>1. SettingsInv => NoDuplicateId
  BY DEF SettingsInv, OtherIsFree, NoDuplicateId
<1> QED
  BY <1>1, SettingsInvariant, PTL

(* The preset command reaches a stopped motor, or a device that has         *)
(* restarted without the host having heard of it, or nobody.                *)
THEOREM PresetOnlyDisabled == Spec => []PresetOnDisabledDrive
<1>1. SettingsInv => PresetOnDisabledDrive
  BY DEF SettingsInv
<1> QED
  BY <1>1, SettingsInvariant, PTL

-----------------------------------------------------------------------------
(* The types.  Which fields a record of settings has depends on the device, *)
(* so that they rest on what a call has checked before it writes.           *)

(* The fields that a plan has yet to write, and whether it ends in a store. *)
Pending(p) == {p[i] : i \in 1 .. Len(p)}
EndsInStore(p) == p # <<>> => p[Len(p)] = "store"

(* The locals of the call, by where it is. *)
CallTyped ==
  /\ op = "apply" \/ pc \in {"probe", "plan", "write"} => target \in Configs
  /\ op = "change" /\ pc \in {"verify", "read"} => target \in [node : {Own, Other}]
  /\ op = "none" => pc = "idle"
  /\ pc = "read" => op \in {"apply", "change"}
  /\ pc \in {"probe", "plan"} => snapshot \in Configs

(* A data rate or BRS is written only if the target has one. *)
PlanFits ==
  pc = "write" /\ Pending(plan) \cap {"data", "brs"} # {} => target.data # None

TypeInv == TypeOK /\ CallTyped /\ PlanFits

FdConfigs == [nominal : Nominals, data : DataRates, brs : BOOLEAN, node : {Own, Other}]
ClassicConfigs == [nominal : Nominals, data : {None}, brs : {None}, node : {Own, Other}]

LEMMA TwoShapes ==
  /\ Configs = FdConfigs \cup ClassicConfigs
  /\ \A config \in Configs : config.data = None <=> config \in ClassicConfigs
  /\ \A config \in Configs : config.data # None <=> config \in FdConfigs
<1>1. Configs = FdConfigs \cup ClassicConfigs
  BY DEF Configs, FdConfigs, ClassicConfigs
<1>2. None \notin DataRates
  BY NoneIsNothing
<1>3. \A config \in FdConfigs : config.data # None
  BY <1>2 DEF FdConfigs
<1>4. \A config \in ClassicConfigs : config.data = None
  BY DEF ClassicConfigs
<1> QED
  BY <1>1, <1>3, <1>4

(* Writing one field of a target that has it keeps the shape.               *)
LEMMA FieldWritten ==
  ASSUME NEW config \in Configs, NEW update \in Configs, NEW f \in Fields,
         f \in {"data", "brs"} => config.data # None /\ update.data # None
  PROVE  [config EXCEPT ![f] = update[f]] \in Configs
<1>1. CASE f \in {"data", "brs"}
  <2>1. config \in FdConfigs /\ update \in FdConfigs
    BY <1>1, TwoShapes
  <2>2. [config EXCEPT ![f] = update[f]] \in FdConfigs
    BY <1>1, <2>1 DEF FdConfigs
  <2> QED
    BY <2>2, TwoShapes
<1>2. CASE f \in {"nominal", "node"}
  <2>1. update.nominal \in Nominals /\ update.node \in {Own, Other}
    BY TwoShapes DEF FdConfigs, ClassicConfigs
  <2>2. CASE config \in FdConfigs
    <3>1. [config EXCEPT ![f] = update[f]] \in FdConfigs
      BY <1>2, <2>1, <2>2 DEF FdConfigs
    <3> QED
      BY <3>1, TwoShapes
  <2>3. CASE config \in ClassicConfigs
    <3>1. [config EXCEPT ![f] = update[f]] \in ClassicConfigs
      BY <1>2, <2>1, <2>3 DEF ClassicConfigs
    <3> QED
      BY <3>1, TwoShapes
  <2> QED
    BY <2>2, <2>3, TwoShapes
<1> QED
  BY <1>1, <1>2 DEF Fields

(* A plan grows by the fields that differ ...                               *)
LEMMA PlanGrows ==
  ASSUME NEW p \in Seq(Fields \cup {"store"}), NEW f \in Fields, NEW current, NEW update
  PROVE  /\ p \o Write(f, current, update) \in Seq(Fields \cup {"store"})
         /\ Pending(p \o Write(f, current, update)) =
              Pending(p) \cup (IF current[f] # update[f] THEN {f} ELSE {})
<1>1. CASE current[f] = update[f]
  <2>1. p \o Write(f, current, update) = p
    BY <1>1 DEF Write
  <2> QED
    BY <1>1, <2>1
<1>2. CASE current[f] # update[f]
  <2> DEFINE q == p \o <<f>>
  <2>1. p \o Write(f, current, update) = q
    BY <1>2 DEF Write
  <2>2. /\ q \in Seq(Fields \cup {"store"}) /\ Len(q) = Len(p) + 1
        /\ q[Len(p) + 1] = f
        /\ \A i \in 1 .. Len(p) : q[i] = p[i]
    OBVIOUS
  <2>3. Pending(q) = Pending(p) \cup {f}
    BY <2>2 DEF Pending
  <2> QED
    BY <1>2, <2>1, <2>2, <2>3
<1> QED
  BY <1>1, <1>2

(* ... so that nothing that differs is left out, and ends in the store.     *)
LEMMA PlanOf2001 ==
  ASSUME NEW current \in Configs, NEW update \in Configs,
         current.data = None <=> update.data = None
  PROVE  LET p == Plan2001(current, update)
         IN  /\ p \in Seq(Fields \cup {"store"}) /\ p # <<>> /\ EndsInStore(p)
             /\ \A f \in Fields : current[f] = update[f] \/ f \in Pending(p)
             /\ Pending(p) \cap {"data", "brs"} # {} => update.data # None
<1> DEFINE W(f) == Write(f, current, update)
           D(f) == IF current[f] # update[f] THEN {f} ELSE {}
           p1 == W("nominal")
           p2 == p1 \o W("data")
           p3 == p2 \o W("brs")
           p4 == p3 \o W("node")
           p  == p4 \o <<"store">>
           P  == Seq(Fields \cup {"store"})
<1>1. p1 \in P /\ Pending(p1) = D("nominal")
  <2> DEFINE p0 == <<>>
  <2>1. p0 \in P /\ Pending(p0) = {}
    BY DEF Pending
  <2>2. p0 \o W("nominal") = W("nominal")
    BY DEF Write
  <2> HIDE DEF p0
  <2>3. p0 \o W("nominal") \in P /\ Pending(p0 \o W("nominal")) = D("nominal")
    BY <2>1, PlanGrows DEF Fields
  <2> QED
    BY <2>2, <2>3
<1>2. p2 \in P /\ Pending(p2) = Pending(p1) \cup D("data")
  <2> HIDE DEF p1
  <2> QED
    BY <1>1, PlanGrows DEF Fields
<1>3. p3 \in P /\ Pending(p3) = Pending(p2) \cup D("brs")
  <2> HIDE DEF p2
  <2> QED
    BY <1>2, PlanGrows DEF Fields
<1>4. p4 \in P /\ Pending(p4) = Pending(p3) \cup D("node")
  <2> HIDE DEF p3
  <2> QED
    BY <1>3, PlanGrows DEF Fields
<1>5. /\ p \in P /\ Len(p) = Len(p4) + 1 /\ p[Len(p4) + 1] = "store"
      /\ \A i \in 1 .. Len(p4) : p[i] = p4[i]
  <2> HIDE DEF p4
  <2> QED
    BY <1>4
<1>6. Pending(p) = Pending(p4) \cup {"store"}
  <2> HIDE DEF p4, p
  <2>1. Len(p4) \in Nat
    BY <1>4
  <2> QED
    BY <1>5, <2>1 DEF Pending
<1>7. p # <<>> /\ EndsInStore(p)
  <2> HIDE DEF p4, p
  <2> QED
    BY <1>4, <1>5 DEF EndsInStore
<1>8. Plan2001(current, update) = p
  <2> HIDE DEF W
  <2>1. Plan2001(current, update) = W("nominal") \o W("data") \o W("brs") \o W("node")
                                      \o <<"store">>
    BY DEF Plan2001, W
  <2> QED
    BY <2>1
<1>9. update.data = None => current.data = update.data /\ current.brs = update.brs
  <2>1. update.data = None => current \in ClassicConfigs /\ update \in ClassicConfigs
    BY TwoShapes
  <2> QED
    BY <2>1 DEF ClassicConfigs
<1> HIDE DEF p, p1, p2, p3, p4
<1> QED
  BY <1>1, <1>2, <1>3, <1>4, <1>5, <1>6, <1>7, <1>8, <1>9 DEF Fields

LEMMA PlanOf2100 ==
  ASSUME NEW current \in Configs, NEW update \in Configs,
         current.data = None <=> update.data = None
  PROVE  LET p == Plan2100(current, update)
         IN  /\ p \in Seq(Fields \cup {"store"})
             /\ \A f \in Fields : current[f] = update[f] \/ f \in Pending(p)
             /\ Pending(p) \cap {"data", "brs"} # {} => update.data # None
<1> DEFINE p == Plan2100(current, update)
<1>1. CASE current.data = None
  <2>1. p = <<"nominal", "node">>
    BY <1>1 DEF Plan2100
  <2>2. p \in Seq(Fields \cup {"store"}) /\ Pending(p) = {"nominal", "node"}
    BY <2>1 DEF Pending, Fields
  <2>3. current \in ClassicConfigs /\ update \in ClassicConfigs
    BY <1>1, TwoShapes
  <2>4. current.data = update.data /\ current.brs = update.brs
    BY <2>3 DEF ClassicConfigs
  <2> QED
    BY <2>2, <2>4 DEF Fields
<1>2. CASE current.data # None
  <2>1. p = <<"nominal", "data", "brs", "node">>
    BY <1>2 DEF Plan2100
  <2>2. p \in Seq(Fields \cup {"store"}) /\ Pending(p) = Fields
    BY <2>1 DEF Pending, Fields
  <2> QED
    BY <1>2, <2>2
<1> QED
  BY <1>1, <1>2

(* One write less: the first one.                                           *)
LEMMA PlanShrinks ==
  ASSUME NEW S, NEW p \in Seq(S), p # <<>>
  PROVE  /\ Head(p) \in S /\ Tail(p) \in Seq(S)
         /\ Pending(p) = {Head(p)} \cup Pending(Tail(p))
         /\ EndsInStore(p) => EndsInStore(Tail(p))
         /\ EndsInStore(p) /\ Tail(p) = <<>> => Head(p) = "store"
<1>1. /\ Head(p) = p[1] /\ Len(Tail(p)) = Len(p) - 1 /\ Len(p) \in Nat \ {0}
      /\ \A i \in 1 .. Len(p) - 1 : Tail(p)[i] = p[i + 1]
      /\ Head(p) \in S /\ Tail(p) \in Seq(S)
  BY HeadTailProperties, LenProperties
<1>2. Pending(p) = {Head(p)} \cup Pending(Tail(p))
  <2>1. ASSUME NEW i \in 1 .. Len(p) PROVE p[i] \in {Head(p)} \cup Pending(Tail(p))
    <3>1. CASE i = 1
      BY <1>1, <3>1
    <3>2. CASE i # 1
      <4>1. i - 1 \in 1 .. Len(Tail(p)) /\ Tail(p)[i - 1] = p[i]
        BY <1>1, <3>2
      <4> QED
        BY <4>1 DEF Pending
    <3> QED
      BY <3>1, <3>2
  <2>2. ASSUME NEW i \in 1 .. Len(Tail(p)) PROVE Tail(p)[i] \in Pending(p)
    <3>1. i + 1 \in 1 .. Len(p) /\ Tail(p)[i] = p[i + 1]
      BY <1>1
    <3> QED
      BY <3>1 DEF Pending
  <2>3. Head(p) \in Pending(p)
    BY <1>1 DEF Pending
  <2> QED
    BY <2>1, <2>2, <2>3 DEF Pending
<1>3. EndsInStore(p) => EndsInStore(Tail(p))
  BY <1>1 DEF EndsInStore
<1>4. EndsInStore(p) /\ Tail(p) = <<>> => Head(p) = "store"
  <2>1. Tail(p) = <<>> => Len(p) = 1
    <3>1. Len(p) \in Nat /\ Len(Tail(p)) = Len(p) - 1
      BY <1>1
    <3>2. Len(<<>>) = 0
      OBVIOUS
    <3>3. Tail(p) = <<>> => Len(Tail(p)) = 0
      BY <3>2, Zenon
    <3> QED
      BY <3>1, <3>3
  <2> QED
    BY <1>1, <2>1 DEF EndsInStore
<1> QED
  BY <1>1, <1>2, <1>3, <1>4

LEMMA NodeOfConfig == \A config \in Configs : config.node \in {Own, Other}
  BY TwoShapes DEF FdConfigs, ClassicConfigs

LEMMA TypeInit == Init => TypeInv
<1> SUFFICES ASSUME Init PROVE TypeInv
  OBVIOUS
<1>1. ram \in Configs /\ nv \in Configs
  BY ConfigsAssumption DEF Init
<1>2. TypeOK
  BY <1>1, NmtAssumption, EmptySeq DEF Init, TypeOK, FlagsOK, EntryOK, CallOK, DeviceOK
<1> QED
  BY <1>2 DEF Init, TypeInv, CallTyped, PlanFits

(* The devices and the background tasks leave the call alone but for moved. *)
LEMMA EnvironmentTypes ==
  ASSUME TypeInv, Environment
  PROVE  TypeInv'
<1>t. TypeOK /\ CallTyped /\ PlanFits
  BY DEF TypeInv
<1>1. UNCHANGED <<op, pc, expected, target, snapshot, plan>>
  BY DEF Environment, PowerOn, PowerOff, EmitHeartbeat, DeviceNmtChange, EnableDrive,
         DriveStops, PersistLater, OtherComesUp, OtherIsHeard, ReceiveHeartbeat, GoOffline,
         Identify, callVars
<1>2. CallTyped' /\ PlanFits'
  BY <1>t, <1>1 DEF CallTyped, PlanFits, Pending
<1>3. CallOK'
  BY <1>t, <1>1 DEF TypeOK, CallOK
<1>4. FlagsOK' /\ EntryOK' /\ DeviceOK'
  <2> USE DEF TypeOK, FlagsOK, EntryOK, DeviceOK
  <2>1. CASE PowerOn
    <3>1. /\ who' \in Devices /\ nv' \in Configs /\ ram' = nv' /\ address' = nv'.node
          /\ devNmt' = "PreOperational" /\ drive' = "disabled" /\ powered' = TRUE
          /\ hbq' \in {hbq, Append(hbq, "BootUp")}
          /\ missed' \in {missed, TRUE}
          /\ UNCHANGED <<otherUp, entryVars, callVars, dirty, unlucky>>
      BY <1>t, <2>1, ConfigsAssumption DEF PowerOn, Boot, BootUpSent
    <3>2. address' \in {Own, Other}
      BY <3>1, NodeOfConfig
    <3>3. FlagsOK'
      <4>1. missed' \in BOOLEAN
        BY <1>t, <3>1, Zenon
      <4> QED
        BY <1>t, <3>1, <4>1, Zenon DEF entryVars, callVars
    <3>4. EntryOK'
      BY <1>t, <3>1 DEF entryVars
    <3>5. DeviceOK'
      BY <1>t, <3>1, <3>2, NmtAssumption
    <3> QED
      BY <3>3, <3>4, <3>5
  <2>2. CASE PowerOff
    <3>1. nv.node \in {Own, Other}
      BY <1>t, NodeOfConfig
    <3>2. FlagsOK'
      BY <1>t, <2>2, Zenon DEF PowerOff, entryVars, callVars, histVars
    <3>3. EntryOK'
      BY <1>t, <2>2 DEF PowerOff, entryVars
    <3>4. DeviceOK'
      BY <1>t, <2>2, <3>1, NmtAssumption DEF PowerOff
    <3> QED
      BY <3>2, <3>3, <3>4
  <2>3. CASE EmitHeartbeat \/ DeviceNmtChange
    BY <1>t, <2>3 DEF EmitHeartbeat, DeviceNmtChange, entryVars, callVars, histVars
  <2>4. CASE EnableDrive \/ DriveStops \/ PersistLater
    BY <1>t, <2>4 DEF EnableDrive, DriveStops, PersistLater, entryVars, callVars, histVars
  <2>5. CASE OtherComesUp \/ OtherIsHeard
    <3>1. CASE OtherComesUp
      BY <1>t, <3>1 DEF OtherComesUp, entryVars, callVars, deviceVars, histVars
    <3>2. CASE OtherIsHeard
      BY <1>t, <3>2 DEF OtherIsHeard, entryVars, callVars, deviceVars, histVars
    <3> QED
      BY <2>5, <3>1, <3>2
  <2>6. CASE ReceiveHeartbeat
    <3>1. Head(hbq) \in NmtStates \cup {"BootUp"} /\ Tail(hbq) \in Seq(NmtStates \cup {"BootUp"})
      BY <1>t, <2>6, HeadTailProperties DEF ReceiveHeartbeat
    <3> QED
      BY <1>t, <2>6, <3>1 DEF ReceiveHeartbeat, Invalidate, histVars
  <2>7. CASE GoOffline \/ Identify
    <3>1. CASE GoOffline
      BY <1>t, <3>1 DEF GoOffline, Invalidate, callVars, deviceVars, histVars
    <3>2. CASE Identify
      BY <1>t, <3>2 DEF Identify, Product, callVars, deviceVars, histVars
    <3> QED
      BY <2>7, <3>1, <3>2
  <2> QED
    BY <2>1, <2>2, <2>3, <2>4, <2>5, <2>6, <2>7 DEF Environment
<1> QED
  BY <1>2, <1>3, <1>4 DEF TypeInv, TypeOK

(* Steps of the call that touch nothing else.                               *)
LEMMA RestUnchanged ==
  ASSUME FlagsOK, EntryOK, DeviceOK, UNCHANGED <<entryVars, deviceVars, histVars>>,
         moved' = FALSE
  PROVE  FlagsOK' /\ EntryOK' /\ DeviceOK'
<1>1. FlagsOK'
  BY DEF FlagsOK, entryVars, deviceVars, histVars
<1>2. EntryOK' /\ DeviceOK'
  BY DEF EntryOK, DeviceOK, entryVars, deviceVars
<1> QED
  BY <1>1, <1>2

(* A call begins with what it was asked for.                                *)
LEMMA BeginTypes ==
  ASSUME TypeInv, NEW call \in {"apply", "change", "preset"},
         NEW product \in {"Object2001", "Object2100"}, NEW update,
         call = "apply" => update \in Configs,
         call = "change" => update \in [node : {Own, Other}],
         call = "preset" => update = None,
         Begin(call, product, update)
  PROVE  TypeInv'
<1>t. FlagsOK /\ EntryOK /\ CallOK /\ DeviceOK
  BY DEF TypeInv, TypeOK
<1>1. /\ op' = call /\ pc' = "verify" /\ moved' = FALSE
      /\ expected' = product /\ target' = update /\ snapshot' = None /\ plan' = <<>>
      /\ UNCHANGED <<entryVars, deviceVars, histVars>>
  BY DEF Begin
<1>2. FlagsOK' /\ EntryOK' /\ DeviceOK'
  BY <1>t, <1>1, RestUnchanged, Zenon
<1>3. target' \in Configs \cup [node : {Own, Other}] \cup {None}
  BY <1>1
<1>4. CallOK'
  BY <1>1, <1>3, EmptySeq DEF CallOK, SettingsPcs
<1>5. CallTyped' /\ PlanFits'
  BY <1>1 DEF CallTyped, PlanFits
<1> QED
  BY <1>2, <1>4, <1>5 DEF TypeInv, TypeOK

(* The call lets go of the node.                                            *)
LEMMA ReleaseTypes == Release => CallOK' /\ CallTyped' /\ PlanFits' /\ moved' = FALSE
  BY EmptySeq DEF Release, CallOK, CallTyped, PlanFits

(* Its steps up to the plan.                                                *)
LEMMA PrepareTypes ==
  ASSUME TypeInv, VerifyIdentity \/ ReadSettings \/ ProbeTarget \/ BuildPlan
  PROVE  TypeInv'
<1>t. TypeOK /\ CallTyped /\ PlanFits
  BY DEF TypeInv
<1>1. CASE VerifyIdentity
  BY <1>1, <1>t DEF VerifyIdentity, At, TypeInv, TypeOK, FlagsOK, EntryOK, CallOK, DeviceOK, CallTyped, PlanFits,
                    SameCall, OnlyCall, entryVars, histVars, deviceVars, SettingsPcs, PresetPcs
<1>2. CASE ReadSettings
  <2>1. /\ pc = "read" /\ pc' = "probe" /\ snapshot' = ram
        /\ target' = IF op = "change" THEN [ram EXCEPT !.node = target.node] ELSE target
        /\ UNCHANGED <<op, moved, expected, entryVars, histVars, plan, deviceVars>>
    BY <1>2 DEF ReadSettings, At, SameCall, OnlyCall, WithNewNodeId
  <2>2. target' \in Configs
    <3>1. CASE op = "change"
      <4>1. target.node \in {Own, Other}
        BY <1>t, <2>1, <3>1 DEF CallTyped
      <4>2. [ram EXCEPT !.node = target.node] \in Configs
        <5>1. CASE ram \in FdConfigs
          <6>1. [ram EXCEPT !.node = target.node] \in FdConfigs
            BY <4>1, <5>1 DEF FdConfigs
          <6> QED
            BY <6>1, TwoShapes
        <5>2. CASE ram \in ClassicConfigs
          <6>1. [ram EXCEPT !.node = target.node] \in ClassicConfigs
            BY <4>1, <5>2 DEF ClassicConfigs
          <6> QED
            BY <6>1, TwoShapes
        <5> QED
          BY <1>t, <5>1, <5>2, TwoShapes DEF TypeOK, EntryOK, CallOK, DeviceOK
      <4> QED
        BY <2>1, <3>1, <4>2
    <3>2. CASE op # "change"
      BY <1>t, <2>1, <3>2 DEF CallTyped
    <3> QED
      BY <3>1, <3>2
  <2>3. TypeOK'
    BY <1>t, <2>1, <2>2 DEF TypeOK, FlagsOK, EntryOK, CallOK, DeviceOK, entryVars, histVars, deviceVars, SettingsPcs
  <2> QED
    BY <1>t, <2>1, <2>2, <2>3
       DEF TypeInv, TypeOK, EntryOK, CallOK, DeviceOK, CallTyped, PlanFits, deviceVars
<1>3. CASE ProbeTarget
  <2>1. /\ pc = "probe" /\ pc' = "plan"
        /\ UNCHANGED <<op, moved, expected, target, snapshot, plan, entryVars, deviceVars, missed, dirty>>
    BY <1>3 DEF ProbeTarget, At, SameCall
  <2>2. unlucky' \in BOOLEAN
    BY <1>3, <1>t DEF ProbeTarget, TypeOK, FlagsOK
  <2>3. TypeOK'
    BY <1>t, <2>1, <2>2 DEF TypeOK, FlagsOK, EntryOK, CallOK, DeviceOK, entryVars, deviceVars, SettingsPcs
  <2> QED
    BY <1>t, <2>1, <2>3 DEF TypeInv, CallTyped, PlanFits
<1>4. CASE BuildPlan
  <2>1. /\ pc = "plan" /\ pc' = "write" /\ snapshot' = None
        /\ (snapshot.data = None) = (target.data = None)
        /\ plan' = IF expected = "Object2001" THEN Plan2001(snapshot, target)
                                              ELSE Plan2100(snapshot, target)
        /\ UNCHANGED <<op, moved, expected, target, entryVars, histVars, deviceVars>>
    BY <1>4 DEF BuildPlan, At, SameCall, OnlyCall
  <2>2. snapshot \in Configs /\ target \in Configs
    BY <1>t, <2>1 DEF CallTyped
  <2>3. /\ plan' \in Seq(Fields \cup {"store"})
        /\ Pending(plan') \cap {"data", "brs"} # {} => target.data # None
    BY <2>1, <2>2, PlanOf2001, PlanOf2100
  <2>4. TypeOK'
    BY <1>t, <2>1, <2>3
       DEF TypeOK, FlagsOK, EntryOK, CallOK, DeviceOK, entryVars, histVars, deviceVars, SettingsPcs
  <2>5. Pending(plan)' = Pending(plan')
    BY DEF Pending
  <2> QED
    BY <1>t, <2>1, <2>2, <2>3, <2>4, <2>5 DEF TypeInv, CallTyped, PlanFits
<1> QED
  BY <1>1, <1>2, <1>3, <1>4

(* A write: the shapes of device and target agree on the field.             *)
LEMMA WriteTypes ==
  ASSUME TypeInv, WriteNext
  PROVE  TypeInv'
<1>t. TypeOK /\ CallTyped /\ PlanFits
  BY DEF TypeInv
<1>1. /\ pc = "write" /\ plan # <<>> /\ plan' = Tail(plan) /\ dirty' = (canConfig # None)
      /\ UNCHANGED <<op, moved, expected, pc, target, snapshot, entryVars, missed, unlucky>>
      /\ UNCHANGED <<powered, who, address, devNmt, drive, otherUp, hbq>>
      /\ Head(plan) \in {"data", "brs"} => ram.data # None
      /\ ram' = IF Head(plan) = "store" THEN ram
                ELSE [ram EXCEPT ![Head(plan)] = target[Head(plan)]]
      /\ nv' = IF Head(plan) = "store" THEN ram ELSE nv
  BY DEF WriteNext, At, SameCall
<1>2. /\ Head(plan) \in Fields \cup {"store"} /\ Tail(plan) \in Seq(Fields \cup {"store"})
      /\ Pending(plan) = {Head(plan)} \cup Pending(Tail(plan))
  BY <1>1, <1>t, PlanShrinks DEF TypeOK, EntryOK, CallOK, DeviceOK
<1>3. ram \in Configs /\ nv \in Configs /\ target \in Configs
  BY <1>1, <1>t DEF TypeOK, EntryOK, CallOK, DeviceOK, CallTyped
<1>4. Head(plan) \in {"data", "brs"} => target.data # None
  BY <1>1, <1>2, <1>t DEF PlanFits
<1>5. ram' \in Configs
  BY <1>1, <1>2, <1>3, <1>4, FieldWritten
<1>6. TypeOK'
  BY <1>t, <1>1, <1>2, <1>3, <1>5 DEF TypeOK, FlagsOK, EntryOK, CallOK, DeviceOK, entryVars
<1>7. Pending(plan)' = Pending(Tail(plan))
  BY <1>1 DEF Pending
<1> QED
  BY <1>t, <1>1, <1>2, <1>6, <1>7 DEF TypeInv, CallTyped, PlanFits

(* The ends of the calls, and the steps of the preset.                      *)
LEMMA OtherCallTypes ==
  ASSUME TypeInv, CacheApplied \/ DisableDrive \/ PollDisabled \/ WritePreset \/ CallFails
  PROVE  TypeInv'
<1>t. TypeOK /\ CallTyped /\ PlanFits
  BY DEF TypeInv
<1>1. CASE CacheApplied
  <2>1. target \in Configs
    BY <1>1, <1>t DEF CacheApplied, At, CallTyped
  <2>3. FlagsOK'
    BY <1>1, <1>t, ReleaseTypes DEF CacheApplied, TypeOK, FlagsOK, deviceVars
  <2>4. EntryOK'
    BY <1>1, <1>t, <2>1 DEF CacheApplied, TypeOK, EntryOK
  <2>5. DeviceOK'
    BY <1>1, <1>t DEF CacheApplied, TypeOK, DeviceOK, deviceVars
  <2>2. FlagsOK' /\ EntryOK' /\ DeviceOK'
    BY <2>3, <2>4, <2>5
  <2> QED
    BY <1>1, <2>2, ReleaseTypes DEF CacheApplied, TypeInv, TypeOK
<1>2. CASE WritePreset \/ CallFails
  <2>1. Release /\ UNCHANGED <<entryVars, deviceVars, histVars>>
    BY <1>2 DEF WritePreset, CallFails, OnlyCall
  <2>2. FlagsOK' /\ EntryOK' /\ DeviceOK'
    BY <1>t, <2>1, RestUnchanged, ReleaseTypes, Zenon DEF TypeOK
  <2> QED
    BY <2>1, <2>2, ReleaseTypes DEF TypeInv, TypeOK
<1>3. CASE DisableDrive \/ PollDisabled
  BY <1>3, <1>t
     DEF DisableDrive, PollDisabled, At, SameCall, OnlyCall, TypeInv, TypeOK, FlagsOK, EntryOK, CallOK, DeviceOK,
         CallTyped, PlanFits, entryVars, histVars, deviceVars, PresetPcs
<1> QED
  BY <1>1, <1>2, <1>3

LEMMA TypeStep ==
  ASSUME TypeInv, [Next]_vars
  PROVE  TypeInv'
<1>1. CASE Calls
  <2>1. CASE CallPreset
    BY <2>1, BeginTypes DEF CallPreset
  <2>2. CASE \E node \in {Own, Other} : CallChangeNodeId(node)
    <3>1. PICK node \in {Own, Other} : CallChangeNodeId(node)
      BY <2>2
    <3>2. identity \in {"Object2001", "Object2100"}
      BY <3>1 DEF CallChangeNodeId, TypeInv, TypeOK, EntryOK, CallOK, DeviceOK
    <3> QED
      BY <3>1, <3>2, BeginTypes DEF CallChangeNodeId
  <2>3. CASE \E update \in Updates, product \in {"Object2001", "Object2100"} :
               CallApply(product, update)
    BY <2>3, BeginTypes, ConfigsAssumption DEF CallApply
  <2> QED
    BY <1>1, <2>1, <2>2, <2>3 DEF Calls
<1>2. CASE CallStep
  BY <1>2, PrepareTypes, WriteTypes, OtherCallTypes DEF CallStep
<1>3. CASE Environment
  BY <1>3, EnvironmentTypes
<1>4. CASE UNCHANGED vars
  <2>1. FlagsOK' /\ EntryOK' /\ DeviceOK'
    BY <1>4 DEF vars, TypeInv, TypeOK, FlagsOK, EntryOK, DeviceOK, entryVars, callVars,
                deviceVars, histVars
  <2>2. CallOK' /\ CallTyped' /\ PlanFits'
    BY <1>4 DEF vars, TypeInv, TypeOK, CallOK, CallTyped, PlanFits, Pending, callVars
  <2> QED
    BY <2>1, <2>2 DEF TypeInv, TypeOK
<1> QED
  BY <1>1, <1>2, <1>3, <1>4 DEF Next

(* TypeInv: TypeOK, with the plan and the target of the running transaction *)
(* in the shape they were built in.                                         *)
THEOREM TypesHold == Spec => []TypeInv
  BY TypeInit, TypeStep, PTL DEF Spec

(* Every variable keeps its type; a device's settings keep the shape of its *)
(* kind, whatever is written to them.                                       *)
THEOREM TypeCorrect == Spec => []TypeOK
<1>1. TypeInv => TypeOK
  BY DEF TypeInv
<1> QED
  BY <1>1, TypesHold, PTL

-----------------------------------------------------------------------------
(* What Ok means.  AppliedMeansStored needs an account of the transaction   *)
(* that ends in it: what is not in the plan any more is in the device.      *)

(* The device as the transaction knows it, unless it restarted: its product *)
(* is the expected one, it holds what was read, then what has been written. *)
Transaction ==
  /\ Product(who) = expected
  /\ pc \in {"probe", "plan"} => snapshot = ram
  /\ pc = "write" =>
       /\ \A f \in Fields : ram[f] = target[f] \/ f \in Pending(plan)
       /\ who \in Motors => EndsInStore(plan) /\ (plan = <<>> => nv = ram)

TransactionKept ==
  pc \in {"probe", "plan", "write"} => moved \/ RestartPending \/ Transaction

StoredInv == AppliedMeansStored /\ TransactionKept

AllInv == SettingsInv /\ TypeInv /\ StoredInv

LEMMA StoredInit == Init => StoredInv
  BY DEF Init, StoredInv, AppliedMeansStored, TransactionKept

(* The device keeps what it holds, or its restart is pending.               *)
LEMMA EnvironmentStored ==
  ASSUME AllInv, Environment
  PROVE  StoredInv'
<1>i. Shapes /\ CallInOrder /\ AppliedMeansStored /\ TransactionKept
  BY DEF AllInv, SettingsInv, StoredInv
<1>r. /\ RestartPending =>
           RestartPending' \/ (canConfig' = None /\ (op # "none" => moved'))
      /\ op # "none" => (moved => moved')
      /\ UNCHANGED <<op, pc, expected, target, snapshot, plan>>
      /\ canConfig' # None => UNCHANGED <<canConfig, dirty>>
      /\ RestartPending' \/ (UNCHANGED <<who, ram>> /\ (nv' = nv \/ who \notin Motors))
  BY <1>i, RestartStays
<1>1. AppliedMeansStored'
  <2> SUFFICES ASSUME canConfig' # None, ~dirty', ~RestartPending' PROVE Kept' = canConfig'
    BY DEF AppliedMeansStored
  <2>1. /\ canConfig # None /\ ~dirty /\ ~RestartPending /\ canConfig' = canConfig
        /\ UNCHANGED <<who, ram>> /\ (nv' = nv \/ who \notin Motors)
    BY <1>r
  <2> QED
    BY <1>i, <2>1 DEF AppliedMeansStored, Kept
<1>2. TransactionKept'
  <2> SUFFICES ASSUME pc' \in {"probe", "plan", "write"}, ~moved', ~RestartPending'
               PROVE  Transaction'
    BY DEF TransactionKept
  <2>1. op # "none" /\ pc \in {"probe", "plan", "write"}
    BY <1>i, <1>r DEF CallInOrder
  <2>2. ~moved /\ ~RestartPending /\ UNCHANGED <<who, ram>> /\ (nv' = nv \/ who \notin Motors)
    BY <1>r, <2>1
  <2>3. Transaction
    BY <1>i, <2>1, <2>2 DEF TransactionKept
  <2> QED
    BY <1>r, <2>2, <2>3 DEF Transaction, Product, Pending, EndsInStore
<1> QED
  BY <1>1, <1>2 DEF StoredInv

(* Steps that leave the device and the cache alone keep the first part.     *)
LEMMA CacheUntouched ==
  ASSUME AppliedMeansStored, UNCHANGED <<canConfig, missed, dirty, who, ram, nv, powered, address, hbq>>
  PROVE  AppliedMeansStored' /\ (RestartPending' <=> RestartPending)
  BY DEF AppliedMeansStored, Kept, RestartPending, Here

LEMMA BeginStored ==
  ASSUME AllInv, NEW call, NEW product, NEW update, Begin(call, product, update)
  PROVE  StoredInv'
<1>1. AppliedMeansStored' /\ pc' = "verify"
  BY CacheUntouched DEF AllInv, StoredInv, Begin, entryVars, deviceVars, histVars
<1> QED
  BY <1>1 DEF StoredInv, TransactionKept

(* Up to the plan: the snapshot is the device's, and the plan has all that  *)
(* is to be written to it.                                                  *)
LEMMA PrepareStored ==
  ASSUME AllInv, VerifyIdentity \/ ReadSettings \/ ProbeTarget \/ BuildPlan
  PROVE  StoredInv'
<1>i. AppliedMeansStored /\ TransactionKept /\ CallTyped
  BY DEF AllInv, StoredInv, TypeInv
<1>1. UNCHANGED <<canConfig, missed, dirty, deviceVars, op, moved, expected>>
  BY DEF VerifyIdentity, ReadSettings, ProbeTarget, BuildPlan, SameCall, OnlyCall, entryVars,
         histVars
<1>2. AppliedMeansStored' /\ (RestartPending' <=> RestartPending)
  BY <1>i, <1>1, CacheUntouched DEF deviceVars
<1>3. CASE VerifyIdentity
  BY <1>2, <1>3 DEF VerifyIdentity, StoredInv, TransactionKept
<1>4. CASE ReadSettings
  <2>1. Transaction'
    BY <1>1, <1>4 DEF ReadSettings, Answers, Transaction, Product, deviceVars
  <2> QED
    BY <1>2, <2>1 DEF StoredInv, TransactionKept
<1>5. CASE ProbeTarget
  <2>1. pc = "probe" /\ pc' = "plan" /\ UNCHANGED <<target, snapshot, plan>>
    BY <1>5 DEF ProbeTarget, At
  <2>2. Transaction => Transaction'
    BY <1>1, <2>1 DEF Transaction, Product, deviceVars
  <2> QED
    BY <1>i, <1>1, <1>2, <2>1, <2>2 DEF StoredInv, TransactionKept
<1>6. CASE BuildPlan
  <2>1. /\ pc = "plan" /\ pc' = "write" /\ target' = target
        /\ (snapshot.data = None) = (target.data = None)
        /\ plan' = IF expected = "Object2001" THEN Plan2001(snapshot, target)
                                              ELSE Plan2100(snapshot, target)
    BY <1>6 DEF BuildPlan, At
  <2>2. snapshot \in Configs /\ target \in Configs
    BY <1>i, <2>1 DEF CallTyped
  <2>3. /\ \A f \in Fields : snapshot[f] = target[f] \/ f \in Pending(plan')
        /\ expected = "Object2001" => plan' # <<>> /\ EndsInStore(plan')
    BY <2>1, <2>2, PlanOf2001, PlanOf2100
  <2>4. Transaction => Transaction'
    <3> SUFFICES ASSUME Transaction PROVE Transaction'
      OBVIOUS
    <3>1. snapshot = ram /\ Product(who) = expected
      BY <2>1 DEF Transaction
    <3>2. who \in Motors => expected = "Object2001"
      BY <3>1 DEF Product
    <3> QED
      BY <1>1, <2>1, <2>3, <3>1, <3>2
         DEF Transaction, Product, Pending, EndsInStore, deviceVars
  <2> QED
    BY <1>i, <1>1, <1>2, <2>1, <2>4 DEF StoredInv, TransactionKept
<1> QED
  BY <1>3, <1>4, <1>5, <1>6

(* A write moves one item from the plan to the device.                      *)
LEMMA WriteStored ==
  ASSUME AllInv, WriteNext
  PROVE  StoredInv'
<1>i. TransactionKept /\ Shapes /\ plan \in Seq(Fields \cup {"store"})
  BY DEF AllInv, StoredInv, SettingsInv, TypeInv, TypeOK, CallOK
<1>1. /\ pc = "write" /\ plan # <<>> /\ plan' = Tail(plan) /\ dirty' = (canConfig # None)
      /\ UNCHANGED <<op, moved, expected, pc, target, powered, who, address, hbq>>
      /\ UNCHANGED <<canConfig, missed>>
      /\ ram' = IF Head(plan) = "store" THEN ram
                ELSE [ram EXCEPT ![Head(plan)] = target[Head(plan)]]
      /\ nv' = IF Head(plan) = "store" THEN ram ELSE nv
  BY DEF WriteNext, At, SameCall, entryVars
<1>2. /\ Pending(plan) = {Head(plan)} \cup Pending(Tail(plan))
      /\ EndsInStore(plan) => EndsInStore(Tail(plan))
      /\ EndsInStore(plan) /\ Tail(plan) = <<>> => Head(plan) = "store"
  BY <1>i, <1>1, PlanShrinks
<1>3. RestartPending' <=> RestartPending
  BY <1>1 DEF RestartPending, Here
<1>4. Transaction => Transaction'
  <2> SUFFICES ASSUME Transaction PROVE Transaction'
    OBVIOUS
  <2>1. ASSUME NEW f \in Fields PROVE ram'[f] = target[f] \/ f \in Pending(Tail(plan))
    <3>1. CASE f = Head(plan)
      <4>1. f # "store"
        BY DEF Fields
      <4> QED
        BY <1>i, <1>1, <3>1, <4>1 DEF Shapes
    <3>2. CASE f # Head(plan)
      <4>1. ram'[f] = ram[f]
        BY <1>i, <1>1, <3>2 DEF Shapes
      <4> QED
        BY <1>1, <1>2, <3>2, <4>1 DEF Transaction
    <3> QED
      BY <3>1, <3>2
  <2>2. who \in Motors => EndsInStore(Tail(plan)) /\ (Tail(plan) = <<>> => nv' = ram')
    BY <1>1, <1>2 DEF Transaction
  <2>3. Product(who)' = Product(who) /\ Product(who) = expected
    BY <1>1 DEF Product, Transaction
  <2> QED
    BY <1>1, <2>1, <2>2, <2>3 DEF Transaction, Pending, EndsInStore
<1>5. AppliedMeansStored'
  BY <1>1 DEF AppliedMeansStored
<1> QED
  BY <1>i, <1>1, <1>3, <1>4, <1>5 DEF StoredInv, TransactionKept

(* Nothing is left to write: the device has the target, and a motor has it  *)
(* stored.                                                                  *)
LEMMA CacheStored ==
  ASSUME AllInv, CacheApplied
  PROVE  StoredInv'
<1>i. TransactionKept /\ target \in Configs /\ ram \in Configs
  BY DEF AllInv, StoredInv, TypeInv, TypeOK, DeviceOK, CallTyped, CacheApplied, At
<1>1. /\ pc = "write" /\ plan = <<>> /\ ~moved /\ canConfig' = target /\ pc' = "idle"
      /\ UNCHANGED <<missed, deviceVars>>
  BY DEF CacheApplied, At, SessionHolds, Release
<1>2. RestartPending' <=> RestartPending
  BY <1>1 DEF RestartPending, Here, deviceVars
<1>3. ~RestartPending => Kept = target
  <2> SUFFICES ASSUME ~RestartPending PROVE Kept = target
    OBVIOUS
  <2>1. Transaction
    BY <1>i, <1>1 DEF TransactionKept
  <2>2. Pending(plan) = {}
    BY <1>1 DEF Pending
  <2>3. \A f \in Fields : ram[f] = target[f]
    BY <1>1, <2>1, <2>2 DEF Transaction
  <2>4. ram = target
    <3>1. CASE ram \in FdConfigs
      <4>1. target \in FdConfigs
        BY <1>i, <2>3, <3>1, TwoShapes DEF Fields
      <4> QED
        BY <2>3, <3>1, <4>1 DEF FdConfigs, Fields
    <3>2. CASE ram \in ClassicConfigs
      <4>1. target \in ClassicConfigs
        BY <1>i, <2>3, <3>2, TwoShapes DEF Fields
      <4> QED
        BY <2>3, <3>2, <4>1 DEF ClassicConfigs, Fields
    <3> QED
      BY <1>i, <3>1, <3>2, TwoShapes
  <2> QED
    BY <1>1, <2>1, <2>4 DEF Kept, Transaction
<1>4. AppliedMeansStored'
  BY <1>1, <1>2, <1>3 DEF AppliedMeansStored, Kept, deviceVars
<1> QED
  BY <1>1, <1>4 DEF StoredInv, TransactionKept

LEMMA StoredStep ==
  ASSUME AllInv, [Next]_vars
  PROVE  StoredInv'
<1>1. CASE Calls
  BY <1>1, BeginStored DEF Calls, CallApply, CallChangeNodeId, CallPreset
<1>2. CASE DisableDrive \/ PollDisabled \/ WritePreset \/ CallFails
  <2>1. /\ UNCHANGED <<canConfig, missed, dirty, who, ram, nv, powered, address, hbq>>
        /\ pc' \notin {"probe", "plan", "write"}
    BY <1>2 DEF DisableDrive, PollDisabled, WritePreset, CallFails, Release, OnlyCall,
                entryVars, histVars, deviceVars
  <2> QED
    BY <2>1, CacheUntouched DEF AllInv, StoredInv, TransactionKept
<1>3. CASE CallStep
  BY <1>2, <1>3, PrepareStored, WriteStored, CacheStored DEF CallStep
<1>4. CASE Environment
  BY <1>4, EnvironmentStored
<1>5. CASE UNCHANGED vars
  <2>1. /\ UNCHANGED <<canConfig, missed, dirty, who, ram, nv, powered, address, hbq>>
        /\ UNCHANGED <<pc, moved, expected, target, snapshot, plan>>
    BY <1>5 DEF vars, entryVars, callVars, deviceVars, histVars
  <2>2. Transaction => Transaction'
    BY <2>1 DEF Transaction, Product, Pending, EndsInStore
  <2> QED
    BY <2>1, <2>2, CacheUntouched DEF AllInv, StoredInv, TransactionKept
<1> QED
  BY <1>1, <1>3, <1>4, <1>5 DEF Next

(* What a transaction has written of its plan is in the device that answered, *)
(* or the transaction can no longer return Ok, or the device has restarted in *)
(* the session without the host having heard of it.                         *)
THEOREM TransactionInvariant == Spec => []AllInv
<1>1. Init => AllInv
  BY InitHolds, TypeInit, StoredInit DEF AllInv
<1>2. AllInv /\ [Next]_vars => AllInv'
  BY SettingsStep, TypeStep, StoredStep DEF AllInv
<1> QED
  BY <1>1, <1>2, PTL DEF Spec

(* A settings transaction that returned Ok has left the whole target with   *)
(* the device -- stored, if it is a motor -- also when it repeated one that *)
(* failed before its store, unless the device has restarted in the session  *)
(* without the host having heard of it (the Boot-Up on its way, or lost).   *)
THEOREM OkMeansStored == Spec => []AppliedMeansStored
<1>1. AllInv => AppliedMeansStored
  BY DEF AllInv, StoredInv
<1> QED
  BY <1>1, TransactionInvariant, PTL
=============================================================================
