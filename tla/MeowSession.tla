----------------------------- MODULE MeowSession -----------------------------
(***************************************************************************)
(* One node as MeowMotorManager sees it (meow_motor/): the entry, its      *)
(* heartbeat discovery with automatic identification, liveness monitor and *)
(* TPDO listener, and the exclusive operations that identify, initialize   *)
(* or reconfigure the node while it may restart, be swapped for another    *)
(* device or fall silent.                                                  *)
(*                                                                         *)
(* Unlike its CiA402 sibling it fences its calls with an identity token    *)
(* (session and exact identity), retries a failed identification with the  *)
(* next heartbeat, and does not roll back when a caller drops the future.  *)
(* A critical section is an action; time is abstracted as in Cia402Session.*)
(***************************************************************************)
EXTENDS Naturals, Sequences

CONSTANTS
  Devices,     \* physical devices that may answer under this node id
  Supported,   \* those whose identity is an exact Meow tuple (model_for_identity)
  None,        \* no value
  NmtStates,   \* NMT states a running device reports
  Options,     \* optional setup: "rpdos" (shared_host_pdo), "consumer"
  MaxEpoch,    \* bound on device sessions in a behaviour
  HbCapacity   \* bound on heartbeat frames in flight

ASSUME DevicesAssumption == None \notin Devices /\ Supported \subseteq Devices
ASSUME NoneAssumption == None \notin {"Disabled", "Enabled", "Error"}
ASSUME NmtAssumption ==
  /\ {"PreOperational", "Operational"} \subseteq NmtStates
  /\ {"BootUp", None} \cap NmtStates = {}
ASSUME OptionsAssumption == Options \subseteq {"rpdos", "consumer"}
ASSUME BoundsAssumption == MaxEpoch \in Nat /\ HbCapacity \in Nat

VARIABLES
  (* MotorEntryInner; model is Some exactly for an identity in Supported *)
  epoch,       \* session_epoch
  attempted,   \* identify_attempted
  identity,    \* identity
  settings,    \* can_settings
  lifecycle,   \* lifecycle
  online, nmtState,
  logic,       \* logic
  constants,   \* peak_torque_nm (or mit_kp_kd_factor): the device it was read from
  (* A generation is only compared with the baseline one waiter took. *)
  hbMoved,     \* heartbeat_generation has moved
  got1, got2,  \* tpdo1_generation, tpdo2_generation have moved
  (* handle_heartbeat after its critical section *)
  hbPc, hbEpoch,
  (* the holder of the node in OperationRegistry, its token and locals *)
  op, pc, opEpoch, expected, got,
  (* the device, and the heartbeat frames on their way to discovery *)
  powered, who, devNmt, configured, hbq,
  missed       \* history: a Boot-Up was lost since this session began

entryVars  == <<epoch, attempted, identity, settings, lifecycle, online, nmtState,
                logic, constants>>
fenceVars  == <<hbMoved, got1, got2>>
hbVars     == <<hbPc, hbEpoch>>
opVars     == <<op, pc, opEpoch, expected, got>>
deviceVars == <<powered, who, devNmt, configured, hbq, missed>>
vars == <<entryVars, fenceVars, hbVars, opVars, deviceVars>>

Lifecycles == {"Unknown", "Identified", "UnsupportedIdentity", "Initializing",
               "Initialized", "NeedsReinit", "NeedsRestart"}
Setup == {"tpdo1", "tpdo2"} \cup Options

IdentifyPcs == {"readId", "begin", "settings", "failed"}
RunPcs      == {"start", "verify", "preOp", "waitPreOp", "stop", "tpdo1", "tpdo2", "rpdos",
                "consumer", "readConstant", "checkConstant", "storeConstant",
                "sendStart", "waitOp", "feedback", "commit"}
SettingsPcs == {"probe", "write", "save", "saved", "store"}
ReadPcs     == {"read", "readDone", "storeRead"}

Init ==
  /\ epoch = 0 /\ attempted = FALSE /\ identity = None /\ settings = "Pending"
  /\ lifecycle = "Unknown" /\ online = FALSE /\ nmtState = None
  /\ logic = None /\ constants = None
  /\ hbMoved = FALSE /\ got1 = FALSE /\ got2 = FALSE
  /\ hbPc = "idle" /\ hbEpoch = 0
  /\ op = "none" /\ pc = "idle" /\ opEpoch = 0 /\ expected = None /\ got = None
  /\ powered = FALSE /\ who \in Devices /\ devNmt = "PreOperational"
  /\ configured = {} /\ hbq = <<>> /\ missed = FALSE

-----------------------------------------------------------------------------
(* The device and the bus.                                                  *)

BootUpsInFlight == Len(SelectSeq(hbq, LAMBDA f : f = "BootUp"))

(* Room, under the bounds, for one more device session. *)
SessionBudget == epoch + BootUpsInFlight < MaxEpoch

(* Power comes up: this device, or another one set to the same node id.     *)
(* Frames get lost, on the bus or because run_discovery's receiver fails or *)
(* lags, which is logged and passed over.  A lost heartbeat changes nothing;*)
(* a lost Boot-Up leaves discovery without word of the restart.             *)
PowerOn ==
  /\ ~powered /\ SessionBudget
  /\ powered' = TRUE /\ who' \in Devices
  /\ devNmt' = "PreOperational" /\ configured' = {}
  /\ \/ Len(hbq) < HbCapacity /\ hbq' = Append(hbq, "BootUp") /\ UNCHANGED missed
     \/ missed' = TRUE /\ UNCHANGED hbq
  /\ UNCHANGED <<entryVars, fenceVars, hbVars, opVars>>

PowerOff ==
  /\ powered
  /\ powered' = FALSE
  /\ devNmt' = "PreOperational" /\ configured' = {}
  /\ UNCHANGED <<who, hbq, missed, entryVars, fenceVars, hbVars, opVars>>

EmitHeartbeat ==
  /\ powered /\ Len(hbq) < HbCapacity
  /\ hbq' = Append(hbq, devNmt)
  /\ UNCHANGED <<powered, who, devNmt, configured, missed>>
  /\ UNCHANGED <<entryVars, fenceVars, hbVars, opVars>>

(* The device itself or another NMT master *)
DeviceNmtChange ==
  /\ powered
  /\ devNmt' \in NmtStates \ {devNmt}
  /\ UNCHANGED <<powered, who, configured, hbq, missed>>
  /\ UNCHANGED <<entryVars, fenceVars, hbVars, opVars>>

-----------------------------------------------------------------------------
(* Background tasks.                                                        *)

(* Mutant: the identity outlives the session. *)
KeepIdentity ==
  /\ epoch' = epoch + 1
  /\ settings' = "Pending" /\ logic' = None /\ constants' = None
  /\ missed' = FALSE
  /\ UNCHANGED identity

(* invalidate_session *)
InvalidateSession ==
  /\ epoch' = epoch + 1
  /\ identity' = None /\ settings' = "Pending"
  /\ logic' = None /\ constants' = None
  /\ missed' = FALSE

WaitsForHeartbeat == {"waitPreOp", "waitOp"}

(* handle_heartbeat up to the unlock; the next frame waits until discovery  *)
(* is done with this one.                                                   *)
ReceiveHeartbeat ==
  /\ hbPc = "idle" /\ hbq # <<>>
  /\ hbq' = Tail(hbq)
  /\ online' = TRUE /\ nmtState' = Head(hbq)
  /\ hbMoved' = (pc \in WaitsForHeartbeat)
  /\ LET boot  == Head(hbq) = "BootUp"
         stage == IF boot THEN "Unknown" ELSE lifecycle
     IN /\ IF boot THEN InvalidateSession
                   ELSE UNCHANGED <<epoch, identity, settings, logic, constants, missed>>
        /\ lifecycle' = IF stage = "Initialized" /\ Head(hbq) # "Operational"
                        THEN "NeedsReinit" ELSE stage
        /\ \/ /\ stage = "Unknown" /\ (boot \/ ~attempted)
              /\ attempted' = TRUE
              /\ hbPc' = "spawn" /\ hbEpoch' = epoch'
           \/ /\ ~(stage = "Unknown" /\ (boot \/ ~attempted))
              /\ UNCHANGED <<attempted, hbVars>>
  /\ UNCHANGED <<got1, got2, opVars, powered, who, devNmt, configured>>

SpawnIdentify ==
  /\ hbPc = "spawn" /\ op = "none"
  /\ op' = "auto" /\ pc' = "readId" /\ opEpoch' = hbEpoch
  /\ hbPc' = "idle" /\ hbEpoch' = 0
  /\ UNCHANGED <<expected, got, entryVars, fenceVars, deviceVars>>

(* Mutant: a failed attempt stays the session's only one. *)
AttemptIsSpent(failedEpoch) == attempted

(* The attempt is taken back, if its session is still there and unknown. *)
AttemptAgain(failedEpoch) ==
  IF epoch = failedEpoch /\ lifecycle = "Unknown" THEN FALSE ELSE attempted

NodeBusy ==
  /\ hbPc = "spawn" /\ op # "none"
  /\ attempted' = AttemptAgain(hbEpoch)
  /\ hbPc' = "idle" /\ hbEpoch' = 0
  /\ UNCHANGED <<epoch, identity, settings, lifecycle, online, nmtState, logic, constants>>
  /\ UNCHANGED <<fenceVars, opVars, deviceVars>>

(* run_liveness_monitor: only heartbeats count for being online ... *)
GoOffline ==
  /\ online /\ SessionBudget
  /\ InvalidateSession
  /\ attempted' = FALSE /\ lifecycle' = "Unknown"
  /\ online' = FALSE /\ nmtState' = None
  /\ UNCHANGED <<fenceVars, hbVars, opVars, powered, who, devNmt, configured, hbq>>

(* ... and an initialized motor needs both TPDOs on top. *)
TelemetryStale ==
  /\ online /\ lifecycle = "Initialized"
  /\ lifecycle' = "NeedsReinit"
  /\ UNCHANGED <<epoch, attempted, identity, settings, online, nmtState, logic, constants>>
  /\ UNCHANGED <<fenceVars, hbVars, opVars, deviceVars>>

(* handle_frame: TPDOs of an exact motor with known settings.  Frames of    *)
(* whatever age; nothing is assumed about the device.                       *)
TpdoAccepted == identity \in Supported /\ settings = "Available"

ReceiveTpdo1 ==
  /\ TpdoAccepted
  /\ got1' = (pc = "feedback")
  /\ UNCHANGED <<entryVars, hbMoved, got2, hbVars, opVars, deviceVars>>

ReceiveTpdo2 ==
  /\ TpdoAccepted
  /\ logic' \in {"Disabled", "Enabled", "Error"}
  /\ got2' = (pc = "feedback")
  /\ UNCHANGED <<epoch, attempted, identity, settings, lifecycle, online, nmtState, constants>>
  /\ UNCHANGED <<hbMoved, got1, hbVars, opVars, deviceVars>>

-----------------------------------------------------------------------------
(* Exclusive operations.                                                    *)

(* The OperationGuard is dropped. *)
Release ==
  /\ op' = "none" /\ pc' = "idle" /\ opEpoch' = 0 /\ expected' = None /\ got' = None
  /\ hbMoved' = FALSE /\ got1' = FALSE /\ got2' = FALSE

GoTo(p) == pc' = p /\ UNCHANGED <<op, opEpoch, expected, got>>

(* identity_token_matches *)
TokenMatches ==
  epoch = opEpoch /\ identity \in Supported /\ identity = expected

(* ensure_configuration_state *)
ConfigurationState ==
  TokenMatches /\ online /\ nmtState \in {"PreOperational", "Stopped"}

(* Mutant: any known identity will do. *)
BeginKnown(call, first) ==
  /\ op = "none" /\ online /\ identity # None
  /\ op' = call /\ pc' = first /\ opEpoch' = epoch /\ expected' = identity
  /\ UNCHANGED <<got, entryVars, fenceVars, hbVars, deviceVars>>

(* require_exact_entry and identity_token *)
BeginCall(call, first) ==
  /\ op = "none" /\ online /\ identity \in Supported
  /\ op' = call /\ pc' = first /\ opEpoch' = epoch /\ expected' = identity
  /\ UNCHANGED <<got, entryVars, fenceVars, hbVars, deviceVars>>

(* identify() *)
CallIdentify ==
  /\ op = "none"
  /\ op' = "identify" /\ pc' = "readId" /\ opEpoch' = epoch
  /\ UNCHANGED <<expected, got, entryVars, fenceVars, hbVars, deviceVars>>

CallInitialize == BeginCall("initialize", "start")
CallSettings   == BeginCall("settings", "probe") /\ ConfigurationState'
CallRead       == BeginCall("readSettings", "read")

(* identify_once *)
ReadIdentity ==
  /\ pc = "readId" /\ powered
  /\ got' = who /\ pc' = "begin"
  /\ UNCHANGED <<op, opEpoch, expected, entryVars, fenceVars, hbVars, deviceVars>>

(* The check in the first critical section of identify_and_cache; the one   *)
(* in the second asks for the identity as well.                             *)
ReadInSession == epoch = opEpoch

(* identity, model and lifecycle are cached, whatever the lifecycle was. *)
CacheIdentity ==
  /\ pc = "begin" /\ ReadInSession
  /\ identity' = got /\ settings' = "Pending"
  /\ lifecycle' = IF got \in Supported THEN "Identified" ELSE "UnsupportedIdentity"
  /\ pc' = "settings"
  /\ UNCHANGED <<epoch, attempted, online, nmtState, logic, constants>>
  /\ UNCHANGED <<op, opEpoch, expected, got, fenceVars, hbVars, deviceVars>>

CacheSettings ==
  /\ pc = "settings"
  /\ epoch = opEpoch /\ identity = got
  /\ settings' \in IF got \in Supported THEN {"Available", "ReadFailed"} ELSE {"Pending"}
  /\ Release
  /\ UNCHANGED <<epoch, attempted, identity, lifecycle, online, nmtState, logic, constants>>
  /\ UNCHANGED <<hbVars, deviceVars>>

(* The background identification fails: an SDO error, or the session is not *)
(* the one it was begun in ... *)
AutoIdentifyFails ==
  /\ op = "auto"
  /\ \/ pc = "readId"
     \/ pc = "begin" /\ ~ReadInSession
     \/ pc = "settings" /\ ~(epoch = opEpoch /\ identity = got)
  /\ attempted' = AttemptAgain(opEpoch)
  /\ pc' = "failed"
  /\ UNCHANGED <<epoch, identity, settings, lifecycle, online, nmtState, logic, constants>>
  /\ UNCHANGED <<op, opEpoch, expected, got, fenceVars, hbVars, deviceVars>>

(* ... and its task ends. *)
AutoIdentifyEnds ==
  /\ pc = "failed"
  /\ Release
  /\ UNCHANGED <<entryVars, hbVars, deviceVars>>

-----------------------------------------------------------------------------
(* initialize_with_options                                                  *)

OnlyOp == UNCHANGED <<epoch, attempted, identity, settings, online, nmtState, hbVars, hbq,
                      missed>>
OnlyEntryUnchanged == OnlyOp /\ UNCHANGED <<lifecycle, logic, constants>>

StartInitialize ==
  /\ pc = "start"
  /\ lifecycle \in {"Identified", "NeedsReinit"} /\ settings = "Available"
  /\ lifecycle' = "Initializing" /\ logic' = None
  /\ GoTo("verify")
  /\ OnlyOp /\ UNCHANGED <<constants, fenceVars, powered, who, devNmt, configured>>

(* verify_identity_on_wire *)
VerifyOnWire ==
  /\ pc = "verify" /\ powered /\ who = expected /\ TokenMatches
  /\ GoTo("preOp")
  /\ OnlyEntryUnchanged /\ UNCHANGED <<fenceVars, powered, who, devNmt, configured>>

(* send_nmt_and_wait: the baseline and the command, which may get lost ... *)
SendNmt(at, wait, state) ==
  /\ pc = at
  /\ hbMoved' = FALSE
  /\ devNmt' \in {devNmt} \cup (IF powered THEN {state} ELSE {})
  /\ GoTo(wait)
  /\ OnlyEntryUnchanged /\ UNCHANGED <<got1, got2, powered, who, configured>>

(* ... and a heartbeat newer than the baseline; the token is not looked at. *)
NmtConfirmed(state) == hbMoved /\ nmtState = state

SendPreOp == SendNmt("preOp", "waitPreOp", "PreOperational")

(* ensure_identity_token after the wait *)
PreOpConfirmed ==
  /\ pc = "waitPreOp" /\ NmtConfirmed("PreOperational") /\ TokenMatches
  /\ hbMoved' = FALSE
  /\ GoTo("stop")
  /\ OnlyEntryUnchanged /\ UNCHANGED <<got1, got2, powered, who, devNmt, configured>>

(* clear_existing_error_sdo, the disable write and wait_sdo_mode_disabled *)
StopMotor ==
  /\ pc = "stop" /\ powered /\ TokenMatches
  /\ GoTo("tpdo1")
  /\ OnlyEntryUnchanged /\ UNCHANGED <<fenceVars, powered, who, devNmt, configured>>

(* Mutant: the recipe is taken to be there. *)
AssumeRecipe(at, next) ==
  /\ pc = at /\ powered /\ TokenMatches
  /\ GoTo(next)
  /\ OnlyEntryUnchanged /\ UNCHANGED <<fenceVars, powered, who, devNmt, configured>>

(* ensure_tpdo_recipe, ensure_rpdo_recipe: a recipe that is there already   *)
(* is left alone, and one that was written is read back. A part that the    *)
(* manager was not configured with is passed over.                          *)
Configure(at, next) ==
  /\ pc = at
  /\ at \in Setup => powered /\ (at \in configured \/ TokenMatches)
  /\ configured' = configured \cup ({at} \cap Setup)
  /\ GoTo(next)
  /\ OnlyEntryUnchanged /\ UNCHANGED <<fenceVars, powered, who, devNmt>>

ConfigureTpdo1 == Configure("tpdo1", "tpdo2")
ConfigureTpdo2 == Configure("tpdo2", "rpdos")

(* The mapping ranges are written, with the token checked, before the recipes. *)
ConfigureRpdos ==
  /\ "rpdos" \in Options => TokenMatches
  /\ Configure("rpdos", "consumer")

(* 0x1016 is written without a look at the token. *)
ConfigureConsumer ==
  /\ pc = "consumer"
  /\ "consumer" \in Options => powered
  /\ configured' = configured \cup ({"consumer"} \cap Options)
  /\ GoTo("readConstant")
  /\ OnlyEntryUnchanged /\ UNCHANGED <<fenceVars, powered, who, devNmt>>

(* 0x4576 (and 0x4102:07), best effort *)
ReadConstant ==
  /\ pc = "readConstant"
  /\ got' \in {None} \cup (IF powered THEN {who} ELSE {})
  /\ pc' = "checkConstant"
  /\ UNCHANGED <<op, opEpoch, expected>>
  /\ OnlyEntryUnchanged /\ UNCHANGED <<fenceVars, powered, who, devNmt, configured>>

(* The token is checked in one critical section ... *)
CheckConstant ==
  /\ pc = "checkConstant" /\ TokenMatches
  /\ GoTo("storeConstant")
  /\ OnlyEntryUnchanged /\ UNCHANGED <<fenceVars, powered, who, devNmt, configured>>

(* Mutant: a failed read keeps what there was. *)
KeepIfUnread == IF got = None THEN constants ELSE got

ReadOrNone == got

(* ... and the constants are stored in the next. *)
StoreConstant ==
  /\ pc = "storeConstant"
  /\ constants' = ReadOrNone
  /\ got' = None /\ pc' = "sendStart"
  /\ UNCHANGED <<op, opEpoch, expected>>
  /\ OnlyOp /\ UNCHANGED <<lifecycle, logic, fenceVars, powered, who, devNmt, configured>>

SendStart == SendNmt("sendStart", "waitOp", "Operational")

(* Operational is confirmed and the baselines of both TPDOs are taken. *)
OperationalConfirmed ==
  /\ pc = "waitOp" /\ NmtConfirmed("Operational")
  /\ hbMoved' = FALSE /\ got1' = FALSE /\ got2' = FALSE
  /\ GoTo("feedback")
  /\ OnlyEntryUnchanged /\ UNCHANGED <<powered, who, devNmt, configured>>

(* wait_for_initial_feedback; anything but Disabled is an error *)
FeedbackArrived ==
  /\ pc = "feedback" /\ TokenMatches
  /\ got1 /\ got2 /\ logic = "Disabled"
  /\ GoTo("commit")
  /\ OnlyEntryUnchanged /\ UNCHANGED <<fenceVars, powered, who, devNmt, configured>>

(* Mutant: the commit asks for the session only. *)
CommitInSession == TokenMatches

CommitAllowed == TokenMatches /\ nmtState = "Operational" /\ logic = "Disabled"

Commit ==
  /\ pc = "commit" /\ CommitAllowed
  /\ lifecycle' = "Initialized"
  /\ Release
  /\ OnlyOp /\ UNCHANGED <<logic, constants, powered, who, devNmt, configured>>

(* An error anywhere in run_initialize: back to Identified. *)
InitializeFails ==
  /\ op = "initialize" /\ pc # "start"
  /\ lifecycle' = IF TokenMatches THEN "Identified" ELSE lifecycle
  /\ Release
  /\ OnlyOp /\ UNCHANGED <<logic, constants, powered, who, devNmt, configured>>

(* A call other than a running initialize() ends in an error, or a caller   *)
(* drops the future, initialize()'s too: nothing but the guard is undone.   *)
CallEnds ==
  /\ op \notin {"none", "auto"}
  /\ Release
  /\ OnlyOp /\ UNCHANGED <<lifecycle, logic, constants, powered, who, devNmt, configured>>

-----------------------------------------------------------------------------
(* apply_can_settings and read_can_settings.  What they do to the device is *)
(* the subject of DeviceSettings; here it is what they do to the entry.     *)

SettingsStep(at, next) ==
  /\ pc = at /\ powered /\ ConfigurationState
  /\ GoTo(next)
  /\ OnlyEntryUnchanged /\ UNCHANGED <<fenceVars, powered, who, devNmt, configured>>

(* probe_target_node_id_available and verify_identity_on_wire *)
ProbeAndVerify == who = expected /\ SettingsStep("probe", "write")

(* The fields are written and read back; 0x1010:04. *)
WriteFields  == SettingsStep("write", "save")
SaveSettings == SettingsStep("save", "saved")

(* The last check, and then, in a critical section of its own, the result. *)
CheckSaved ==
  /\ pc = "saved" /\ ConfigurationState
  /\ GoTo("store")
  /\ OnlyEntryUnchanged /\ UNCHANGED <<fenceVars, powered, who, devNmt, configured>>

StoreSettings ==
  /\ pc = "store"
  /\ settings' = "Available" /\ lifecycle' = "NeedsRestart"
  /\ Release
  /\ UNCHANGED <<epoch, attempted, identity, online, nmtState, logic, constants>>
  /\ UNCHANGED <<hbVars, deviceVars>>

ReadSettings ==
  /\ pc = "read" /\ powered
  /\ GoTo("readDone")
  /\ OnlyEntryUnchanged /\ UNCHANGED <<fenceVars, powered, who, devNmt, configured>>

CheckRead ==
  /\ pc = "readDone" /\ TokenMatches
  /\ GoTo("storeRead")
  /\ OnlyEntryUnchanged /\ UNCHANGED <<fenceVars, powered, who, devNmt, configured>>

StoreRead ==
  /\ pc = "storeRead"
  /\ settings' = "Available"
  /\ Release
  /\ UNCHANGED <<epoch, attempted, identity, lifecycle, online, nmtState, logic, constants>>
  /\ UNCHANGED <<hbVars, deviceVars>>

-----------------------------------------------------------------------------

DeviceStep == PowerOn \/ PowerOff \/ EmitHeartbeat \/ DeviceNmtChange

DiscoveryStep == ReceiveHeartbeat \/ SpawnIdentify \/ NodeBusy

TaskStep == DiscoveryStep \/ GoOffline \/ TelemetryStale \/ ReceiveTpdo1 \/ ReceiveTpdo2

IdentifyStep ==
  ReadIdentity \/ CacheIdentity \/ CacheSettings \/ AutoIdentifyFails \/ AutoIdentifyEnds

InitializeStep ==
  \/ StartInitialize \/ VerifyOnWire \/ SendPreOp \/ PreOpConfirmed \/ StopMotor
  \/ ConfigureTpdo1 \/ ConfigureTpdo2 \/ ConfigureRpdos \/ ConfigureConsumer
  \/ ReadConstant \/ CheckConstant \/ StoreConstant
  \/ SendStart \/ OperationalConfirmed \/ FeedbackArrived \/ Commit \/ InitializeFails

SettingsCallStep ==
  \/ ProbeAndVerify \/ WriteFields \/ SaveSettings \/ CheckSaved \/ StoreSettings
  \/ ReadSettings \/ CheckRead \/ StoreRead

Next ==
  \/ DeviceStep \/ TaskStep
  \/ CallIdentify \/ CallInitialize \/ CallSettings \/ CallRead
  \/ IdentifyStep \/ InitializeStep \/ SettingsCallStep \/ CallEnds

Spec == Init /\ [][Next]_vars

(* A powered device sends heartbeats, not all of which get lost, discovery  *)
(* never stops, a background identification is bounded by its SDO timeouts, *)
(* and not all of an endless series of identity reads fail.  Nothing is     *)
(* assumed of callers.                                                      *)
FairSpec ==
  /\ Spec
  /\ WF_vars(EmitHeartbeat)
  /\ WF_vars(DiscoveryStep)
  /\ WF_vars(op = "auto" /\ IdentifyStep)
  /\ SF_vars(op = "auto" /\ ReadIdentity)

-----------------------------------------------------------------------------
(* Properties.                                                              *)

FlagsOK ==
  /\ attempted \in BOOLEAN /\ online \in BOOLEAN
  /\ powered \in BOOLEAN /\ missed \in BOOLEAN
  /\ hbMoved \in BOOLEAN /\ got1 \in BOOLEAN /\ got2 \in BOOLEAN

DataOK ==
  /\ epoch \in Nat /\ identity \in Devices \cup {None}
  /\ settings \in {"Pending", "Available", "ReadFailed"}
  /\ lifecycle \in Lifecycles
  /\ nmtState \in NmtStates \cup {"BootUp", None}
  /\ logic \in {"Disabled", "Enabled", "Error", None}
  /\ constants \in Devices \cup {None}
  /\ hbPc \in {"idle", "spawn"} /\ hbEpoch \in Nat
  /\ op \in {"none", "auto", "identify", "initialize", "settings", "readSettings"}
  /\ pc \in {"idle"} \cup IdentifyPcs \cup RunPcs \cup SettingsPcs \cup ReadPcs
  /\ opEpoch \in Nat /\ expected \in Supported \cup {None} /\ got \in Devices \cup {None}
  /\ who \in Devices /\ devNmt \in NmtStates
  /\ configured \subseteq Setup /\ hbq \in Seq(NmtStates \cup {"BootUp"})

TypeOK == FlagsOK /\ DataOK

(* The device is gone, or discovery has yet to process its Boot-Up or, until *)
(* the next session, never will.                                            *)
RestartPending == ~powered \/ missed \/ \E i \in 1 .. Len(hbq) : hbq[i] = "BootUp"

(* A motor that takes commands was last heard as Operational, with feedback *)
(* and an exact identity: no order of Boot-Up, silence, stale telemetry and *)
(* commit leaves it Initialized without.                                    *)
ReadyIsLive ==
  lifecycle = "Initialized" =>
    online /\ nmtState = "Operational" /\ identity \in Supported /\ logic # None

(* ... and it got its whole setup since its last boot, though some recipes  *)
(* are skipped and one object is written without a look at the token.       *)
ReadyIsConfigured ==
  lifecycle = "Initialized" => configured = Setup \/ RestartPending

(* ... and commands are scaled with its own constants, not with those of    *)
(* the device that was there when they were read.                           *)
ConstantsOfReady ==
  lifecycle = "Initialized" => constants \in {None, identity} \/ RestartPending

(* An unknown, powered node that callers leave alone gets identified, after *)
(* however many failed attempts.                                            *)
AutoIdentified ==
  <>[](op \in {"none", "auto"}) =>
    [](lifecycle = "Unknown" /\ powered => <>(lifecycle # "Unknown" \/ ~powered))

(* The identity that a running initialize() of this session was begun with. *)
AttemptedIdentity ==
  IF op = "initialize" /\ pc # "start" /\ lifecycle = "Initializing" /\ epoch = opEpoch
  THEN expected ELSE None

(* The entry keeps the promises of NodeLifecycle: an attempt belongs to one *)
(* session and one identity.                                                *)
Lifecycle == INSTANCE NodeLifecycle WITH
  session <- epoch, stage <- lifecycle, id <- identity, attempt <- AttemptedIdentity

ImplementsLifecycle == Lifecycle!Spec
=============================================================================
