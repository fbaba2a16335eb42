--------------------------- MODULE Cia402Session ---------------------------
(***************************************************************************)
(* One CANopen node as Cia402Manager sees it: the per-motor entry          *)
(* (cia402/motor_entry.rs), the three background tasks that write it       *)
(* (heartbeat discovery, liveness monitor, TPDO listener) and the          *)
(* exclusive SDO operations that re-identify and initialize the node while *)
(* it may reboot, be swapped for another device, or fall silent.           *)
(*                                                                         *)
(* Every critical section of the code is one action; whatever the code     *)
(* does after it unlocked is a later action, so that the other tasks and   *)
(* the device interleave there.  Time is abstracted: a deadline, an SDO    *)
(* error, a heartbeat that is too old and a caller that drops the future   *)
(* all end a call in the same way, CallAborts.                             *)
(***************************************************************************)
EXTENDS Naturals, Sequences

CONSTANTS
  Devices,      \* physical devices that may answer under this node id
  Supported,    \* those whose revision passes known_devices::check_revision
  MeowDevices,  \* those whose identity belongs to the Meow driver
  None,         \* no value (an Option that is None)
  NmtStates,    \* NMT states a running device reports
  MaxAttempts,  \* init_fault_clear_attempts, at least 1
  MaxEpoch,     \* bound on device sessions in a behaviour
  HbCapacity,   \* bound on heartbeat frames in flight
  Lossy         \* heartbeat frames may be lost

ASSUME DevicesAssumption == {None, "IdentifyFailed"} \cap Devices = {}
ASSUME SupportedAssumption == Supported \subseteq Devices
ASSUME NmtAssumption ==
  /\ {"PreOperational", "Operational"} \subseteq NmtStates
  /\ {"BootUp", None} \cap NmtStates = {}
ASSUME AttemptsAssumption == MaxAttempts \in Nat \ {0}
ASSUME BoundsAssumption == MaxEpoch \in Nat /\ HbCapacity \in Nat
ASSUME LossyAssumption == Lossy \in BOOLEAN

VARIABLES
  (* MotorEntryInner *)
  present,      \* the map has an entry for the node
  epoch,        \* session_epoch
  autoState,    \* auto_identify_state
  identity,     \* identity: the device it was read from, or None
  canConfig,    \* can_config
  lifecycle,    \* lifecycle
  online,       \* online
  nmtState,     \* nmt_state
  runtime,      \* peak_torque_nm (or mit_kp_kd_factor): the device it was read from
  (* A revision counter is only compared with the value one waiter captured; *)
  (* what is kept is what that waiter could have seen since.                 *)
  nmtMoved,     \* nmt_revision has moved since Operational was seen
  bootMoved,    \* bootup_revision has moved since the reset was prepared
  cleanTpdo2,   \* tpdo2_revision has moved since 0x603F was read clean, and
                \* the cached status word and logic are without error
  (* handle_inbound_hb after its critical section *)
  hbPc, hbEpoch,
  (* the holder of the node in inflight_ops, and its local variables *)
  op, pc, opEpoch, expected, runIdentity, got, attempt, last, resets,
  (* the device and the heartbeat frames on their way to discovery *)
  powered, who, devNmt, configured, hbq,
  (* history *)
  autoStarts,   \* automatic identifications started in this session
  announced,    \* last identification event of this session
  latest,       \* what the latest fault-clear verification saw
  missed        \* a Boot-Up was lost since this session began

entryVars  == <<present, epoch, autoState, identity, canConfig, lifecycle,
                online, nmtState, runtime>>
fenceVars  == <<nmtMoved, bootMoved, cleanTpdo2>>
hbVars     == <<hbPc, hbEpoch>>
opVars     == <<op, pc, opEpoch, expected, runIdentity, got, attempt, last, resets>>
deviceVars == <<powered, who, devNmt, configured, hbq>>
histVars   == <<autoStarts, announced, latest, missed>>
vars == <<entryVars, fenceVars, hbVars, opVars, deviceVars, histVars>>

HbStates     == NmtStates \cup {"BootUp"}
Lifecycles   == {"Unknown", "Identified", "Initializing", "Initialized", "NeedsReinit"}
Settled      == {"Available", "Unsupported", "ReadFailed"}
Observations == {"clean", "sticky", "fault"}
Setup        == {"tpdo1", "tpdo2", "consumer"}

IdentifyPcs == {"readId", "begin", "config", "announce"}
FencedPcs == {"disarm", "arm", "verify", "confirm", "judge", "commit"}
RunPcs == {"waitPreOp", "tpdo1", "tpdo2", "readConstant", "storeConstant",
           "sendStart", "waitOp"} \cup FencedPcs
ResetPcs == {"reset", "sendReset", "awaitBoot"}

(* The state of a fresh MotorEntry, and an idle device. *)
Init ==
  /\ present = FALSE /\ epoch = 0 /\ autoState = "Ready" /\ identity = None
  /\ canConfig = "Pending" /\ lifecycle = "Unknown" /\ online = FALSE
  /\ nmtState = None /\ runtime = None
  /\ nmtMoved = FALSE /\ bootMoved = FALSE /\ cleanTpdo2 = FALSE
  /\ hbPc = "idle" /\ hbEpoch = 0
  /\ op = "none" /\ pc = "idle" /\ opEpoch = 0 /\ expected = None
  /\ runIdentity = None /\ got = None /\ attempt = 0 /\ last = "none" /\ resets = 0
  /\ powered = FALSE /\ who \in Devices /\ devNmt = "PreOperational"
  /\ configured = {} /\ hbq = <<>>
  /\ autoStarts = 0 /\ announced = None /\ latest = "none" /\ missed = FALSE

-----------------------------------------------------------------------------
(* The device and the bus.                                                  *)

BootUpsInFlight == Len(SelectSeq(hbq, LAMBDA f : f = "BootUp"))

(* Room, under the bounds, for one more device session. *)
SessionBudget == epoch + BootUpsInFlight < MaxEpoch

Boot(d) ==
  /\ who' = d
  /\ devNmt' = "PreOperational"
  /\ configured' = {}
  /\ hbq' = Append(hbq, "BootUp")

(* Power comes up: this device, or another one set to the same node id. *)
PowerOn ==
  /\ ~powered
  /\ SessionBudget /\ Len(hbq) < HbCapacity
  /\ powered' = TRUE
  /\ \E d \in Devices : Boot(d)
  /\ UNCHANGED <<entryVars, fenceVars, hbVars, opVars, histVars>>

PowerOff ==
  /\ powered
  /\ powered' = FALSE
  /\ devNmt' = "PreOperational"
  /\ configured' = {}
  /\ UNCHANGED <<who, hbq>>
  /\ UNCHANGED <<entryVars, fenceVars, hbVars, opVars, histVars>>

(* A periodic heartbeat with the device's current NMT state. *)
EmitHeartbeat ==
  /\ powered /\ Len(hbq) < HbCapacity
  /\ hbq' = Append(hbq, devNmt)
  /\ UNCHANGED <<powered, who, devNmt, configured>>
  /\ UNCHANGED <<entryVars, fenceVars, hbVars, opVars, histVars>>

(* The device itself or another NMT master moves it to another NMT state. *)
DeviceNmtChange ==
  /\ powered
  /\ devNmt' \in NmtStates \ {devNmt}
  /\ UNCHANGED <<powered, who, configured, hbq>>
  /\ UNCHANGED <<entryVars, fenceVars, hbVars, opVars, histVars>>

(* A frame never reaches discovery: lost on the bus, or the receiver lagged *)
(* and run_discovery just goes on.                                          *)
LoseHeartbeat ==
  /\ Lossy /\ hbq # <<>>
  /\ hbq' = Tail(hbq)
  /\ missed' = (missed \/ Head(hbq) = "BootUp")
  /\ UNCHANGED <<powered, who, devNmt, configured>>
  /\ UNCHANGED <<entryVars, fenceVars, hbVars, opVars, autoStarts, announced, latest>>

-----------------------------------------------------------------------------
(* Background tasks.                                                        *)

(* invalidate_for_new_device_session *)
NewDeviceSession ==
  /\ epoch' = epoch + 1
  /\ autoState' = "Ready"
  /\ identity' = None
  /\ canConfig' = "Pending"
  /\ lifecycle' = "Unknown"
  /\ runtime' = None
  /\ cleanTpdo2' = FALSE
  /\ autoStarts' = 0 /\ announced' = None /\ missed' = FALSE

(* A heartbeat frame of state s is processed under the entry's lock. *)
ApplyHeartbeat(s) ==
  /\ present' = TRUE
  /\ nmtMoved' = (pc \in FencedPcs /\ (nmtMoved \/ nmtState # s))
  /\ nmtState' = s
  /\ online' = TRUE
  /\ \/ /\ s = "BootUp"
        /\ bootMoved' = (pc \in {"sendReset", "awaitBoot"})
        /\ NewDeviceSession
     \/ /\ s # "BootUp"
        /\ lifecycle' = IF lifecycle = "Initialized" /\ s # "Operational"
                        THEN "NeedsReinit" ELSE lifecycle
        /\ UNCHANGED <<bootMoved, cleanTpdo2, epoch, autoState, identity, canConfig,
                       runtime, autoStarts, announced, missed>>

(* handle_inbound_hb up to the unlock; discovery is one task, so the next   *)
(* frame waits until this one is done.                                      *)
ReceiveHeartbeat ==
  /\ hbPc = "idle" /\ hbq # <<>>
  /\ hbq' = Tail(hbq)
  /\ ApplyHeartbeat(Head(hbq))
  /\ \/ /\ lifecycle' = "Unknown" /\ autoState' = "Ready"
        /\ hbPc' = "spawn" /\ hbEpoch' = epoch'
     \/ /\ ~(lifecycle' = "Unknown" /\ autoState' = "Ready")
        /\ UNCHANGED hbVars
  /\ UNCHANGED <<latest, powered, who, devNmt, configured, opVars>>

(* spawn_identify_if_idle takes the node in inflight_ops. *)
SpawnIdentify ==
  /\ hbPc = "spawn" /\ op = "none"
  /\ op' = "auto" /\ pc' = "readId" /\ opEpoch' = hbEpoch
  /\ hbPc' = "mark"
  /\ autoStarts' = IF hbEpoch = epoch THEN autoStarts + 1 ELSE autoStarts
  /\ UNCHANGED <<hbEpoch, expected, runIdentity, got, attempt, last, resets,
                 announced, latest, missed>>
  /\ UNCHANGED <<entryVars, fenceVars, deviceVars>>

(* Mutant: giving up on a busy node counts as the session's attempt. *)
BusyCountsAsAttempt ==
  /\ hbPc = "spawn" /\ op # "none"
  /\ hbPc' = "mark" /\ UNCHANGED hbEpoch
  /\ UNCHANGED <<entryVars, fenceVars, opVars, deviceVars, histVars>>

(* It gives up while somebody else holds the node. *)
NodeBusy ==
  /\ hbPc = "spawn" /\ op # "none"
  /\ hbPc' = "idle" /\ hbEpoch' = 0
  /\ UNCHANGED <<entryVars, fenceVars, opVars, deviceVars, histVars>>

(* The second critical section of handle_inbound_hb, after the spawn. *)
MarkAttempted ==
  /\ hbPc = "mark"
  /\ autoState' = IF epoch = hbEpoch /\ lifecycle = "Unknown"
                  THEN "Attempted" ELSE autoState
  /\ hbPc' = "idle" /\ hbEpoch' = 0
  /\ UNCHANGED <<present, epoch, identity, canConfig, lifecycle, online, nmtState,
                 runtime, fenceVars, opVars, deviceVars, histVars>>

(* A tick of run_liveness_monitor that finds the node silent for longer    *)
(* than its threshold.  How long that is does not matter here, so the      *)
(* bound on sessions is the only limit.                                    *)
GoOffline ==
  /\ online /\ SessionBudget
  /\ online' = FALSE
  /\ NewDeviceSession
  /\ nmtMoved' = (pc \in FencedPcs)
  /\ nmtState' = None
  /\ UNCHANGED <<present, bootMoved, latest, hbVars, opVars, deviceVars>>

(* handle_frame: a TPDO of a known node that is not a Meow motor.  Frames   *)
(* of an earlier configuration or session may still arrive, so nothing is   *)
(* assumed about the device.                                                *)
TpdoAccepted == present /\ identity \notin MeowDevices

ReceiveTpdo1 ==
  /\ TpdoAccepted
  /\ online' = TRUE
  /\ UNCHANGED <<present, epoch, autoState, identity, canConfig, lifecycle,
                 nmtState, runtime>>
  /\ UNCHANGED <<fenceVars, hbVars, opVars, deviceVars, histVars>>

ReceiveTpdo2(clean) ==
  /\ TpdoAccepted
  /\ online' = TRUE
  /\ cleanTpdo2' = (pc = "confirm" /\ clean)
  /\ UNCHANGED <<present, epoch, autoState, identity, canConfig, lifecycle,
                 nmtState, runtime, nmtMoved, bootMoved>>
  /\ UNCHANGED <<hbVars, opVars, deviceVars, histVars>>

-----------------------------------------------------------------------------
(* Exclusive operations.  op is who holds the node in inflight_ops.         *)

(* The InflightGuard is dropped; locals and captured revisions go out of scope. *)
Release ==
  /\ op' = "none" /\ pc' = "idle" /\ opEpoch' = 0 /\ expected' = None
  /\ runIdentity' = None /\ got' = None /\ attempt' = 0 /\ last' = "none"
  /\ resets' = 0
  /\ nmtMoved' = FALSE /\ bootMoved' = FALSE /\ cleanTpdo2' = FALSE
  /\ latest' = "none"

At(p) == op # "none" /\ pc = p

(* identify(): creates the entry if need be, then reads the identity. *)
CallIdentify ==
  /\ op = "none"
  /\ present' = TRUE
  /\ op' = "identify" /\ pc' = "readId" /\ opEpoch' = epoch
  /\ UNCHANGED <<expected, runIdentity, got, attempt, last, resets>>
  /\ UNCHANGED <<epoch, autoState, identity, canConfig, lifecycle, online,
                 nmtState, runtime>>
  /\ UNCHANGED <<fenceVars, hbVars, deviceVars, histVars>>

(* Mutant: no revision gate. *)
NoGate(d) == TRUE

(* known_devices::check_revision *)
RevisionSupported(d) == d \in Supported

(* initialize() up to run_initialize: known, supported, and exclusive. *)
CallInitialize ==
  /\ op = "none" /\ present
  /\ lifecycle # "Unknown" /\ identity # None
  /\ RevisionSupported(identity)
  /\ op' = "initialize" /\ pc' = "start" /\ opEpoch' = epoch /\ expected' = identity
  /\ UNCHANGED <<runIdentity, got, attempt, last, resets>>
  /\ UNCHANGED <<entryVars, fenceVars, hbVars, deviceVars, histVars>>

(* identify_once: SDO upload of 0x1018 (and 0x1008). *)
ReadIdentity ==
  /\ At("readId") /\ powered
  /\ got' = who /\ pc' = "begin"
  /\ UNCHANGED <<op, opEpoch, expected, runIdentity, attempt, last, resets>>
  /\ UNCHANGED <<entryVars, fenceVars, hbVars, deviceVars, histVars>>

(* Mutant: the identity of an earlier session is kept.                      *)
AnySession == expected \in {None, got}

(* The session check of begin_device_can_config_read, and before it the     *)
(* recovery path's same_physical_device.                                    *)
IdentityAccepted == epoch = opEpoch /\ expected \in {None, got}

BeginConfigRead ==
  /\ At("begin")
  /\ IdentityAccepted
  /\ identity' = got
  /\ canConfig' = "Pending"
  /\ lifecycle' = IF lifecycle = "Unknown" THEN "Identified" ELSE lifecycle
  /\ pc' = "config"
  /\ UNCHANGED <<present, epoch, autoState, online, nmtState, runtime>>
  /\ UNCHANGED <<op, opEpoch, expected, runIdentity, got, attempt, last, resets>>
  /\ UNCHANGED <<fenceVars, hbVars, deviceVars, histVars>>

(* Mutant: nobody asks whether the session is still the same. *)
NotChecked == TRUE

(* The session checks after the configuration was read, and under the lock  *)
(* in which Identified is sent.                                             *)
ConfigAccepted  == epoch = opEpoch
ResultPublished == epoch = opEpoch

(* read_device_can_config never fails, it answers with a status. *)
FinishConfigRead ==
  /\ At("config")
  /\ ConfigAccepted
  /\ canConfig' \in Settled
  /\ pc' = "announce"
  /\ UNCHANGED <<present, epoch, autoState, identity, lifecycle, online, nmtState,
                 runtime>>
  /\ UNCHANGED <<op, opEpoch, expected, runIdentity, got, attempt, last, resets>>
  /\ UNCHANGED <<fenceVars, hbVars, deviceVars, histVars>>

(* The Identified event is sent under the lock; initialize() goes on. *)
AnnounceIdentified ==
  /\ At("announce")
  /\ ResultPublished
  /\ announced' = got
  /\ \/ /\ op = "initialize" /\ pc' = "start"
        /\ UNCHANGED <<op, opEpoch, expected, runIdentity, got, attempt, last, resets,
                       fenceVars, latest>>
     \/ op # "initialize" /\ Release
  /\ UNCHANGED <<autoStarts, missed>>
  /\ UNCHANGED <<entryVars, hbVars, deviceVars>>

(* The background identification fails: IdentifyFailed, if still its session. *)
AutoIdentifyFails ==
  /\ op = "auto" /\ pc = "readId"
  /\ announced' = IF epoch = opEpoch THEN "IdentifyFailed" ELSE announced
  /\ Release
  /\ UNCHANGED <<autoStarts, missed>>
  /\ UNCHANGED <<entryVars, hbVars, deviceVars>>

(* The background identification finds its session gone. *)
AutoIdentifyDiscarded ==
  /\ op = "auto" /\ pc \in {"begin", "config", "announce"}
  /\ epoch # opEpoch
  /\ Release
  /\ UNCHANGED <<autoStarts, announced, missed>>
  /\ UNCHANGED <<entryVars, hbVars, deviceVars>>

-----------------------------------------------------------------------------
(* run_initialize.                                                          *)

ClearCaches == runtime' = None

(* Lifecycle to Initializing, control caches cleared, EnterPreOperational. *)
StartRun ==
  /\ At("start")
  /\ lifecycle # "Initializing" /\ identity # None
  /\ lifecycle' = "Initializing"
  /\ ClearCaches
  /\ opEpoch' = epoch /\ runIdentity' = identity
  /\ devNmt' = IF powered THEN "PreOperational" ELSE devNmt
  /\ pc' = "waitPreOp"
  /\ UNCHANGED <<present, epoch, autoState, identity, canConfig, online, nmtState>>
  /\ UNCHANGED <<op, expected, got, attempt, last, resets>>
  /\ UNCHANGED <<powered, who, configured, hbq, fenceVars, hbVars, histVars>>

(* What a step of the sequence leaves alone unless it says otherwise. *)
OnlyOp == UNCHANGED <<present, epoch, autoState, identity, canConfig, lifecycle, online,
                      nmtState, hbVars, op, opEpoch, expected, runIdentity, resets,
                      bootMoved, powered, who, hbq, autoStarts, announced,
                      missed>>

WaitPreOp ==
  /\ At("waitPreOp") /\ nmtState = "PreOperational"
  /\ pc' = "tpdo1"
  /\ OnlyOp
  /\ UNCHANGED <<runtime, got, attempt, last, devNmt, configured, nmtMoved, cleanTpdo2, latest>>

(* SDO writes: apply_tpdo_recipe and the 0x1016 entry, each answered by     *)
(* whatever device is powered at that moment.                               *)
Configure(at, next, setup) ==
  /\ At(at) /\ powered
  /\ configured' = setup
  /\ pc' = next
  /\ OnlyOp
  /\ UNCHANGED <<runtime, got, attempt, last, devNmt, nmtMoved, cleanTpdo2, latest>>

ConfigureTpdo1 == Configure("tpdo1", "tpdo2", configured \cup {"tpdo1"})
ConfigureTpdo2 == Configure("tpdo2", "readConstant", configured \cup {"tpdo2"})

(* read_runtime_constants does the same for two constants, one after the    *)
(* other; one of them is followed here.  A failed or implausible read       *)
(* stores nothing, and the store does not look at the session.              *)
ReadConstant ==
  /\ At("readConstant")
  /\ got' \in {None} \cup (IF powered THEN {who} ELSE {})
  /\ pc' = "storeConstant"
  /\ OnlyOp
  /\ UNCHANGED <<runtime, attempt, last, devNmt, configured, nmtMoved, cleanTpdo2, latest>>

StoreConstant ==
  /\ At("storeConstant")
  /\ runtime' = IF got = None THEN runtime ELSE got
  /\ got' = None
  /\ pc' = "sendStart"
  /\ OnlyOp
  /\ UNCHANGED <<attempt, last, devNmt, configured, nmtMoved, cleanTpdo2, latest>>

SendStart ==
  /\ At("sendStart")
  /\ devNmt' = IF powered THEN "Operational" ELSE devNmt
  /\ pc' = "waitOp"
  /\ OnlyOp
  /\ UNCHANGED <<runtime, got, attempt, last, configured, nmtMoved, cleanTpdo2, latest>>

(* Mutants: only the session is checked; only the connection is. *)
SessionHolds == epoch = opEpoch /\ identity = runIdentity /\ lifecycle = "Initializing"
ConnectionHolds == online /\ nmtState = "Operational"

(* initialization_context_problem is None, ages aside. *)
ContextHolds ==
  /\ epoch = opEpoch
  /\ identity = runIdentity
  /\ lifecycle = "Initializing"
  /\ online
  /\ nmtState = "Operational"

(* Operational is seen and the NMT revision captured. *)
WaitOperational ==
  /\ At("waitOp") /\ ContextHolds
  /\ nmtMoved' = FALSE
  /\ attempt' = 1 /\ last' = "none" /\ latest' = "none"
  /\ pc' = "disarm"
  /\ OnlyOp
  /\ UNCHANGED <<runtime, got, devNmt, configured, cleanTpdo2>>

(* 0x1016 off and the 0x00, 0x80, 0x00 edge; then 0x1016 on again. *)
Disarm == Configure("disarm", "arm", configured \ {"consumer"})
Arm    == Configure("arm", "verify", configured \cup {"consumer"})

(* Mutant: one attempt too many. *)
NextAttemptOffByOne ==
  \/ attempt <= MaxAttempts /\ attempt' = attempt + 1 /\ pc' = "disarm"
  \/ attempt > MaxAttempts /\ attempt' = attempt /\ pc' = "judge"

NextAttempt ==
  \/ attempt < MaxAttempts /\ attempt' = attempt + 1 /\ pc' = "disarm"
  \/ attempt >= MaxAttempts /\ attempt' = attempt /\ pc' = "judge"

(* Mutant: an incomplete read leaves the earlier observation. *)
Recall(seen) == IF seen = "failed" THEN last ELSE seen

(* last_complete_observation: an incomplete read forgets every earlier one. *)
Observed(seen) == IF seen = "failed" THEN "none" ELSE seen

(* 0x6041 and 0x603F are read.  "sticky" is no fault bit with 0x8130.  A    *)
(* clean observation captures the TPDO2 revision.                           *)
Verify ==
  /\ At("verify")
  /\ \E seen \in Observations \cup {"failed"} :
       /\ seen # "failed" => powered
       /\ latest' = seen
       /\ last' = Observed(seen)
       /\ \/ seen = "clean" /\ pc' = "confirm" /\ UNCHANGED attempt
          \/ seen # "clean" /\ NextAttempt
  /\ cleanTpdo2' = FALSE
  /\ OnlyOp
  /\ UNCHANGED <<runtime, got, devNmt, configured, nmtMoved>>

(* wait_for_clean_tpdo2: a TPDO2 newer than the fence, and clean. *)
ConfirmTpdo2 ==
  /\ At("confirm")
  /\ \/ cleanTpdo2 /\ pc' = "commit" /\ UNCHANGED attempt
     \/ ~cleanTpdo2 /\ NextAttempt
  /\ cleanTpdo2' = FALSE
  /\ OnlyOp
  /\ UNCHANGED <<runtime, got, last, devNmt, configured, nmtMoved, latest>>

(* Mutant: the identity is not looked at. *)
RolledBackToUnknown == IF lifecycle = "Initializing" THEN "Unknown" ELSE lifecycle

(* LifecycleRollback::drop *)
RolledBack ==
  IF lifecycle = "Initializing"
  THEN IF identity # None THEN "Identified" ELSE "Unknown"
  ELSE lifecycle

(* Not cleared: only the sticky heartbeat error asks for a reset. *)
Escalate ==
  /\ At("judge")
  /\ last = "sticky" /\ ContextHolds /\ ~nmtMoved
  /\ lifecycle' = RolledBack
  /\ nmtMoved' = FALSE
  /\ pc' = "reset"
  /\ UNCHANGED <<present, epoch, autoState, identity, canConfig, online, nmtState, runtime, bootMoved, cleanTpdo2, hbVars, deviceVars, histVars>>
  /\ UNCHANGED <<op, opEpoch, expected, runIdentity, got, attempt, last, resets>>

(* The final critical section: Initialized, and the call returns. *)
Commit ==
  /\ At("commit")
  /\ ContextHolds /\ ~nmtMoved
  /\ lifecycle' = "Initialized"
  /\ Release
  /\ UNCHANGED <<present, epoch, autoState, identity, canConfig, online, nmtState,
                 runtime, hbVars, deviceVars, autoStarts, announced, missed>>

-----------------------------------------------------------------------------
(* initialize() after NeedsCommunicationReset: at most one reset per call.  *)

PrepareReset ==
  /\ At("reset")
  /\ resets = 0
  /\ epoch = opEpoch /\ identity = expected
  /\ bootMoved' = FALSE
  /\ pc' = "sendReset"
  /\ UNCHANGED <<op, opEpoch, expected, runIdentity, got, attempt, last, resets>>
  /\ UNCHANGED <<entryVars, nmtMoved, cleanTpdo2, hbVars, deviceVars, histVars>>

(* Reset Communication: a device that is there reboots its communication,   *)
(* unless the frame is lost.                                                *)
SendReset ==
  /\ At("sendReset")
  /\ resets' = resets + 1
  /\ pc' = "awaitBoot"
  /\ \/ powered /\ SessionBudget /\ Len(hbq) < HbCapacity /\ Boot(who) /\ UNCHANGED powered
     \/ UNCHANGED deviceVars
  /\ UNCHANGED <<op, opEpoch, expected, runIdentity, got, attempt, last>>
  /\ UNCHANGED <<entryVars, fenceVars, hbVars, histVars>>

(* wait_for_reset_communication_bootup *)
AwaitBootUp ==
  /\ At("awaitBoot")
  /\ bootMoved /\ epoch # opEpoch /\ online /\ nmtState = "PreOperational"
  /\ opEpoch' = epoch /\ bootMoved' = FALSE
  /\ pc' = "readId"
  /\ UNCHANGED <<op, expected, runIdentity, got, attempt, last, resets>>
  /\ UNCHANGED <<entryVars, nmtMoved, cleanTpdo2, hbVars, deviceVars, histVars>>

(* An SDO or send error, a deadline, a failed check, or the caller dropping *)
(* the future: the rollback runs and the node is released.                  *)
CallAborts ==
  /\ op \in {"identify", "initialize"}
  /\ lifecycle' = IF pc \in RunPcs THEN RolledBack ELSE lifecycle
  /\ Release
  /\ UNCHANGED <<present, epoch, autoState, identity, canConfig, online, nmtState,
                 runtime, hbVars, deviceVars, autoStarts, announced, missed>>

-----------------------------------------------------------------------------

DeviceStep ==
  PowerOn \/ PowerOff \/ EmitHeartbeat \/ DeviceNmtChange \/ LoseHeartbeat

DiscoveryStep == ReceiveHeartbeat \/ SpawnIdentify \/ NodeBusy \/ MarkAttempted

TpdoStep == ReceiveTpdo1 \/ \E clean \in BOOLEAN : ReceiveTpdo2(clean)

IdentifyStep ==
  \/ ReadIdentity \/ BeginConfigRead \/ FinishConfigRead \/ AnnounceIdentified
  \/ AutoIdentifyFails \/ AutoIdentifyDiscarded

RunStep ==
  \/ StartRun \/ WaitPreOp \/ ConfigureTpdo1 \/ ConfigureTpdo2
  \/ ReadConstant \/ StoreConstant
  \/ SendStart \/ WaitOperational
  \/ Disarm \/ Arm \/ Verify \/ ConfirmTpdo2 \/ Escalate \/ Commit

ResetStep == PrepareReset \/ SendReset \/ AwaitBootUp

OpStep == IdentifyStep \/ RunStep \/ ResetStep \/ CallAborts

Next ==
  \/ DeviceStep \/ DiscoveryStep \/ GoOffline \/ TpdoStep
  \/ CallIdentify \/ CallInitialize \/ OpStep

Spec == Init /\ [][Next]_vars

(* A powered device sends heartbeats, not all of which get lost; discovery  *)
(* is a task that never stops; and a background identification is bounded   *)
(* by its SDO timeouts.  Nothing is assumed of callers or of the device's   *)
(* power and NMT state.                                                     *)
FairSpec ==
  /\ Spec
  /\ WF_vars(EmitHeartbeat)
  /\ SF_vars(ReceiveHeartbeat)
  /\ WF_vars(SpawnIdentify \/ NodeBusy \/ MarkAttempted)
  /\ WF_vars(op = "auto" /\ IdentifyStep)

-----------------------------------------------------------------------------
(* Properties.                                                              *)

FlagsOK ==
  /\ present \in BOOLEAN /\ online \in BOOLEAN /\ powered \in BOOLEAN
  /\ nmtMoved \in BOOLEAN /\ bootMoved \in BOOLEAN /\ cleanTpdo2 \in BOOLEAN
  /\ missed \in BOOLEAN

DataOK ==
  /\ epoch \in Nat /\ autoState \in {"Ready", "Attempted"}
  /\ identity \in Devices \cup {None} /\ canConfig \in Settled \cup {"Pending"}
  /\ lifecycle \in Lifecycles /\ nmtState \in HbStates \cup {None}
  /\ runtime \in Devices \cup {None}
  /\ hbPc \in {"idle", "spawn", "mark"} /\ hbEpoch \in Nat
  /\ op \in {"none", "auto", "identify", "initialize"}
  /\ pc \in {"idle", "start"} \cup IdentifyPcs \cup RunPcs \cup ResetPcs
  /\ opEpoch \in Nat /\ expected \in Devices \cup {None}
  /\ runIdentity \in Devices \cup {None} /\ got \in Devices \cup {None}
  /\ attempt \in 0 .. MaxAttempts /\ last \in Observations \cup {"none"}
  /\ resets \in Nat
  /\ who \in Devices /\ devNmt \in NmtStates
  /\ configured \subseteq Setup /\ hbq \in Seq(HbStates)
  /\ autoStarts \in Nat /\ announced \in Devices \cup {None, "IdentifyFailed"}
  /\ latest \in Observations \cup {"none", "failed"}

TypeOK == FlagsOK /\ DataOK

(* The device is gone, or discovery has yet to process its Boot-Up or never *)
(* will: until the next session, what the entry says is about the device as *)
(* it was.                                                                  *)
RestartPending == ~powered \/ missed \/ \E i \in 1 .. Len(hbq) : hbq[i] = "BootUp"

(* An initialized entry has been heard as Operational in its last heartbeat *)
(* and knows whom it controls: no order of Boot-Up, offline edge, NMT change*)
(* and initialization commit leaves a controllable entry without either.    *)
InitializedIsLive ==
  lifecycle = "Initialized" => online /\ nmtState = "Operational" /\ identity # None

(* A controllable entry stands for a device that got all of its setup, both *)
(* TPDOs and the heartbeat consumer, since its last boot; a reboot in the   *)
(* middle of the sequence is never papered over by a later step.            *)
InitializedIsConfigured ==
  lifecycle = "Initialized" => configured = Setup \/ RestartPending

(* Peak torque and MIT factor, which scale commands to newtons, were read   *)
(* from the device that is controlled, though read_runtime_constants stores *)
(* them without looking at the session.                                     *)
ConstantsBelongToDevice ==
  lifecycle = "Initialized" => runtime \in {None, who} \/ RestartPending

(* The cached identity is that of the device on the bus: an identity read   *)
(* from an earlier device is dropped, however late its answer.              *)
IdentityIsCurrent == identity \in {None, who} \/ RestartPending

(* No device with an unsupported revision gets past Identified, also not    *)
(* when it takes the place of a supported one during a call.                *)
GateRespected ==
  lifecycle \in {"Initializing", "Initialized", "NeedsReinit"} =>
    identity \in Supported \/ RestartPending

(* Initializing always has a running call of the current session behind it: *)
(* whatever ends the call, the entry does not stay stuck in it.             *)
NoOrphanedInitializing ==
  lifecycle = "Initializing" => op = "initialize" /\ pc \in RunPcs /\ opEpoch = epoch

(* A settled CAN configuration belongs to an identity of the same session:  *)
(* a late answer never lands in the session that replaced it.               *)
ConfigHasIdentity == canConfig # "Pending" => identity # None

(* One automatic identification per device session, whatever the order of   *)
(* its end, the marking of the attempt, rollbacks and further heartbeats.   *)
AutoIdentifyOncePerSession == autoStarts <= 1

(* Identified is announced when the CAN configuration of that very device   *)
(* is settled (events.rs).                                                  *)
IdentifiedIsSettled ==
  [][announced' \in Devices /\ announced' # announced =>
       canConfig \in Settled /\ identity = announced']_vars

(* Reset Communication is sent at most once per call, and only when the     *)
(* latest verification, not an earlier one, saw the sticky heartbeat error. *)
ResetJustified ==
  [][resets' > resets => resets = 0 /\ latest = "sticky"]_vars

(* A call that ends in Initialized ends so for the device it was called     *)
(* for, also across the recovery reset.                                     *)
InitializeKeepsDevice ==
  [][lifecycle' = "Initialized" /\ lifecycle # "Initialized" =>
       identity = expected /\ opEpoch = epoch]_vars

(* Once callers leave the node alone, an unknown, powered node gets an      *)
(* outcome: identified, or the failure announced.  A heartbeat that finds   *)
(* the node busy must not use up the session's only attempt.                *)
AutoIdentifyHappens ==
  <>[](op \notin {"identify", "initialize"}) =>
    [](lifecycle = "Unknown" /\ autoState = "Ready" /\ powered =>
         <>(lifecycle # "Unknown" \/ announced # None \/ ~powered))

(* The entry keeps the promises of NodeLifecycle: an attempt belongs to one *)
(* session and one identity, also across the recovery reset.                *)
Lifecycle == INSTANCE NodeLifecycle WITH
  session <- epoch, stage <- lifecycle, id <- identity,
  attempt <- IF lifecycle = "Initializing" THEN runIdentity ELSE None

ImplementsLifecycle == Lifecycle!Spec

-----------------------------------------------------------------------------
(* The strengthening under which the safety invariants are inductive.       *)

(* Unknown and "no identity" are the same thing, also after a rollback. *)
UnknownHasNoIdentity == lifecycle = "Unknown" <=> identity = None

(* Captured sessions are not from the future. *)
CapturedEpochsPast == opEpoch <= epoch /\ hbEpoch <= epoch

(* Who holds the node determines where in its call it can be. *)
HolderAtItsPcs ==
  /\ op = "none" => pc = "idle"
  /\ op \in {"auto", "identify"} => pc \in IdentifyPcs

(* An identification still in its session has cached what it read. *)
ReadIsCached ==
  /\ pc \in {"begin", "config", "announce"} => got \in Devices
  /\ pc \in {"config", "announce"} /\ epoch = opEpoch => identity = got
  /\ pc = "announce" /\ epoch = opEpoch => canConfig \in Settled

(* The started attempt is recorded, made good, or about to be recorded. *)
StartIsRemembered ==
  /\ autoStarts > 0 => \/ autoState = "Attempted"
                       \/ lifecycle # "Unknown"
                       \/ hbPc = "mark" /\ hbEpoch = epoch
  /\ hbPc = "spawn" /\ hbEpoch = epoch => autoStarts = 0

(* The call stays with the device it was made for. *)
TargetKept ==
  /\ op = "initialize" => expected \in Devices
  /\ op = "initialize" /\ pc \in {"config", "announce", "start"} =>
       identity \in {None, expected}
  /\ pc \in RunPcs => runIdentity = expected

(* What was remembered is what was seen, and only the sticky error leads to *)
(* the one reset.                                                           *)
ResetIsEarned ==
  /\ last # "none" => latest = last
  /\ pc \in {"reset", "sendReset"} => last = "sticky"
  /\ pc = "sendReset" => resets = 0

IInv ==
  /\ TypeOK
  /\ UnknownHasNoIdentity /\ CapturedEpochsPast /\ HolderAtItsPcs /\ ReadIsCached
  /\ StartIsRemembered /\ TargetKept /\ ResetIsEarned
  /\ InitializedIsLive /\ NoOrphanedInitializing /\ ConfigHasIdentity
  /\ AutoIdentifyOncePerSession

-----------------------------------------------------------------------------
(* The strengthening of the invariants that relate the entry to the device. *)

(* A call is made for a supported device, and a run that has lost its       *)
(* session finds an entry that knows nobody.                                *)
RunKeepsToSession ==
  /\ op = "initialize" => expected \in Supported
  /\ pc \in RunPcs => lifecycle = IF opEpoch = epoch THEN "Initializing" ELSE "Unknown"

(* The parts of the setup that the run has behind it. *)
SetupSoFar ==
  /\ pc \in RunPcs \ {"waitPreOp", "tpdo1"} => "tpdo1" \in configured
  /\ pc \in RunPcs \ {"waitPreOp", "tpdo1", "tpdo2"} => "tpdo2" \in configured
  /\ pc \in {"verify", "confirm", "commit"} => "consumer" \in configured

(* What the entry and a call of its session hold was read from, or written  *)
(* to, the device that is there.                                            *)
KnowsDevice ==
  /\ identity \in {None, who}
  /\ opEpoch = epoch /\ pc \in {"begin", "config", "announce"} => got = who
  /\ opEpoch = epoch /\ pc = "storeConstant" => got \in {None, who}
  /\ lifecycle \in {"Initializing", "Initialized"} => runtime \in {None, who}
  /\ opEpoch = epoch => SetupSoFar
  /\ lifecycle = "Initialized" => configured = Setup
  /\ lifecycle \in {"Initializing", "Initialized", "NeedsReinit"} => identity \in Supported

DeviceInv == RunKeepsToSession /\ (KnowsDevice \/ RestartPending)
=============================================================================
