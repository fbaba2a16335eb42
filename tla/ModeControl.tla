---------------------------- MODULE ModeControl ----------------------------
(***************************************************************************)
(* Control of one CiA402 drive through its manager entry: set_mode with    *)
(* its pre-enable guard, set_target, disable and clear_error               *)
(* (cia402/manager.rs, cia402/sequences.rs), the TPDO2 listener that       *)
(* derives the logic state they wait for, and what takes the ground away   *)
(* under a running call: reboots, faults, NMT changes, silence.            *)
(*                                                                         *)
(* How the entry gets to Initialized is the subject of Cia402Session; here *)
(* it is only what a control call can notice of it.  The drive samples the *)
(* latest control word at its own pace (initialize.rs, FAULT_RESET_SETTLE).*)
(***************************************************************************)
EXTENDS Naturals, Sequences

CONSTANTS
  Modes,          \* MotorMode
  PositionMode,   \* MotorMode::ProfilePosition
  None,           \* no value
  MaxSessions,    \* bound on device sessions
  TpdoCapacity    \* bound on TPDO2 frames in flight

ASSUME ModesAssumption == PositionMode \in Modes /\ None \notin Modes
ASSUME NoneAssumption ==
  None \notin {"Enabled", "Disabled", "Error"} \X (Modes \cup {None})
ASSUME ModeBoundsAssumption == MaxSessions \in Nat /\ TpdoCapacity \in Nat

VARIABLES
  (* MotorEntryInner *)
  session,      \* session_epoch
  lifecycle,    \* lifecycle
  logic,        \* logic
  targetMode,   \* target_mode
  statusFault,  \* measurements.status_word has the fault bit
  (* the holder of the node in inflight_ops *)
  op,           \* which call runs
  phase,        \* where it is
  mode,         \* the mode it was called with
  opSession,    \* session when it cached its mode (set_mode) or began
  todo,         \* SDO writes it has yet to send
  guarded,      \* pre_enable has returned Ok
  result,       \* how the latest call ended
  (* the drive *)
  drive,        \* CiA402 state
  controlword,  \* latest 0x6040
  devMode,      \* 0x6060: the mode it runs in
  err,          \* 0x603F is not zero
  bootPending,  \* its Boot-Up has not been processed yet
  tpdos,        \* TPDO2 frames on their way
  (* history *)
  wounded,      \* a set_mode of this session cached its mode and did not succeed
  rejected      \* pre_enable refused, and no call began since

entryVars == <<session, lifecycle, logic, targetMode, statusFault>>
callVars  == <<op, phase, mode, opSession, todo, guarded, result>>
driveVars == <<drive, controlword, devMode, err, bootPending>>
histVars  == <<wounded, rejected>>
vars == <<entryVars, callVars, driveVars, tpdos, histVars>>

Lifecycles == {"Unknown", "Identified", "Initializing", "Initialized", "NeedsReinit"}
DriveStates == {"SwitchOnDisabled", "ReadyToSwitchOn", "SwitchedOn",
                "OperationEnabled", "Fault"}
Calls == {"set_mode", "set_target", "disable", "clear_error", "initialize"}

Enabled(m) == <<"Enabled", m>>
Disabled   == <<"Disabled", None>>
Error      == <<"Error", None>>

ControlWord(value) == <<"0x6040", value>>
ModeOfOperation(m) == <<"0x6060", m>>
TargetValue(m)     == <<"target", m>>

Init ==
  /\ session = 0 /\ lifecycle = "Unknown" /\ logic = None /\ targetMode = None
  /\ statusFault = FALSE
  /\ op = "none" /\ phase = "idle" /\ mode = None /\ opSession = 0 /\ todo = <<>>
  /\ guarded = FALSE /\ result = "none"
  /\ drive = "SwitchOnDisabled" /\ controlword = "Zero" /\ devMode = None
  /\ err = FALSE /\ bootPending = FALSE /\ tpdos = <<>>
  /\ wounded = FALSE /\ rejected = FALSE

-----------------------------------------------------------------------------
(* The sequences of SDO writes.                                             *)

(* build_set_mode_writes, without the fault reset set_mode never asks for *)
SetModeWrites(m) ==
  << ControlWord("Shutdown"), ModeOfOperation(m), ControlWord("Shutdown"),
     ControlWord("SwitchOn"), ControlWord("EnableOperation") >>

(* build_set_target_writes: 0x2F and 0x3F both carry Enable Operation *)
SetTargetWrites(m) ==
  IF m = PositionMode
  THEN <<ControlWord("EnableOperation"), TargetValue(m), ControlWord("EnableOperation")>>
  ELSE <<TargetValue(m)>>

DisableWrites    == <<ControlWord("Shutdown")>>
ClearErrorWrites == <<ControlWord("FaultReset")>>

(* clear_fault_edge of initialize() *)
FaultEdgeWrites == <<ControlWord("Zero"), ControlWord("FaultReset"), ControlWord("Zero")>>

-----------------------------------------------------------------------------
(* The calls.                                                               *)

Begin(call, m, next, writes) ==
  /\ op = "none"
  /\ op' = call /\ phase' = next /\ mode' = m /\ todo' = writes
  /\ opSession' = session /\ guarded' = FALSE /\ result' = "none"
  /\ rejected' = FALSE

(* A call returns and its InflightGuard is dropped. *)
End(outcome) ==
  /\ op' = "none" /\ phase' = "idle" /\ todo' = <<>> /\ guarded' = FALSE
  /\ result' = outcome
  /\ UNCHANGED <<mode, opSession>>

(* require_initialized, then the node in inflight_ops.  What happens to the *)
(* entry between the two is as if it happened right after them.             *)
CallControl(call, m, next, writes) ==
  /\ lifecycle = "Initialized"
  /\ Begin(call, m, next, writes)
  /\ UNCHANGED <<entryVars, driveVars, tpdos, wounded>>

CallSetMode(m)   == CallControl("set_mode", m, "check", <<>>)
CallSetTarget(m) == CallControl("set_target", m, "check", <<>>)
CallDisable      == CallControl("disable", None, "write", DisableWrites)
CallClearError   == CallControl("clear_error", None, "write", ClearErrorWrites)

(* set_mode looks for a cached fault ... *)
CheckFault ==
  /\ op = "set_mode" /\ phase = "check"
  /\ \/ /\ logic = Error \/ statusFault
        /\ End("failed")
     \/ /\ logic # Error /\ ~statusFault
        /\ phase' = "cache"
        /\ UNCHANGED <<op, mode, opSession, todo, guarded, result>>
  /\ UNCHANGED <<entryVars, driveVars, tpdos, histVars>>

(* ... and, under another lock, caches the mode. *)
CacheMode ==
  /\ op = "set_mode" /\ phase = "cache"
  /\ targetMode' = mode
  /\ opSession' = session
  /\ todo' = SetModeWrites(mode) /\ phase' = "write"
  /\ UNCHANGED <<session, lifecycle, logic, statusFault, op, mode, guarded, result>>
  /\ UNCHANGED <<driveVars, tpdos, histVars>>

(* set_target reads the cached mode; a target of another mode is refused. *)
CheckTarget ==
  /\ op = "set_target" /\ phase = "check"
  /\ \/ /\ targetMode # mode
        /\ End("failed")
     \/ /\ targetMode = mode
        /\ todo' = SetTargetWrites(mode) /\ phase' = "write"
        /\ UNCHANGED <<op, mode, opSession, guarded, result>>
  /\ UNCHANGED <<entryVars, driveVars, tpdos, histVars>>

(* Mutant: the guard is asked once the drive has been enabled. *)
AfterTheRamp == <<>>

(* The write the guard comes before. *)
EnableWrite == <<ControlWord("EnableOperation")>>

GuardDue == op = "set_mode" /\ phase = "write" /\ todo = EnableWrite /\ ~guarded

(* pre_enable *)
PreEnable ==
  /\ GuardDue
  /\ \/ /\ guarded' = TRUE
        /\ UNCHANGED <<op, phase, mode, opSession, todo, result, wounded, rejected>>
     \/ /\ End("failed")
        /\ rejected' = TRUE
        /\ wounded' = (wounded \/ session = opSession)
  /\ UNCHANGED <<entryVars, driveVars, tpdos>>

(* One SDO download, answered by the device whatever its session is. *)
Download ==
  /\ phase = "write" /\ todo # <<>> /\ ~GuardDue
  /\ LET write == Head(todo)
     IN /\ controlword' = IF write[1] = "0x6040" THEN write[2] ELSE controlword
        /\ devMode' = IF write[1] = "0x6060" THEN write[2] ELSE devMode
  /\ todo' = Tail(todo)
 
  /\ UNCHANGED <<entryVars, op, phase, mode, opSession, guarded, result>>
  /\ UNCHANGED <<drive, err, bootPending, tpdos, wounded, rejected>>

(* wait_for_mode finds the mode. *)
ModeConfirmed ==
  /\ op = "set_mode" /\ phase = "write" /\ todo = <<>>
  /\ logic = Enabled(mode)
  /\ End("ok")
  /\ wounded' = (wounded /\ session # opSession)
  /\ UNCHANGED <<entryVars, driveVars, tpdos, rejected>>

(* The other control calls return after their last write. *)
WritesDone ==
  /\ op \in {"set_target", "disable", "clear_error"} /\ phase = "write" /\ todo = <<>>
  /\ End("ok")
  /\ UNCHANGED <<entryVars, driveVars, tpdos, histVars>>

(* An SDO error, a fault or the deadline of wait_for_mode, or a caller that *)
(* drops the future.  initialize() rolls its lifecycle back.                *)
CallFails ==
  /\ op # "none"
  /\ End("failed")
  /\ lifecycle' = IF op = "initialize" /\ lifecycle = "Initializing"
                  THEN "Identified" ELSE lifecycle
  /\ wounded' = (wounded \/ (op = "set_mode" /\ phase = "write" /\ session = opSession))
  /\ UNCHANGED <<session, logic, targetMode, statusFault, driveVars, tpdos, rejected>>

(* What initialize() does to this state: caches cleared, the fault-reset    *)
(* edge, and Initialized once a clean TPDO2 was seen in the same session.   *)
StartInitialize ==
  /\ lifecycle \notin {"Unknown", "Initializing"}
  /\ Begin("initialize", None, "write", FaultEdgeWrites)
  /\ lifecycle' = "Initializing"
  /\ targetMode' = None /\ logic' = None /\ statusFault' = FALSE
  /\ wounded' = FALSE
  /\ UNCHANGED <<session, driveVars, tpdos>>

FinishInitialize ==
  /\ op = "initialize" /\ phase = "write" /\ todo = <<>>
  /\ lifecycle = "Initializing" /\ session = opSession
  /\ logic \notin {None, Error} /\ ~statusFault
  /\ lifecycle' = "Initialized"
  /\ End("ok")
  /\ UNCHANGED <<session, logic, targetMode, statusFault, driveVars, tpdos, histVars>>

-----------------------------------------------------------------------------
(* The background tasks.                                                    *)

(* Mutant: without a cached mode the drive's state is passed on all the same. *)
LogicOfAnyMode(frame) ==
  IF frame.drive = "Fault" \/ frame.err THEN Error
  ELSE IF frame.drive = "OperationEnabled" THEN Enabled(targetMode) ELSE Disabled

(* status_word_to_logic *)
StatusWordToLogic(frame) ==
  IF frame.drive = "Fault" \/ frame.err THEN Error
  ELSE IF frame.drive = "OperationEnabled" /\ targetMode # None
       THEN Enabled(targetMode) ELSE Disabled

(* handle_frame, TPDO2 *)
ReceiveTpdo2 ==
  /\ tpdos # <<>>
  /\ tpdos' = Tail(tpdos)
  /\ logic' = StatusWordToLogic(Head(tpdos))
  /\ statusFault' = (Head(tpdos).drive = "Fault")
  /\ UNCHANGED <<session, lifecycle, targetMode, callVars, driveVars, wounded, rejected>>

(* Room, under the bounds, for one more device session. *)
SessionBudget == IF bootPending THEN session + 1 < MaxSessions ELSE session < MaxSessions

(* Mutant: the mode survives the session it was set in. *)
KeepMode == UNCHANGED targetMode

ForgetMode == targetMode' = None

(* invalidate_for_new_device_session *)
Invalidate ==
  /\ session' = session + 1
  /\ lifecycle' = "Unknown" /\ logic' = None /\ statusFault' = FALSE
  /\ ForgetMode
  /\ wounded' = FALSE

ReceiveBootUp ==
  /\ bootPending
  /\ bootPending' = FALSE
  /\ Invalidate
  /\ UNCHANGED <<callVars, drive, controlword, devMode, err, tpdos, rejected>>

(* run_liveness_monitor *)
GoOffline ==
  /\ SessionBudget
  /\ Invalidate
  /\ UNCHANGED <<callVars, driveVars, tpdos, rejected>>

(* handle_inbound_hb: a heartbeat that is not Operational *)
LeaveOperational ==
  /\ lifecycle = "Initialized"
  /\ lifecycle' = "NeedsReinit"
  /\ UNCHANGED <<session, logic, targetMode, statusFault, callVars, driveVars, tpdos, histVars>>

(* begin_device_can_config_read *)
Identify ==
  /\ lifecycle = "Unknown" /\ op = "none"
  /\ lifecycle' = "Identified"
  /\ UNCHANGED <<session, logic, targetMode, statusFault, callVars, driveVars, tpdos, histVars>>

-----------------------------------------------------------------------------
(* The drive.                                                               *)

(* The CiA402 state machine under a control word. *)
Sampled(word, state) ==
  CASE state = "Fault" ->
         IF word = "FaultReset" THEN "SwitchOnDisabled" ELSE "Fault"
    [] word \in {"Zero", "FaultReset"} -> "SwitchOnDisabled"
    [] word = "Shutdown" -> "ReadyToSwitchOn"
    [] state = "SwitchOnDisabled" -> "SwitchOnDisabled"
    [] word = "SwitchOn" -> "SwitchedOn"
    [] OTHER -> "OperationEnabled"

Sample ==
  /\ drive' = Sampled(controlword, drive)
  /\ err' \in IF drive = "Fault" /\ drive' # "Fault" THEN BOOLEAN ELSE {err}
  /\ UNCHANGED <<entryVars, callVars, controlword, devMode, bootPending, tpdos, histVars>>

(* A fault: the error code may show before the state does. *)
RaiseError ==
  /\ ~err /\ err' = TRUE
  /\ UNCHANGED <<entryVars, callVars, drive, controlword, devMode, bootPending, tpdos, histVars>>

LatchFault ==
  /\ err /\ drive' = "Fault"
  /\ UNCHANGED <<entryVars, callVars, controlword, devMode, err, bootPending, tpdos, histVars>>

EmitTpdo2 ==
  /\ Len(tpdos) < TpdoCapacity
  /\ tpdos' = Append(tpdos, [drive |-> drive, err |-> err])
  /\ UNCHANGED <<entryVars, callVars, driveVars, histVars>>

Reboot ==
  /\ SessionBudget /\ ~bootPending
  /\ drive' = "SwitchOnDisabled" /\ controlword' = "Zero" /\ devMode' = None
  /\ err' = FALSE /\ bootPending' = TRUE
  /\ UNCHANGED <<entryVars, callVars, tpdos, histVars>>

-----------------------------------------------------------------------------

CallStep ==
  \/ \E m \in Modes : CallSetMode(m) \/ CallSetTarget(m)
  \/ CallDisable \/ CallClearError \/ StartInitialize
  \/ CheckFault \/ CacheMode \/ CheckTarget \/ PreEnable \/ Download
  \/ ModeConfirmed \/ WritesDone \/ FinishInitialize \/ CallFails

TaskStep == ReceiveTpdo2 \/ ReceiveBootUp \/ GoOffline \/ LeaveOperational \/ Identify

DriveStep == Sample \/ RaiseError \/ LatchFault \/ EmitTpdo2 \/ Reboot

Next == CallStep \/ TaskStep \/ DriveStep

Spec == Init /\ [][Next]_vars

-----------------------------------------------------------------------------
(* Properties.                                                              *)

Logics == {None, Disabled, Error} \cup {Enabled(m) : m \in Modes}
Words  == {"Zero", "Shutdown", "SwitchOn", "EnableOperation", "FaultReset"}
Writes == {ControlWord(word) : word \in Words}
            \cup {ModeOfOperation(m) : m \in Modes} \cup {TargetValue(m) : m \in Modes}
Frames == [drive : DriveStates, err : BOOLEAN]

FlagsOK ==
  /\ statusFault \in BOOLEAN /\ guarded \in BOOLEAN /\ err \in BOOLEAN
  /\ bootPending \in BOOLEAN /\ wounded \in BOOLEAN /\ rejected \in BOOLEAN

DataOK ==
  /\ session \in Nat /\ lifecycle \in Lifecycles /\ logic \in Logics
  /\ targetMode \in Modes \cup {None}
  /\ op \in Calls \cup {"none"} /\ phase \in {"idle", "check", "cache", "write"}
  /\ mode \in Modes \cup {None} /\ (op \in {"set_mode", "set_target"} => mode \in Modes)
  /\ opSession \in Nat /\ todo \in Seq(Writes)
  /\ result \in {"none", "ok", "failed"}
  /\ drive \in DriveStates /\ devMode \in Modes \cup {None}
  /\ controlword \in Words /\ tpdos \in Seq(Frames)

TypeOK == FlagsOK /\ DataOK

(* Between set_mode calls the cached mode, by which set_target chooses what *)
(* it writes, is the mode the drive runs in, unless a set_mode of this      *)
(* session failed half way or the drive has just rebooted.                  *)
ModeAgreement ==
  targetMode # None /\ op # "set_mode" /\ ~wounded => devMode = targetMode \/ bootPending

(* set_mode succeeds only in the session in which it cached its mode:       *)
(* frames still under way from before a reboot or an offline edge never     *)
(* confirm the mode of a call that outlived its session.                    *)
OkInOneSession ==
  [][op = "set_mode" /\ result' = "ok" /\ result # "ok" => session = opSession]_vars

(* A drive that is not enabled when the pre-enable guard refuses stays so   *)
(* until another call begins.                                               *)
RejectedStaysDisabled ==
  [][rejected /\ drive # "OperationEnabled" => drive' # "OperationEnabled"]_vars

-----------------------------------------------------------------------------
(* The strengthening under which the safety properties are inductive.       *)

Ramping == op = "set_mode" /\ phase = "write"

(* Between calls nothing is written; a session number is never from the     *)
(* future; no other call writes a mode.                                     *)
CallsInOrder ==
  /\ op = "none" => phase = "idle"
  /\ opSession <= session
  /\ op # "set_mode" => \A i \in 1 .. Len(todo) : todo[i][1] # "0x6060"

(* What a ramp has yet to write is the end of its sequence. *)
RampInOrder ==
  Ramping =>
    /\ Len(todo) <= 5
    /\ \A i \in 1 .. Len(todo) : todo[i] = SetModeWrites(mode)[5 - Len(todo) + i]

(* A ramp in its session has its mode cached, and in the drive once that is *)
(* written; a ramp that outlived its session finds nothing that confirms it.*)
RampKeepsMode ==
  Ramping =>
    IF session = opSession
    THEN /\ targetMode = mode
         /\ Len(todo) <= 3 => devMode = mode \/ bootPending
    ELSE targetMode = None /\ logic # Enabled(mode)

(* Before the write the guard comes before, the control word does not       *)
(* enable; a refused guard leaves it at that.                               *)
RampIsOff ==
  /\ Ramping /\ Len(todo) \in 1 .. 4 => controlword # "EnableOperation"
  /\ rejected => op = "none" /\ controlword # "EnableOperation"

(* ModeAgreement, also before a set_mode has cached its mode. *)
AgreementOutsideRamp ==
  targetMode # None /\ ~Ramping /\ ~wounded => devMode = targetMode \/ bootPending

ModeInv ==
  /\ TypeOK /\ CallsInOrder /\ RampInOrder /\ RampKeepsMode /\ RampIsOff
  /\ AgreementOutsideRamp
=============================================================================
