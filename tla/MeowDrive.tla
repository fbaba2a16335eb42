------------------------------ MODULE MeowDrive ------------------------------
(***************************************************************************)
(* The drive operations of the Meow motor manager on one motor             *)
(* (src/meow_motor/manager.rs, commands.rs): set_mode_sdo, set_target_sdo, *)
(* the two limit setters, disable, clear_error and the drive part of       *)
(* initialization.  They write a mode command object, 0x4401, that the     *)
(* motor obeys only when its value CHANGES, and they confirm through       *)
(* TPDO2, whose frames reach the host through a queue, or by polling the   *)
(* mode display 0x4402.  Every SDO write may fail after the motor obeyed   *)
(* it, the motor may fault, reboot or go silent at any moment, and the     *)
(* caller may drop the future at any await.                                *)
(*                                                                         *)
(* The firmware's reaction to a command is external: it is modelled from   *)
(* what the host code and its comments rely on.                            *)
(***************************************************************************)
EXTENDS Integers, Sequences

CONSTANTS
  Modes,       \* the operating modes, MeowMotorMode
  Width,       \* for each mode, the number of objects its target consists of
  LimitCount,  \* the objects of a limit setter
  MaxAttempts, \* CLEAR_ERROR_ATTEMPTS
  MaxBoots,    \* bound: power-ups of the motor
  TpdoCapacity,\* bound: TPDO2 frames under way to the host
  Off, Clear, Error, Unknown

ASSUME ModesAssumption ==
  /\ Modes \cap {Off, Clear, Error, Unknown} = {}
  /\ Off # Clear /\ Off # Error /\ Clear # Error /\ Unknown \notin {Off, Clear, Error}
ASSUME WidthAssumption == Width \in [Modes -> Nat \ {0}]
ASSUME BoundsAssumption ==
  /\ MaxAttempts \in Nat \ {0}
  /\ MaxBoots \in Nat \ {0}
  /\ TpdoCapacity \in Nat
  /\ LimitCount \in Nat \ {0}

Versions == {0, 1}              \* the values a caller asks for
Displays == Modes \cup {Off, Error}  \* 0x4402, and the logic decoded from TPDO2
Commands == Modes \cup {Off, Clear}  \* 0x4401

Drives == {"mode", "target", "limits"}  \* end with a best-effort Disable
Kinds == Drives \cup {"disable", "clear", "init"}

VARIABLES
  \* the motor
  boots,       \* power-ups so far
  reg,         \* 0x4401
  display,     \* 0x4402
  cause,       \* the cause of an error persists
  object,      \* the target objects of each mode
  \* the bus and the host's entry
  tpdo,        \* TPDO2 frames sent and not handled
  session,     \* the power-up the entry's session stands for
  ready,       \* lifecycle Initialized with the motor Operational
  live,        \* both TPDOs are fresh
  logic,       \* the entry's logic, Unknown before the first frame
  \* the manager
  op,          \* the operation the registry lets run
  last,        \* how the last operation ended
  torn         \* history: modes whose target writes ended without a Disable

motor == <<boots, reg, display, cause, object>>
entry == <<session, ready, live, logic>>
vars == <<motor, tpdo, entry, op, last, torn>>

Idle == [pc |-> "idle"]
NoResult == [kind |-> "none"]

\* Mutant: only the first object of a target is written.
FirstOnly(o) == IF o.kind \in {"mode", "target"} THEN 1 ELSE LimitCount

\* The number of objects drive operation o writes before its command or its end.
WriteCount(o) == IF o.kind \in {"mode", "target"} THEN Width[o.mode] ELSE LimitCount

Pcs == {"write", "command", "gap", "await", "poll", "fail", "off",
        "trigger", "rearm", "pulse", "clearing", "feedback"}

Operation ==
  [pc : Pcs, kind : Kinds, mode : Modes \cup {Off}, value : Versions,
   next : Nat,        \* the next object to write
   attempt : Nat,     \* clear attempts started
   rises : Nat,       \* 0xFF writes that changed 0x4401
   boot : Nat,        \* the session of the identity token
   viaTpdo : BOOLEAN, \* confirm by TPDO2: the motor was Operational
   fenced : BOOLEAN]  \* a TPDO2 was handled since the command completed

Results ==
  {NoResult} \cup
  [kind : Kinds, ok : BOOLEAN,
   off : BOOLEAN,       \* a Disable was acknowledged at the end
   unconfirmed : BOOLEAN, \* every clear attempt went unanswered
   rises : Nat]

FlagsOK == cause \in BOOLEAN /\ ready \in BOOLEAN /\ live \in BOOLEAN

MotorOK ==
  /\ boots \in 1..MaxBoots
  /\ reg \in Commands
  /\ display \in Displays
  /\ object \in [Modes -> Seq(Versions)]
  /\ \A m \in Modes : Len(object[m]) = Width[m]

HostOK ==
  /\ tpdo \in Seq(Displays)
  /\ session \in Nat
  /\ logic \in Displays \cup {Unknown}
  /\ op \in {Idle} \cup Operation
  /\ last \in Results
  /\ torn \subseteq Modes

TypeOK == FlagsOK /\ MotorOK /\ HostOK

Init ==
  /\ boots = 1
  /\ reg = Off
  /\ display = Off
  /\ cause = FALSE
  /\ object = [m \in Modes |-> [i \in 1..Width[m] |-> 0]]
  /\ tpdo = <<>>
  /\ session = 1
  /\ ready = FALSE
  /\ live = FALSE
  /\ logic = Unknown
  /\ op = Idle
  /\ last = NoResult
  /\ torn = {}

-----------------------------------------------------------------------------
(* The motor (external).                                                   *)

\* What the display can show after a new command: Off stops a running motor and
\* does not leave Error; Clear leaves Error once the cause is gone; a mode may
\* be entered, refused or end in an error.
Response(c) ==
  IF display = Error THEN {IF c = Clear /\ ~cause THEN Off ELSE Error}
  ELSE IF c \in Modes THEN {c, display, Error}
  ELSE IF c = Clear THEN {display, Off} ELSE {Off}

\* A command is an edge of 0x4401; rewriting the value it holds does nothing.
Obey(c) ==
  IF c = reg
  THEN UNCHANGED <<reg, display>>
  ELSE reg' = c /\ display' \in Response(c)

Fault ==
  /\ display' = Error
  /\ cause' = TRUE
  /\ UNCHANGED <<boots, reg, object, tpdo, entry, op, last, torn>>

CauseGone ==
  /\ cause
  /\ cause' = FALSE
  /\ UNCHANGED <<boots, reg, display, object, tpdo, entry, op, last, torn>>

Reboot ==
  /\ boots < MaxBoots
  /\ boots' = boots + 1
  /\ reg' = Off
  /\ display' = Off
  /\ cause' = FALSE
  /\ object' = [m \in Modes |-> [i \in 1..Width[m] |-> 0]]
  /\ torn' = IF op # Idle /\ op.kind \in {"mode", "target"} THEN {op.mode} ELSE {}
  /\ UNCHANGED <<tpdo, entry, op, last>>

SendTpdo2 ==
  /\ Len(tpdo) < TpdoCapacity
  /\ tpdo' = Append(tpdo, display)
  /\ UNCHANGED <<motor, entry, op, last, torn>>

-----------------------------------------------------------------------------
(* The background tasks of the host.                                       *)

\* handle_frame / apply_tpdo2: the frame sets the logic and the freshness.  A
\* frame of an earlier power-up is not told apart from a new one.
HandleTpdo2 ==
  /\ tpdo # <<>>
  /\ logic' = Head(tpdo)
  /\ tpdo' = Tail(tpdo)
  /\ live' = TRUE
  /\ op' = IF op # Idle /\ op.pc \in {"await", "feedback"}
           THEN [op EXCEPT !.fenced = TRUE] ELSE op
  /\ UNCHANGED <<motor, session, ready, last, torn>>

TelemetryStale ==
  /\ live
  /\ live' = FALSE
  /\ UNCHANGED <<motor, tpdo, session, ready, logic, op, last, torn>>

\* The monitor's NeedsReinit: the motor left Operational or stayed silent.
LoseReady ==
  /\ ready
  /\ ready' = FALSE
  /\ UNCHANGED <<motor, tpdo, session, live, logic, op, last, torn>>

\* invalidate_session and the identification of the rebooted motor.
NoticeReboot ==
  /\ session # boots
  /\ session' = boots
  /\ ready' = FALSE
  /\ live' = FALSE
  /\ logic' = Unknown
  /\ UNCHANGED <<motor, tpdo, op, last, torn>>

-----------------------------------------------------------------------------
(* Tokens and the two ways an SDO write ends.                              *)

IdentityCurrent == op.boot = session
OperationalCurrent == IdentityCurrent /\ ready /\ live  \* runtime_state_is_current

Goto(pc) == op' = [op EXCEPT !.pc = pc]

End(ok, off, unconfirmed) ==
  /\ op' = Idle
  /\ last' = [kind |-> op.kind, ok |-> ok, off |-> off,
              unconfirmed |-> unconfirmed, rises |-> op.rises]

\* The target an operation has begun and not finished writing to this motor.
TornBy(o) ==
  IF /\ o # Idle
     /\ o.kind \in {"mode", "target"}
     /\ o.next <= WriteCount(o) \/ o.boot # boots
  THEN {o.mode} ELSE {}

Begin(k, m, v, pc, viaTpdo) ==
  /\ op = Idle
  /\ op' = [pc |-> pc, kind |-> k, mode |-> m, value |-> v, next |-> 1,
            attempt |-> 0, rises |-> 0, boot |-> session,
            viaTpdo |-> viaTpdo, fenced |-> FALSE]
  /\ last' = NoResult

-----------------------------------------------------------------------------
(* Operations: entry conditions.                                           *)

SetMode == \E m \in Modes, v \in Versions :
  /\ ready /\ live /\ logic # Error
  /\ Begin("mode", m, v, "write", TRUE)
  /\ UNCHANGED <<motor, tpdo, entry, torn>>

SetTarget == \E m \in Modes, v \in Versions :
  /\ ready /\ live /\ logic = m
  /\ Begin("target", m, v, "write", TRUE)
  /\ UNCHANGED <<motor, tpdo, entry, torn>>

\* set_max_torque and set_profile_limits; their objects belong to no mode.
SetLimits ==
  /\ ready /\ live
  /\ Begin("limits", Off, 0, "write", TRUE)
  /\ UNCHANGED <<motor, tpdo, entry, torn>>

Disable ==
  /\ Begin("disable", Off, 0, "gap", ready)
  /\ UNCHANGED <<motor, tpdo, entry, torn>>

ClearError ==
  /\ Begin("clear", Off, 0, "trigger", ready)
  /\ UNCHANGED <<motor, tpdo, entry, torn>>

\* initialize_with_options forgets the telemetry; clear_existing_error_sdo reads
\* the display and skips a motor without error.
Initialize ==
  /\ Begin("init", Off, 0, IF display = Error THEN "trigger" ELSE "gap", FALSE)
  /\ ready' = FALSE /\ live' = FALSE /\ logic' = Unknown
  /\ UNCHANGED <<motor, tpdo, session, torn>>

-----------------------------------------------------------------------------
(* Steps.  A check of a token and the write after it are one step, except   *)
(* for 0x4401, whose write waits for MODE_COMMAND_SDO_REWRITE_GAP.         *)

\* One target or limit object.  Limits are read back: an answer that differs
\* fails like a write that failed.
WriteObject ==
  /\ op.pc = "write" /\ op.next <= WriteCount(op)
  /\ OperationalCurrent
  /\ \E applied \in BOOLEAN, ok \in BOOLEAN :
       /\ ok => applied
       /\ object' = IF applied /\ op.kind \in {"mode", "target"}
                    THEN [object EXCEPT ![op.mode][op.next] = op.value] ELSE object
       /\ op' = IF ok THEN [op EXCEPT !.next = @ + 1] ELSE [op EXCEPT !.pc = "fail"]
  /\ UNCHANGED <<boots, reg, display, cause, tpdo, entry, last, torn>>

WriteRefused ==
  /\ op.pc \in {"write", "command"}
  /\ ~OperationalCurrent
  /\ Goto("fail")
  /\ UNCHANGED <<motor, tpdo, entry, last, torn>>

\* set_mode goes on to 0x4401; the others have written everything.
WritesDone ==
  /\ op.pc = "write" /\ op.next > WriteCount(op)
  /\ OperationalCurrent
  /\ torn' = IF op.kind \in {"mode", "target"} /\ op.boot = boots
             THEN torn \ {op.mode} ELSE torn
  /\ IF op.kind = "mode" THEN Goto("command") /\ UNCHANGED last
                         ELSE End(TRUE, FALSE, FALSE)
  /\ UNCHANGED <<motor, tpdo, entry>>

CommandChecked ==
  /\ op.pc = "command" /\ OperationalCurrent
  /\ Goto("gap")
  /\ UNCHANGED <<motor, tpdo, entry, last, torn>>

\* The command the pending 0x4401 write carries; the mutant repeats the display
\* the host has last seen, where it should disable.
RepeatDisplay(o) == IF o.kind = "mode" THEN o.mode ELSE logic
CommandOf(o) == IF o.kind = "mode" THEN o.mode ELSE Off

\* Where the operation waits for the confirmation of that command.
Confirmation(o) == IF o.viaTpdo THEN "await" ELSE "poll"

WriteCommand ==
  /\ op.pc = "gap"
  /\ \E applied \in BOOLEAN, ok \in BOOLEAN :
       /\ ok => applied
       /\ IF applied THEN Obey(CommandOf(op)) ELSE UNCHANGED <<reg, display>>
       /\ IF ok
          THEN op' = [op EXCEPT !.pc = Confirmation(op), !.fenced = FALSE] /\ UNCHANGED last
          ELSE IF op.kind = "mode" THEN Goto("fail") /\ UNCHANGED last
                                   ELSE End(FALSE, FALSE, FALSE)
  /\ UNCHANGED <<boots, cause, object, tpdo, entry, torn>>

\* wait_for_logic_after: what the operation waits for.
Expected(o) == IF o.kind = "mode" THEN o.mode ELSE Off

Confirmed ==
  /\ op.pc = "await" /\ op.kind # "clear"
  /\ OperationalCurrent /\ op.fenced
  /\ logic = Expected(op)
  /\ End(TRUE, FALSE, FALSE)
  /\ UNCHANGED <<motor, tpdo, entry, torn>>

\* An error observed after the fence, a lost token or the deadline.
NotConfirmedMode ==
  /\ op.pc = "await" /\ op.kind # "clear"
  /\ IF op.kind = "mode" THEN Goto("fail") /\ UNCHANGED last
                         ELSE End(FALSE, FALSE, FALSE)
  /\ UNCHANGED <<motor, tpdo, entry, torn>>

\* The error path of the drive operations: Disable while the identity token
\* still holds, and keep the original error.
FailChecked ==
  /\ op.pc = "fail"
  /\ IF IdentityCurrent
     THEN Goto("off") /\ UNCHANGED <<last, torn>>
     ELSE End(FALSE, FALSE, FALSE) /\ torn' = torn \cup TornBy(op)
  /\ UNCHANGED <<motor, tpdo, entry>>

\* build_disable_sdo_write, and the mutant that sends the clear command instead.
ClearInstead == Clear
SafetyCommand == Off

DisableAfterFailure ==
  /\ op.pc = "off"
  /\ \E applied \in BOOLEAN, ok \in BOOLEAN :
       /\ ok => applied
       /\ IF applied THEN Obey(SafetyCommand) ELSE UNCHANGED <<reg, display>>
       /\ End(FALSE, ok, FALSE)
       /\ torn' = IF ok THEN torn ELSE torn \cup TornBy(op)
  /\ UNCHANGED <<boots, cause, object, tpdo, entry>>

\* wait_sdo_mode_disabled: polls 0x4402; an error display, a failed read, a new
\* session and the deadline end the operation.  initialize goes on to Operational
\* and fences on feedback newer than that.
PollDisabled ==
  /\ op.pc = "poll"
  /\ \/ /\ IdentityCurrent /\ display = Off
        /\ IF op.kind = "init"
           THEN op' = [op EXCEPT !.pc = "feedback", !.fenced = FALSE] /\ UNCHANGED last
           ELSE End(TRUE, FALSE, FALSE)
     \/ End(FALSE, FALSE, FALSE)
  /\ UNCHANGED <<motor, tpdo, entry, torn>>

\* wait_for_initial_feedback and the commit of run_initialize.
InitialFeedback ==
  /\ op.pc = "feedback"
  /\ \/ /\ IdentityCurrent /\ op.fenced /\ logic = Off
        /\ ready' = TRUE
        /\ End(TRUE, FALSE, FALSE)
     \/ End(FALSE, FALSE, FALSE) /\ UNCHANGED ready
  /\ UNCHANGED <<motor, tpdo, session, live, logic, torn>>

-----------------------------------------------------------------------------
(* clear_error and clear_existing_error_sdo.                               *)

\* Every attempt but the first re-arms 0x4401; the mutant never does.
NoRearm(attempt) == FALSE
NeedsRearm(attempt) == attempt > 0

\* An attempt starts.
ClearAttempt ==
  /\ op.pc = "trigger"
  /\ IF ~IdentityCurrent THEN End(FALSE, FALSE, FALSE)
     ELSE IF op.attempt = MaxAttempts THEN End(FALSE, FALSE, TRUE)
     ELSE /\ op' = [op EXCEPT !.pc = IF NeedsRearm(op.attempt) THEN "rearm" ELSE "pulse",
                              !.attempt = @ + 1]
          /\ UNCHANGED last
  /\ UNCHANGED <<motor, tpdo, entry, torn>>

\* One write of 0x4401 in trigger_clear_error; a failure ends the operation.
ClearWrite(c, then) ==
  /\ \E applied \in BOOLEAN, ok \in BOOLEAN :
       /\ ok => applied
       /\ IF applied THEN Obey(c) ELSE UNCHANGED <<reg, display>>
       /\ IF ok
          THEN /\ op' = [op EXCEPT !.pc = then, !.fenced = FALSE,
                                   !.rises = IF c = Clear /\ reg # Clear THEN @ + 1 ELSE @]
               /\ UNCHANGED last
          ELSE End(FALSE, FALSE, FALSE)
  /\ UNCHANGED <<boots, cause, object, tpdo, entry, torn>>

Rearm == op.pc = "rearm" /\ ClearWrite(Off, "pulse")

Pulse == op.pc = "pulse" /\ ClearWrite(Clear, IF op.viaTpdo THEN "await" ELSE "clearing")

\* The clear is confirmed: clear_error is done, initialize goes on to Disable.
Cleared ==
  /\ \/ /\ op.pc = "await" /\ op.kind = "clear"
        /\ OperationalCurrent /\ op.fenced /\ logic = Off
     \/ op.pc = "clearing" /\ IdentityCurrent /\ display = Off
  /\ IF op.kind = "init" THEN Goto("gap") /\ UNCHANGED last ELSE End(TRUE, FALSE, FALSE)
  /\ UNCHANGED <<motor, tpdo, entry, torn>>

\* The deadline passed without Disabled: the next attempt.  A lost token or a
\* failed read ends the operation instead.
NotCleared ==
  /\ \/ op.pc = "clearing"
     \/ op.pc = "await" /\ op.kind = "clear"
  /\ \/ Goto("trigger") /\ UNCHANGED last
     \/ End(FALSE, FALSE, FALSE)
  /\ UNCHANGED <<motor, tpdo, entry, torn>>

-----------------------------------------------------------------------------

\* The caller drops the future at an await; the guard leaves the registry.
DropFuture ==
  /\ op # Idle
  /\ op' = Idle
  /\ last' = NoResult
  /\ torn' = torn \cup TornBy(op)
  /\ UNCHANGED <<motor, tpdo, entry>>

Environment == Fault \/ CauseGone \/ Reboot \/ SendTpdo2
Background == HandleTpdo2 \/ TelemetryStale \/ LoseReady \/ NoticeReboot
Call == SetMode \/ SetTarget \/ SetLimits \/ Disable \/ ClearError \/ Initialize
OperationStep ==
  /\ op # Idle
  /\ \/ WriteObject \/ WriteRefused \/ WritesDone \/ CommandChecked \/ WriteCommand
     \/ Confirmed \/ NotConfirmedMode \/ FailChecked \/ DisableAfterFailure
     \/ PollDisabled \/ InitialFeedback
     \/ ClearAttempt \/ Rearm \/ Pulse \/ Cleared \/ NotCleared

Next == Environment \/ Background \/ Call \/ OperationStep \/ DropFuture

Spec == Init /\ [][Next]_vars

-----------------------------------------------------------------------------
(* Properties.                                                             *)

\* A motor that runs in a mode while no operation is at work holds a target
\* written by one call, never objects of two: the partial writes of a failed
\* call are followed by a Disable.  The exceptions are in torn: the future was
\* dropped, that Disable was not acknowledged or was not sent because the
\* session had changed, or the motor rebooted between two writes.
NoMixedTargetEnabled ==
  op = Idle =>
    \A m \in Modes \ torn :
      display = m => \A i, j \in 1..Width[m] : object[m][i] = object[m][j]

\* An Err from a drive operation whose Disable was acknowledged means that the
\* motor is off: 0x4401 never holds 0 while the motor runs, so the Disable is a
\* change the motor sees.
FailedModeIsOff ==
  last # NoResult /\ last.kind \in Drives /\ ~last.ok /\ last.off => display \notin Modes

\* clear_error gives up only after every retry reached the motor as a change of
\* 0x4401, whatever value the object held before the call.
EveryRetryIsAnEdge ==
  last # NoResult /\ last.unconfirmed => last.rises >= MaxAttempts - 1
-----------------------------------------------------------------------------
(* The strengthening under which the safety properties are inductive.      *)

\* The register tells a running motor from one that was told to stop.
OnIsCommanded == display \in Modes => reg # Off

\* A result belongs to no running operation.
ResultAtEnd == op # Idle => last = NoResult

\* Where the kinds of operation can be, and what they are for.
KindAtItsPcs ==
  op # Idle =>
    /\ op.pc \in {"write", "fail", "off"} => op.kind \in Drives
    /\ op.pc = "command" => op.kind = "mode"
    /\ op.pc = "gap" => op.kind \in {"mode", "disable", "init"}
    /\ op.kind \in {"mode", "target"} => op.mode \in Modes

\* Every clear attempt but the first that got its answer changed 0x4401.
EdgesSoFar ==
  op # Idle =>
    /\ op.pc \in {"trigger", "clearing"} \/ (op.pc = "await" /\ op.kind = "clear") =>
         op.rises >= op.attempt - 1
    /\ op.pc \in {"rearm", "pulse"} => op.rises >= op.attempt - 2
    /\ op.pc = "pulse" /\ op.attempt >= 2 => reg # Clear

\* The part of a target that is written holds the call's value, unless the
\* motor rebooted meanwhile, which is in torn.
Targeting(m) == op # Idle /\ op.kind \in {"mode", "target"} /\ op.mode = m
PrefixWritten ==
  \A m \in Modes : Targeting(m) =>
    /\ op.next \in 1..Width[m] + 1
    /\ op.pc \notin {"write", "fail", "off"} => op.next = Width[m] + 1
    /\ op.boot = boots \/ m \notin torn =>
         \A i \in 1..op.next - 1 : object[m][i] = op.value

\* NoMixedTargetEnabled, also while operations run.
WholeUnlessTargeted ==
  \A m \in Modes \ torn :
    display = m /\ ~Targeting(m) => \A i, j \in 1..Width[m] : object[m][i] = object[m][j]

BootsPast == session <= boots /\ (op # Idle => op.boot <= boots)

DriveInv ==
  /\ TypeOK /\ OnIsCommanded /\ ResultAtEnd /\ KindAtItsPcs /\ EdgesSoFar
  /\ PrefixWritten /\ WholeUnlessTargeted /\ BootsPast
  /\ FailedModeIsOff /\ EveryRetryIsAnEdge
=============================================================================
