--------------------------- MODULE MeowDriveProofs ---------------------------
(***************************************************************************)
(* The invariants of MeowDrive, for any number of modes, objects, clear    *)
(* attempts, power-ups and frames under way.                               *)
(***************************************************************************)
EXTENDS MeowDrive, TLAPS

(* The sets of names are apart. *)
LEMMA Names ==
  /\ Off \notin Modes /\ Clear \notin Modes /\ Error \notin Modes /\ Unknown \notin Modes
  /\ Off # Clear /\ Off # Error
BY ModesAssumption

(* Idle is no operation: it has no kind. *)
LEMMA IdleIsNone == Idle \notin Operation
BY DEF Idle, Operation

-----------------------------------------------------------------------------
(* What a command does to the motor. *)

LEMMA ObeyTyped ==
  ASSUME MotorOK, NEW c \in Commands, Obey(c)
  PROVE  reg' \in Commands /\ display' \in Displays
<1>1. CASE c = reg
  BY <1>1 DEF MotorOK, Obey, Response
<1>2. CASE c # reg
  <2>1. CASE display = Error
    BY <1>2, <2>1 DEF MotorOK, Obey, Response, Displays
  <2>2. CASE display # Error
    BY <1>2, <2>2, Names DEF MotorOK, Obey, Response, Displays, Commands
  <2> QED
    BY <2>1, <2>2
<1> QED
  BY <1>1, <1>2

(* A command leaves no running motor with a register that holds Off. *)
LEMMA ObeyOnIsCommanded ==
  ASSUME MotorOK, OnIsCommanded, NEW c \in Commands, Obey(c)
  PROVE  OnIsCommanded'
<1>1. CASE c = reg
  BY <1>1 DEF OnIsCommanded, Obey, Response
<1>2. CASE c # reg
  <2>1. CASE display = Error
    BY <1>2, <2>1, Names DEF OnIsCommanded, Obey, Response
  <2>2. CASE display # Error
    BY <1>2, <2>2, Names DEF OnIsCommanded, Obey, Response, Commands
  <2> QED
    BY <2>1, <2>2
<1> QED
  BY <1>1, <1>2

(* Off is a change to a running motor, so it stops it. *)
LEMMA ObeyOff ==
  ASSUME MotorOK, OnIsCommanded, Obey(Off)
  PROVE  display' \notin Modes
<1>1. CASE Off = reg
  BY <1>1 DEF OnIsCommanded, Obey, Response
<1>2. CASE Off # reg
  BY <1>2, Names DEF Obey, Response
<1> QED
  BY <1>1, <1>2

-----------------------------------------------------------------------------
(* Types. *)

(* No step takes a flag out of BOOLEAN. *)
LEMMA FlagsStep == FlagsOK /\ [Next]_vars => FlagsOK'
<1> SUFFICES ASSUME FlagsOK, [Next]_vars PROVE FlagsOK'
  OBVIOUS
<1> USE DEF FlagsOK, motor, entry
<1>1. CASE Environment
  BY <1>1, Zenon DEF Environment, Fault, CauseGone, Reboot, SendTpdo2
<1>2. CASE Background
  BY <1>2, Zenon DEF Background, HandleTpdo2, TelemetryStale, LoseReady, NoticeReboot
<1>3. CASE Call
  BY <1>3, Zenon DEF Call, SetMode, SetTarget, SetLimits, Disable, ClearError, Initialize
<1>4. CASE OperationStep
  <2>1. CASE InitialFeedback
    BY <2>1, Zenon DEF InitialFeedback
  <2>2. CASE ~InitialFeedback
    BY <1>4, <2>2, ZenonT(30)
       DEF OperationStep, WriteObject, WriteRefused, WritesDone, CommandChecked,
           WriteCommand, Confirmed, NotConfirmedMode, FailChecked, DisableAfterFailure,
           PollDisabled, ClearAttempt, Rearm, Pulse, ClearWrite, Cleared, NotCleared
  <2> QED
    BY <2>1, <2>2
<1>5. CASE DropFuture
  BY <1>5, Zenon DEF DropFuture
<1>6. CASE UNCHANGED vars
  BY <1>6, Zenon DEF vars
<1> QED
  BY <1>1, <1>2, <1>3, <1>4, <1>5, <1>6 DEF Next

(* The targets a motor powers up with. *)
LEMMA ZeroTargets ==
  \A m \in Modes : [i \in 1..Width[m] |-> 0] \in Seq(Versions)
                   /\ Len([i \in 1..Width[m] |-> 0]) = Width[m]
BY WidthAssumption DEF Versions

(* The motor keeps its types. *)
LEMMA MotorStep == TypeOK /\ [Next]_vars => MotorOK'
<1> SUFFICES ASSUME TypeOK, [Next]_vars PROVE MotorOK'
  OBVIOUS
<1> USE DEF TypeOK
<1>1. CASE UNCHANGED motor
  BY <1>1 DEF MotorOK, motor
<1>2. CASE Fault \/ CauseGone
  BY <1>2 DEF Fault, CauseGone, MotorOK, Displays
<1>3. CASE Reboot
  BY <1>3, ZeroTargets, BoundsAssumption DEF Reboot, MotorOK, Displays, Commands
<1>4. CASE op # Idle /\ WriteObject
  <2>1. object' \in [Modes -> Seq(Versions)] /\ \A m \in Modes : Len(object'[m]) = Width[m]
    <3>1. CASE UNCHANGED object
      BY <3>1 DEF MotorOK
    <3>2. CASE object' = [object EXCEPT ![op.mode][op.next] = op.value]
      <4>1. op.value \in Versions
        BY <1>4 DEF HostOK, Operation
      <4>2. \A s \in Seq(Versions) : [s EXCEPT ![op.next] = op.value] \in Seq(Versions)
                                     /\ Len([s EXCEPT ![op.next] = op.value]) = Len(s)
        <5> SUFFICES ASSUME NEW s \in Seq(Versions)
                     PROVE  /\ [s EXCEPT ![op.next] = op.value] \in Seq(Versions)
                            /\ Len([s EXCEPT ![op.next] = op.value]) = Len(s)
          OBVIOUS
        <5> DEFINE t == [s EXCEPT ![op.next] = op.value]
        <5>1. s \in [1..Len(s) -> Versions] /\ Len(s) \in Nat
          OBVIOUS
        <5>2. t \in [1..Len(s) -> Versions]
          BY <4>1, <5>1
        <5> HIDE DEF t
        <5>3. t \in Seq(Versions) /\ Len(t) = Len(s)
          BY <5>1, <5>2
        <5> QED
          BY <5>3 DEF t
      <4> QED
        BY <3>2, <4>2 DEF MotorOK
    <3> QED
      BY <1>4, <3>1, <3>2 DEF WriteObject
  <2> QED
    BY <1>4, <2>1 DEF WriteObject, MotorOK
<1>5. CASE op # Idle /\ (WriteCommand \/ DisableAfterFailure \/ Rearm \/ Pulse)
  <2>1. CASE UNCHANGED <<reg, display>>
    BY <1>5, <2>1 DEF WriteCommand, DisableAfterFailure, Rearm, Pulse, ClearWrite, MotorOK
  <2>2. CASE \E c \in Commands : Obey(c)
    BY <1>5, <2>2, ObeyTyped
       DEF WriteCommand, DisableAfterFailure, Rearm, Pulse, ClearWrite, MotorOK
  <2>3. CommandOf(op) \in Commands
    BY <1>5 DEF CommandOf, Commands, HostOK, Operation
  <2> QED
    BY <1>5, <2>1, <2>2, <2>3
       DEF WriteCommand, DisableAfterFailure, Rearm, Pulse, ClearWrite, SafetyCommand, Commands
<1> QED
  BY <1>1, <1>2, <1>3, <1>4, <1>5
     DEF Next, Environment, Background, Call, OperationStep, vars, motor,
         SendTpdo2, HandleTpdo2, TelemetryStale, LoseReady, NoticeReboot,
         SetMode, SetTarget, SetLimits, Disable, ClearError, Initialize,
         WriteRefused, WritesDone, CommandChecked, Confirmed, NotConfirmedMode, FailChecked,
         PollDisabled, InitialFeedback, ClearAttempt, Cleared, NotCleared, DropFuture

(* A call that begins is an operation, and one that ends leaves a result. *)
LEMMA BeginTyped ==
  ASSUME HostOK, FlagsOK, NEW k \in Kinds, NEW m \in Modes \cup {Off}, NEW v \in Versions,
         NEW pc \in Pcs, NEW viaTpdo \in BOOLEAN, Begin(k, m, v, pc, viaTpdo)
  PROVE  op' \in Operation /\ last' \in Results
BY DEF Begin, HostOK, Operation, Results

LEMMA EndTyped ==
  ASSUME op \in Operation, NEW ok \in BOOLEAN, NEW off \in BOOLEAN,
         NEW unconfirmed \in BOOLEAN, End(ok, off, unconfirmed)
  PROVE  op' = Idle /\ last' \in Results
BY DEF End, Operation, Results

LEMMA GotoTyped ==
  ASSUME op \in Operation, NEW pc \in Pcs, Goto(pc)
  PROVE  op' \in Operation
BY DEF Goto, Operation

(* The host and its operation keep their types. *)
LEMMA HostStep == TypeOK /\ KindAtItsPcs /\ [Next]_vars => HostOK'
<1> SUFFICES ASSUME TypeOK, KindAtItsPcs, [Next]_vars PROVE HostOK'
  OBVIOUS
<1> USE DEF TypeOK, HostOK
<1>1. CASE Fault \/ CauseGone
  BY <1>1 DEF Fault, CauseGone, entry
<1>2. CASE Reboot
  <2>1. op # Idle /\ op.kind \in {"mode", "target"} => op.mode \in Modes
    BY DEF KindAtItsPcs
  <2> QED
    BY <1>2, <2>1 DEF Reboot, entry
<1>3. CASE SendTpdo2
  BY <1>3 DEF SendTpdo2, entry, motor, MotorOK
<1>4. CASE HandleTpdo2
  <2>1. Head(tpdo) \in Displays /\ Tail(tpdo) \in Seq(Displays)
    BY <1>4 DEF HandleTpdo2
  <2>2. op' \in {Idle} \cup Operation
    BY <1>4 DEF HandleTpdo2, Operation
  <2> QED
    BY <1>4, <2>1, <2>2 DEF HandleTpdo2
<1>5. CASE TelemetryStale \/ LoseReady \/ NoticeReboot
  BY <1>5 DEF TelemetryStale, LoseReady, NoticeReboot, motor, MotorOK
<1>6. CASE Call
  <2> USE DEF entry, motor, Pcs, Kinds, Drives
  <2>1. CASE SetMode
    BY <2>1, BeginTyped DEF SetMode
  <2>2. CASE SetTarget
    BY <2>2, BeginTyped DEF SetTarget
  <2>3. CASE SetLimits
    BY <2>3, BeginTyped DEF SetLimits, Versions
  <2>4. CASE Disable
    BY <2>4, BeginTyped DEF Disable, Versions, FlagsOK
  <2>5. CASE ClearError
    BY <2>5, BeginTyped DEF ClearError, Versions, FlagsOK
  <2>6. CASE Initialize
    BY <2>6, BeginTyped DEF Initialize, Versions
  <2> QED
    BY <1>6, <2>1, <2>2, <2>3, <2>4, <2>5, <2>6 DEF Call
<1>7. CASE OperationStep
  <2> USE DEF Pcs, entry, motor
  <2>0. op \in Operation
    BY <1>7 DEF OperationStep
  <2>1. CASE WriteObject
    <3>1. op' \in Operation
      BY <2>0, <2>1 DEF WriteObject, Operation
    <3> QED
      BY <2>1, <3>1 DEF WriteObject
  <2>2. CASE WriteRefused \/ CommandChecked
    BY <2>0, <2>2, GotoTyped DEF WriteRefused, CommandChecked
  <2>3. CASE WritesDone
    BY <2>0, <2>3, GotoTyped, EndTyped DEF WritesDone
  <2>4. CASE WriteCommand
    <3>1. op' \in {Idle} \cup Operation /\ last' \in Results
      <4>1. CASE op' = [op EXCEPT !.pc = Confirmation(op), !.fenced = FALSE] /\ UNCHANGED last
        BY <2>0, <4>1 DEF Confirmation, Operation
      <4>2. CASE Goto("fail") /\ UNCHANGED last
        BY <2>0, <4>2, GotoTyped
      <4>3. CASE End(FALSE, FALSE, FALSE)
        BY <2>0, <4>3, EndTyped
      <4> QED
        BY <2>4, <4>1, <4>2, <4>3 DEF WriteCommand
    <3> QED
      BY <2>4, <3>1 DEF WriteCommand
  <2>5. CASE Confirmed \/ NotConfirmedMode
    BY <2>0, <2>5, GotoTyped, EndTyped DEF Confirmed, NotConfirmedMode
  <2>6. CASE FailChecked
    <3>1. op' \in {Idle} \cup Operation /\ last' \in Results
      BY <2>0, <2>6, GotoTyped, EndTyped DEF FailChecked
    <3> QED
      BY <2>0, <2>6, <3>1 DEF FailChecked, TornBy, KindAtItsPcs
  <2>7. CASE DisableAfterFailure
    <3>1. op' = Idle /\ last' \in Results
      <4>1. PICK ok \in BOOLEAN : End(FALSE, ok, FALSE)
        BY <2>7 DEF DisableAfterFailure
      <4> QED
        BY <2>0, <4>1, EndTyped
    <3> QED
      BY <2>0, <2>7, <3>1 DEF DisableAfterFailure, TornBy, KindAtItsPcs
  <2>8. CASE PollDisabled
    <3>1. op' \in {Idle} \cup Operation /\ last' \in Results
      <4>1. CASE op' = [op EXCEPT !.pc = "feedback", !.fenced = FALSE] /\ UNCHANGED last
        BY <2>0, <4>1 DEF Operation
      <4>2. CASE End(TRUE, FALSE, FALSE) \/ End(FALSE, FALSE, FALSE)
        BY <2>0, <4>2, EndTyped
      <4> QED
        BY <2>8, <4>1, <4>2 DEF PollDisabled
    <3> QED
      BY <2>8, <3>1 DEF PollDisabled
  <2>9. CASE InitialFeedback
    <3>1. op' = Idle /\ last' \in Results
      BY <2>0, <2>9, EndTyped DEF InitialFeedback
    <3> QED
      BY <2>9, <3>1 DEF InitialFeedback
  <2>10. CASE ClearAttempt
    <3>1. op' \in {Idle} \cup Operation /\ last' \in Results
      <4>0. op.attempt + 1 \in Nat
        BY <2>0 DEF Operation
      <4>1. CASE /\ UNCHANGED last
                 /\ \E pc \in Pcs, attempt \in Nat :
                      op' = [op EXCEPT !.pc = pc, !.attempt = attempt]
        BY <2>0, <4>1 DEF Operation
      <4>2. CASE End(FALSE, FALSE, FALSE) \/ End(FALSE, FALSE, TRUE)
        BY <2>0, <4>2, EndTyped
      <4> QED
        BY <2>10, <4>0, <4>1, <4>2 DEF ClearAttempt
    <3> QED
      BY <2>10, <3>1 DEF ClearAttempt
  <2>11. CASE Rearm \/ Pulse
    <3>1. op' \in {Idle} \cup Operation /\ last' \in Results
      <4>1. CASE End(FALSE, FALSE, FALSE)
        BY <2>0, <4>1, EndTyped
      <4>2. CASE /\ UNCHANGED last
                 /\ \E then \in Pcs, rises \in Nat :
                      op' = [op EXCEPT !.pc = then, !.fenced = FALSE, !.rises = rises]
        <5>1. PICK then \in Pcs, rises \in Nat :
                op' = [op EXCEPT !.pc = then, !.fenced = FALSE, !.rises = rises]
          BY <4>2
        <5>2. [op EXCEPT !.pc = then, !.fenced = FALSE, !.rises = rises] \in Operation
          BY <2>0 DEF Operation
        <5> QED
          BY <4>2, <5>1, <5>2
      <4>3. op.rises \in Nat /\ op.rises + 1 \in Nat
        BY <2>0 DEF Operation
      <4> QED
        BY <2>11, <4>1, <4>2, <4>3 DEF Rearm, Pulse, ClearWrite
    <3> QED
      BY <2>11, <3>1 DEF Rearm, Pulse, ClearWrite
  <2>12. CASE Cleared \/ NotCleared
    BY <2>0, <2>12, GotoTyped, EndTyped DEF Cleared, NotCleared
  <2> QED
    BY <1>7, <2>1, <2>2, <2>3, <2>4, <2>5, <2>6, <2>7, <2>8, <2>9, <2>10, <2>11, <2>12
       DEF OperationStep
<1>8. CASE DropFuture
  BY <1>8 DEF DropFuture, TornBy, KindAtItsPcs, entry, motor, Results
<1>9. CASE UNCHANGED vars
  BY <1>9 DEF vars, entry
<1> QED
  BY <1>1, <1>2, <1>3, <1>4, <1>5, <1>6, <1>7, <1>8, <1>9 DEF Next, Environment, Background

-----------------------------------------------------------------------------
(* The register, results and the kinds of operation. *)

(* Every write of 0x4401 is one of these commands. *)
LEMMA RegisterStep ==
  ASSUME TypeOK, [Next]_vars
  PROVE  \/ UNCHANGED <<reg, display>>
         \/ display' \in {Off, Error}
         \/ \E c \in Commands : Obey(c)
<1>1. CASE Fault \/ CauseGone \/ Reboot \/ SendTpdo2
  BY <1>1 DEF Fault, CauseGone, Reboot, SendTpdo2, motor
<1>2. CASE Background \/ Call
  BY <1>2 DEF Background, HandleTpdo2, TelemetryStale, LoseReady, NoticeReboot, Call,
              SetMode, SetTarget, SetLimits, Disable, ClearError, Initialize, motor
<1>3. CASE op # Idle /\ (WriteCommand \/ DisableAfterFailure \/ Rearm \/ Pulse)
  <2>1. CommandOf(op) \in Commands
    BY <1>3 DEF CommandOf, Commands, TypeOK, HostOK, Operation
  <2> QED
    BY <1>3, <2>1 DEF WriteCommand, DisableAfterFailure, Rearm, Pulse, ClearWrite,
                      SafetyCommand, Commands
<1>4. CASE OperationStep /\ ~(WriteCommand \/ DisableAfterFailure \/ Rearm \/ Pulse)
  BY <1>4 DEF OperationStep, WriteObject, WriteRefused, WritesDone, CommandChecked,
              Confirmed, NotConfirmedMode, FailChecked, PollDisabled, InitialFeedback,
              ClearAttempt, Cleared, NotCleared, motor
<1>5. CASE DropFuture \/ UNCHANGED vars
  BY <1>5 DEF DropFuture, vars, motor
<1> QED
  BY <1>1, <1>2, <1>3, <1>4, <1>5 DEF Next, Environment, OperationStep

LEMMA CommandedStep == TypeOK /\ OnIsCommanded /\ [Next]_vars => OnIsCommanded'
BY RegisterStep, ObeyOnIsCommanded, Names DEF OnIsCommanded, TypeOK

(* An operation that goes on, ends or is dropped. *)
LEMMA OperationCases ==
  ASSUME TypeOK, ResultAtEnd, [Next]_vars
  PROVE  \/ UNCHANGED <<op, last>>
         \/ last' = NoResult
         \/ op # Idle /\ op' = Idle
            /\ \E ok \in BOOLEAN, off \in BOOLEAN, unconfirmed \in BOOLEAN :
                 End(ok, off, unconfirmed)
<1>1. CASE Environment \/ UNCHANGED vars
  BY <1>1 DEF Environment, Fault, CauseGone, Reboot, SendTpdo2, vars
<1>2. CASE Background
  BY <1>2 DEF Background, HandleTpdo2, TelemetryStale, LoseReady, NoticeReboot, ResultAtEnd
<1>3. CASE Call \/ DropFuture
  BY <1>3 DEF Call, SetMode, SetTarget, SetLimits, Disable, ClearError, Initialize, Begin,
              DropFuture
<1>4. CASE OperationStep
  BY <1>4 DEF OperationStep, WriteObject, WriteRefused, WritesDone, CommandChecked,
              WriteCommand, Confirmed, NotConfirmedMode, FailChecked, DisableAfterFailure,
              PollDisabled, InitialFeedback, ClearAttempt, Rearm, Pulse, ClearWrite, Cleared,
              NotCleared, End, ResultAtEnd
<1> QED
  BY <1>1, <1>2, <1>3, <1>4 DEF Next

LEMMA ResultStep == TypeOK /\ ResultAtEnd /\ [Next]_vars => ResultAtEnd'
BY OperationCases DEF ResultAtEnd, End

(* A failed drive operation with an acknowledged Disable ends with the      *)
(* motor off, and no command reaches it until a call forgets the result.    *)
LEMMA FailedStep ==
  TypeOK /\ OnIsCommanded /\ ResultAtEnd /\ FailedModeIsOff /\ [Next]_vars => FailedModeIsOff'
<1> SUFFICES ASSUME TypeOK, OnIsCommanded, ResultAtEnd, FailedModeIsOff, [Next]_vars,
                    last' # NoResult, last'.kind \in Drives, ~last'.ok, last'.off
             PROVE  display' \notin Modes
  BY DEF FailedModeIsOff
<1>1. CASE DisableAfterFailure
  <2>1. PICK applied \in BOOLEAN, ok \in BOOLEAN :
          /\ ok => applied
          /\ IF applied THEN Obey(Off) ELSE UNCHANGED <<reg, display>>
          /\ End(FALSE, ok, FALSE)
    BY <1>1 DEF DisableAfterFailure, SafetyCommand
  <2>2. ok
    BY <2>1 DEF End
  <2> QED
    BY <2>1, <2>2, ObeyOff DEF TypeOK
<1>2. CASE UNCHANGED <<op, last>> /\ ~OperationStep
  <2>1. display \notin Modes
    BY <1>2 DEF FailedModeIsOff
  <2> QED
    BY <1>2, <2>1, Names
       DEF Next, Environment, Fault, CauseGone, Reboot, SendTpdo2, Background, HandleTpdo2,
           TelemetryStale, LoseReady, NoticeReboot, Call, SetMode, SetTarget, SetLimits,
           Disable, ClearError, Initialize, Begin, DropFuture, vars, motor
<1>3. CASE ~DisableAfterFailure /\ OperationStep
  BY <1>3 DEF OperationStep, WriteObject, WriteRefused, WritesDone, CommandChecked,
              WriteCommand, Confirmed, NotConfirmedMode, FailChecked, PollDisabled,
              InitialFeedback, ClearAttempt, Rearm, Pulse, ClearWrite, Cleared, NotCleared,
              End, ResultAtEnd
<1>4. CASE ~OperationStep /\ ~UNCHANGED <<op, last>>
  BY <1>4 DEF Next, Environment, Fault, CauseGone, Reboot, SendTpdo2, Background, HandleTpdo2,
              TelemetryStale, LoseReady, NoticeReboot, Call, SetMode, SetTarget, SetLimits,
              Disable, ClearError, Initialize, Begin, DropFuture, vars, ResultAtEnd
<1> QED
  BY <1>1, <1>2, <1>3, <1>4

(* An operation that goes on stays the call it was ... *)
Keeps(o) == op' \in Operation /\ op'.kind = o.kind /\ op'.mode = o.mode
            /\ op'.value = o.value /\ op'.boot = o.boot
SameCounts(o) == op'.next = o.next /\ op'.attempt = o.attempt /\ op'.rises = o.rises

(* ... and moves along one of these ways. *)
PlainMove(o) ==
  /\ SameCounts(o)
  /\ \/ o.pc \in {"write", "command"} /\ op'.pc = "fail"
     \/ o.pc = "write" /\ o.next > WriteCount(o) /\ o.kind = "mode" /\ op'.pc = "command"
     \/ o.pc = "command" /\ op'.pc = "gap"
     \/ o.pc = "gap" /\ op'.pc \in {"await", "poll"}
     \/ o.pc \in {"gap", "await"} /\ o.kind = "mode" /\ op'.pc = "fail"
     \/ o.pc = "fail" /\ op'.pc = "off"
     \/ o.pc = "poll" /\ op'.pc = "feedback"
     \/ o.pc \in {"clearing", "await"} /\ o.kind = "init" /\ op'.pc = "gap"
     \/ (o.pc = "clearing" \/ (o.pc = "await" /\ o.kind = "clear")) /\ op'.pc = "trigger"
     \/ o.pc = "rearm" /\ op'.pc = "pulse"

ObjectMove(o) ==
  /\ o.pc = "write" /\ o.next <= WriteCount(o)
  /\ op'.next = o.next + 1 /\ op'.attempt = o.attempt /\ op'.rises = o.rises
  /\ op'.pc = "write"

AttemptMove(o) ==
  /\ o.pc = "trigger"
  /\ op'.next = o.next /\ op'.attempt = o.attempt + 1 /\ op'.rises = o.rises
  /\ op'.pc = IF o.attempt > 0 THEN "rearm" ELSE "pulse"

PulseMove(o) ==
  /\ o.pc = "pulse"
  /\ op'.next = o.next /\ op'.attempt = o.attempt
  /\ op'.rises = IF reg # Clear THEN o.rises + 1 ELSE o.rises
  /\ op'.pc \in {"await", "clearing"}

LEMMA GotoMoves ==
  ASSUME op \in Operation, NEW pc \in Pcs, Goto(pc)
  PROVE  Keeps(op) /\ SameCounts(op) /\ op'.pc = pc
BY DEF Goto, Operation, Keeps, SameCounts

LEMMA OperationMoves ==
  ASSUME TypeOK, OperationStep, op' # Idle
  PROVE  /\ op \in Operation /\ Keeps(op)
         /\ PlainMove(op) \/ ObjectMove(op) \/ AttemptMove(op) \/ PulseMove(op)
<1>0. op \in Operation
  BY DEF OperationStep, TypeOK, HostOK
<1>1. CASE WriteObject
  <2>1. CASE op' = [op EXCEPT !.next = @ + 1]
    BY <1>0, <1>1, <2>1 DEF WriteObject, Operation, Keeps, ObjectMove
  <2>2. CASE op' = [op EXCEPT !.pc = "fail"]
    BY <1>0, <1>1, <2>2, GotoMoves DEF WriteObject, Goto, Pcs, PlainMove
  <2> QED
    BY <1>1, <2>1, <2>2 DEF WriteObject
<1>2. CASE WriteRefused \/ CommandChecked \/ FailChecked
  BY <1>0, <1>2, GotoMoves
     DEF WriteRefused, CommandChecked, FailChecked, End, Pcs, PlainMove
<1>3. CASE WritesDone
  BY <1>0, <1>3, GotoMoves DEF WritesDone, End, Pcs, PlainMove
<1>4. CASE WriteCommand
  <2>1. CASE op' = [op EXCEPT !.pc = Confirmation(op), !.fenced = FALSE]
    <3>1. Confirmation(op) \in {"await", "poll"}
      BY DEF Confirmation
    <3> QED
      BY <1>0, <1>4, <2>1, <3>1 DEF WriteCommand, Operation, Pcs, Keeps, PlainMove, SameCounts
  <2>2. CASE op.kind = "mode" /\ Goto("fail")
    BY <1>0, <1>4, <2>2, GotoMoves DEF WriteCommand, Pcs, PlainMove
  <2> QED
    BY <1>4, <2>1, <2>2 DEF WriteCommand, End
<1>5. CASE Confirmed \/ NotConfirmedMode \/ DisableAfterFailure \/ InitialFeedback
  BY <1>0, <1>5, GotoMoves
     DEF Confirmed, NotConfirmedMode, DisableAfterFailure, InitialFeedback, End, Pcs, PlainMove
<1>6. CASE PollDisabled
  <2>1. op' = [op EXCEPT !.pc = "feedback", !.fenced = FALSE] /\ op.pc = "poll"
    BY <1>6 DEF PollDisabled, End
  <2> QED
    BY <1>0, <2>1 DEF Operation, Pcs, Keeps, PlainMove, SameCounts
<1>7. CASE ClearAttempt
  <2>1. /\ op' = [op EXCEPT !.pc = IF op.attempt > 0 THEN "rearm" ELSE "pulse",
                            !.attempt = @ + 1]
        /\ op.pc = "trigger"
    BY <1>7 DEF ClearAttempt, NeedsRearm, End
  <2>2. PICK pc \in {"rearm", "pulse"} : pc = IF op.attempt > 0 THEN "rearm" ELSE "pulse"
    OBVIOUS
  <2>3. PICK attempt \in Nat : attempt = op.attempt + 1
    BY <1>0 DEF Operation
  <2>4. op' = [op EXCEPT !.pc = pc, !.attempt = attempt]
    BY <2>1, <2>2, <2>3
  <2>5. /\ Keeps(op) /\ op'.pc = pc /\ op'.attempt = attempt
        /\ op'.next = op.next /\ op'.rises = op.rises
    BY <1>0, <2>4 DEF Operation, Pcs, Keeps
  <2> QED
    BY <1>0, <2>1, <2>2, <2>3, <2>5 DEF AttemptMove
<1>8. CASE Rearm
  <2>1. op' = [op EXCEPT !.pc = "pulse", !.fenced = FALSE, !.rises = @] /\ op.pc = "rearm"
    BY <1>8, Names DEF Rearm, ClearWrite, End
  <2> QED
    BY <1>0, <2>1 DEF Operation, Pcs, Keeps, PlainMove, SameCounts
<1>9. CASE Pulse
  <2>1. PICK then \in {"await", "clearing"} :
          /\ op' = [op EXCEPT !.pc = then, !.fenced = FALSE,
                              !.rises = IF reg # Clear THEN @ + 1 ELSE @]
          /\ op.pc = "pulse"
    BY <1>9 DEF Pulse, ClearWrite, End
  <2>2. PICK rises \in Nat : rises = IF reg # Clear THEN op.rises + 1 ELSE op.rises
    BY <1>0 DEF Operation
  <2>3. op' = [op EXCEPT !.pc = then, !.fenced = FALSE, !.rises = rises]
    BY <2>1, <2>2
  <2>4. /\ Keeps(op) /\ op'.pc = then /\ op'.rises = rises
        /\ op'.next = op.next /\ op'.attempt = op.attempt
    BY <1>0, <2>3 DEF Operation, Pcs, Keeps
  <2> QED
    BY <1>0, <2>1, <2>2, <2>4 DEF PulseMove
<1>10. CASE Cleared
  <2>1. op.kind = "init" /\ Goto("gap") /\ op.pc \in {"clearing", "await"}
    BY <1>10 DEF Cleared, End
  <2> QED
    BY <1>0, <2>1, GotoMoves DEF Pcs, PlainMove
<1>11. CASE NotCleared
  <2>1. Goto("trigger") /\ (op.pc = "clearing" \/ (op.pc = "await" /\ op.kind = "clear"))
    BY <1>11 DEF NotCleared, End
  <2> QED
    BY <1>0, <2>1, GotoMoves DEF Pcs, PlainMove
<1> QED
  BY <1>0, <1>1, <1>2, <1>3, <1>4, <1>5, <1>6, <1>7, <1>8, <1>9, <1>10, <1>11
     DEF OperationStep

(* Outside a step of the operation, it stays, ends, begins or is fenced. *)
LEMMA OtherMoves ==
  ASSUME TypeOK, [Next]_vars, ~OperationStep, ~Call, op' # Idle
  PROVE  \/ UNCHANGED op
         \/ op \in Operation /\ Keeps(op) /\ SameCounts(op) /\ op'.pc = op.pc
            /\ op.pc \in {"await", "feedback"} /\ UNCHANGED <<motor, torn>>
<1>0. op = Idle \/ op \in Operation
  BY DEF TypeOK, HostOK
<1>1. CASE HandleTpdo2
  <2>1. CASE op # Idle /\ op.pc \in {"await", "feedback"}
    BY <1>0, <1>1, <2>1 DEF HandleTpdo2, Operation, Keeps, SameCounts
  <2>2. CASE ~(op # Idle /\ op.pc \in {"await", "feedback"})
    BY <1>1, <2>2 DEF HandleTpdo2
  <2> QED
    BY <2>1, <2>2
<1> QED
  BY <1>1 DEF Next, Environment, Fault, CauseGone, Reboot, SendTpdo2, Background,
              TelemetryStale, LoseReady, NoticeReboot, DropFuture, vars

(* A call that has just begun. *)
LEMMA CallMoves ==
  ASSUME Call
  PROVE  /\ op'.next = 1 /\ op'.attempt = 0 /\ op'.rises = 0 /\ op'.boot = session
         /\ op'.kind \in {"mode", "target"} => op'.mode \in Modes
         /\ \/ op'.kind \in Drives /\ op'.pc = "write"
            \/ op'.kind \in {"disable", "init"} /\ op'.pc = "gap"
            \/ op'.kind \in {"clear", "init"} /\ op'.pc = "trigger"
         /\ op = Idle /\ UNCHANGED <<motor, session, torn>>
BY DEF Call, SetMode, SetTarget, SetLimits, Disable, ClearError, Initialize, Begin, Drives,
       entry

LEMMA KindStep == TypeOK /\ KindAtItsPcs /\ [Next]_vars => KindAtItsPcs'
<1> SUFFICES ASSUME TypeOK, KindAtItsPcs, [Next]_vars, op' # Idle PROVE KindAtItsPcs'
  BY DEF KindAtItsPcs
<1> USE DEF KindAtItsPcs
<1>1. CASE Call
  BY <1>1, CallMoves, Zenon DEF Drives
<1>2. CASE OperationStep
  <2>1. op # Idle /\ op'.kind = op.kind /\ op'.mode = op.mode
    BY <1>2, OperationMoves, IdleIsNone DEF Keeps
  <2>2. CASE PlainMove(op)
    BY <1>2, <2>1, <2>2 DEF PlainMove, Drives
  <2>3. CASE ObjectMove(op) \/ AttemptMove(op) \/ PulseMove(op)
    BY <1>2, <2>1, <2>3 DEF ObjectMove, AttemptMove, PulseMove
  <2> QED
    BY <1>2, <2>2, <2>3, OperationMoves
<1>3. CASE ~Call /\ ~OperationStep
  BY <1>3, OtherMoves, IdleIsNone DEF Keeps
<1> QED
  BY <1>1, <1>2, <1>3

LEMMA BootsStep == TypeOK /\ BootsPast /\ [Next]_vars => BootsPast'
<1> SUFFICES ASSUME TypeOK, BootsPast, [Next]_vars PROVE BootsPast'
  OBVIOUS
<1> USE DEF BootsPast
<1>0. /\ boots \in Nat /\ session \in Nat /\ boots' \in {boots, boots + 1}
      /\ session' \in {session, boots}
  <2>1. boots \in Nat /\ session \in Nat
    BY BoundsAssumption DEF TypeOK, MotorOK, HostOK
  <2>2. boots' \in {boots, boots + 1} /\ session' \in {session, boots}
    BY DEF Next, Environment, Fault, CauseGone, Reboot, SendTpdo2, Background, HandleTpdo2,
           TelemetryStale, LoseReady, NoticeReboot, Call, SetMode, SetTarget, SetLimits,
           Disable, ClearError, Initialize, DropFuture, OperationStep, WriteObject,
           WriteRefused, WritesDone, CommandChecked, WriteCommand, Confirmed,
           NotConfirmedMode, FailChecked, DisableAfterFailure, PollDisabled, InitialFeedback,
           ClearAttempt, Rearm, Pulse, ClearWrite, Cleared, NotCleared, vars, motor, entry
  <2> QED
    BY <2>1, <2>2
<1>1. session' <= boots'
  BY <1>0
<1>2. ASSUME op' # Idle PROVE op'.boot <= boots'
  <2>1. CASE Call
    BY <1>0, <2>1, CallMoves DEF motor
  <2>2. CASE ~Call
    <3>1. op # Idle /\ op \in Operation /\ op'.boot = op.boot
      BY <1>2, <2>2, OperationMoves, OtherMoves, IdleIsNone DEF Keeps, TypeOK, HostOK
    <3>2. op.boot \in Nat
      BY <3>1 DEF Operation
    <3> QED
      BY <1>0, <3>1, <3>2
  <2> QED
    BY <2>1, <2>2
<1> QED
  BY <1>1, <1>2

-----------------------------------------------------------------------------
(* The clear attempts. *)

LEMMA EdgesStep ==
  TypeOK /\ KindAtItsPcs /\ EdgesSoFar /\ [Next]_vars => EdgesSoFar'
<1> SUFFICES ASSUME TypeOK, KindAtItsPcs, EdgesSoFar, [Next]_vars, op' # Idle
             PROVE  EdgesSoFar'
  BY DEF EdgesSoFar
<1> USE DEF EdgesSoFar
<1>1. CASE Call
  BY <1>1, CallMoves
<1>2. CASE OperationStep
  <2>1. op # Idle /\ op'.kind = op.kind /\ op.attempt \in Nat /\ op.rises \in Nat
    BY <1>2, OperationMoves, IdleIsNone DEF Keeps, Operation
  <2>2. CASE PlainMove(op) /\ op.pc # "rearm"
    BY <1>2, <2>1, <2>2 DEF PlainMove, SameCounts, KindAtItsPcs
  <2>3. CASE PlainMove(op) /\ op.pc = "rearm"
    <3>1. Rearm
      BY <1>2, <2>3
         DEF OperationStep, WriteObject, WriteRefused, WritesDone, CommandChecked,
             WriteCommand, Confirmed, NotConfirmedMode, FailChecked, DisableAfterFailure,
             PollDisabled, InitialFeedback, ClearAttempt, Pulse, Cleared, NotCleared
    <3>2. reg' # Clear
      BY <3>1, Names DEF Rearm, ClearWrite, Obey, End
    <3> QED
      BY <2>1, <2>3, <3>2 DEF PlainMove, SameCounts
  <2>4. CASE ObjectMove(op)
    BY <2>1, <2>4 DEF ObjectMove
  <2>5. CASE AttemptMove(op)
    BY <2>1, <2>5 DEF AttemptMove
  <2>6. CASE PulseMove(op)
    BY <2>1, <2>6 DEF PulseMove
  <2> QED
    BY <1>2, <2>2, <2>3, <2>4, <2>5, <2>6, OperationMoves
<1>3. CASE ~Call /\ ~OperationStep
  <2>1. UNCHANGED reg \/ reg' = Off
    BY <1>3 DEF Next, Environment, Fault, CauseGone, Reboot, SendTpdo2, Background,
                HandleTpdo2, TelemetryStale, LoseReady, NoticeReboot, DropFuture, vars, motor
  <2> QED
    BY <1>3, <2>1, OtherMoves, IdleIsNone, Names DEF Keeps, SameCounts
<1> QED
  BY <1>1, <1>2, <1>3

LEMMA RetryStep ==
  TypeOK /\ ResultAtEnd /\ EdgesSoFar /\ EveryRetryIsAnEdge /\ [Next]_vars
    => EveryRetryIsAnEdge'
<1> SUFFICES ASSUME TypeOK, ResultAtEnd, EdgesSoFar, EveryRetryIsAnEdge, [Next]_vars,
                    last' # NoResult, last'.unconfirmed, ~UNCHANGED last
             PROVE  last'.rises >= MaxAttempts - 1
  BY DEF EveryRetryIsAnEdge
<1>1. CASE OperationStep /\ ~ClearAttempt
  BY <1>1 DEF OperationStep, WriteObject, WriteRefused, WritesDone, CommandChecked,
              WriteCommand, Confirmed, NotConfirmedMode, FailChecked, DisableAfterFailure,
              PollDisabled, InitialFeedback, Rearm, Pulse, ClearWrite, Cleared, NotCleared, End
<1>2. CASE op # Idle /\ ClearAttempt
  <2>1. op.attempt = MaxAttempts /\ op.pc = "trigger" /\ last'.rises = op.rises
    BY <1>2 DEF ClearAttempt, End
  <2> QED
    BY <1>2, <2>1 DEF EdgesSoFar
<1>3. CASE ~OperationStep
  BY <1>3 DEF Next, Environment, Fault, CauseGone, Reboot, SendTpdo2, Background, HandleTpdo2,
              TelemetryStale, LoseReady, NoticeReboot, Call, SetMode, SetTarget, SetLimits,
              Disable, ClearError, Initialize, Begin, DropFuture, vars
<1> QED
  BY <1>1, <1>2, <1>3 DEF OperationStep

-----------------------------------------------------------------------------
(* The targets. *)

Whole(m) == \A i, j \in 1..Width[m] : object[m][i] = object[m][j]

(* Only WriteObject changes a target, one object of the mode it is for; only *)
(* WritesDone, for that mode, takes a mode from torn.                        *)
LEMMA TargetsChange ==
  ASSUME TypeOK, [Next]_vars, ~Reboot
  PROVE  /\ UNCHANGED boots
         /\ UNCHANGED object \/ (op # Idle /\ WriteObject)
         /\ \/ torn \subseteq torn'
            \/ /\ op # Idle /\ op.pc = "write" /\ op.next > WriteCount(op)
               /\ op.kind \in {"mode", "target"} /\ op.boot = boots
               /\ UNCHANGED object /\ torn' = torn \ {op.mode}
BY DEF Next, Environment, Fault, CauseGone, SendTpdo2, Background, HandleTpdo2,
       TelemetryStale, LoseReady, NoticeReboot, Call, SetMode, SetTarget, SetLimits,
       Disable, ClearError, Initialize, DropFuture, OperationStep, WriteObject,
       WriteRefused, WritesDone, CommandChecked, WriteCommand, Confirmed,
       NotConfirmedMode, FailChecked, DisableAfterFailure, PollDisabled, InitialFeedback,
       ClearAttempt, Rearm, Pulse, ClearWrite, Cleared, NotCleared, vars, motor

(* What WriteObject does to the objects of mode m. *)
LEMMA ObjectChange ==
  ASSUME TypeOK, op \in Operation, WriteObject, NEW m \in Modes
  PROVE  \A i \in 1..Width[m] :
           \/ object'[m][i] = object[m][i]
           \/ Targeting(m) /\ i = op.next /\ object'[m][i] = op.value
<1>1. object[m] \in [1..Width[m] -> Versions]
  BY DEF TypeOK, MotorOK
<1>2. CASE UNCHANGED object
  BY <1>2
<1>3. CASE /\ op.kind \in {"mode", "target"}
           /\ object' = [object EXCEPT ![op.mode][op.next] = op.value]
  <2>1. object \in [Modes -> Seq(Versions)]
    BY DEF TypeOK, MotorOK
  <2>2. CASE op.mode # m
    BY <1>3, <2>1, <2>2
  <2>3. CASE op.mode = m
    <3>1. object'[m] = [object[m] EXCEPT ![op.next] = op.value]
      BY <1>3, <2>1, <2>3
    <3> QED
      BY <1>1, <1>3, <2>3, <3>1, IdleIsNone DEF Targeting
  <2> QED
    BY <2>2, <2>3
<1> QED
  BY <1>2, <1>3 DEF WriteObject

LEMMA PrefixStep ==
  TypeOK /\ KindAtItsPcs /\ BootsPast /\ PrefixWritten /\ [Next]_vars => PrefixWritten'
<1> SUFFICES ASSUME TypeOK, KindAtItsPcs, BootsPast, PrefixWritten, [Next]_vars,
                    NEW m \in Modes, Targeting(m)'
             PROVE  /\ op'.next \in 1..Width[m] + 1
                    /\ op'.pc \notin {"write", "fail", "off"} => op'.next = Width[m] + 1
                    /\ op'.boot = boots' \/ m \notin torn' =>
                         \A i \in 1..op'.next - 1 : object'[m][i] = op'.value
  BY DEF PrefixWritten
<1>0. Width[m] \in Nat \ {0} /\ op' # Idle
  BY WidthAssumption DEF Targeting
<1>1. CASE Call
  BY <1>0, <1>1, CallMoves DEF Targeting
<1>2. ASSUME ~Call PROVE op \in Operation /\ Targeting(m) /\ op'.value = op.value
                         /\ op'.boot = op.boot
  BY <1>0, <1>2, OperationMoves, OtherMoves, IdleIsNone
     DEF Targeting, Keeps, TypeOK, HostOK
<1>3. ASSUME ~Call
      PROVE  /\ op.next \in 1..Width[m] + 1
             /\ op.pc \notin {"write", "fail", "off"} => op.next = Width[m] + 1
             /\ op.boot = boots \/ m \notin torn =>
                  \A i \in 1..op.next - 1 : object[m][i] = op.value
  BY <1>2, <1>3 DEF PrefixWritten
<1>4. CASE Reboot
  <2>1. op' = op /\ m \in torn' /\ boots' = boots + 1
    BY <1>2, <1>4 DEF Reboot, Targeting, Call, SetMode, SetTarget, SetLimits, Disable,
                      ClearError, Initialize, Begin
  <2>2. op.boot <= boots /\ op.boot \in Nat /\ boots \in Nat
    <3>1. op # Idle /\ op \in Operation
      BY <1>0, <2>1 DEF TypeOK, HostOK
    <3> QED
      BY <3>1, BoundsAssumption DEF BootsPast, Operation, TypeOK, MotorOK
  <2>3. ~Call
    BY <2>1, <1>0, CallMoves
  <2> QED
    BY <1>3, <2>1, <2>2, <2>3
<1>5. CASE ~Reboot /\ ~Call
  <2>1. /\ op'.next \in 1..Width[m] + 1
        /\ op'.pc \notin {"write", "fail", "off"} => op'.next = Width[m] + 1
        /\ op'.next # op.next => ObjectMove(op) /\ OperationStep
    <3>0. WriteCount(op) = Width[m]
      BY <1>2, <1>5 DEF Targeting, WriteCount
    <3>1. CASE OperationStep /\ PlainMove(op)
      BY <1>0, <1>3, <1>5, <3>0, <3>1 DEF PlainMove, SameCounts
    <3>2. CASE OperationStep /\ ObjectMove(op)
      BY <1>0, <1>3, <1>5, <3>0, <3>2 DEF ObjectMove
    <3>3. CASE OperationStep /\ (AttemptMove(op) \/ PulseMove(op))
      BY <1>0, <1>3, <1>5, <3>3 DEF AttemptMove, PulseMove
    <3>4. CASE ~OperationStep
      BY <1>0, <1>3, <1>5, <3>4, OtherMoves DEF SameCounts
    <3> QED
      BY <1>0, <3>1, <3>2, <3>3, <3>4, OperationMoves
  <2>2. ASSUME op'.boot = boots' \/ m \notin torn',
               NEW i \in 1..op'.next - 1
        PROVE  object'[m][i] = op'.value
    <3>1. op.boot = boots \/ m \notin torn
      BY <1>2, <1>5, <2>2, TargetsChange
    <3>2. op.next \in Nat /\ op'.next \in Nat /\ i \in 1..Width[m]
      BY <1>0, <1>3, <1>5, <2>1
    <3>3. CASE i < op.next
      <4>1. object[m][i] = op.value
        BY <1>3, <1>5, <3>1, <3>2, <3>3
      <4>2. object'[m][i] = object[m][i] \/ object'[m][i] = op.value
        BY <1>2, <1>5, <3>2, TargetsChange, ObjectChange
      <4> QED
        BY <1>2, <1>5, <4>1, <4>2
    <3>4. CASE ~(i < op.next)
      <4>1. ObjectMove(op) /\ OperationStep /\ i = op.next
        BY <1>0, <2>1, <3>2, <3>4 DEF ObjectMove
      <4>2. WriteObject /\ op'.pc = "write"
        BY <1>0, <1>2, <1>5, <4>1, GotoMoves
           DEF ObjectMove, OperationStep, WriteRefused, WritesDone, CommandChecked,
               WriteCommand, Confirmed, NotConfirmedMode, FailChecked, DisableAfterFailure,
               PollDisabled, InitialFeedback, ClearAttempt, Rearm, Pulse, Cleared, NotCleared,
               End, Pcs
      <4>3. object' = [object EXCEPT ![op.mode][op.next] = op.value]
        <5>1. [op EXCEPT !.pc = "fail"].pc = "fail"
          BY <1>2, <1>5 DEF Operation
        <5> QED
          BY <1>2, <1>5, <4>2, <5>1 DEF WriteObject, Targeting
      <4>4. op.mode = m /\ object \in [Modes -> Seq(Versions)] /\ Len(object[m]) = Width[m]
        BY <1>2, <1>5 DEF Targeting, TypeOK, MotorOK
      <4> QED
        BY <1>2, <1>5, <3>2, <4>1, <4>3, <4>4
    <3> QED
      BY <3>3, <3>4
  <2> QED
    BY <2>1, <2>2
<1> QED
  BY <1>1, <1>4, <1>5

(* A target whose writing is over is whole. *)
LEMMA WrittenIsWhole ==
  ASSUME PrefixWritten, NEW m \in Modes, Targeting(m),
         op.next = Width[m] + 1, op.boot = boots \/ m \notin torn
  PROVE  Whole(m)
<1>1. Width[m] \in Nat
  BY WidthAssumption
<1>2. \A i \in 1..op.next - 1 : object[m][i] = op.value
  BY DEF PrefixWritten
<1> QED
  BY <1>1, <1>2 DEF Whole

(* What an operation leaves behind when it ends, or is dropped. *)
LEMMA EndLeavesWhole ==
  ASSUME TypeOK, KindAtItsPcs, OnIsCommanded, PrefixWritten, [Next]_vars, ~Reboot,
         NEW m \in Modes, Targeting(m), op' = Idle, m \notin torn', display' = m
  PROVE  Whole(m) /\ UNCHANGED object
<1>0. op \in Operation /\ op # Idle /\ WriteCount(op) = Width[m] /\ Width[m] \in Nat
  BY WidthAssumption DEF Targeting, TypeOK, HostOK, WriteCount
<1>1. ~WriteObject
  <2>1. ~(WriteObject /\ op \in Operation /\ op' = Idle)
    <3>1. \A o \in Operation : [o EXCEPT !.next = @ + 1] # Idle /\ [o EXCEPT !.pc = "fail"] # Idle
      BY DEF Operation, Idle
    <3> QED
      BY <3>1 DEF WriteObject
  <2> QED
    BY <1>0, <2>1
<1>2. UNCHANGED object /\ UNCHANGED boots
  BY <1>1, TargetsChange
<1>3. op.next \in 1..Width[m] + 1 /\ (op.pc \notin {"write", "fail", "off"} => op.next = Width[m] + 1)
  BY DEF PrefixWritten
<1>4. CASE torn' = torn \cup TornBy(op)
  <2>1. m \notin torn /\ m \notin TornBy(op)
    BY <1>4
  <2>2. op.next = Width[m] + 1
    BY <1>0, <1>3, <2>1 DEF TornBy, Targeting
  <2> QED
    BY <1>2, <2>1, <2>2, WrittenIsWhole
<1>5. CASE WritesDone
  <2>1. op.next = Width[m] + 1
    BY <1>0, <1>3, <1>5 DEF WritesDone
  <2>2. op.boot = boots \/ m \notin torn
    BY <1>5 DEF WritesDone
  <2> QED
    BY <1>2, <2>1, <2>2, WrittenIsWhole
<1>6. CASE UNCHANGED torn /\ op.pc \notin {"write", "fail", "off"}
  BY <1>2, <1>3, <1>6, WrittenIsWhole
<1>7. CASE DisableAfterFailure
  <2>1. PICK applied \in BOOLEAN, ok \in BOOLEAN :
          /\ ok => applied
          /\ IF applied THEN Obey(Off) ELSE UNCHANGED <<reg, display>>
          /\ torn' = IF ok THEN torn ELSE torn \cup TornBy(op)
    BY <1>7 DEF DisableAfterFailure, SafetyCommand
  <2>2. ~ok
    BY <2>1, ObeyOff DEF TypeOK
  <2> QED
    BY <1>4, <2>1, <2>2
<1>8. CASE DropFuture \/ (FailChecked /\ op' = Idle)
  <2>1. \A pc : op \in Operation => [op EXCEPT !.pc = pc] # Idle
    BY DEF Operation, Idle
  <2> QED
    BY <1>0, <1>4, <1>8, <2>1 DEF DropFuture, FailChecked, Goto
<1>9. CASE OperationStep /\ ~WriteObject /\ ~WritesDone /\ ~DisableAfterFailure /\ ~FailChecked
  <2>1. ~WriteRefused /\ ~CommandChecked
    <3>1. \A o \in Operation, pc \in Pcs : [o EXCEPT !.pc = pc] # Idle
      BY DEF Operation, Idle
    <3> QED
      BY <1>0, <3>1 DEF WriteRefused, CommandChecked, Goto, Pcs
  <2>2. UNCHANGED torn /\ op.pc \notin {"write", "fail", "off"}
    BY <1>9, <2>1
       DEF OperationStep, WriteCommand, Confirmed, NotConfirmedMode, PollDisabled,
           InitialFeedback, ClearAttempt, Rearm, Pulse, ClearWrite, Cleared, NotCleared
  <2> QED
    BY <1>6, <2>2
<1> QED
  <2>1. ~Call /\ ~Environment /\ ~Background /\ ~UNCHANGED vars
    <3>1. \A o \in Operation : [o EXCEPT !.fenced = TRUE] # Idle
      BY DEF Operation, Idle
    <3> QED
      BY <1>0, <3>1
         DEF Call, SetMode, SetTarget, SetLimits, Disable, ClearError, Initialize, Begin,
             Environment, Fault, CauseGone, SendTpdo2, Background, HandleTpdo2,
             TelemetryStale, LoseReady, NoticeReboot, vars
  <2> QED
    BY <1>1, <1>5, <1>7, <1>8, <1>9, <2>1 DEF Next

(* Only the command of a set_mode for m makes the display show m. *)
LEMMA ModeIsCommanded ==
  ASSUME TypeOK, KindAtItsPcs, [Next]_vars, NEW m \in Modes, display' = m
  PROVE  display = m \/ Targeting(m)
<1>1. CASE UNCHANGED display
  BY <1>1
<1>2. CASE op # Idle /\ WriteCommand
  <2>1. CASE op.kind = "mode"
    BY <1>2, <2>1, Names DEF WriteCommand, CommandOf, Obey, Response, Targeting
  <2>2. CASE op.kind # "mode"
    BY <1>2, <2>2, Names DEF WriteCommand, CommandOf, Obey, Response
  <2> QED
    BY <2>1, <2>2
<1>3. CASE op # Idle /\ (DisableAfterFailure \/ Rearm \/ Pulse)
  BY <1>3, Names DEF DisableAfterFailure, SafetyCommand, Rearm, Pulse, ClearWrite, Obey, Response
<1> QED
  BY <1>1, <1>2, <1>3, Names
     DEF Next, Environment, Fault, CauseGone, Reboot, SendTpdo2, Background, HandleTpdo2,
         TelemetryStale, LoseReady, NoticeReboot, Call, SetMode, SetTarget, SetLimits,
         Disable, ClearError, Initialize, DropFuture, OperationStep, WriteObject,
         WriteRefused, WritesDone, CommandChecked, Confirmed, NotConfirmedMode, FailChecked,
         PollDisabled, InitialFeedback, ClearAttempt, Cleared, NotCleared, vars, motor

LEMMA WholeStep ==
  /\ TypeOK /\ KindAtItsPcs /\ OnIsCommanded /\ PrefixWritten /\ WholeUnlessTargeted
  /\ [Next]_vars
  => WholeUnlessTargeted'
<1> SUFFICES ASSUME TypeOK, KindAtItsPcs, OnIsCommanded, PrefixWritten, WholeUnlessTargeted,
                    [Next]_vars, NEW m \in Modes, m \notin torn', display' = m,
                    ~Targeting(m)'
             PROVE  Whole(m)'
  BY DEF WholeUnlessTargeted, Whole
<1>0. ~Reboot
  BY Names DEF Reboot
<1>1. CASE Targeting(m)
  <2>1. op' = Idle
    <3>1. op # Idle /\ op.kind \in {"mode", "target"} /\ op.mode = m
      BY <1>1 DEF Targeting
    <3>2. ~Call
      BY <3>1, CallMoves
    <3>3. op' # Idle => op'.kind = op.kind /\ op'.mode = op.mode
      BY <3>2, OperationMoves, OtherMoves DEF Keeps
    <3> QED
      BY <3>1, <3>3 DEF Targeting
  <2>2. Whole(m) /\ UNCHANGED object
    BY <1>0, <1>1, <2>1, EndLeavesWhole
  <2> QED
    BY <2>2 DEF Whole
<1>2. CASE ~Targeting(m)
  <2>1. display = m
    BY <1>2, ModeIsCommanded
  <2>2. m \notin torn
    BY <1>0, <1>2, TargetsChange DEF Targeting
  <2>3. Whole(m)
    BY <1>2, <2>1, <2>2 DEF WholeUnlessTargeted, Whole
  <2>4. \A i \in 1..Width[m] : object'[m][i] = object[m][i]
    BY <1>0, <1>2, TargetsChange, ObjectChange DEF TypeOK, HostOK
  <2> QED
    BY <2>3, <2>4 DEF Whole
<1> QED
  BY <1>1, <1>2

-----------------------------------------------------------------------------
(* The theorems. *)

LEMMA InitInv == Init => DriveInv
<1> SUFFICES ASSUME Init PROVE DriveInv
  OBVIOUS
<1> USE DEF Init
<1>1. FlagsOK
  BY Zenon DEF FlagsOK
<1>2. MotorOK
  <2>1. boots \in 1..MaxBoots /\ reg \in Commands /\ display \in Displays
    BY BoundsAssumption DEF Commands, Displays
  <2>2. object = [m \in Modes |-> [i \in 1..Width[m] |-> 0]]
    OBVIOUS
  <2> QED
    BY <2>1, <2>2, ZeroTargets DEF MotorOK
<1>3. HostOK
  BY DEF HostOK, Results
<1>4. OnIsCommanded /\ ResultAtEnd /\ KindAtItsPcs /\ EdgesSoFar /\ PrefixWritten
  BY Names DEF OnIsCommanded, ResultAtEnd, KindAtItsPcs, EdgesSoFar, PrefixWritten, Targeting
<1>5. WholeUnlessTargeted /\ BootsPast /\ FailedModeIsOff /\ EveryRetryIsAnEdge
  BY Names DEF WholeUnlessTargeted, BootsPast, FailedModeIsOff, EveryRetryIsAnEdge
<1> QED
  BY <1>1, <1>2, <1>3, <1>4, <1>5 DEF DriveInv, TypeOK

LEMMA NextInv == DriveInv /\ [Next]_vars => DriveInv'
<1> SUFFICES ASSUME DriveInv, [Next]_vars PROVE DriveInv'
  OBVIOUS
<1>1. TypeOK'
  BY FlagsStep, MotorStep, HostStep, Zenon DEF DriveInv, TypeOK
<1>2. OnIsCommanded' /\ ResultAtEnd' /\ KindAtItsPcs' /\ BootsPast'
  BY CommandedStep, ResultStep, KindStep, BootsStep, Zenon DEF DriveInv
<1>3. EdgesSoFar' /\ EveryRetryIsAnEdge' /\ FailedModeIsOff'
  BY EdgesStep, RetryStep, FailedStep, Zenon DEF DriveInv
<1>4. PrefixWritten' /\ WholeUnlessTargeted'
  BY PrefixStep, WholeStep, Zenon DEF DriveInv
<1> QED
  BY <1>1, <1>2, <1>3, <1>4, Zenon DEF DriveInv

(* The invariant holds of every execution, for any modes, number of target  *)
(* objects, clear attempts and power-ups.                                   *)
THEOREM DriveInvariant == Spec => []DriveInv
BY InitInv, NextInv, PTL DEF Spec

(* Every variable of the drive operations keeps its type. *)
THEOREM DriveTypes == Spec => []TypeOK
<1>1. DriveInv => TypeOK
  BY DEF DriveInv
<1> QED
  BY <1>1, DriveInvariant, PTL

(* An error of a drive operation whose Disable was acknowledged leaves the  *)
(* motor off (drive_operation_failed and disable_after_failure).            *)
THEOREM FailedOff == Spec => []FailedModeIsOff
<1>1. DriveInv => FailedModeIsOff
  BY DEF DriveInv
<1> QED
  BY <1>1, DriveInvariant, PTL

(* clear_error gives up only after MaxAttempts - 1 changes of 0x4401.       *)
THEOREM RetriesAreEdges == Spec => []EveryRetryIsAnEdge
<1>1. DriveInv => EveryRetryIsAnEdge
  BY DEF DriveInv
<1> QED
  BY <1>1, DriveInvariant, PTL

(* No motor runs, unattended, with a target made of two calls' objects.     *)
THEOREM TargetsNotMixed == Spec => []NoMixedTargetEnabled
<1>1. DriveInv => NoMixedTargetEnabled
  BY DEF DriveInv, WholeUnlessTargeted, NoMixedTargetEnabled, Targeting
<1> QED
  BY <1>1, DriveInvariant, PTL
=============================================================================
