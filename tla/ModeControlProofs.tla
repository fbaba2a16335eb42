------------------------ MODULE ModeControlProofs ------------------------
(***************************************************************************)
(* What ModeControl guarantees for any modes, sessions and frames under    *)
(* way.  ModeInv strengthens the safety properties until every step        *)
(* preserves it.                                                           *)
(***************************************************************************)
EXTENDS ModeControl, TLAPS

-----------------------------------------------------------------------------
(* Types.  Boolean-valued variables are Zenon's, the rest is SMT's.         *)

(* A comparison is a flag. *)
LEMMA EqualityIsFlag == \A x, y : (x = y) \in BOOLEAN
BY SMT

(* No step takes a flag out of BOOLEAN. *)
LEMMA FlagsStep == FlagsOK /\ [Next]_vars => FlagsOK'
<1> SUFFICES ASSUME FlagsOK, [Next]_vars PROVE FlagsOK'
  OBVIOUS
<1> USE DEF FlagsOK, entryVars, callVars, driveVars, histVars
<1>1. ASSUME NEW call, NEW m, NEW next, NEW writes, CallControl(call, m, next, writes)
      PROVE  FlagsOK'
  BY <1>1, Zenon DEF CallControl, Begin
<1>2. CASE CheckFault \/ CacheMode \/ CheckTarget
  BY <1>2, Zenon DEF CheckFault, CacheMode, CheckTarget, End
<1>3. CASE PreEnable
  <2>1. wounded' \in BOOLEAN
    <3>1. (wounded \/ session = opSession) \in BOOLEAN
      BY SMT
    <3> QED
      BY <1>3, <3>1, Zenon DEF PreEnable, End
  <2> QED
    BY <1>3, <2>1, Zenon DEF PreEnable, End
<1>4. CASE Download
  BY <1>4, Zenon DEF Download
<1>5. CASE ModeConfirmed
  <2>1. (wounded /\ session # opSession) \in BOOLEAN
    BY SMT
  <2> QED
    BY <1>5, <2>1, Zenon DEF ModeConfirmed, End
<1>6. CASE WritesDone \/ FinishInitialize
  BY <1>6, Zenon DEF WritesDone, FinishInitialize, End
<1>7. CASE CallFails
  <2>1. (wounded \/ (op = "set_mode" /\ phase = "write" /\ session = opSession)) \in BOOLEAN
    BY SMT
  <2> QED
    BY <1>7, <2>1, Zenon DEF CallFails, End
<1>8. CASE StartInitialize
  BY <1>8, Zenon DEF StartInitialize, Begin
<1>9. CASE ReceiveTpdo2
  BY <1>9, EqualityIsFlag, Zenon DEF ReceiveTpdo2
<1>10. CASE ReceiveBootUp \/ GoOffline
  BY <1>10, Zenon DEF ReceiveBootUp, GoOffline, Invalidate
<1>11. CASE LeaveOperational \/ Identify
  BY <1>11, Zenon DEF LeaveOperational, Identify
<1>12. CASE Sample
  <2>1. err' \in BOOLEAN
    BY <1>12, SMT DEF Sample
  <2> QED
    BY <1>12, <2>1, Zenon DEF Sample
<1>13. CASE RaiseError \/ LatchFault \/ EmitTpdo2 \/ Reboot
  BY <1>13, Zenon DEF RaiseError, LatchFault, EmitTpdo2, Reboot
<1>14. CASE UNCHANGED vars
  BY <1>14, Zenon DEF vars
<1> QED
  BY <1>1, <1>2, <1>3, <1>4, <1>5, <1>6, <1>7, <1>8, <1>9, <1>10, <1>11, <1>12, <1>13, <1>14
     DEF Next, CallStep, TaskStep, DriveStep, CallSetMode, CallSetTarget, CallDisable,
         CallClearError

(* The sequences consist of writes. *)
LEMMA SequencesOfWrites ==
  /\ <<>> \in Seq(Writes) /\ DisableWrites \in Seq(Writes)
  /\ ClearErrorWrites \in Seq(Writes) /\ FaultEdgeWrites \in Seq(Writes)
  /\ \A m \in Modes : SetModeWrites(m) \in Seq(Writes) /\ SetTargetWrites(m) \in Seq(Writes)
<1>1. \A word \in Words : ControlWord(word) \in Writes
  BY DEF Writes
<1>2. \A m \in Modes : ModeOfOperation(m) \in Writes /\ TargetValue(m) \in Writes
  BY DEF Writes
<1>3. {"Zero", "Shutdown", "SwitchOn", "EnableOperation", "FaultReset"} \subseteq Words
  BY DEF Words
<1> QED
  BY <1>1, <1>2, <1>3
     DEF DisableWrites, ClearErrorWrites, FaultEdgeWrites, SetModeWrites, SetTargetWrites

(* What a write writes. *)
LEMMA WriteIs ==
  ASSUME NEW w \in Writes
  PROVE  /\ w[1] = "0x6040" => w[2] \in Words
         /\ w[1] = "0x6060" => w[2] \in Modes
BY DEF Writes, ControlWord, ModeOfOperation, TargetValue

(* No step takes any other variable out of its type. *)
LEMMA DataStep == TypeOK /\ [Next]_vars => DataOK'
<1> SUFFICES ASSUME DataOK, FlagsOK, [Next]_vars PROVE DataOK'
  BY DEF TypeOK
<1> USE DEF DataOK, entryVars, callVars, driveVars, histVars
<1>1. ASSUME NEW call \in Calls, NEW m \in Modes \cup {None},
             NEW next \in {"check", "write"}, NEW writes \in Seq(Writes),
             call \in {"set_mode", "set_target"} => m \in Modes,
             CallControl(call, m, next, writes)
      PROVE  DataOK'
  BY <1>1 DEF CallControl, Begin
<1>2. CASE CheckFault \/ CheckTarget
  BY <1>2, SequencesOfWrites DEF CheckFault, CheckTarget, End
<1>3. CASE CacheMode
  BY <1>3, SequencesOfWrites DEF CacheMode
<1>4. CASE PreEnable \/ ModeConfirmed \/ WritesDone
  BY <1>4, SequencesOfWrites DEF PreEnable, ModeConfirmed, WritesDone, End
<1>5. CASE Download
  <2>1. Head(todo) \in Writes /\ Tail(todo) \in Seq(Writes)
    BY <1>5 DEF Download
  <2>2. controlword' \in Words /\ devMode' \in Modes \cup {None}
    BY <1>5, <2>1, WriteIs DEF Download
  <2> QED
    BY <1>5, <2>1, <2>2 DEF Download
<1>6. CASE CallFails \/ FinishInitialize
  BY <1>6, SequencesOfWrites DEF CallFails, FinishInitialize, End, Lifecycles
<1>7. CASE StartInitialize
  BY <1>7, SequencesOfWrites DEF StartInitialize, Begin, Calls, Lifecycles, Logics
<1>8. CASE ReceiveTpdo2
  <2>1. tpdos' \in Seq(Frames)
    BY <1>8 DEF ReceiveTpdo2
  <2>2. StatusWordToLogic(Head(tpdos)) \in Logics
    BY DEF StatusWordToLogic, Logics, Enabled, Disabled, Error
  <2> QED
    BY <1>8, <2>1, <2>2 DEF ReceiveTpdo2
<1>9. CASE ReceiveBootUp \/ GoOffline
  BY <1>9 DEF ReceiveBootUp, GoOffline, Invalidate, ForgetMode, Lifecycles, Logics
<1>10. CASE LeaveOperational \/ Identify
  BY <1>10 DEF LeaveOperational, Identify, Lifecycles
<1>11. CASE Sample \/ RaiseError \/ LatchFault \/ Reboot
  BY <1>11 DEF Sample, Sampled, RaiseError, LatchFault, Reboot, DriveStates, Words
<1>12. CASE UNCHANGED vars
  BY <1>12 DEF vars
<1>13. CASE EmitTpdo2
  <2>1. [drive |-> drive, err |-> err] \in Frames
    BY DEF Frames, FlagsOK
  <2> QED
    BY <1>13, <2>1 DEF EmitTpdo2
<1>14. CASE \E m \in Modes : CallSetMode(m) \/ CallSetTarget(m)
  BY <1>1, <1>14, SequencesOfWrites DEF CallSetMode, CallSetTarget, Calls
<1>15. CASE CallDisable \/ CallClearError
  BY <1>1, <1>15, SequencesOfWrites DEF CallDisable, CallClearError, Calls
<1> QED
  BY <1>2, <1>3, <1>4, <1>5, <1>6, <1>7, <1>8, <1>9, <1>10, <1>11, <1>12, <1>13, <1>14, <1>15
     DEF Next, CallStep, TaskStep, DriveStep
(* The initial state is well typed. *)
LEMMA TypeInit == Init => TypeOK
<1>1. Init => FlagsOK
  BY Zenon DEF Init, FlagsOK
<1>2. Init => DataOK
  BY SequencesOfWrites
     DEF Init, DataOK, Lifecycles, Logics, Words, DriveStates
<1> QED
  BY <1>1, <1>2 DEF TypeOK

(* Type correctness of entry, call, drive and frames. *)
THEOREM ModeTypeCorrect == Spec => []TypeOK
<1>1. TypeOK /\ [Next]_vars => TypeOK'
  BY FlagsStep, DataStep DEF TypeOK
<1> QED
  BY <1>1, TypeInit, PTL DEF Spec

-----------------------------------------------------------------------------
(* The ramp.                                                                *)

(* The five writes of set_mode. *)
LEMMA RampWrites ==
  ASSUME NEW m
  PROVE  /\ SetModeWrites(m)[1] = <<"0x6040", "Shutdown">>
         /\ SetModeWrites(m)[2] = <<"0x6060", m>>
         /\ SetModeWrites(m)[3] = <<"0x6040", "Shutdown">>
         /\ SetModeWrites(m)[4] = <<"0x6040", "SwitchOn">>
         /\ SetModeWrites(m)[5] = <<"0x6040", "EnableOperation">>
         /\ Len(SetModeWrites(m)) = 5
BY DEF SetModeWrites, ControlWord, ModeOfOperation

(* The write of which n are left, itself included. *)
LEMMA RampWrite ==
  ASSUME NEW m, NEW n \in 1 .. 5, NEW w, w = SetModeWrites(m)[6 - n]
  PROVE  /\ n \in {1, 2, 3, 5} => w[1] = "0x6040"
         /\ n \in {3, 5} => w[2] = "Shutdown"
         /\ n = 2 => w[2] = "SwitchOn"
         /\ n = 4 => w[1] = "0x6060" /\ w[2] = m
<1>1. CASE n = 1
  BY <1>1, RampWrites
<1>2. CASE n = 2
  BY <1>2, RampWrites
<1>3. CASE n = 3
  BY <1>3, RampWrites
<1>4. CASE n = 4
  BY <1>4, RampWrites
<1>5. CASE n = 5
  BY <1>5, RampWrites
<1> QED
  BY <1>1, <1>2, <1>3, <1>4, <1>5

(* A download of the ramp takes the next of them. *)
LEMMA RampDownload ==
  ASSUME TypeOK, RampInOrder, Ramping, Download
  PROVE  /\ Len(todo) \in 1 .. 5 /\ Len(todo') = Len(todo) - 1
         /\ Head(todo) = SetModeWrites(mode)[6 - Len(todo)]
         /\ RampInOrder'
<1>1. todo # <<>> /\ todo' = Tail(todo) /\ mode' = mode /\ todo \in Seq(Writes)
  BY DEF Download, TypeOK, DataOK
<1>2. /\ Len(todo) \in Nat \ {0} /\ Len(Tail(todo)) = Len(todo) - 1
      /\ Head(todo) = todo[1]
      /\ \A i \in 1 .. Len(todo) - 1 : Tail(todo)[i] = todo[i + 1]
  BY <1>1
<1>3. /\ Len(todo) <= 5
      /\ \A i \in 1 .. Len(todo) : todo[i] = SetModeWrites(mode)[5 - Len(todo) + i]
  BY DEF RampInOrder
<1>4. Head(todo) = SetModeWrites(mode)[6 - Len(todo)]
  <2>1. 1 \in 1 .. Len(todo) /\ 5 - Len(todo) + 1 = 6 - Len(todo)
    BY <1>2
  <2> QED
    BY <1>2, <1>3, <2>1
<1>5. ASSUME NEW i \in 1 .. Len(todo')
      PROVE  todo'[i] = SetModeWrites(mode')[5 - Len(todo') + i]
  <2>1. i + 1 \in 1 .. Len(todo) /\ i \in 1 .. Len(todo) - 1
    BY <1>1, <1>2
  <2>2. 5 - Len(todo) + (i + 1) = 5 - Len(todo') + i
    BY <1>1, <1>2, <2>1
  <2> QED
    BY <1>1, <1>2, <1>3, <2>1, <2>2
<1>6. Len(todo') = Len(todo) - 1 /\ Len(todo) \in 1 .. 5 /\ Len(todo') <= 5
  <2>1. Len(todo') = Len(todo) - 1
    BY <1>1, <1>2
  <2>2. Len(todo) \in Nat \ {0} /\ Len(todo) <= 5
    BY <1>2, <1>3
  <2> QED
    BY <2>1, <2>2
<1>7. RampInOrder'
  BY <1>5, <1>6 DEF RampInOrder
<1> QED
  BY <1>4, <1>6, <1>7

(* ModeInv without the types. *)
RampInv ==
  CallsInOrder /\ RampInOrder /\ RampKeepsMode /\ RampIsOff /\ AgreementOutsideRamp

(* What a call that begins or ends needs of its sequence. *)
LEMMA NoModeWrite ==
  /\ Len(<<>>) = 0
  /\ \A i \in 1 .. Len(DisableWrites) : DisableWrites[i][1] # "0x6060"
  /\ \A i \in 1 .. Len(ClearErrorWrites) : ClearErrorWrites[i][1] # "0x6060"
  /\ \A i \in 1 .. Len(FaultEdgeWrites) : FaultEdgeWrites[i][1] # "0x6060"
  /\ \A m : \A i \in 1 .. Len(SetTargetWrites(m)) : SetTargetWrites(m)[i][1] # "0x6060"
BY DEF DisableWrites, ClearErrorWrites, FaultEdgeWrites, SetTargetWrites, ControlWord,
       TargetValue

(* A download writes the mode only inside a ramp, and the enabling control  *)
(* word only as the last of it.                                             *)
LEMMA DownloadStep == ModeInv /\ Download => RampInv'
<1> SUFFICES ASSUME ModeInv, Download PROVE RampInv'
  OBVIOUS
<1>0. /\ phase = "write" /\ todo # <<>> /\ todo' = Tail(todo)
      /\ controlword' = IF Head(todo)[1] = "0x6040" THEN Head(todo)[2] ELSE controlword
      /\ devMode' = IF Head(todo)[1] = "0x6060" THEN Head(todo)[2] ELSE devMode
      /\ UNCHANGED <<session, logic, targetMode, op, phase, mode, opSession, bootPending,
                     wounded, rejected>>
  BY DEF Download, entryVars
<1>1. todo \in Seq(Writes) /\ op # "none" /\ ~rejected
  BY <1>0 DEF ModeInv, TypeOK, DataOK, CallsInOrder, RampIsOff
<1>2. CASE op = "set_mode"
  <2>1. /\ Len(todo) \in 1 .. 5 /\ Len(todo') = Len(todo) - 1
        /\ Head(todo) = SetModeWrites(mode)[6 - Len(todo)]
        /\ RampInOrder' /\ Ramping
    BY <1>0, <1>2, RampDownload DEF ModeInv, Ramping
  <2> DEFINE w == Head(todo)
  <2>v. /\ Len(todo) \in {1, 2, 3, 5} => w[1] = "0x6040"
        /\ Len(todo) \in {3, 5} => w[2] = "Shutdown"
        /\ Len(todo) = 2 => w[2] = "SwitchOn"
        /\ Len(todo) = 4 => w[1] = "0x6060" /\ w[2] = mode
    <3> DEFINE n == Len(todo)
    <3>1. n \in 1 .. 5 /\ w = SetModeWrites(mode)[6 - n]
      BY <2>1
    <3> HIDE DEF w, n
    <3>2. /\ n \in {1, 2, 3, 5} => w[1] = "0x6040"
          /\ n \in {3, 5} => w[2] = "Shutdown"
          /\ n = 2 => w[2] = "SwitchOn"
          /\ n = 4 => w[1] = "0x6060" /\ w[2] = mode
      BY <3>1, RampWrite
    <3> QED
      BY <3>2 DEF n
  <2>2. /\ Len(todo) = 5 => controlword' = "Shutdown" /\ devMode' = devMode
        /\ Len(todo) = 4 => controlword' = controlword /\ devMode' = mode
        /\ Len(todo) = 3 => controlword' = "Shutdown" /\ devMode' = devMode
        /\ Len(todo) = 2 => controlword' = "SwitchOn" /\ devMode' = devMode
        /\ Len(todo) = 1 => devMode' = devMode
    BY <1>0, <2>v
  <2>3. CallsInOrder'
    BY <1>0, <1>2 DEF ModeInv, CallsInOrder
  <2>4. RampKeepsMode'
    BY <1>0, <2>1, <2>2 DEF ModeInv, RampKeepsMode, Ramping
  <2>5. RampIsOff'
    BY <1>0, <1>1, <2>1, <2>2 DEF ModeInv, RampIsOff, Ramping
  <2>6. AgreementOutsideRamp'
    BY <1>0, <1>2 DEF AgreementOutsideRamp, Ramping
  <2> QED
    BY <2>1, <2>3, <2>4, <2>5, <2>6 DEF RampInv
<1>3. CASE op # "set_mode"
  <2>1. /\ Len(todo) \in Nat \ {0} /\ Len(todo') = Len(todo) - 1 /\ Head(todo) = todo[1]
        /\ \A i \in 1 .. Len(todo') : todo'[i] = todo[i + 1]
    BY <1>0, <1>1
  <2>2. \A i \in 1 .. Len(todo) : todo[i][1] # "0x6060"
    BY <1>3 DEF ModeInv, CallsInOrder
  <2>3. devMode' = devMode
    BY <1>0, <2>1, <2>2
  <2>4. \A i \in 1 .. Len(todo') : todo'[i][1] # "0x6060"
    BY <2>1, <2>2
  <2>5. CallsInOrder'
    BY <1>0, <1>1, <2>4 DEF ModeInv, CallsInOrder
  <2>6. ~Ramping /\ ~Ramping'
    BY <1>0, <1>3 DEF Ramping
  <2> QED
    BY <1>0, <1>1, <2>3, <2>5, <2>6
       DEF ModeInv, RampInv, RampInOrder, RampKeepsMode, RampIsOff, AgreementOutsideRamp
<1> QED
  BY <1>2, <1>3
(* A call begins outside any ramp, with a sequence that writes no mode. *)
LEMMA BeginStep ==
  ASSUME ModeInv, NEW call, NEW m, NEW next \in {"check", "write"}, NEW writes,
         Begin(call, m, next, writes), call # "none",
         call = "set_mode" => next = "check",
         \A i \in 1 .. Len(writes) : writes[i][1] # "0x6060",
         UNCHANGED <<session, controlword, devMode, bootPending>>,
         targetMode' = None \/ UNCHANGED <<targetMode, wounded>>
  PROVE  RampInv'
<1>1. /\ op = "none" /\ op' = call /\ phase' = next /\ todo' = writes
      /\ opSession' = session /\ ~rejected' /\ session \in Nat
  BY DEF Begin, ModeInv, TypeOK, DataOK
<1>2. ~Ramping /\ ~Ramping'
  BY <1>1 DEF Ramping
<1> QED
  BY <1>1, <1>2
     DEF ModeInv, RampInv, CallsInOrder, RampInOrder, RampKeepsMode, RampIsOff,
         AgreementOutsideRamp

(* A call ends: what it leaves agrees, or is remembered as wounded. *)
LEMMA EndStep ==
  ASSUME ModeInv, NEW outcome, End(outcome),
         UNCHANGED <<session, targetMode, controlword, devMode, bootPending>>,
         rejected' => controlword # "EnableOperation",
         targetMode # None /\ ~wounded' => devMode = targetMode \/ bootPending
  PROVE  RampInv'
<1>1. op' = "none" /\ phase' = "idle" /\ todo' = <<>> /\ opSession' = opSession
  BY DEF End
<1>2. ~Ramping'
  BY <1>1 DEF Ramping
<1> QED
  BY <1>1, <1>2, NoModeWrite
     DEF ModeInv, RampInv, CallsInOrder, RampInOrder, RampKeepsMode, RampIsOff,
         AgreementOutsideRamp

(* The entry and the drive may move as long as the call, its mode and the   *)
(* control word stay, and logic does not name a mode that is not cached.    *)
LEMMA OutsideStep ==
  ASSUME ModeInv,
         UNCHANGED <<op, phase, mode, opSession, todo, session, targetMode, wounded, rejected>>,
         devMode' = devMode \/ bootPending',
         bootPending => bootPending',
         controlword' \in {controlword, "Zero"},
         logic' = logic \/ (targetMode = None => logic' # Enabled(mode))
  PROVE  RampInv'
<1>1. Ramping' <=> Ramping
  BY DEF Ramping
<1>2. CallsInOrder' /\ RampInOrder'
  BY <1>1 DEF ModeInv, CallsInOrder, RampInOrder
<1>3. RampKeepsMode'
  BY <1>1 DEF ModeInv, RampKeepsMode
<1>4. RampIsOff' /\ AgreementOutsideRamp'
  BY <1>1 DEF ModeInv, RampIsOff, AgreementOutsideRamp
<1> QED
  BY <1>2, <1>3, <1>4 DEF RampInv

(* A new session: nothing is cached, and a running ramp has outlived its. *)
LEMMA InvalidateStep ==
  ASSUME ModeInv, Invalidate,
         UNCHANGED <<op, phase, mode, opSession, todo, controlword, rejected>>
  PROVE  RampInv'
<1>1. session' = session + 1 /\ session \in Nat /\ opSession <= session /\ opSession \in Nat
  BY DEF Invalidate, ModeInv, TypeOK, DataOK, CallsInOrder
<1>2. targetMode' = None /\ logic' = None /\ (Ramping' <=> Ramping)
  BY DEF Invalidate, ForgetMode, Ramping
<1>3. CallsInOrder' /\ RampInOrder'
  BY <1>1, <1>2 DEF ModeInv, CallsInOrder, RampInOrder
<1>4. RampKeepsMode'
  <2>1. Ramping => logic' # Enabled(mode')
    <3>1. Ramping => mode \in Modes
      BY DEF ModeInv, TypeOK, DataOK, Ramping
    <3> QED
      BY <1>2, <3>1, NoneAssumption DEF Enabled
  <2> QED
    BY <1>1, <1>2, <2>1 DEF RampKeepsMode
<1>5. RampIsOff' /\ AgreementOutsideRamp'
  BY <1>2 DEF ModeInv, RampIsOff, AgreementOutsideRamp
<1> QED
  BY <1>3, <1>4, <1>5 DEF RampInv

(* Every step of the specification preserves the rest of ModeInv. *)
LEMMA RampStep == ModeInv /\ [Next]_vars => RampInv'
<1> SUFFICES ASSUME ModeInv, [Next]_vars PROVE RampInv'
  OBVIOUS
<1> USE DEF entryVars, callVars, driveVars, histVars
<1>0. TypeOK /\ DataOK /\ RampKeepsMode /\ RampIsOff /\ AgreementOutsideRamp
  BY DEF ModeInv, TypeOK
<1>1. ASSUME NEW m \in Modes, CallSetMode(m) \/ CallSetTarget(m) PROVE RampInv'
  <2>1. PICK call \in {"set_mode", "set_target"} : CallControl(call, m, "check", <<>>)
    BY <1>1 DEF CallSetMode, CallSetTarget
  <2> DEFINE none == <<>>
  <2>2. \A i \in 1 .. Len(none) : none[i][1] # "0x6060"
    BY NoModeWrite
  <2>3. /\ Begin(call, m, "check", none)
        /\ UNCHANGED <<session, controlword, devMode, bootPending, targetMode, wounded>>
    BY <2>1 DEF CallControl
  <2> HIDE DEF none
  <2> QED
    BY <2>2, <2>3, BeginStep
<1>2. CASE CallDisable
  BY <1>2, BeginStep, NoModeWrite DEF CallDisable, CallControl
<1>3. CASE CallClearError
  BY <1>3, BeginStep, NoModeWrite DEF CallClearError, CallControl
<1>4. CASE StartInitialize
  BY <1>4, BeginStep, NoModeWrite DEF StartInitialize
<1>5. CASE CheckFault
  <2>1. ~Ramping /\ op # "none"
    BY <1>5 DEF CheckFault, Ramping
  <2>2. CASE End("failed")
    BY <1>0, <1>5, <2>1, <2>2, EndStep DEF CheckFault, RampIsOff, AgreementOutsideRamp
  <2>3. CASE phase' = "cache" /\ UNCHANGED <<op, mode, opSession, todo>>
    <3>1. ~Ramping'
      BY <2>3 DEF Ramping
    <3> QED
      BY <1>5, <2>1, <2>3, <3>1
         DEF CheckFault, ModeInv, RampInv, CallsInOrder, RampInOrder, RampKeepsMode,
             RampIsOff, AgreementOutsideRamp
  <2> QED
    BY <1>5, <2>2, <2>3 DEF CheckFault
<1>6. CASE CacheMode
  <2>1. /\ targetMode' = mode /\ opSession' = session /\ session' = session
        /\ todo' = SetModeWrites(mode) /\ op' = "set_mode" /\ phase' = "write"
        /\ mode' = mode /\ rejected' = rejected /\ op = "set_mode"
    BY <1>6 DEF CacheMode
  <2>2. Len(todo') = 5
    BY <2>1, RampWrites
  <2>3. CallsInOrder' /\ RampInOrder'
    BY <1>0, <2>1, <2>2 DEF CallsInOrder, RampInOrder, DataOK
  <2>4. RampKeepsMode'
    BY <2>1, <2>2 DEF RampKeepsMode
  <2>5. RampIsOff' /\ AgreementOutsideRamp'
    BY <1>0, <2>1, <2>2 DEF RampIsOff, AgreementOutsideRamp, Ramping
  <2> QED
    BY <2>3, <2>4, <2>5 DEF RampInv
<1>7. CASE CheckTarget
  <2>1. ~Ramping /\ op = "set_target"
    BY <1>7 DEF CheckTarget, Ramping
  <2>2. CASE End("failed")
    BY <1>0, <1>7, <2>1, <2>2, EndStep DEF CheckTarget, RampIsOff, AgreementOutsideRamp
  <2>3. CASE todo' = SetTargetWrites(mode) /\ UNCHANGED <<op, mode, opSession>>
    <3>1. ~Ramping'
      BY <2>1, <2>3 DEF Ramping
    <3> QED
      BY <1>7, <2>1, <2>3, <3>1, NoModeWrite
         DEF CheckTarget, ModeInv, RampInv, CallsInOrder, RampInOrder, RampKeepsMode,
             RampIsOff, AgreementOutsideRamp
  <2> QED
    BY <1>7, <2>2, <2>3 DEF CheckTarget
<1>8. CASE PreEnable
  <2>1. Ramping /\ op # "none" /\ Len(todo) = 1
    BY <1>8 DEF PreEnable, GuardDue, Ramping, EnableWrite
  <2>2. CASE End("failed")
    <3>1. wounded' = (wounded \/ session = opSession)
      BY <1>8, <2>1, <2>2 DEF PreEnable, End
    <3> QED
      BY <1>0, <1>8, <2>1, <2>2, <3>1, EndStep DEF PreEnable, RampIsOff, RampKeepsMode
  <2>3. CASE UNCHANGED <<op, phase, mode, opSession, todo, wounded, rejected>>
    BY <1>8, <2>3, OutsideStep DEF PreEnable
  <2> QED
    BY <1>8, <2>2, <2>3 DEF PreEnable
<1>9. CASE Download
  BY <1>9, DownloadStep
<1>10. CASE ModeConfirmed
  <2>1. Ramping /\ op # "none" /\ Len(todo) = 0 /\ logic = Enabled(mode)
    BY <1>10 DEF ModeConfirmed, Ramping
  <2>2. session = opSession /\ targetMode = mode /\ (devMode = mode \/ bootPending)
    BY <1>0, <2>1 DEF RampKeepsMode
  <2> QED
    BY <1>0, <1>10, <2>1, <2>2, EndStep DEF ModeConfirmed, RampIsOff
<1>11. CASE WritesDone
  <2>1. ~Ramping /\ op # "none"
    BY <1>11 DEF WritesDone, Ramping
  <2> QED
    BY <1>0, <1>11, <2>1, EndStep DEF WritesDone, RampIsOff, AgreementOutsideRamp
<1>12. CASE FinishInitialize
  <2>1. ~Ramping /\ op # "none"
    BY <1>12 DEF FinishInitialize, Ramping
  <2> QED
    BY <1>0, <1>12, <2>1, EndStep DEF FinishInitialize, RampIsOff, AgreementOutsideRamp
<1>13. CASE CallFails
  <2>1. wounded' = (wounded \/ (Ramping /\ session = opSession)) /\ op # "none"
    BY <1>13 DEF CallFails, Ramping
  <2> QED
    BY <1>0, <1>13, <2>1, EndStep
       DEF CallFails, RampIsOff, AgreementOutsideRamp, RampKeepsMode
<1>14. CASE ReceiveTpdo2
  <2>1. targetMode = None => logic' # Enabled(mode)
    BY <1>14 DEF ReceiveTpdo2, StatusWordToLogic, Enabled, Disabled, Error
  <2> QED
    BY <1>14, <2>1, OutsideStep DEF ReceiveTpdo2
<1>15. CASE ReceiveBootUp \/ GoOffline
  BY <1>15, InvalidateStep DEF ReceiveBootUp, GoOffline
<1>16. CASE LeaveOperational \/ Identify
  BY <1>16, OutsideStep DEF LeaveOperational, Identify
<1>17. CASE Sample \/ RaiseError \/ LatchFault \/ EmitTpdo2
  BY <1>17, OutsideStep DEF Sample, RaiseError, LatchFault, EmitTpdo2
<1>18. CASE Reboot
  BY <1>18, OutsideStep DEF Reboot
<1>19. CASE UNCHANGED vars
  BY <1>19, OutsideStep DEF vars
<1> QED
  BY <1>1, <1>2, <1>3, <1>4, <1>5, <1>6, <1>7, <1>8, <1>9, <1>10, <1>11, <1>12, <1>13,
     <1>14, <1>15, <1>16, <1>17, <1>18, <1>19 DEF Next, CallStep, TaskStep, DriveStep

-----------------------------------------------------------------------------
(* The results.                                                             *)

(* ModeInv holds in every reachable state. *)
THEOREM ModeInductive == Spec => []ModeInv
<1>1. Init => ModeInv
  <2>1. Init => TypeOK
    BY TypeInit
  <2> QED
    BY <2>1, NoModeWrite
       DEF Init, ModeInv, CallsInOrder, RampInOrder, RampKeepsMode, RampIsOff,
           AgreementOutsideRamp, Ramping
<1>2. ModeInv /\ [Next]_vars => ModeInv'
  BY RampStep, FlagsStep, DataStep DEF ModeInv, RampInv, TypeOK
<1> QED
  BY <1>1, <1>2, PTL DEF Spec

(* Between set_mode calls the cached mode is the one the drive runs in,     *)
(* unless a set_mode of this session failed or the drive just rebooted.     *)
THEOREM ModesAgree == Spec => []ModeAgreement
<1>1. ModeInv => ModeAgreement
  BY DEF ModeInv, ModeAgreement, AgreementOutsideRamp, Ramping
<1> QED
  BY <1>1, ModeInductive, PTL

(* set_mode reports success only in the session in which it cached its mode.*)
THEOREM SuccessInOneSession == Spec => OkInOneSession
<1>1. ASSUME ModeInv, [Next]_vars, op = "set_mode", result' = "ok", result # "ok"
      PROVE  session = opSession
  <2>1. ModeConfirmed
    BY <1>1
       DEF Next, CallStep, TaskStep, DriveStep, CallSetMode, CallSetTarget, CallDisable,
           CallClearError, CallControl, Begin, End, StartInitialize, CheckFault, CacheMode,
           CheckTarget, PreEnable, Download, WritesDone, FinishInitialize, CallFails,
           ReceiveTpdo2, ReceiveBootUp, GoOffline, LeaveOperational, Identify, Sample,
           RaiseError, LatchFault, EmitTpdo2, Reboot, vars, callVars
  <2> QED
    BY <1>1, <2>1 DEF ModeConfirmed, ModeInv, RampKeepsMode, Ramping
<1> QED
  BY <1>1, ModeInductive, PTL DEF Spec, OkInOneSession

(* A drive that is off when the pre-enable guard refuses stays off until    *)
(* another call begins.                                                     *)
THEOREM RefusedStaysOff == Spec => RejectedStaysDisabled
<1>1. ASSUME ModeInv, [Next]_vars, rejected, drive # "OperationEnabled"
      PROVE  drive' # "OperationEnabled"
  <2>1. controlword # "EnableOperation" /\ controlword \in Words /\ drive \in DriveStates
    BY <1>1 DEF ModeInv, RampIsOff, TypeOK, DataOK
  <2>2. CASE Sample
    BY <1>1, <2>1, <2>2 DEF Sample, Sampled, Words
  <2>3. CASE LatchFault \/ Reboot
    BY <2>3 DEF LatchFault, Reboot
  <2>4. CASE ~(Sample \/ LatchFault \/ Reboot)
    BY <1>1, <2>4
       DEF Next, CallStep, TaskStep, DriveStep, CallSetMode, CallSetTarget, CallDisable,
           CallClearError, CallControl, StartInitialize, CheckFault, CacheMode,
           CheckTarget, PreEnable, Download, ModeConfirmed, WritesDone, FinishInitialize,
           CallFails, ReceiveTpdo2, ReceiveBootUp, GoOffline, LeaveOperational, Identify,
           RaiseError, EmitTpdo2, vars, driveVars
  <2> QED
    BY <2>2, <2>3, <2>4
<1> QED
  BY <1>1, ModeInductive, PTL DEF Spec, RejectedStaysDisabled
=============================================================================
