----------------------- MODULE Cia402SessionProofs -----------------------
(***************************************************************************)
(* What Cia402Session guarantees for any devices, attempts and bounds.     *)
(* IInv strengthens the safety invariants until every step preserves it.   *)
(* On top of it: the entry implements the abstract lifecycle of a node;    *)
(* and, when no frame is lost, what it says is true of the device that     *)
(* answers.                                                                *)
(***************************************************************************)
EXTENDS Cia402Session, TLAPS

-----------------------------------------------------------------------------
(* Types.  The flags are Boolean-valued variables, which Zenon handles, and *)
(* the rest needs the arithmetic and sequences of SMT.                      *)

(* A membership is a flag. *)
LEMMA MembershipIsFlag == \A x, S : (x \in S) \in BOOLEAN
BY SMT

(* No step takes a flag of the entry or the device out of BOOLEAN. *)
LEMMA FlagsStep == FlagsOK /\ [Next]_vars => FlagsOK'
<1> SUFFICES ASSUME FlagsOK, [Next]_vars PROVE FlagsOK'
  OBVIOUS
<1> USE DEF FlagsOK, entryVars, fenceVars, hbVars, opVars, deviceVars, histVars
<1>1. CASE DeviceStep
  BY <1>1, Zenon DEF DeviceStep, PowerOn, PowerOff, EmitHeartbeat, DeviceNmtChange,
                     LoseHeartbeat, Boot
<1>2. CASE DiscoveryStep
  <2>1. CASE ReceiveHeartbeat
    <3>1. PICK s \in {Head(hbq)} : ApplyHeartbeat(s)
      BY <2>1, Zenon DEF ReceiveHeartbeat
    <3>2. present' \in BOOLEAN /\ online' \in BOOLEAN
      BY <3>1, Zenon DEF ApplyHeartbeat
    <3>3. nmtMoved' \in BOOLEAN
      <4>1. nmtMoved' = (pc \in FencedPcs /\ (nmtMoved \/ nmtState # s))
        BY <3>1, Zenon DEF ApplyHeartbeat
      <4>2. (pc \in FencedPcs /\ (nmtMoved \/ nmtState # s)) \in BOOLEAN
        BY SMT
      <4> QED
        BY <4>1, <4>2, Zenon
    <3>4. bootMoved' \in BOOLEAN
      <4>1. bootMoved' = (pc \in {"sendReset", "awaitBoot"}) \/ UNCHANGED bootMoved
        BY <3>1, Zenon DEF ApplyHeartbeat
      <4>2. (pc \in {"sendReset", "awaitBoot"}) \in BOOLEAN
        BY MembershipIsFlag, Zenon
      <4> QED
        BY <4>1, <4>2, Zenon
    <3>5. cleanTpdo2' \in BOOLEAN
      BY <3>1, Zenon DEF ApplyHeartbeat, NewDeviceSession
    <3>6. powered' \in BOOLEAN
      BY <2>1, Zenon DEF ReceiveHeartbeat
    <3>7. missed' \in BOOLEAN
      BY <3>1, Zenon DEF ApplyHeartbeat, NewDeviceSession
    <3> QED
      BY <3>2, <3>3, <3>4, <3>5, <3>6, <3>7, Zenon
  <2>2. CASE SpawnIdentify \/ NodeBusy \/ MarkAttempted
    BY <2>2, Zenon DEF SpawnIdentify, NodeBusy, MarkAttempted
  <2> QED
    BY <1>2, <2>1, <2>2 DEF DiscoveryStep
<1>3. CASE GoOffline
  <2>1. nmtMoved' \in BOOLEAN
    BY <1>3, MembershipIsFlag, Zenon DEF GoOffline
  <2>2. online' \in BOOLEAN /\ cleanTpdo2' \in BOOLEAN /\ missed' \in BOOLEAN
    BY <1>3, Zenon DEF GoOffline, NewDeviceSession
  <2>3. UNCHANGED <<present, powered, bootMoved>>
    BY <1>3, Zenon DEF GoOffline
  <2> QED
    BY <2>1, <2>2, <2>3, Zenon
<1>4. CASE TpdoStep
  BY <1>4, Zenon DEF TpdoStep, ReceiveTpdo1, ReceiveTpdo2
<1>5. CASE CallIdentify \/ CallInitialize
  BY <1>5, Zenon DEF CallIdentify, CallInitialize
<1>6. CASE IdentifyStep
  BY <1>6, Zenon DEF IdentifyStep, ReadIdentity, BeginConfigRead, FinishConfigRead,
                     AnnounceIdentified, AutoIdentifyFails, AutoIdentifyDiscarded, Release
<1>7. CASE RunStep
  BY <1>7, ZenonT(30)
     DEF RunStep, StartRun, WaitPreOp, ConfigureTpdo1, ConfigureTpdo2, Disarm, Arm,
         Configure, ReadConstant, StoreConstant, SendStart, WaitOperational, Verify,
         ConfirmTpdo2, Escalate, Commit, Release, OnlyOp
<1>8. CASE ResetStep \/ CallAborts
  BY <1>8, Zenon DEF ResetStep, PrepareReset, SendReset, AwaitBootUp, Boot, CallAborts,
                     Release
<1>9. CASE UNCHANGED vars
  BY <1>9, Zenon DEF vars
<1> QED
  BY <1>1, <1>2, <1>3, <1>4, <1>5, <1>6, <1>7, <1>8, <1>9 DEF Next, OpStep

(* No step takes any other variable out of its type. *)
LEMMA DataStep == DataOK /\ [Next]_vars => DataOK'
<1> SUFFICES ASSUME DataOK, [Next]_vars PROVE DataOK'
  OBVIOUS
<1> USE DEF DataOK, entryVars, fenceVars, hbVars, opVars, deviceVars, histVars
<1>1. CASE DeviceStep
  <2>1. Append(hbq, "BootUp") \in Seq(HbStates) /\ Append(hbq, devNmt) \in Seq(HbStates)
    BY DEF HbStates
  <2>2. hbq # <<>> => Tail(hbq) \in Seq(HbStates)
    OBVIOUS
  <2>3. CASE PowerOn
    <3>1. who' \in Devices /\ devNmt' \in NmtStates /\ configured' = {}
          /\ hbq' = Append(hbq, "BootUp")
      BY <2>3, NmtAssumption DEF PowerOn, Boot
    <3>2. UNCHANGED <<entryVars, fenceVars, hbVars, opVars, histVars>>
      BY <2>3 DEF PowerOn
    <3> QED
      BY <2>1, <3>1, <3>2
  <2>4. CASE PowerOff \/ DeviceNmtChange
    BY <2>4, NmtAssumption DEF PowerOff, DeviceNmtChange
  <2>5. CASE EmitHeartbeat \/ LoseHeartbeat
    BY <2>1, <2>2, <2>5 DEF EmitHeartbeat, LoseHeartbeat
  <2> QED
    BY <1>1, <2>3, <2>4, <2>5 DEF DeviceStep
<1>2. CASE DiscoveryStep
  <2>1. CASE ReceiveHeartbeat
    <3>1. Head(hbq) \in HbStates /\ Tail(hbq) \in Seq(HbStates)
      BY <2>1 DEF ReceiveHeartbeat
    <3> QED
      BY <2>1, <3>1 DEF ReceiveHeartbeat, ApplyHeartbeat, NewDeviceSession, Settled,
                               Lifecycles
  <2>2. CASE SpawnIdentify \/ NodeBusy \/ MarkAttempted
    BY <2>2 DEF SpawnIdentify, NodeBusy, MarkAttempted, IdentifyPcs
  <2> QED
    BY <1>2, <2>1, <2>2 DEF DiscoveryStep
<1>3. CASE GoOffline \/ TpdoStep
  BY <1>3 DEF GoOffline, NewDeviceSession, TpdoStep, ReceiveTpdo1, ReceiveTpdo2, Settled,
              Lifecycles
<1>4. CASE CallIdentify \/ CallInitialize
  BY <1>4 DEF CallIdentify, CallInitialize, IdentifyPcs
<1>5. CASE IdentifyStep
  <2>1. CASE ReadIdentity \/ BeginConfigRead \/ FinishConfigRead
    BY <2>1 DEF ReadIdentity, BeginConfigRead, FinishConfigRead, IdentifyPcs, Settled,
                Lifecycles
  <2>2. CASE AnnounceIdentified \/ AutoIdentifyFails \/ AutoIdentifyDiscarded
    BY <2>2, AttemptsAssumption
       DEF AnnounceIdentified, AutoIdentifyFails, AutoIdentifyDiscarded, Release
  <2> QED
    BY <1>5, <2>1, <2>2 DEF IdentifyStep
<1>6. CASE RunStep
  <2>1. CASE StartRun \/ WaitPreOp
    BY <2>1, NmtAssumption DEF StartRun, ClearCaches, WaitPreOp, OnlyOp, RunPcs, Lifecycles
  <2>2. CASE ConfigureTpdo1 \/ ConfigureTpdo2 \/ Disarm \/ Arm
    <3>1. configured' \subseteq Setup
      BY <2>2 DEF ConfigureTpdo1, ConfigureTpdo2, Disarm, Arm, Configure, Setup
    <3> QED
      BY <2>2, <3>1 DEF ConfigureTpdo1, ConfigureTpdo2, Disarm, Arm, Configure, OnlyOp,
                        RunPcs, FencedPcs
  <2>3. CASE ReadConstant \/ StoreConstant
    BY <2>3 DEF ReadConstant, StoreConstant, OnlyOp, RunPcs
  <2>4. CASE SendStart \/ WaitOperational
    BY <2>4, NmtAssumption, AttemptsAssumption
       DEF SendStart, WaitOperational, OnlyOp, RunPcs, FencedPcs
  <2>5. CASE Verify \/ ConfirmTpdo2
    BY <2>5, AttemptsAssumption
       DEF Verify, Observed, ConfirmTpdo2, NextAttempt, OnlyOp, RunPcs, FencedPcs,
           Observations
  <2>6. CASE Escalate \/ Commit
    BY <2>6, AttemptsAssumption
       DEF Escalate, RolledBack, Commit, Release, ResetPcs, Lifecycles
  <2> QED
    BY <1>6, <2>1, <2>2, <2>3, <2>4, <2>5, <2>6 DEF RunStep
<1>7. CASE ResetStep
  <2>1. Append(hbq, "BootUp") \in Seq(HbStates)
    BY DEF HbStates
  <2>2. CASE PrepareReset
    BY <2>2 DEF PrepareReset, ResetPcs
  <2>3. CASE SendReset
    <3>1. \/ Boot(who)
          \/ UNCHANGED deviceVars
      BY <2>3 DEF SendReset
    <3>2. who' \in Devices /\ devNmt' \in NmtStates /\ configured' \subseteq Setup
          /\ hbq' \in Seq(HbStates)
      BY <2>1, <3>1, NmtAssumption DEF Boot
    <3> QED
      BY <2>3, <3>2 DEF SendReset, ResetPcs
  <2>4. CASE AwaitBootUp
    BY <2>4 DEF AwaitBootUp, IdentifyPcs
  <2> QED
    BY <1>7, <2>2, <2>3, <2>4 DEF ResetStep
<1>8. CASE CallAborts
  BY <1>8, AttemptsAssumption DEF CallAborts, RolledBack, Release, Lifecycles
<1>9. CASE UNCHANGED vars
  BY <1>9 DEF vars
<1> QED
  BY <1>1, <1>2, <1>3, <1>4, <1>5, <1>6, <1>7, <1>8, <1>9 DEF Next, OpStep

(* The initial state is well typed. *)
LEMMA TypeInit == Init => TypeOK
<1>1. Init => FlagsOK
  BY Zenon DEF Init, FlagsOK
<1>2. Init => DataOK
  BY NmtAssumption, AttemptsAssumption
     DEF Init, DataOK, HbStates, Settled, Lifecycles, Setup
<1> QED
  BY <1>1, <1>2 DEF TypeOK

(* Type correctness: every variable of the entry, the calls, the device and *)
(* the bus keeps its type under every step.                                 *)
THEOREM TypeCorrect == Spec => []TypeOK
<1>1. TypeOK /\ [Next]_vars => TypeOK'
  BY FlagsStep, DataStep DEF TypeOK
<1> QED
  BY <1>1, TypeInit, PTL DEF Spec

-----------------------------------------------------------------------------
(* The inductive invariant.                                                 *)

(* The sequence of run_initialize moves the call on; only its start, its    *)
(* escalation and its commit change what the entry says of the session.     *)
LEMMA SequenceStep ==
  ASSUME last # "none" => latest = last,
         \/ WaitPreOp \/ ConfigureTpdo1 \/ ConfigureTpdo2 \/ ReadConstant
         \/ StoreConstant \/ SendStart \/ WaitOperational \/ Disarm \/ Arm
         \/ Verify \/ ConfirmTpdo2
  PROVE  /\ pc \in RunPcs /\ pc' \in RunPcs
         /\ OnlyOp
         /\ last' # "none" => latest' = last'
<1> USE DEF At, RunPcs, FencedPcs
<1>1. CASE WaitPreOp \/ ReadConstant \/ StoreConstant \/ SendStart \/ WaitOperational
  BY <1>1 DEF WaitPreOp, ReadConstant, StoreConstant, SendStart, WaitOperational
<1>2. CASE ConfigureTpdo1 \/ ConfigureTpdo2 \/ Disarm \/ Arm
  BY <1>2 DEF ConfigureTpdo1, ConfigureTpdo2, Disarm, Arm, Configure
<1>3. CASE Verify \/ ConfirmTpdo2
  BY <1>3 DEF Verify, Observed, ConfirmTpdo2, NextAttempt
<1> QED
  BY <1>1, <1>2, <1>3

(* Every step of the specification preserves the inductive invariant. *)
LEMMA InductiveStep == IInv /\ [Next]_vars => IInv'
<1> SUFFICES ASSUME IInv, [Next]_vars PROVE IInv'
  OBVIOUS
<1>t. TypeOK /\ TypeOK'
  BY FlagsStep, DataStep DEF IInv, TypeOK
<1>n. /\ epoch \in Nat /\ opEpoch \in Nat /\ hbEpoch \in Nat /\ autoStarts \in Nat
      /\ got \in Devices \cup {None} /\ who \in Devices
      /\ identity \in Devices \cup {None} /\ lifecycle \in Lifecycles
      /\ op \in {"none", "auto", "identify", "initialize"}
      /\ expected \in Devices \cup {None} /\ resets \in Nat
  BY <1>t DEF TypeOK, DataOK
<1> DEFINE Core ==
      /\ UnknownHasNoIdentity /\ CapturedEpochsPast /\ HolderAtItsPcs /\ ReadIsCached
      /\ StartIsRemembered /\ TargetKept /\ ResetIsEarned
      /\ InitializedIsLive /\ NoOrphanedInitializing /\ ConfigHasIdentity
      /\ AutoIdentifyOncePerSession
<1>c. Core
  BY DEF IInv
<1>q. SUFFICES Core'
  BY <1>t, <1>q DEF IInv
<1> USE <1>n, <1>c
    DEF UnknownHasNoIdentity, CapturedEpochsPast, HolderAtItsPcs, ReadIsCached,
        StartIsRemembered, TargetKept, ResetIsEarned, InitializedIsLive,
        NoOrphanedInitializing, ConfigHasIdentity,
        AutoIdentifyOncePerSession, entryVars, fenceVars, hbVars, opVars, deviceVars,
        histVars
<1>1. CASE DeviceStep
  BY <1>1 DEF DeviceStep, PowerOn, PowerOff, EmitHeartbeat, DeviceNmtChange, LoseHeartbeat
<1>2. CASE ReceiveHeartbeat
  BY <1>2 DEF ReceiveHeartbeat, ApplyHeartbeat, NewDeviceSession
<1>3. CASE SpawnIdentify
  BY <1>3 DEF SpawnIdentify, IdentifyPcs, RunPcs, FencedPcs
<1>4. CASE NodeBusy
  BY <1>4 DEF NodeBusy
<1>5. CASE MarkAttempted
  BY <1>5 DEF MarkAttempted
<1>6. CASE GoOffline
  BY <1>6 DEF GoOffline, NewDeviceSession
<1>7. CASE TpdoStep
  BY <1>7 DEF TpdoStep, ReceiveTpdo1, ReceiveTpdo2
<1>8. CASE CallIdentify
  BY <1>8 DEF CallIdentify, IdentifyPcs, RunPcs, FencedPcs
<1>9. CASE CallInitialize
  BY <1>9 DEF CallInitialize, RunPcs, FencedPcs
<1>10. CASE ReadIdentity
  BY <1>10 DEF ReadIdentity, At, IdentifyPcs, RunPcs, FencedPcs
<1>11. CASE BeginConfigRead
  BY <1>11, DevicesAssumption DEF BeginConfigRead, IdentityAccepted, At, IdentifyPcs, RunPcs, FencedPcs
<1>12. CASE FinishConfigRead
  BY <1>12, DevicesAssumption DEF FinishConfigRead, ConfigAccepted, At, IdentifyPcs, RunPcs, FencedPcs
<1>13. CASE AnnounceIdentified
  BY <1>13 DEF AnnounceIdentified, Release, At, RunPcs, FencedPcs
<1>14. CASE AutoIdentifyFails \/ AutoIdentifyDiscarded
  BY <1>14 DEF AutoIdentifyFails, AutoIdentifyDiscarded, Release
<1>15. CASE StartRun
  BY <1>15 DEF StartRun, At, IdentifyPcs, RunPcs
<1>16. CASE Escalate
  BY <1>16 DEF Escalate, RolledBack, ContextHolds, At, IdentifyPcs
<1>17. CASE Commit
  BY <1>17 DEF Commit, ContextHolds, Release
<1>18. CASE /\ pc \in RunPcs /\ pc' \in RunPcs
            /\ OnlyOp
            /\ last' # "none" => latest' = last'
  BY <1>18 DEF OnlyOp, IdentifyPcs, RunPcs, FencedPcs
<1>19. CASE ResetStep
  BY <1>19 DEF ResetStep, PrepareReset, SendReset, AwaitBootUp, At, IdentifyPcs,
               RunPcs, FencedPcs
<1>20. CASE CallAborts
  BY <1>20 DEF CallAborts, RolledBack, Release
<1>21. CASE UNCHANGED vars
  BY <1>21 DEF vars
<1> QED
  BY <1>1, <1>2, <1>3, <1>4, <1>5, <1>6, <1>7, <1>8, <1>9, <1>10, <1>11, <1>12, <1>13,
     <1>14, <1>15, <1>16, <1>17, <1>18, <1>19, <1>20, <1>21, SequenceStep
     DEF Next, DiscoveryStep, OpStep, IdentifyStep, RunStep

-----------------------------------------------------------------------------
(* The results.                                                             *)

(* IInv holds in every reachable state: its parts are the safety invariants *)
(* below and what they rest on.                                             *)
THEOREM Inductive == Spec => []IInv
<1>1. Init => IInv
  <2>1. Init => TypeOK
    BY TypeInit
  <2> QED
    BY <2>1 DEF Init, IInv, UnknownHasNoIdentity, CapturedEpochsPast, HolderAtItsPcs,
                ReadIsCached, StartIsRemembered, TargetKept, ResetIsEarned, RunPcs,
                FencedPcs, InitializedIsLive, NoOrphanedInitializing, ConfigHasIdentity,
                AutoIdentifyOncePerSession
<1> QED
  BY <1>1, InductiveStep, PTL DEF Spec

(* A controllable entry was last heard Operational, is online and has an    *)
(* identity, in every interleaving of the background tasks with a call.     *)
THEOREM InitializedLive == Spec => []InitializedIsLive
<1>1. IInv => InitializedIsLive
  BY DEF IInv
<1> QED
  BY <1>1, Inductive, PTL

(* The entry is Initializing only while a call of the same session runs.    *)
THEOREM NeverOrphaned == Spec => []NoOrphanedInitializing
<1>1. IInv => NoOrphanedInitializing
  BY DEF IInv
<1> QED
  BY <1>1, Inductive, PTL

(* A settled CAN configuration has an identity of the same session.         *)
THEOREM ConfigIdentified == Spec => []ConfigHasIdentity
<1>1. IInv => ConfigHasIdentity
  BY DEF IInv
<1> QED
  BY <1>1, Inductive, PTL

(* A device session is identified automatically at most once.               *)
THEOREM OneAutoIdentify == Spec => []AutoIdentifyOncePerSession
<1>1. IInv => AutoIdentifyOncePerSession
  BY DEF IInv
<1> QED
  BY <1>1, Inductive, PTL

(* Only a finished identification announces a device. *)
LEMMA AnnouncedBy ==
  ASSUME [Next]_vars, announced' \in Devices, announced' # announced
  PROVE  AnnounceIdentified
<1> USE DEF histVars
<1>1. CASE DeviceStep
  BY <1>1 DEF DeviceStep, PowerOn, PowerOff, EmitHeartbeat, DeviceNmtChange, LoseHeartbeat
<1>2. CASE DiscoveryStep \/ GoOffline
  BY <1>2, DevicesAssumption
     DEF DiscoveryStep, ReceiveHeartbeat, ApplyHeartbeat, NewDeviceSession, SpawnIdentify,
         NodeBusy, MarkAttempted, GoOffline
<1>3. CASE TpdoStep \/ CallIdentify \/ CallInitialize
  BY <1>3 DEF TpdoStep, ReceiveTpdo1, ReceiveTpdo2, CallIdentify, CallInitialize
<1>4. CASE IdentifyStep
  BY <1>4, DevicesAssumption
     DEF IdentifyStep, ReadIdentity, BeginConfigRead, FinishConfigRead,
         AutoIdentifyFails, AutoIdentifyDiscarded
<1>5. CASE RunStep
  BY <1>5 DEF RunStep, StartRun, WaitPreOp, ConfigureTpdo1, ConfigureTpdo2, Disarm, Arm,
              Configure, ReadConstant, StoreConstant, SendStart, WaitOperational, Verify,
              ConfirmTpdo2, Escalate, Commit, OnlyOp
<1>6. CASE ResetStep \/ CallAborts
  BY <1>6 DEF ResetStep, PrepareReset, SendReset, AwaitBootUp, CallAborts
<1> QED
  BY <1>1, <1>2, <1>3, <1>4, <1>5, <1>6 DEF Next, OpStep, vars

(* Identified is announced after the device's CAN configuration settled.    *)
THEOREM IdentifiedSettled == Spec => IdentifiedIsSettled
<1>1. IInv /\ [Next]_vars =>
        [announced' \in Devices /\ announced' # announced =>
           canConfig \in Settled /\ identity = announced']_vars
  <2> SUFFICES ASSUME IInv, Next, announced' \in Devices, announced' # announced
               PROVE  canConfig \in Settled /\ identity = announced'
    OBVIOUS
  <2> QED
    BY AnnouncedBy DEF AnnounceIdentified, ResultPublished, At, IInv, ReadIsCached
<1> QED
  BY <1>1, Inductive, PTL DEF Spec, IdentifiedIsSettled

(* Only a commit makes an entry Initialized. *)
LEMMA InitializedBy ==
  ASSUME [Next]_vars, lifecycle' = "Initialized", lifecycle # "Initialized"
  PROVE  Commit
<1> USE DEF entryVars
<1>1. CASE DeviceStep
  BY <1>1 DEF DeviceStep, PowerOn, PowerOff, EmitHeartbeat, DeviceNmtChange, LoseHeartbeat
<1>2. CASE DiscoveryStep \/ GoOffline
  BY <1>2
     DEF DiscoveryStep, ReceiveHeartbeat, ApplyHeartbeat, NewDeviceSession, SpawnIdentify,
         NodeBusy, MarkAttempted, GoOffline
<1>3. CASE TpdoStep \/ CallIdentify \/ CallInitialize
  BY <1>3 DEF TpdoStep, ReceiveTpdo1, ReceiveTpdo2, CallIdentify, CallInitialize
<1>4. CASE IdentifyStep
  BY <1>4
     DEF IdentifyStep, ReadIdentity, BeginConfigRead, FinishConfigRead,
         AnnounceIdentified, AutoIdentifyFails, AutoIdentifyDiscarded
<1>5. CASE RunStep
  BY <1>5 DEF RunStep, StartRun, WaitPreOp, ConfigureTpdo1, ConfigureTpdo2, Disarm, Arm,
              Configure, ReadConstant, StoreConstant, SendStart, WaitOperational, Verify,
              ConfirmTpdo2, Escalate, RolledBack, OnlyOp
<1>6. CASE ResetStep \/ CallAborts
  BY <1>6 DEF ResetStep, PrepareReset, SendReset, AwaitBootUp, CallAborts, RolledBack
<1> QED
  BY <1>1, <1>2, <1>3, <1>4, <1>5, <1>6 DEF Next, OpStep, vars

(* A call ends in Initialized only for the device it was made for, in the   *)
(* session it ran in, also across a recovery reset.                         *)
THEOREM InitializedAsCalled == Spec => InitializeKeepsDevice
<1>1. IInv /\ [Next]_vars =>
        [lifecycle' = "Initialized" /\ lifecycle # "Initialized" =>
           identity = expected /\ opEpoch = epoch]_vars
  <2> SUFFICES ASSUME IInv, Next, lifecycle' = "Initialized", lifecycle # "Initialized"
               PROVE  identity = expected /\ opEpoch = epoch
    OBVIOUS
  <2> QED
    BY InitializedBy DEF Commit, ContextHolds, At, IInv, TargetKept, RunPcs, FencedPcs
<1> QED
  BY <1>1, Inductive, PTL DEF Spec, InitializeKeepsDevice

(* Only the recovery path counts a reset. *)
LEMMA ResetBy ==
  ASSUME TypeOK, [Next]_vars, resets' > resets
  PROVE  SendReset
<1> USE DEF opVars
<1>0. resets \in Nat /\ resets' # resets
  BY DEF TypeOK, DataOK
<1>1. CASE DeviceStep
  BY <1>0, <1>1 DEF DeviceStep, PowerOn, PowerOff, EmitHeartbeat, DeviceNmtChange,
                    LoseHeartbeat
<1>2. CASE DiscoveryStep \/ GoOffline
  BY <1>0, <1>2 DEF DiscoveryStep, ReceiveHeartbeat, SpawnIdentify, NodeBusy,
                    MarkAttempted, GoOffline
<1>3. CASE TpdoStep \/ CallIdentify \/ CallInitialize
  BY <1>0, <1>3 DEF TpdoStep, ReceiveTpdo1, ReceiveTpdo2, CallIdentify, CallInitialize
<1>4. CASE IdentifyStep
  BY <1>0, <1>4
     DEF IdentifyStep, ReadIdentity, BeginConfigRead, FinishConfigRead,
         AnnounceIdentified, AutoIdentifyFails, AutoIdentifyDiscarded, Release
<1>5. CASE RunStep
  BY <1>0, <1>5
     DEF RunStep, StartRun, WaitPreOp, ConfigureTpdo1, ConfigureTpdo2, Disarm, Arm,
         Configure, ReadConstant, StoreConstant, SendStart, WaitOperational, Verify,
         ConfirmTpdo2, Escalate, Commit, Release, OnlyOp
<1>6. CASE PrepareReset \/ AwaitBootUp \/ CallAborts
  BY <1>0, <1>6 DEF PrepareReset, AwaitBootUp, CallAborts, Release
<1> QED
  BY <1>0, <1>1, <1>2, <1>3, <1>4, <1>5, <1>6 DEF Next, OpStep, ResetStep, vars

(* Reset Communication is sent once per call at most, and only for the      *)
(* sticky heartbeat error seen by the latest verification.                  *)
THEOREM ResetOnlyJustified == Spec => ResetJustified
<1>1. IInv /\ [Next]_vars => [resets' > resets => resets = 0 /\ latest = "sticky"]_vars
  <2> SUFFICES ASSUME IInv, Next, resets' > resets
               PROVE  resets = 0 /\ latest = "sticky"
    OBVIOUS
  <2> QED
    BY ResetBy DEF SendReset, At, IInv, ResetIsEarned
<1> QED
  BY <1>1, Inductive, PTL DEF Spec, ResetJustified
-----------------------------------------------------------------------------
(* The entry implements NodeLifecycle.                                      *)

(* Steps that touch neither the session, the lifecycle and the identity,    *)
(* nor, while Initializing, the identity the run began with, are stutters.  *)
LEMMA LifecycleStutter ==
  ASSUME UNCHANGED <<epoch, lifecycle, identity>>,
         lifecycle = "Initializing" => UNCHANGED runIdentity
  PROVE  UNCHANGED Lifecycle!vars
BY DEF Lifecycle!vars

(* Every step of the entry is a step of the abstract lifecycle or none.     *)
LEMMA LifecycleStep == IInv /\ [Next]_vars => [Lifecycle!Next]_(Lifecycle!vars)
<1> SUFFICES ASSUME IInv, [Next]_vars
             PROVE  Lifecycle!Next \/ UNCHANGED Lifecycle!vars
  OBVIOUS
<1>n. /\ epoch \in Nat /\ identity \in Devices \cup {None} /\ lifecycle \in Lifecycles
      /\ got \in Devices \cup {None} /\ expected \in Devices \cup {None}
      /\ op \in {"none", "auto", "identify", "initialize"}
  BY DEF IInv, TypeOK, DataOK
<1>i. /\ UnknownHasNoIdentity /\ ReadIsCached /\ TargetKept /\ NoOrphanedInitializing
      /\ HolderAtItsPcs
  BY DEF IInv
<1> USE DEF entryVars, opVars
<1>1. CASE DeviceStep
  BY <1>1, LifecycleStutter
     DEF DeviceStep, PowerOn, PowerOff, EmitHeartbeat, DeviceNmtChange, LoseHeartbeat
<1>2. CASE DiscoveryStep
  <2>1. CASE ReceiveHeartbeat
    <3>1. CASE NewDeviceSession
      BY <2>1, <3>1 DEF NewDeviceSession, Lifecycle!Next, Lifecycle!NewSession
    <3>2. CASE ~NewDeviceSession
      <4>1. UNCHANGED <<epoch, identity, runIdentity>>
        BY <2>1, <3>2 DEF ReceiveHeartbeat, ApplyHeartbeat
      <4>2. (lifecycle' = lifecycle) \/ (lifecycle = "Initialized" /\ lifecycle' = "NeedsReinit")
        BY <2>1, <3>2 DEF ReceiveHeartbeat, ApplyHeartbeat
      <4> QED
        BY <4>1, <4>2, LifecycleStutter DEF Lifecycle!Next, Lifecycle!Leave
    <3> QED
      BY <3>1, <3>2
  <2>2. CASE SpawnIdentify \/ NodeBusy \/ MarkAttempted
    BY <2>2, LifecycleStutter DEF SpawnIdentify, NodeBusy, MarkAttempted
  <2> QED
    BY <1>2, <2>1, <2>2 DEF DiscoveryStep
<1>3. CASE GoOffline
  BY <1>3 DEF GoOffline, NewDeviceSession, Lifecycle!Next, Lifecycle!NewSession
<1>4. CASE TpdoStep \/ CallIdentify \/ CallInitialize
  BY <1>4, LifecycleStutter
     DEF TpdoStep, ReceiveTpdo1, ReceiveTpdo2, CallIdentify, CallInitialize
<1>5. CASE BeginConfigRead
  <2>1. pc = "begin" /\ got \in Devices /\ lifecycle # "Initializing"
    BY <1>5, <1>n, <1>i, DevicesAssumption
       DEF BeginConfigRead, At, ReadIsCached, NoOrphanedInitializing, RunPcs, FencedPcs
  <2>2. Lifecycle!Learn(got)
    BY <1>5, <2>1 DEF BeginConfigRead, Lifecycle!Learn
  <2> QED
    BY <2>1, <2>2 DEF Lifecycle!Next
<1>6. CASE ReadIdentity \/ FinishConfigRead
  BY <1>6, LifecycleStutter DEF ReadIdentity, FinishConfigRead
<1>7. CASE AnnounceIdentified \/ AutoIdentifyFails \/ AutoIdentifyDiscarded
  <2>1. lifecycle # "Initializing"
    BY <1>7, <1>i DEF AnnounceIdentified, AutoIdentifyFails, AutoIdentifyDiscarded, At,
                      NoOrphanedInitializing, HolderAtItsPcs, RunPcs, FencedPcs, IdentifyPcs
  <2> QED
    BY <1>7, <2>1, LifecycleStutter
       DEF AnnounceIdentified, AutoIdentifyFails, AutoIdentifyDiscarded
<1>8. CASE StartRun
  BY <1>8, <1>n, <1>i
     DEF StartRun, Lifecycles, UnknownHasNoIdentity, Lifecycle!Next, Lifecycle!Begin
<1>9. CASE Commit
  BY <1>9, <1>i
     DEF Commit, ContextHolds, UnknownHasNoIdentity, Lifecycle!Next, Lifecycle!Finish
<1>10. ASSUME lifecycle = "Initializing", lifecycle' = RolledBack,
              UNCHANGED <<epoch, identity>>
       PROVE  Lifecycle!Next
  <2>1. runIdentity \in Devices /\ identity # None
    BY <1>10, <1>i DEF TargetKept, NoOrphanedInitializing, UnknownHasNoIdentity
  <2> QED
    BY <1>10, <2>1, DevicesAssumption DEF RolledBack, Lifecycle!Next, Lifecycle!Fail
<1>11. CASE Escalate
  BY <1>11, <1>10 DEF Escalate, ContextHolds
<1>12. CASE CallAborts
  BY <1>12, <1>10, <1>i, LifecycleStutter
     DEF CallAborts, RolledBack, NoOrphanedInitializing
<1>13. CASE /\ pc \in RunPcs /\ pc' \in RunPcs
            /\ OnlyOp
            /\ last' # "none" => latest' = last'
  BY <1>13, LifecycleStutter DEF OnlyOp
<1>14. CASE ResetStep
  BY <1>14, LifecycleStutter DEF ResetStep, PrepareReset, SendReset, AwaitBootUp
<1>15. CASE UNCHANGED vars
  BY <1>15, LifecycleStutter DEF vars
<1>16. last # "none" => latest = last
  BY DEF IInv, ResetIsEarned
<1> QED
  BY <1>1, <1>2, <1>3, <1>4, <1>5, <1>6, <1>7, <1>8, <1>9, <1>11, <1>12, <1>13, <1>14,
     <1>15, <1>16, SequenceStep
     DEF Next, OpStep, IdentifyStep, RunStep

(* Cia402Session implements NodeLifecycle: a new session forgets the old    *)
(* one, and a node becomes Initialized only by an attempt that began and    *)
(* ended in one session with one identity, across rollbacks, dropped calls  *)
(* and the recovery reset, and also when frames are lost.                   *)
THEOREM ImplementsAbstract == Spec => ImplementsLifecycle
<1>1. Init => Lifecycle!Init
  BY DEF Init, Lifecycle!Init
<1> QED
  BY <1>1, Inductive, LifecycleStep, PTL DEF Spec, ImplementsLifecycle, Lifecycle!Spec

-----------------------------------------------------------------------------
(* What the entry says of the device, also when frames are lost.            *)

(* A pending restart is over only when a new session begins: its Boot-Up is *)
(* processed, or the silence of the device noticed.                         *)
LEMMA PendingEndsInSession ==
  ASSUME TypeOK, [Next]_vars, RestartPending, ~RestartPending'
  PROVE  (ReceiveHeartbeat \/ GoOffline) /\ NewDeviceSession
<1>t. /\ hbq \in Seq(HbStates) /\ devNmt \in NmtStates
  BY DEF TypeOK, DataOK
<1> USE DEF entryVars, opVars, deviceVars, histVars
<1>1. ASSUME UNCHANGED <<powered, hbq, missed>> PROVE FALSE
  BY <1>1 DEF RestartPending
<1>2. ASSUME hbq' = Append(hbq, "BootUp") PROVE FALSE
  <2>1. Len(hbq') = Len(hbq) + 1 /\ hbq'[Len(hbq) + 1] = "BootUp"
    BY <1>t, <1>2 DEF HbStates
  <2> QED
    BY <1>t, <2>1 DEF RestartPending
<1>3. CASE DeviceStep
  <2>1. CASE PowerOn
    BY <1>2, <2>1 DEF PowerOn, Boot
  <2>2. CASE PowerOff
    BY <2>2 DEF PowerOff, RestartPending
  <2>3. CASE EmitHeartbeat
    <3>1. PICK i \in 1 .. Len(hbq) : hbq[i] = "BootUp"
      BY <2>3 DEF EmitHeartbeat, RestartPending
    <3>2. Len(hbq') = Len(hbq) + 1 /\ hbq'[i] = hbq[i]
      BY <1>t, <2>3, <3>1 DEF EmitHeartbeat, HbStates
    <3> QED
      BY <1>t, <3>1, <3>2 DEF RestartPending
  <2>4. CASE DeviceNmtChange
    BY <1>1, <2>4 DEF DeviceNmtChange
  <2>5. CASE LoseHeartbeat
    <3>1. /\ hbq # <<>> /\ hbq' = Tail(hbq) /\ powered' = powered /\ ~missed
          /\ Head(hbq) # "BootUp"
      BY <2>5 DEF LoseHeartbeat, RestartPending
    <3>2. PICK i \in 1 .. Len(hbq) : hbq[i] = "BootUp"
      BY <3>1 DEF RestartPending
    <3>3. Len(hbq') = Len(hbq) - 1 /\ hbq'[i - 1] = hbq[i] /\ i - 1 \in 1 .. Len(hbq) - 1
      BY <1>t, <3>1, <3>2
    <3> QED
      BY <3>2, <3>3 DEF RestartPending
  <2> QED
    BY <1>3, <2>1, <2>2, <2>3, <2>4, <2>5 DEF DeviceStep
<1>4. CASE ReceiveHeartbeat
  <2>1. powered' = powered /\ hbq # <<>> /\ hbq' = Tail(hbq) /\ ApplyHeartbeat(Head(hbq))
    BY <1>4 DEF ReceiveHeartbeat
  <2>s. SUFFICES ASSUME ~NewDeviceSession PROVE FALSE
    BY <1>4
  <2>m. missed' = missed
    BY <2>1, <2>s DEF ApplyHeartbeat
  <2>2. PICK i \in 1 .. Len(hbq) : hbq[i] = "BootUp"
    BY <2>1, <2>m DEF RestartPending
  <2>3. i = 1
    <3>1. SUFFICES ASSUME i # 1 PROVE FALSE
      OBVIOUS
    <3>2. Len(hbq') = Len(hbq) - 1 /\ hbq'[i - 1] = hbq[i] /\ i - 1 \in 1 .. Len(hbq) - 1
      BY <1>t, <2>1, <2>2, <3>1
    <3> QED
      BY <2>2, <3>2 DEF RestartPending
  <2>4. Head(hbq) = "BootUp"
    BY <1>t, <2>1, <2>2, <2>3
  <2> QED
    BY <2>1, <2>4, <2>s DEF ApplyHeartbeat
<1>5. CASE SpawnIdentify \/ NodeBusy \/ MarkAttempted
  BY <1>1, <1>5 DEF SpawnIdentify, NodeBusy, MarkAttempted
<1>6. CASE TpdoStep \/ CallIdentify \/ CallInitialize
  BY <1>1, <1>6 DEF TpdoStep, ReceiveTpdo1, ReceiveTpdo2, CallIdentify, CallInitialize
<1>7. CASE IdentifyStep
  BY <1>1, <1>7
     DEF IdentifyStep, ReadIdentity, BeginConfigRead, FinishConfigRead,
         AnnounceIdentified, AutoIdentifyFails, AutoIdentifyDiscarded
<1>8. CASE RunStep
  BY <1>1, <1>8
     DEF RunStep, StartRun, WaitPreOp, ConfigureTpdo1, ConfigureTpdo2, Disarm, Arm,
         Configure, ReadConstant, StoreConstant, SendStart, WaitOperational, Verify,
         ConfirmTpdo2, Escalate, Commit, OnlyOp
<1>9. CASE PrepareReset \/ AwaitBootUp \/ CallAborts
  BY <1>1, <1>9 DEF PrepareReset, AwaitBootUp, CallAborts
<1>10. CASE SendReset
  BY <1>1, <1>2, <1>10 DEF SendReset, Boot
<1>11. CASE UNCHANGED vars
  BY <1>1, <1>11 DEF vars
<1>12. CASE GoOffline
  BY <1>12 DEF GoOffline
<1> QED
  BY <1>3, <1>4, <1>5, <1>6, <1>7, <1>8, <1>9, <1>10, <1>11, <1>12
     DEF Next, DiscoveryStep, OpStep, ResetStep

(* While no restart is pending the device stays, and only the run writes to *)
(* its setup.                                                               *)
LEMMA DeviceStays ==
  ASSUME TypeOK, [Next]_vars, ~RestartPending, ~RestartPending'
  PROVE  /\ who' = who
         /\ configured' = configured \/ pc \in RunPcs
<1>t. hbq \in Seq(HbStates)
  BY DEF TypeOK, DataOK
<1>p. powered /\ powered'
  BY DEF RestartPending
<1> USE DEF deviceVars
<1>1. CASE DeviceStep
  BY <1>1, <1>p
     DEF DeviceStep, PowerOn, PowerOff, EmitHeartbeat, DeviceNmtChange, LoseHeartbeat
<1>2. CASE DiscoveryStep \/ GoOffline
  BY <1>2 DEF DiscoveryStep, ReceiveHeartbeat, SpawnIdentify, NodeBusy, MarkAttempted,
              GoOffline
<1>3. CASE TpdoStep \/ CallIdentify \/ CallInitialize
  BY <1>3 DEF TpdoStep, ReceiveTpdo1, ReceiveTpdo2, CallIdentify, CallInitialize
<1>4. CASE IdentifyStep
  BY <1>4
     DEF IdentifyStep, ReadIdentity, BeginConfigRead, FinishConfigRead,
         AnnounceIdentified, AutoIdentifyFails, AutoIdentifyDiscarded
<1>5. CASE RunStep
  BY <1>5
     DEF RunStep, StartRun, WaitPreOp, ConfigureTpdo1, ConfigureTpdo2, Disarm, Arm,
         Configure, ReadConstant, StoreConstant, SendStart, WaitOperational, Verify,
         ConfirmTpdo2, Escalate, Commit, OnlyOp, At, RunPcs, FencedPcs
<1>6. CASE PrepareReset \/ AwaitBootUp \/ CallAborts
  BY <1>6 DEF PrepareReset, AwaitBootUp, CallAborts
<1>7. CASE SendReset
  <2>1. hbq' # Append(hbq, "BootUp")
    <3>1. SUFFICES ASSUME hbq' = Append(hbq, "BootUp") PROVE FALSE
      OBVIOUS
    <3>2. Len(hbq') = Len(hbq) + 1 /\ hbq'[Len(hbq) + 1] = "BootUp"
      BY <1>t, <3>1 DEF HbStates
    <3> QED
      BY <1>t, <3>2 DEF RestartPending
  <2> QED
    BY <1>7, <2>1 DEF SendReset, Boot
<1>8. CASE UNCHANGED vars
  BY <1>8 DEF vars
<1> QED
  BY <1>1, <1>2, <1>3, <1>4, <1>5, <1>6, <1>7, <1>8 DEF Next, OpStep, ResetStep

(* Across a step of a session neither known nor ended: what a new session   *)
(* finds nothing said about.                                                *)
LEMMA FreshSessionKnowsDevice ==
  ASSUME IInv, NewDeviceSession, UNCHANGED opVars
  PROVE  KnowsDevice'
BY DEF IInv, TypeOK, DataOK, CapturedEpochsPast, NewDeviceSession, opVars, KnowsDevice

(* Every step keeps a run and its session together. *)
LEMMA RunStep_KeepsToSession ==
  ASSUME IInv, RunKeepsToSession, [Next]_vars
  PROVE  RunKeepsToSession'
<1>n. /\ epoch \in Nat /\ opEpoch \in Nat /\ opEpoch <= epoch
      /\ op \in {"none", "auto", "identify", "initialize"}
  BY DEF IInv, TypeOK, DataOK, CapturedEpochsPast
<1>h. HolderAtItsPcs
  BY DEF IInv
<1> USE <1>n DEF RunKeepsToSession, entryVars, opVars
<1>1. CASE DeviceStep
  BY <1>1 DEF DeviceStep, PowerOn, PowerOff, EmitHeartbeat, DeviceNmtChange, LoseHeartbeat
<1>2. CASE ReceiveHeartbeat
  BY <1>2 DEF ReceiveHeartbeat, ApplyHeartbeat, NewDeviceSession
<1>3. CASE SpawnIdentify
  BY <1>3 DEF SpawnIdentify, RunPcs, FencedPcs
<1>4. CASE NodeBusy \/ MarkAttempted
  BY <1>4 DEF NodeBusy, MarkAttempted
<1>5. CASE GoOffline
  BY <1>5 DEF GoOffline, NewDeviceSession
<1>6. CASE TpdoStep
  BY <1>6 DEF TpdoStep, ReceiveTpdo1, ReceiveTpdo2
<1>7. CASE CallIdentify \/ CallInitialize
  BY <1>7 DEF CallIdentify, CallInitialize, RevisionSupported, RunPcs, FencedPcs
<1>8. CASE IdentifyStep
  BY <1>8
     DEF IdentifyStep, ReadIdentity, BeginConfigRead, FinishConfigRead, At,
         AnnounceIdentified, AutoIdentifyFails, AutoIdentifyDiscarded, Release,
         RunPcs, FencedPcs
<1>9. CASE StartRun
  BY <1>9 DEF StartRun
<1>10. CASE Escalate \/ Commit \/ CallAborts
  BY <1>10 DEF Escalate, Commit, CallAborts, Release, RunPcs, FencedPcs
<1>11. CASE /\ pc \in RunPcs /\ pc' \in RunPcs
            /\ OnlyOp
            /\ last' # "none" => latest' = last'
  BY <1>11 DEF OnlyOp
<1>12. CASE ResetStep
  BY <1>12 DEF ResetStep, PrepareReset, SendReset, AwaitBootUp, RunPcs, FencedPcs
<1>13. CASE UNCHANGED vars
  BY <1>13 DEF vars
<1>14. last # "none" => latest = last
  BY DEF IInv, ResetIsEarned
<1> QED
  BY <1>1, <1>2, <1>3, <1>4, <1>5, <1>6, <1>7, <1>8, <1>9, <1>10, <1>11, <1>12, <1>13,
     <1>14, SequenceStep
     DEF Next, DiscoveryStep, OpStep, RunStep

(* The run's writes and reads reach the device that is there, in their      *)
(* order.                                                                   *)
LEMMA RunKnowsDevice ==
  ASSUME IInv, RunKeepsToSession, KnowsDevice, ~RestartPending, who' = who,
         \/ WaitPreOp \/ ConfigureTpdo1 \/ ConfigureTpdo2 \/ ReadConstant
         \/ StoreConstant \/ SendStart \/ WaitOperational \/ Disarm \/ Arm
         \/ Verify \/ ConfirmTpdo2
  PROVE  KnowsDevice'
<1>1. /\ pc \in RunPcs /\ pc' \in RunPcs /\ OnlyOp
  BY SequenceStep DEF IInv, ResetIsEarned
<1>2. lifecycle \notin {"Initialized", "NeedsReinit"}
  BY <1>1 DEF RunKeepsToSession
<1>3. UNCHANGED <<epoch, identity, lifecycle, opEpoch>>
  BY <1>1 DEF OnlyOp
<1>4. pc' \notin {"begin", "config", "announce"}
  BY <1>1 DEF RunPcs, FencedPcs
<1>5. opEpoch = epoch /\ pc' = "storeConstant" => got' \in {None, who}
  BY <1>1, DevicesAssumption
     DEF WaitPreOp, ConfigureTpdo1, ConfigureTpdo2, ReadConstant, StoreConstant, SendStart,
         WaitOperational, Disarm, Arm, Configure, Verify, ConfirmTpdo2, NextAttempt
<1>6. lifecycle = "Initializing" => opEpoch = epoch
  BY <1>1 DEF RunKeepsToSession
<1>7. lifecycle = "Initializing" => runtime' \in {None, who}
  BY <1>6
     DEF KnowsDevice, WaitPreOp, ConfigureTpdo1, ConfigureTpdo2, ReadConstant,
         StoreConstant, SendStart, WaitOperational, Disarm, Arm, Configure, Verify,
         ConfirmTpdo2, OnlyOp, At
<1>8. SetupSoFar => SetupSoFar'
  <2> USE DEF SetupSoFar, At, RunPcs, FencedPcs
  <2>1. CASE WaitPreOp \/ ReadConstant \/ StoreConstant \/ SendStart \/ WaitOperational
    BY <2>1 DEF WaitPreOp, ReadConstant, StoreConstant, SendStart, WaitOperational
  <2>2. CASE ConfigureTpdo1 \/ ConfigureTpdo2 \/ Disarm \/ Arm
    BY <2>2 DEF ConfigureTpdo1, ConfigureTpdo2, Disarm, Arm, Configure
  <2>3. CASE Verify \/ ConfirmTpdo2
    BY <2>3 DEF Verify, ConfirmTpdo2, NextAttempt
  <2> QED
    BY <2>1, <2>2, <2>3
<1> QED
  BY <1>2, <1>3, <1>4, <1>5, <1>7, <1>8 DEF KnowsDevice

(* Every step, the loss of a frame included, keeps what is known of the     *)
(* device true.                                                             *)
LEMMA DeviceInvStep ==
  ASSUME IInv, DeviceInv, [Next]_vars
  PROVE  DeviceInv'
<1>t. TypeOK
  BY DEF IInv
<1>r. RunKeepsToSession /\ RunKeepsToSession'
  BY RunStep_KeepsToSession DEF DeviceInv
<1>q. SUFFICES ASSUME ~RestartPending' PROVE KnowsDevice'
  BY <1>r DEF DeviceInv
<1>1. CASE RestartPending
  BY <1>t, <1>q, <1>1, PendingEndsInSession, FreshSessionKnowsDevice
     DEF ReceiveHeartbeat, GoOffline
<1>2. CASE ~RestartPending
  <2>k. KnowsDevice
    BY <1>2 DEF DeviceInv
  <2>w. who' = who /\ (configured' = configured \/ pc \in RunPcs)
    BY <1>t, <1>q, <1>2, DeviceStays
  <2>p. powered
    BY <1>2 DEF RestartPending
  <2>n. /\ epoch \in Nat /\ opEpoch \in Nat
        /\ identity \in Devices \cup {None} /\ got \in Devices \cup {None}
        /\ lifecycle \in Lifecycles /\ configured \subseteq Setup
        /\ op \in {"none", "auto", "identify", "initialize"}
    BY <1>t DEF TypeOK, DataOK
  <2>i. /\ UnknownHasNoIdentity /\ NoOrphanedInitializing /\ TargetKept
    BY DEF IInv
  <2> USE <2>k, <2>w DEF entryVars, opVars
  <2>1. ASSUME UNCHANGED <<entryVars, configured>>, pc' \notin RunPcs \cup IdentifyPcs
        PROVE  KnowsDevice'
    BY <2>1 DEF KnowsDevice, SetupSoFar, IdentifyPcs, RunPcs, FencedPcs
  <2>2. CASE DeviceStep
    <3>1. CASE PowerOn \/ PowerOff
      BY <1>q, <2>p, <3>1 DEF PowerOn, PowerOff, RestartPending
    <3>2. CASE EmitHeartbeat \/ DeviceNmtChange \/ LoseHeartbeat
      <4>1. UNCHANGED <<entryVars, opVars, who, configured>>
        BY <3>2 DEF EmitHeartbeat, DeviceNmtChange, LoseHeartbeat, deviceVars
      <4> QED
        BY <4>1 DEF KnowsDevice, SetupSoFar
    <3> QED
      BY <2>2, <3>1, <3>2 DEF DeviceStep
  <2>3. CASE ReceiveHeartbeat
    <3>1. CASE NewDeviceSession
      BY <2>3, <3>1, FreshSessionKnowsDevice DEF ReceiveHeartbeat
    <3>2. CASE ~NewDeviceSession
      BY <2>3, <3>2 DEF ReceiveHeartbeat, ApplyHeartbeat, KnowsDevice, SetupSoFar
    <3> QED
      BY <3>1, <3>2
  <2>4. CASE SpawnIdentify
    BY <2>4 DEF SpawnIdentify, KnowsDevice, SetupSoFar, RunPcs, FencedPcs, deviceVars
  <2>5. CASE NodeBusy \/ MarkAttempted
    BY <2>5 DEF NodeBusy, MarkAttempted, KnowsDevice, SetupSoFar, deviceVars
  <2>6. CASE GoOffline
    BY <2>6, FreshSessionKnowsDevice DEF GoOffline
  <2>7. CASE TpdoStep
    BY <2>7 DEF TpdoStep, ReceiveTpdo1, ReceiveTpdo2, KnowsDevice, SetupSoFar, deviceVars
  <2>8. CASE CallIdentify \/ CallInitialize
    BY <2>8 DEF CallIdentify, CallInitialize, KnowsDevice, SetupSoFar, deviceVars, RunPcs,
                FencedPcs
  <2>9. CASE ReadIdentity
    BY <2>9 DEF ReadIdentity, KnowsDevice, SetupSoFar, deviceVars, RunPcs, FencedPcs
  <2>10. CASE BeginConfigRead
    <3>1. got = who /\ opEpoch = epoch /\ pc = "begin"
      BY <2>10 DEF BeginConfigRead, IdentityAccepted, At, KnowsDevice
    <3>2. lifecycle # "Unknown" => identity = who
      BY <2>i, <2>n DEF UnknownHasNoIdentity, KnowsDevice
    <3> QED
      BY <2>10, <3>1, <3>2
         DEF BeginConfigRead, KnowsDevice, SetupSoFar, deviceVars, RunPcs, FencedPcs
  <2>11. CASE FinishConfigRead
    BY <2>11 DEF FinishConfigRead, At, KnowsDevice, SetupSoFar, deviceVars, RunPcs, FencedPcs
  <2>12. CASE AnnounceIdentified \/ AutoIdentifyFails \/ AutoIdentifyDiscarded
    BY <2>1, <2>12
       DEF AnnounceIdentified, AutoIdentifyFails, AutoIdentifyDiscarded, Release, deviceVars,
           IdentifyPcs, RunPcs, FencedPcs
  <2>13. CASE StartRun
    <3>1. identity \in Supported
      BY <1>r, <2>13, <2>i, <2>n DEF StartRun, At, HolderAtItsPcs, TargetKept, IInv, IdentifyPcs,
                               RunKeepsToSession
    <3> QED
      BY <2>13, <3>1 DEF StartRun, ClearCaches, KnowsDevice, SetupSoFar
  <2>14. CASE Escalate
    BY <2>14 DEF Escalate, RolledBack, KnowsDevice, SetupSoFar, deviceVars, RunPcs, FencedPcs
  <2>15. CASE Commit
    <3>1. lifecycle = "Initializing" /\ opEpoch = epoch /\ pc = "commit"
      BY <2>15 DEF Commit, ContextHolds, At
    <3>2. configured = Setup
      BY <2>n, <3>1 DEF KnowsDevice, SetupSoFar, RunPcs, FencedPcs, Setup
    <3> QED
      BY <2>15, <3>1, <3>2
         DEF Commit, Release, KnowsDevice, SetupSoFar, deviceVars, RunPcs, FencedPcs
  <2>16. CASE CallAborts
    BY <2>16
       DEF CallAborts, RolledBack, Release, KnowsDevice, SetupSoFar, deviceVars, RunPcs,
           FencedPcs
  <2>17. CASE \/ WaitPreOp \/ ConfigureTpdo1 \/ ConfigureTpdo2 \/ ReadConstant
              \/ StoreConstant \/ SendStart \/ WaitOperational \/ Disarm \/ Arm
              \/ Verify \/ ConfirmTpdo2
    BY <1>r, <1>2, <2>17, RunKnowsDevice
  <2>18. CASE ResetStep
    BY <1>r, <2>18 DEF ResetStep, PrepareReset, SendReset, AwaitBootUp, At, KnowsDevice, SetupSoFar,
                 RunPcs, FencedPcs
  <2>19. CASE UNCHANGED vars
    BY <2>19 DEF vars, KnowsDevice, SetupSoFar, deviceVars
  <2> QED
    BY <2>2, <2>3, <2>4, <2>5, <2>6, <2>7, <2>8, <2>9, <2>10, <2>11, <2>12, <2>13, <2>14,
       <2>15, <2>16, <2>17, <2>18, <2>19
       DEF Next, DiscoveryStep, OpStep, IdentifyStep, RunStep
<1> QED
  BY <1>1, <1>2

(* Until a restart that discovery has yet to hear of, or never will because *)
(* the Boot-Up was lost, the entry and the running call hold what belongs   *)
(* to the device that answers; the next session mends what a loss spoilt.   *)
THEOREM DeviceKnown == Spec => []DeviceInv
<1>1. Init => DeviceInv
  BY DEF Init, DeviceInv, RunKeepsToSession, RestartPending, RunPcs, FencedPcs
<1>2. IInv /\ DeviceInv /\ [Next]_vars => DeviceInv'
  BY DeviceInvStep
<1> QED
  BY <1>1, <1>2, Inductive, PTL DEF Spec

(* The cached identity is that of the device on the bus, however late the   *)
(* answer of an earlier one arrives.                                        *)
THEOREM IdentityCurrent == Spec => []IdentityIsCurrent
<1>1. DeviceInv => IdentityIsCurrent
  BY DEF DeviceInv, KnowsDevice, IdentityIsCurrent
<1> QED
  BY <1>1, DeviceKnown, PTL

(* A controllable entry stands for a device that got all of its setup since *)
(* its last boot.                                                           *)
THEOREM InitializedConfigured == Spec => []InitializedIsConfigured
<1>1. DeviceInv => InitializedIsConfigured
  BY DEF DeviceInv, KnowsDevice, InitializedIsConfigured
<1> QED
  BY <1>1, DeviceKnown, PTL

(* The constants that scale commands were read from the device controlled.  *)
THEOREM ConstantsOfDevice == Spec => []ConstantsBelongToDevice
<1>1. DeviceInv => ConstantsBelongToDevice
  BY DEF DeviceInv, KnowsDevice, ConstantsBelongToDevice
<1> QED
  BY <1>1, DeviceKnown, PTL

(* No device of an unsupported revision gets past Identified.               *)
THEOREM GateHolds == Spec => []GateRespected
<1>1. DeviceInv => GateRespected
  BY DEF DeviceInv, KnowsDevice, GateRespected
<1> QED
  BY <1>1, DeviceKnown, PTL
=============================================================================
