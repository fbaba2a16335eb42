-------------------------- MODULE MeowSessionProofs --------------------------
(***************************************************************************)
(* Proofs about MeowSession for any devices, options and bounds: types,    *)
(* what an initialized motor is known to be, and that the entry keeps the  *)
(* promises of NodeLifecycle.                                              *)
(***************************************************************************)
EXTENDS MeowSession, SequenceTheorems, TLAPS

(* Each kind of call runs through its own steps. *)
OpAtItsPcs ==
  /\ op = "none" <=> pc = "idle"
  /\ op \in {"auto", "identify"} <=> pc \in IdentifyPcs
  /\ op = "initialize" <=> pc \in RunPcs
  /\ op = "settings" <=> pc \in SettingsPcs
  /\ op = "readSettings" <=> pc \in ReadPcs

(* Nobody holds a token of a session that has yet to begin. *)
TokensArePast == opEpoch <= epoch /\ hbEpoch <= epoch

ReadIsDone == pc \in {"begin", "settings"} => got \in Devices

SilenceIsUnknown == ~online => nmtState = None

(* The identity cannot change under a call that was begun with it, except   *)
(* by a new session; and an initialize() owns the stage of its session.     *)
TokenKept ==
  /\ op \in {"initialize", "settings", "readSettings"} =>
       expected \in Supported /\ (epoch = opEpoch => identity = expected)
  /\ op = "initialize" /\ epoch # opEpoch => lifecycle = "Unknown"
  /\ op = "initialize" /\ pc # "start" /\ epoch = opEpoch => lifecycle = "Initializing"

(* The part that says nothing of the device. *)
EntryInv ==
  /\ TypeOK /\ OpAtItsPcs /\ TokensArePast /\ ReadIsDone /\ SilenceIsUnknown
  /\ TokenKept /\ ReadyIsLive

Verified  == RunPcs \ {"start", "verify"}
Read      == {"checkConstant", "storeConstant"}
Stored    == {"sendStart", "waitOp", "feedback", "commit"}

(* The setup that must have been done when initialize() is at p. *)
AfterTpdo1    == Verified \ {"preOp", "waitPreOp", "stop", "tpdo1"}
AfterTpdo2    == AfterTpdo1 \ {"tpdo2"}
AfterRpdos    == AfterTpdo2 \ {"rpdos"}
AfterConsumer == AfterRpdos \ {"consumer"}

SetupSoFar ==
  /\ pc \in AfterTpdo1 => "tpdo1" \in configured
  /\ pc \in AfterTpdo2 => "tpdo2" \in configured
  /\ pc \in AfterRpdos => Options \cap {"rpdos"} \subseteq configured
  /\ pc \in AfterConsumer => Options \cap {"consumer"} \subseteq configured

(* A call that is still in its session works on the device it verified. *)
CallKnowsDevice ==
  pc \in Verified /\ epoch = opEpoch =>
    /\ who = expected /\ SetupSoFar
    /\ pc \in Read => got \in {None, who}
    /\ pc \in Stored => constants \in {None, who}

EntryKnowsDevice ==
  lifecycle = "Initialized" => configured = Setup /\ constants \in {None, identity}

(* Until a restart that discovery has yet to hear of, or never will. *)
DeviceInv == RestartPending \/ (CallKnowsDevice /\ EntryKnowsDevice)

(* A membership is a flag. *)
LEMMA MembershipIsFlag == \A x, S : (x \in S) \in BOOLEAN
  BY SMT

LEMMA EqualityIsFlag == \A x, y : (x = y) \in BOOLEAN
  BY SMT

(* No step takes a flag out of BOOLEAN.                                     *)
LEMMA FlagsStep ==
  ASSUME FlagsOK, [Next]_vars
  PROVE  FlagsOK'
<1> USE DEF FlagsOK, entryVars, fenceVars, hbVars, opVars, deviceVars
<1>1. CASE DeviceStep
  BY <1>1, Zenon DEF DeviceStep, PowerOn, PowerOff, EmitHeartbeat, DeviceNmtChange
<1>2. CASE ReceiveHeartbeat
  <2>1. hbMoved' \in BOOLEAN
    BY <1>2, MembershipIsFlag, Zenon DEF ReceiveHeartbeat
  <2>2. attempted' \in BOOLEAN
    BY <1>2, Zenon DEF ReceiveHeartbeat
  <2>3. online' \in BOOLEAN /\ UNCHANGED <<powered, got1, got2>>
    BY <1>2, Zenon DEF ReceiveHeartbeat
  <2>4. missed' \in BOOLEAN
    BY <1>2, Zenon DEF ReceiveHeartbeat, InvalidateSession
  <2> QED
    BY <2>1, <2>2, <2>3, <2>4, Zenon
<1>3. CASE SpawnIdentify \/ NodeBusy
  BY <1>3, Zenon DEF SpawnIdentify, NodeBusy, AttemptAgain
<1>4. CASE GoOffline \/ TelemetryStale
  BY <1>4, Zenon DEF GoOffline, InvalidateSession, TelemetryStale
<1>5. CASE ReceiveTpdo1 \/ ReceiveTpdo2
  BY <1>5, EqualityIsFlag, Zenon DEF ReceiveTpdo1, ReceiveTpdo2
<1>6. CASE CallIdentify \/ CallInitialize \/ CallSettings \/ CallRead
  BY <1>6, Zenon DEF CallIdentify, CallInitialize, CallSettings, CallRead, BeginCall
<1>7. CASE IdentifyStep
  BY <1>7, Zenon DEF IdentifyStep, ReadIdentity, CacheIdentity, CacheSettings,
                     AutoIdentifyFails, AutoIdentifyEnds, AttemptAgain, Release
<1>8. CASE InitializeStep
  <2> USE DEF OnlyEntryUnchanged, OnlyOp
  <2>1. CASE StartInitialize \/ VerifyOnWire \/ SendPreOp \/ PreOpConfirmed \/ StopMotor
    BY <2>1, Zenon DEF StartInitialize, VerifyOnWire, SendPreOp, SendNmt, PreOpConfirmed,
                       StopMotor
  <2>2. CASE ConfigureTpdo1 \/ ConfigureTpdo2 \/ ConfigureRpdos \/ ConfigureConsumer
    BY <2>2, Zenon DEF ConfigureTpdo1, ConfigureTpdo2, ConfigureRpdos, ConfigureConsumer,
                       Configure
  <2>3. CASE ReadConstant \/ CheckConstant \/ StoreConstant \/ SendStart
    BY <2>3, Zenon DEF ReadConstant, CheckConstant, StoreConstant, SendStart, SendNmt
  <2>4. CASE OperationalConfirmed \/ FeedbackArrived \/ Commit \/ InitializeFails
    BY <2>4, Zenon DEF OperationalConfirmed, FeedbackArrived, Commit, InitializeFails, Release
  <2> QED
    BY <1>8, <2>1, <2>2, <2>3, <2>4 DEF InitializeStep
<1>9. CASE SettingsCallStep
  BY <1>9, Zenon DEF SettingsCallStep, ProbeAndVerify, WriteFields, SaveSettings, CheckSaved,
                     SettingsStep, StoreSettings, ReadSettings, CheckRead, StoreRead, Release,
                     OnlyEntryUnchanged, OnlyOp
<1>10. CASE CallEnds
  BY <1>10, Zenon DEF CallEnds, Release, OnlyOp
<1>11. CASE UNCHANGED vars
  BY <1>11, Zenon DEF vars
<1> QED
  BY <1>1, <1>2, <1>3, <1>4, <1>5, <1>6, <1>7, <1>8, <1>9, <1>10, <1>11
     DEF Next, TaskStep, DiscoveryStep

(* No step takes any other variable out of its type.                        *)
LEMMA DataStep ==
  ASSUME DataOK, [Next]_vars
  PROVE  DataOK'
<1> USE NmtAssumption, DevicesAssumption
        DEF DataOK, entryVars, fenceVars, hbVars, opVars, deviceVars
<1>1. CASE DeviceStep
  <2>1. \A f \in NmtStates \cup {"BootUp"} : Append(hbq, f) \in Seq(NmtStates \cup {"BootUp"})
    OBVIOUS
  <2>2. configured \subseteq Setup /\ {} \subseteq Setup
    OBVIOUS
  <2>3. CASE PowerOn
    BY <2>1, <2>2, <2>3 DEF PowerOn
  <2>4. CASE PowerOff \/ DeviceNmtChange
    BY <2>2, <2>4 DEF PowerOff, DeviceNmtChange
  <2>5. CASE EmitHeartbeat
    BY <2>1, <2>5 DEF EmitHeartbeat
  <2> QED
    BY <1>1, <2>3, <2>4, <2>5 DEF DeviceStep
<1>2. CASE ReceiveHeartbeat
  <2>1. Head(hbq) \in NmtStates \cup {"BootUp"} /\ Tail(hbq) \in Seq(NmtStates \cup {"BootUp"})
    BY <1>2 DEF ReceiveHeartbeat
  <2>2. /\ epoch' \in Nat /\ identity' \in Devices \cup {None}
        /\ settings' \in {"Pending", "Available", "ReadFailed"}
        /\ logic' \in {"Disabled", "Enabled", "Error", None}
        /\ constants' \in Devices \cup {None}
    BY <1>2 DEF ReceiveHeartbeat, InvalidateSession
  <2>3. lifecycle' \in Lifecycles
    BY <1>2 DEF ReceiveHeartbeat, Lifecycles
  <2>4. hbPc' \in {"idle", "spawn"} /\ hbEpoch' \in Nat
    BY <1>2, <2>2 DEF ReceiveHeartbeat
  <2>5. nmtState' = Head(hbq) /\ hbq' = Tail(hbq)
        /\ UNCHANGED <<op, pc, opEpoch, expected, got, powered, who, devNmt, configured>>
    BY <1>2 DEF ReceiveHeartbeat
  <2> QED
    BY <2>1, <2>2, <2>3, <2>4, <2>5
<1>3. CASE SpawnIdentify \/ NodeBusy
  BY <1>3 DEF SpawnIdentify, NodeBusy, IdentifyPcs
<1>4. CASE GoOffline \/ TelemetryStale
  BY <1>4 DEF GoOffline, TelemetryStale, InvalidateSession, Lifecycles
<1>5. CASE ReceiveTpdo1 \/ ReceiveTpdo2
  BY <1>5 DEF ReceiveTpdo1, ReceiveTpdo2
<1>6. CASE CallIdentify \/ CallInitialize \/ CallSettings \/ CallRead
  BY <1>6 DEF CallIdentify, CallInitialize, CallSettings, CallRead, BeginCall, IdentifyPcs,
              RunPcs, SettingsPcs, ReadPcs
<1>7. CASE IdentifyStep
  BY <1>7 DEF IdentifyStep, ReadIdentity, CacheIdentity, CacheSettings, AutoIdentifyFails,
              AutoIdentifyEnds, Release, IdentifyPcs, Lifecycles
<1>8. CASE InitializeStep
  <2> USE DEF OnlyEntryUnchanged, OnlyOp, GoTo, RunPcs
  <2>1. CASE StartInitialize \/ VerifyOnWire \/ PreOpConfirmed \/ StopMotor
    BY <2>1 DEF StartInitialize, VerifyOnWire, PreOpConfirmed, StopMotor, Lifecycles
  <2>2. CASE SendPreOp \/ SendStart
    BY <2>2 DEF SendPreOp, SendStart, SendNmt
  <2>3. CASE ConfigureTpdo1 \/ ConfigureTpdo2 \/ ConfigureRpdos \/ ConfigureConsumer
    <3>1. configured' \subseteq Setup
      BY <2>3 DEF ConfigureTpdo1, ConfigureTpdo2, ConfigureRpdos, ConfigureConsumer, Configure,
                  Setup
    <3> QED
      BY <2>3, <3>1 DEF ConfigureTpdo1, ConfigureTpdo2, ConfigureRpdos, ConfigureConsumer,
                        Configure
  <2>4. CASE ReadConstant \/ CheckConstant \/ StoreConstant
    BY <2>4 DEF ReadConstant, CheckConstant, StoreConstant, ReadOrNone
  <2>5. CASE OperationalConfirmed \/ FeedbackArrived
    BY <2>5 DEF OperationalConfirmed, FeedbackArrived
  <2>6. CASE Commit \/ InitializeFails
    BY <2>6 DEF Commit, InitializeFails, Release, Lifecycles
  <2> QED
    BY <1>8, <2>1, <2>2, <2>3, <2>4, <2>5, <2>6 DEF InitializeStep
<1>9. CASE SettingsCallStep
  <2> USE DEF OnlyEntryUnchanged, OnlyOp, GoTo, SettingsPcs, ReadPcs
  <2>1. CASE ProbeAndVerify \/ WriteFields \/ SaveSettings \/ CheckSaved
    BY <2>1 DEF ProbeAndVerify, WriteFields, SaveSettings, CheckSaved, SettingsStep
  <2>2. CASE StoreSettings \/ StoreRead
    BY <2>2 DEF StoreSettings, StoreRead, Release, Lifecycles
  <2>3. CASE ReadSettings \/ CheckRead
    BY <2>3 DEF ReadSettings, CheckRead
  <2> QED
    BY <1>9, <2>1, <2>2, <2>3 DEF SettingsCallStep
<1>10. CASE CallEnds
  BY <1>10 DEF CallEnds, Release, OnlyOp
<1>11. CASE UNCHANGED vars
  BY <1>11 DEF vars
<1> QED
  BY <1>1, <1>2, <1>3, <1>4, <1>5, <1>6, <1>7, <1>8, <1>9, <1>10, <1>11
     DEF Next, TaskStep, DiscoveryStep

LEMMA InitTypes == Init => TypeOK
<1> SUFFICES ASSUME Init PROVE TypeOK
  OBVIOUS
<1>1. FlagsOK
  BY Zenon DEF Init, FlagsOK
<1>2. DataOK
  BY NmtAssumption DEF Init, DataOK, Lifecycles, Setup
<1> QED
  BY <1>1, <1>2 DEF TypeOK

(* Every variable keeps its type.                                           *)
THEOREM TypeCorrect == Spec => []TypeOK
<1>1. TypeOK /\ [Next]_vars => TypeOK'
  BY FlagsStep, DataStep DEF TypeOK
<1> QED
  BY <1>1, InitTypes, PTL DEF Spec

-----------------------------------------------------------------------------
(* The entry and the call.                                                  *)

(* Steps that leave the entry alone, or change nothing in it but what       *)
(* telemetry tells.                                                         *)
LEMMA QuietSteps ==
  ASSUME EntryInv, [Next]_vars,
         \/ DeviceStep \/ SpawnIdentify \/ NodeBusy \/ TelemetryStale
         \/ ReceiveTpdo1 \/ ReceiveTpdo2 \/ UNCHANGED vars
  PROVE  EntryInv'
<1>t. TypeOK'
  BY FlagsStep, DataStep DEF EntryInv, TypeOK
<1> USE NoneAssumption
        DEF EntryInv, OpAtItsPcs, TokensArePast, ReadIsDone, SilenceIsUnknown, TokenKept,
            ReadyIsLive, entryVars, fenceVars, hbVars, opVars, deviceVars
<1>1. CASE DeviceStep
  BY <1>t, <1>1 DEF DeviceStep, PowerOn, PowerOff, EmitHeartbeat, DeviceNmtChange
<1>2. CASE SpawnIdentify
  <2>1. hbEpoch' <= epoch /\ hbEpoch \in Nat
    BY <1>2 DEF SpawnIdentify, TypeOK, DataOK
  <2>2. op' = "auto" /\ pc' = "readId" /\ opEpoch' = hbEpoch
    BY <1>2 DEF SpawnIdentify
  <2>3. UNCHANGED entryVars
    BY <1>2 DEF SpawnIdentify
  <2> QED
    BY <1>t, <2>1, <2>2, <2>3 DEF IdentifyPcs, RunPcs, SettingsPcs, ReadPcs
<1>3. CASE NodeBusy
  <2>1. hbEpoch' <= epoch
    BY <1>3 DEF NodeBusy, TypeOK, DataOK
  <2> QED
    BY <1>t, <1>3, <2>1 DEF NodeBusy
<1>4. CASE TelemetryStale
  BY <1>t, <1>4 DEF TelemetryStale
<1>5. CASE ReceiveTpdo1 \/ ReceiveTpdo2
  BY <1>t, <1>5 DEF ReceiveTpdo1, ReceiveTpdo2
<1>6. CASE UNCHANGED vars
  BY <1>t, <1>6 DEF vars
<1> QED
  BY <1>1, <1>2, <1>3, <1>4, <1>5, <1>6

(* A Boot-Up, a heartbeat or silence.                                       *)
LEMMA SessionSteps ==
  ASSUME EntryInv, [Next]_vars, ReceiveHeartbeat \/ GoOffline
  PROVE  EntryInv'
<1>t. TypeOK /\ TypeOK'
  BY FlagsStep, DataStep DEF EntryInv, TypeOK
<1> USE DEF EntryInv, OpAtItsPcs, TokensArePast, ReadIsDone, SilenceIsUnknown, TokenKept,
            ReadyIsLive, InvalidateSession, opVars
<1>1. CASE GoOffline
  BY <1>t, <1>1 DEF GoOffline, TypeOK, DataOK, hbVars, deviceVars
<1>2. CASE ReceiveHeartbeat /\ Head(hbq) = "BootUp"
  <2>1. lifecycle' = "Unknown" /\ epoch' = epoch + 1 /\ online' = TRUE
    BY <1>2 DEF ReceiveHeartbeat
  <2>2. UNCHANGED opVars /\ hbEpoch' \in {hbEpoch, epoch'}
    BY <1>2 DEF ReceiveHeartbeat, hbVars
  <2> QED
    BY <1>t, <2>1, <2>2 DEF TypeOK, DataOK
<1>3. CASE ReceiveHeartbeat /\ Head(hbq) # "BootUp"
  <2>1. /\ UNCHANGED <<epoch, identity, logic>> /\ online' = TRUE /\ nmtState' = Head(hbq)
        /\ lifecycle' = IF lifecycle = "Initialized" /\ Head(hbq) # "Operational"
                        THEN "NeedsReinit" ELSE lifecycle
    BY <1>3 DEF ReceiveHeartbeat
  <2>2. UNCHANGED opVars /\ hbEpoch' \in {hbEpoch, epoch'}
    BY <1>3 DEF ReceiveHeartbeat, hbVars
  <2> QED
    BY <1>t, <2>1, <2>2 DEF TypeOK, DataOK
<1> QED
  BY <1>1, <1>2, <1>3

(* Calls begin, and identifications.                                        *)
LEMMA IdentifySteps ==
  ASSUME EntryInv, [Next]_vars,
         \/ CallIdentify \/ CallInitialize \/ CallSettings \/ CallRead \/ IdentifyStep
  PROVE  EntryInv'
<1>t. TypeOK /\ TypeOK'
  BY FlagsStep, DataStep DEF EntryInv, TypeOK
<1> USE DEF EntryInv, OpAtItsPcs, TokensArePast, ReadIsDone, SilenceIsUnknown, TokenKept,
            ReadyIsLive, entryVars, fenceVars, hbVars, deviceVars, IdentifyPcs, RunPcs,
            SettingsPcs, ReadPcs
<1>1. CASE CallIdentify \/ CallInitialize \/ CallSettings \/ CallRead
  BY <1>t, <1>1 DEF CallIdentify, CallInitialize, CallSettings, CallRead, BeginCall, TypeOK, DataOK
<1>2. CASE ReadIdentity
  BY <1>t, <1>2 DEF ReadIdentity, TypeOK, DataOK
<1>3. CASE CacheIdentity
  BY <1>t, <1>3 DEF CacheIdentity
<1>4. CASE CacheSettings
  BY <1>t, <1>4 DEF CacheSettings, Release, TypeOK, DataOK
<1>5. CASE AutoIdentifyFails \/ AutoIdentifyEnds
  BY <1>t, <1>5 DEF AutoIdentifyFails, AutoIdentifyEnds, Release, TypeOK, DataOK
<1> QED
  BY <1>1, <1>2, <1>3, <1>4, <1>5 DEF IdentifyStep

(* What the steps in the middle of a call have in common.                   *)
MidCall ==
  /\ op # "none" /\ UNCHANGED <<epoch, attempted, identity, online, nmtState, hbVars>>
  /\ UNCHANGED <<op, opEpoch, expected, lifecycle, logic>>
  /\ \/ pc \in RunPcs \ {"start"} /\ pc' \in RunPcs \ {"start"}
     \/ pc \in SettingsPcs /\ pc' \in SettingsPcs
     \/ pc \in ReadPcs /\ pc' \in ReadPcs

LEMMA MidCallStep ==
  ASSUME EntryInv, TypeOK', MidCall
  PROVE  EntryInv'
  BY DEF EntryInv, MidCall, OpAtItsPcs, TokensArePast, ReadIsDone, SilenceIsUnknown, TokenKept,
         ReadyIsLive, hbVars, IdentifyPcs, RunPcs, SettingsPcs, ReadPcs

LEMMA RunIsMidCall ==
  ASSUME OpAtItsPcs,
         \/ VerifyOnWire \/ SendPreOp \/ PreOpConfirmed \/ StopMotor
         \/ ConfigureTpdo1 \/ ConfigureTpdo2 \/ ConfigureRpdos \/ ConfigureConsumer
         \/ ReadConstant \/ CheckConstant \/ StoreConstant
         \/ SendStart \/ OperationalConfirmed \/ FeedbackArrived
  PROVE  MidCall
<1> USE DEF OpAtItsPcs, MidCall, OnlyEntryUnchanged, OnlyOp, GoTo, RunPcs
<1>1. CASE VerifyOnWire \/ SendPreOp \/ PreOpConfirmed \/ StopMotor
  BY <1>1 DEF VerifyOnWire, SendPreOp, SendNmt, PreOpConfirmed, StopMotor
<1>2. CASE ConfigureTpdo1 \/ ConfigureTpdo2 \/ ConfigureRpdos \/ ConfigureConsumer
  BY <1>2 DEF ConfigureTpdo1, ConfigureTpdo2, ConfigureRpdos, ConfigureConsumer, Configure
<1>3. CASE ReadConstant \/ CheckConstant \/ StoreConstant
  BY <1>3 DEF ReadConstant, CheckConstant, StoreConstant
<1>4. CASE SendStart \/ OperationalConfirmed \/ FeedbackArrived
  BY <1>4 DEF SendStart, SendNmt, OperationalConfirmed, FeedbackArrived
<1> QED
  BY <1>1, <1>2, <1>3, <1>4

LEMMA SettingsIsMidCall ==
  ASSUME OpAtItsPcs,
         \/ ProbeAndVerify \/ WriteFields \/ SaveSettings \/ CheckSaved
         \/ ReadSettings \/ CheckRead
  PROVE  MidCall
  BY DEF OpAtItsPcs, MidCall, OnlyEntryUnchanged, OnlyOp, GoTo, SettingsPcs, ReadPcs, RunPcs,
         ProbeAndVerify, WriteFields, SaveSettings, SettingsStep, CheckSaved, ReadSettings,
         CheckRead

(* Steps with which a call takes hold of the stage, or ends.                *)
LEMMA EndSteps ==
  ASSUME EntryInv, [Next]_vars,
         \/ StartInitialize \/ Commit \/ InitializeFails \/ CallEnds
         \/ StoreSettings \/ StoreRead
  PROVE  EntryInv'
<1>t. TypeOK /\ TypeOK'
  BY FlagsStep, DataStep DEF EntryInv, TypeOK
<1> USE NoneAssumption, NmtAssumption
        DEF EntryInv, OpAtItsPcs, TokensArePast, ReadIsDone, SilenceIsUnknown, TokenKept,
            ReadyIsLive, OnlyOp, hbVars, IdentifyPcs, RunPcs, SettingsPcs, ReadPcs
<1>1. CASE StartInitialize
  BY <1>t, <1>1 DEF StartInitialize, GoTo
<1>2. CASE Commit
  <2>1. online
    BY <1>2 DEF Commit, CommitAllowed
  <2> QED
    BY <1>t, <1>2, <2>1 DEF Commit, CommitAllowed, TokenMatches, Release, TypeOK, DataOK
<1>3. CASE InitializeFails
  BY <1>t, <1>3 DEF InitializeFails, Release, TypeOK, DataOK
<1>4. CASE CallEnds
  BY <1>t, <1>4 DEF CallEnds, Release, TypeOK, DataOK
<1>5. CASE StoreSettings \/ StoreRead
  BY <1>t, <1>5 DEF StoreSettings, StoreRead, Release, TypeOK, DataOK
<1> QED
  BY <1>1, <1>2, <1>3, <1>4, <1>5

LEMMA EntryStep ==
  ASSUME EntryInv, [Next]_vars
  PROVE  EntryInv'
<1>t. TypeOK' /\ OpAtItsPcs
  BY FlagsStep, DataStep DEF EntryInv, TypeOK
<1>1. CASE InitializeStep
  BY <1>t, <1>1, RunIsMidCall, MidCallStep, EndSteps DEF InitializeStep
<1>2. CASE SettingsCallStep
  BY <1>t, <1>2, SettingsIsMidCall, MidCallStep, EndSteps DEF SettingsCallStep
<1> QED
  BY <1>1, <1>2, QuietSteps, SessionSteps, IdentifySteps, EndSteps
     DEF Next, TaskStep, DiscoveryStep

LEMMA EntryInit == Init => EntryInv
  BY InitTypes
     DEF Init, EntryInv, OpAtItsPcs, TokensArePast, ReadIsDone, SilenceIsUnknown, TokenKept,
         ReadyIsLive, IdentifyPcs, RunPcs, SettingsPcs, ReadPcs

(* The entry's invariant: an attempt owns the stage of its session and the  *)
(* identity it was begun with, whoever else is at work on the entry.        *)
THEOREM EntryInvariant == Spec => []EntryInv
  BY EntryInit, EntryStep, PTL DEF Spec

(* A motor that takes commands is online, was last heard as Operational,    *)
(* and has feedback and an exact identity.                                  *)
THEOREM ReadyLive == Spec => []ReadyIsLive
<1>1. EntryInv => ReadyIsLive
  BY DEF EntryInv
<1> QED
  BY <1>1, EntryInvariant, PTL

-----------------------------------------------------------------------------
(* The entry implements NodeLifecycle.                                      *)

LEMMA LifecycleStutter ==
  ASSUME UNCHANGED <<epoch, lifecycle, identity>>,
         \/ UNCHANGED <<op, opEpoch, expected>> /\ (pc = "start" <=> pc' = "start")
         \/ op # "initialize" /\ (op' # "initialize" \/ pc' = "start")
         \/ lifecycle # "Initializing"
         \/ epoch # opEpoch /\ op' = "none"
  PROVE  UNCHANGED Lifecycle!vars
BY DEF Lifecycle!vars, AttemptedIdentity

(* Every step of the entry is a step of the abstract lifecycle or none.     *)
LEMMA LifecycleStep ==
  ASSUME EntryInv, [Next]_vars
  PROVE  [Lifecycle!Next]_(Lifecycle!vars)
<1> SUFFICES Lifecycle!Next \/ UNCHANGED Lifecycle!vars
  OBVIOUS
<1>n. /\ epoch \in Nat /\ opEpoch \in Nat /\ opEpoch <= epoch /\ lifecycle \in Lifecycles
      /\ OpAtItsPcs /\ TokenKept /\ ReadIsDone
  BY DEF EntryInv, TypeOK, DataOK, TokensArePast
<1>s. ASSUME epoch' = epoch + 1, UNCHANGED opEpoch, lifecycle' = "Unknown", identity' = None
      PROVE  Lifecycle!Next
  BY <1>s, <1>n DEF AttemptedIdentity, Lifecycle!Next, Lifecycle!NewSession
<1> USE DEF entryVars, fenceVars, hbVars, opVars, deviceVars
<1>1. CASE DeviceStep \/ NodeBusy \/ ReceiveTpdo1 \/ ReceiveTpdo2
  BY <1>1, LifecycleStutter
     DEF DeviceStep, PowerOn, PowerOff, EmitHeartbeat, DeviceNmtChange, NodeBusy,
         ReceiveTpdo1, ReceiveTpdo2
<1>2. CASE SpawnIdentify
  BY <1>2, LifecycleStutter DEF SpawnIdentify
<1>3. CASE ReceiveHeartbeat
  <2>1. CASE Head(hbq) = "BootUp"
    BY <1>3, <2>1, <1>s DEF ReceiveHeartbeat, InvalidateSession
  <2>2. CASE Head(hbq) # "BootUp"
    <3>1. UNCHANGED <<epoch, identity, op, pc, opEpoch, expected>>
      BY <1>3, <2>2 DEF ReceiveHeartbeat
    <3>2. (lifecycle' = lifecycle) \/ (lifecycle = "Initialized" /\ lifecycle' = "NeedsReinit")
      BY <1>3, <2>2 DEF ReceiveHeartbeat
    <3> QED
      BY <3>1, <3>2, LifecycleStutter DEF AttemptedIdentity, Lifecycle!Next, Lifecycle!Leave
  <2> QED
    BY <2>1, <2>2
<1>4. CASE GoOffline
  BY <1>4, <1>s DEF GoOffline, InvalidateSession
<1>5. CASE TelemetryStale
  BY <1>5 DEF TelemetryStale, AttemptedIdentity, Lifecycle!Next, Lifecycle!Leave
<1>6. CASE CallIdentify \/ CallInitialize \/ CallSettings \/ CallRead
  BY <1>6, LifecycleStutter DEF CallIdentify, CallInitialize, CallSettings, CallRead, BeginCall
<1>7. CASE CacheIdentity
  <2>1. op # "initialize" /\ got \in Devices
    BY <1>7, <1>n DEF CacheIdentity, OpAtItsPcs, RunPcs, ReadIsDone
  <2>2. Lifecycle!Learn(got)
    BY <1>7, <2>1 DEF CacheIdentity, Lifecycle!Learn, AttemptedIdentity
  <2> QED
    BY <2>1, <2>2 DEF Lifecycle!Next
<1>8. CASE ReadIdentity \/ CacheSettings \/ AutoIdentifyFails \/ AutoIdentifyEnds
  <2>1. op # "initialize"
    BY <1>8, <1>n DEF ReadIdentity, CacheSettings, AutoIdentifyFails, AutoIdentifyEnds,
                      OpAtItsPcs, RunPcs
  <2> QED
    BY <1>8, <2>1, LifecycleStutter
       DEF ReadIdentity, CacheSettings, AutoIdentifyFails, AutoIdentifyEnds, Release
<1>9. CASE StartInitialize
  <2>1. op = "initialize" /\ pc = "start"
    BY <1>9, <1>n DEF StartInitialize, OpAtItsPcs, RunPcs
  <2>2. epoch = opEpoch /\ identity = expected /\ expected \in Supported
    BY <1>9, <2>1, <1>n DEF StartInitialize, TokenKept
  <2>3. AttemptedIdentity = None /\ AttemptedIdentity' = identity /\ identity # None
    BY <1>9, <2>1, <2>2, DevicesAssumption DEF StartInitialize, GoTo, OnlyOp, AttemptedIdentity
  <2> QED
    BY <1>9, <2>3 DEF StartInitialize, OnlyOp, Lifecycle!Next, Lifecycle!Begin
<1>10. CASE MidCall
  BY <1>10, LifecycleStutter, <1>n DEF MidCall, OpAtItsPcs, RunPcs, SettingsPcs, ReadPcs
<1>11. ASSUME op = "initialize", pc # "start", epoch = opEpoch
       PROVE  /\ lifecycle = "Initializing" /\ AttemptedIdentity = identity
              /\ identity \in Supported /\ identity # None
  BY <1>11, <1>n, DevicesAssumption DEF TokenKept, AttemptedIdentity
<1>12. ASSUME Release PROVE AttemptedIdentity' = None
  BY <1>12 DEF Release, AttemptedIdentity
<1>13. CASE Commit
  <2>1. op = "initialize" /\ pc # "start" /\ epoch = opEpoch /\ Release
    BY <1>13, <1>n DEF Commit, CommitAllowed, TokenMatches, OpAtItsPcs, RunPcs
  <2> QED
    BY <1>13, <2>1, <1>11, <1>12 DEF Commit, OnlyOp, Lifecycle!Next, Lifecycle!Finish
<1>14. CASE InitializeFails
  <2>1. CASE epoch = opEpoch
    <3>1. TokenMatches
      BY <1>14, <2>1, <1>n DEF InitializeFails, TokenMatches, TokenKept
    <3> QED
      BY <1>14, <2>1, <3>1, <1>11, <1>12
         DEF InitializeFails, OnlyOp, Lifecycle!Next, Lifecycle!Fail
  <2>2. CASE epoch # opEpoch
    BY <1>14, <2>2, LifecycleStutter DEF InitializeFails, OnlyOp, TokenMatches, Release
  <2> QED
    BY <2>1, <2>2
<1>15. CASE CallEnds
  <2>1. CASE op = "initialize" /\ pc # "start" /\ epoch = opEpoch
    BY <1>15, <2>1, <1>11, <1>12 DEF CallEnds, OnlyOp, Lifecycle!Next, Lifecycle!Abandon
  <2>2. CASE ~(op = "initialize" /\ pc # "start" /\ epoch = opEpoch)
    <3>1. AttemptedIdentity = None /\ AttemptedIdentity' = None
      BY <1>15, <2>2, <1>12 DEF CallEnds, AttemptedIdentity
    <3> QED
      BY <1>15, <3>1 DEF CallEnds, OnlyOp, Lifecycle!vars
  <2> QED
    BY <2>1, <2>2
<1>16. CASE StoreSettings \/ StoreRead
  <2>1. op # "initialize" /\ Release
    BY <1>16, <1>n DEF StoreSettings, StoreRead, OpAtItsPcs, RunPcs
  <2>2. AttemptedIdentity = None /\ AttemptedIdentity' = None
    BY <2>1, <1>12 DEF AttemptedIdentity
  <2> QED
    BY <1>16, <2>2 DEF StoreSettings, StoreRead, Lifecycle!Next, Lifecycle!Retire, Lifecycle!vars
<1>17. CASE UNCHANGED vars
  BY <1>17, LifecycleStutter DEF vars
<1>18. CASE InitializeStep
  BY <1>n, <1>9, <1>10, <1>13, <1>14, <1>18, RunIsMidCall DEF InitializeStep
<1>19. CASE SettingsCallStep
  BY <1>n, <1>10, <1>16, <1>19, SettingsIsMidCall DEF SettingsCallStep
<1> QED
  BY <1>1, <1>2, <1>3, <1>4, <1>5, <1>6, <1>7, <1>8, <1>15, <1>17, <1>18, <1>19
     DEF Next, TaskStep, DiscoveryStep, IdentifyStep

(* MeowSession implements NodeLifecycle: a motor becomes Initialized only by *)
(* an attempt that began and ended in one session with one identity, though *)
(* dropped calls leave their stage behind and settings may retire it.       *)
THEOREM ImplementsAbstract == Spec => ImplementsLifecycle
<1>1. Init => Lifecycle!Init
  BY DEF Init, Lifecycle!Init, AttemptedIdentity
<1> QED
  BY <1>1, EntryInvariant, LifecycleStep, PTL DEF ImplementsLifecycle, Lifecycle!Spec, Spec

-----------------------------------------------------------------------------
(* What the entry says of the device.                                       *)

(* A step of a call leaves the frames and the power alone.                  *)
LEMMA CallsLeaveTheBus ==
  ASSUME [Next]_vars, ~DeviceStep, ~ReceiveHeartbeat
  PROVE  UNCHANGED <<hbq, powered, who>> /\ (missed' = missed \/ GoOffline)
<1> USE DEF entryVars, fenceVars, hbVars, opVars, deviceVars, OnlyEntryUnchanged, OnlyOp
<1>1. CASE SpawnIdentify \/ NodeBusy \/ GoOffline \/ TelemetryStale \/ ReceiveTpdo1 \/ ReceiveTpdo2
  BY <1>1 DEF SpawnIdentify, NodeBusy, GoOffline, TelemetryStale, ReceiveTpdo1, ReceiveTpdo2
<1>2. CASE CallIdentify \/ CallInitialize \/ CallSettings \/ CallRead \/ IdentifyStep
  BY <1>2 DEF CallIdentify, CallInitialize, CallSettings, CallRead, BeginCall, IdentifyStep,
              ReadIdentity, CacheIdentity, CacheSettings, AutoIdentifyFails, AutoIdentifyEnds
<1>3. CASE InitializeStep
  BY <1>3 DEF InitializeStep, StartInitialize, VerifyOnWire, SendPreOp, SendNmt, PreOpConfirmed,
              StopMotor, ConfigureTpdo1, ConfigureTpdo2, ConfigureRpdos, ConfigureConsumer,
              Configure, ReadConstant, CheckConstant, StoreConstant, SendStart,
              OperationalConfirmed, FeedbackArrived, Commit, InitializeFails
<1>4. CASE SettingsCallStep \/ CallEnds \/ UNCHANGED vars
  BY <1>4 DEF SettingsCallStep, ProbeAndVerify, WriteFields, SaveSettings, CheckSaved,
              SettingsStep, StoreSettings, ReadSettings, CheckRead, StoreRead, CallEnds, vars
<1> QED
  BY <1>1, <1>2, <1>3, <1>4 DEF Next, TaskStep, DiscoveryStep

(* A pending restart is over only when a new session begins: its Boot-Up is *)
(* processed, or the silence of the device noticed.                         *)
LEMMA PendingEndsInSession ==
  ASSUME TypeOK, [Next]_vars, RestartPending, ~RestartPending'
  PROVE  (ReceiveHeartbeat /\ Head(hbq) = "BootUp") \/ GoOffline
<1>t. hbq \in Seq(NmtStates \cup {"BootUp"}) /\ devNmt \in NmtStates
  BY DEF TypeOK, DataOK
<1>0. ASSUME UNCHANGED <<powered, hbq, missed>> PROVE FALSE
  BY <1>0 DEF RestartPending
<1>1. CASE PowerOn
  <2>1. hbq' = Append(hbq, "BootUp")
    BY <1>1 DEF PowerOn, RestartPending
  <2>2. Len(hbq') = Len(hbq) + 1 /\ hbq'[Len(hbq) + 1] = "BootUp"
    BY <1>t, <2>1
  <2> QED
    BY <1>t, <2>2 DEF RestartPending
<1>2. CASE PowerOff
  BY <1>2 DEF PowerOff, RestartPending
<1>3. CASE EmitHeartbeat
  <2>1. powered /\ hbq' = Append(hbq, devNmt) /\ UNCHANGED <<powered, missed>>
    BY <1>3 DEF EmitHeartbeat
  <2>2. PICK i \in 1 .. Len(hbq) : hbq[i] = "BootUp"
    BY <2>1 DEF RestartPending
  <2>3. i \in 1 .. Len(hbq') /\ hbq'[i] = "BootUp"
    BY <1>t, <2>1, <2>2
  <2> QED
    BY <2>3 DEF RestartPending
<1>4. CASE DeviceNmtChange
  BY <1>4, <1>0 DEF DeviceNmtChange
<1>5. CASE ReceiveHeartbeat
  <2>0. SUFFICES ASSUME Head(hbq) # "BootUp" PROVE FALSE
    BY <1>5
  <2>1. hbq # <<>> /\ hbq' = Tail(hbq) /\ UNCHANGED <<powered, missed>>
    BY <1>5, <2>0 DEF ReceiveHeartbeat
  <2>2. PICK i \in 1 .. Len(hbq) : hbq[i] = "BootUp"
    BY <2>1 DEF RestartPending
  <2>3. CASE i = 1
    BY <1>t, <2>0, <2>1, <2>2, <2>3
  <2>4. CASE i # 1
    <3>1. i - 1 \in 1 .. Len(hbq') /\ hbq'[i - 1] = "BootUp"
      BY <1>t, <2>1, <2>2, <2>4
    <3> QED
      BY <3>1 DEF RestartPending
  <2> QED
    BY <2>3, <2>4
<1> QED
  BY <1>0, <1>1, <1>2, <1>3, <1>4, <1>5, CallsLeaveTheBus DEF DeviceStep

(* A new session owes the device nothing yet.                               *)
LEMMA NewSessionOwesNothing ==
  ASSUME EntryInv, InvalidateSession, lifecycle' = "Unknown", UNCHANGED opVars
  PROVE  DeviceInv'
  BY DEF EntryInv, TokensArePast, TypeOK, DataOK, InvalidateSession, opVars, DeviceInv,
         CallKnowsDevice, EntryKnowsDevice

(* The sequence of initialize() finds and keeps the device it verified.     *)
LEMMA RunKnowsDevice ==
  ASSUME EntryInv, CallKnowsDevice,
         \/ VerifyOnWire \/ SendPreOp \/ PreOpConfirmed \/ StopMotor
         \/ ConfigureTpdo1 \/ ConfigureTpdo2 \/ ConfigureRpdos \/ ConfigureConsumer
         \/ ReadConstant \/ CheckConstant \/ StoreConstant
         \/ SendStart \/ OperationalConfirmed \/ FeedbackArrived
  PROVE  CallKnowsDevice'
<1>o. Options \cap {"rpdos"} \subseteq {"rpdos"} /\ Options \cap {"consumer"} \subseteq {"consumer"}
  OBVIOUS
<1> USE DEF CallKnowsDevice, SetupSoFar, OnlyEntryUnchanged, OnlyOp, GoTo, Verified, Read, Stored,
            AfterTpdo1, AfterTpdo2, AfterRpdos, AfterConsumer, RunPcs
<1>1. CASE VerifyOnWire
  BY <1>1 DEF VerifyOnWire
<1>2. CASE SendPreOp \/ PreOpConfirmed \/ StopMotor
  BY <1>2 DEF SendPreOp, SendNmt, PreOpConfirmed, StopMotor, fenceVars
<1>3. CASE ConfigureTpdo1 \/ ConfigureTpdo2
  BY <1>3 DEF ConfigureTpdo1, ConfigureTpdo2, Configure, Setup
<1>4. CASE ConfigureRpdos
  BY <1>4, <1>o DEF ConfigureRpdos, Configure, Setup
<1>5. CASE ConfigureConsumer
  BY <1>5, <1>o DEF ConfigureConsumer
<1>6. CASE ReadConstant
  BY <1>6 DEF ReadConstant
<1>7. CASE CheckConstant
  BY <1>7 DEF CheckConstant
<1>8. CASE StoreConstant
  BY <1>8 DEF StoreConstant, ReadOrNone
<1>9. CASE SendStart \/ OperationalConfirmed \/ FeedbackArrived
  BY <1>9 DEF SendStart, SendNmt, OperationalConfirmed, FeedbackArrived
<1> QED
  BY <1>1, <1>2, <1>3, <1>4, <1>5, <1>6, <1>7, <1>8, <1>9

(* ... and does not touch an initialized entry, for there is none.          *)
LEMMA MidCallEntry ==
  ASSUME EntryInv, MidCall, EntryKnowsDevice,
         pc \in RunPcs \/ UNCHANGED <<configured, constants>>
  PROVE  EntryKnowsDevice'
  BY DEF EntryInv, MidCall, EntryKnowsDevice, OpAtItsPcs, TokenKept, RunPcs, SettingsPcs, ReadPcs

LEMMA SettingsKeepsDevice ==
  ASSUME \/ ProbeAndVerify \/ WriteFields \/ SaveSettings \/ CheckSaved
         \/ ReadSettings \/ CheckRead
  PROVE  UNCHANGED <<configured, constants>> /\ pc' \notin RunPcs
  BY DEF OnlyEntryUnchanged, OnlyOp, GoTo, RunPcs, ProbeAndVerify, WriteFields, SaveSettings,
         SettingsStep, CheckSaved, ReadSettings, CheckRead

LEMMA DeviceInvStep ==
  ASSUME EntryInv, DeviceInv, [Next]_vars
  PROVE  DeviceInv'
<1>t. TypeOK /\ OpAtItsPcs /\ TokenKept
  BY DEF EntryInv
<1>1. CASE RestartPending
  <2>1. CASE RestartPending'
    BY <2>1 DEF DeviceInv
  <2>2. CASE ~RestartPending'
    <3>1. (ReceiveHeartbeat /\ Head(hbq) = "BootUp") \/ GoOffline
      BY <1>t, <1>1, <2>2, PendingEndsInSession
    <3> QED
      BY <3>1, NewSessionOwesNothing DEF ReceiveHeartbeat, GoOffline
  <2> QED
    BY <2>1, <2>2
<1>2. CASE ~RestartPending
  <2>k. CallKnowsDevice /\ EntryKnowsDevice /\ powered
    BY <1>2 DEF DeviceInv, RestartPending
  <2>e. ASSUME UNCHANGED <<lifecycle, configured, constants, identity>>
        PROVE  EntryKnowsDevice'
    BY <2>k, <2>e DEF EntryKnowsDevice
  <2>c. ASSUME pc' \notin Verified PROVE CallKnowsDevice'
    BY <2>c DEF CallKnowsDevice
  <2>s. ASSUME UNCHANGED <<pc, epoch, opEpoch, who, expected, got, configured, constants>>
        PROVE  CallKnowsDevice'
    BY <2>k, <2>s DEF CallKnowsDevice, SetupSoFar
  <2> USE DEF entryVars, fenceVars, hbVars, opVars, deviceVars
  <2>1. CASE DeviceStep
    <3>1. CASE PowerOff
      BY <3>1 DEF PowerOff, DeviceInv, RestartPending
    <3>2. CASE EmitHeartbeat \/ DeviceNmtChange
      BY <3>2, <2>e, <2>s DEF EmitHeartbeat, DeviceNmtChange, DeviceInv
    <3> QED
      BY <2>1, <2>k, <3>1, <3>2 DEF DeviceStep, PowerOn
  <2>2. CASE ReceiveHeartbeat
    <3>1. CASE Head(hbq) = "BootUp"
      BY <2>2, <3>1, NewSessionOwesNothing DEF ReceiveHeartbeat
    <3>2. CASE Head(hbq) # "BootUp"
      <4>1. UNCHANGED <<epoch, identity, constants, configured, op, pc, opEpoch, expected, got, who>>
        BY <2>2, <3>2 DEF ReceiveHeartbeat
      <4>2. lifecycle' = "Initialized" => lifecycle = "Initialized"
        BY <2>2, <3>2 DEF ReceiveHeartbeat
      <4> QED
        BY <2>k, <2>s, <4>1, <4>2 DEF DeviceInv, EntryKnowsDevice
    <3> QED
      BY <3>1, <3>2
  <2>3. CASE GoOffline
    BY <2>3, NewSessionOwesNothing DEF GoOffline
  <2>4. CASE NodeBusy \/ ReceiveTpdo1 \/ ReceiveTpdo2
    BY <2>4, <2>e, <2>s DEF NodeBusy, ReceiveTpdo1, ReceiveTpdo2, DeviceInv
  <2>5. CASE TelemetryStale
    BY <2>5, <2>s DEF TelemetryStale, DeviceInv, EntryKnowsDevice
  <2>6. CASE SpawnIdentify \/ CallIdentify \/ CallInitialize \/ CallSettings \/ CallRead
    BY <2>6, <2>e, <2>c DEF SpawnIdentify, CallIdentify, CallInitialize, CallSettings, CallRead,
                            BeginCall, Verified, RunPcs, DeviceInv
  <2>7. CASE IdentifyStep
    BY <2>7, <2>e, <2>c DEF IdentifyStep, ReadIdentity, CacheIdentity, CacheSettings,
                            AutoIdentifyFails, AutoIdentifyEnds, Release, Verified, RunPcs,
                            DeviceInv, EntryKnowsDevice
  <2>8. CASE StartInitialize
    BY <2>8, <2>c DEF StartInitialize, GoTo, Verified, RunPcs, DeviceInv, EntryKnowsDevice
  <2>9. CASE Commit
    <3>1. pc = "commit" /\ epoch = opEpoch /\ identity = expected /\ pc' = "idle"
          /\ UNCHANGED <<configured, constants, identity>>
      BY <2>9 DEF Commit, CommitAllowed, TokenMatches, Release, OnlyOp
    <3>2. who = expected /\ SetupSoFar /\ constants \in {None, who}
      BY <2>k, <3>1 DEF CallKnowsDevice, Verified, Stored, RunPcs
    <3>3. Setup \subseteq configured /\ configured \subseteq Setup
      BY <1>t, <3>1, <3>2, OptionsAssumption
         DEF SetupSoFar, Setup, AfterTpdo1, AfterTpdo2, AfterRpdos, AfterConsumer, Verified,
             RunPcs, TypeOK, DataOK
    <3> QED
      BY <3>1, <3>2, <3>3, <2>c DEF DeviceInv, EntryKnowsDevice, Verified, RunPcs
  <2>10. CASE InitializeFails \/ CallEnds
    BY <2>10, <2>c, <2>k DEF InitializeFails, CallEnds, Release, OnlyOp, Verified, RunPcs,
                             DeviceInv, EntryKnowsDevice
  <2>11. CASE StoreSettings \/ StoreRead
    BY <2>11, <2>c, <2>k DEF StoreSettings, StoreRead, Release, Verified, RunPcs, DeviceInv,
                             EntryKnowsDevice
  <2>12. CASE InitializeStep
    <3>1. CASE StartInitialize \/ Commit \/ InitializeFails
      BY <3>1, <2>8, <2>9, <2>10
    <3>2. CASE ~(StartInitialize \/ Commit \/ InitializeFails)
      <4>1. MidCall /\ CallKnowsDevice'
        BY <1>t, <2>12, <2>k, <3>2, RunIsMidCall, RunKnowsDevice DEF InitializeStep
      <4>2. pc \in RunPcs
        BY <2>12, <3>2, <4>1
           DEF MidCall, InitializeStep, VerifyOnWire, SendPreOp, SendStart, SendNmt,
               PreOpConfirmed, StopMotor, ConfigureTpdo1, ConfigureTpdo2, ConfigureRpdos,
               ConfigureConsumer, Configure, ReadConstant, CheckConstant, StoreConstant,
               OperationalConfirmed, FeedbackArrived, RunPcs
      <4> QED
        BY <2>k, <4>1, <4>2, MidCallEntry DEF DeviceInv
    <3> QED
      BY <3>1, <3>2
  <2>13. CASE SettingsCallStep
    <3>1. CASE StoreSettings \/ StoreRead
      BY <3>1, <2>11
    <3>2. CASE ~(StoreSettings \/ StoreRead)
      <4>1. MidCall /\ UNCHANGED <<configured, constants>> /\ pc' \notin RunPcs
        BY <1>t, <2>13, <3>2, SettingsIsMidCall, SettingsKeepsDevice DEF SettingsCallStep
      <4> QED
        BY <2>c, <2>k, <4>1, MidCallEntry DEF DeviceInv, Verified
    <3> QED
      BY <3>1, <3>2
  <2>14. CASE UNCHANGED vars
    BY <2>14, <2>e, <2>s DEF vars, DeviceInv
  <2> QED
    BY <2>1, <2>2, <2>3, <2>4, <2>5, <2>6, <2>7, <2>10, <2>12, <2>13, <2>14
       DEF Next, TaskStep, DiscoveryStep
<1> QED
  BY <1>1, <1>2

(* Until a restart that discovery has yet to hear of, or never will because *)
(* the Boot-Up was lost, the running call and the entry hold what belongs   *)
(* to the device that answers; the next session mends what a loss spoilt.   *)
THEOREM DeviceKnown == Spec => []DeviceInv
<1>1. Init => DeviceInv
  BY DEF Init, DeviceInv, RestartPending
<1> QED
  BY <1>1, DeviceInvStep, EntryInvariant, PTL DEF Spec

(* A motor that takes commands got its whole setup since its last boot.     *)
THEOREM ReadyConfigured == Spec => []ReadyIsConfigured
<1>1. DeviceInv => ReadyIsConfigured
  BY DEF DeviceInv, EntryKnowsDevice, ReadyIsConfigured
<1> QED
  BY <1>1, DeviceKnown, PTL

(* Its commands are scaled with constants read from the motor it is.        *)
THEOREM ConstantsReady == Spec => []ConstantsOfReady
<1>1. DeviceInv => ConstantsOfReady
  BY DEF DeviceInv, EntryKnowsDevice, ConstantsOfReady
<1> QED
  BY <1>1, DeviceKnown, PTL
=============================================================================
