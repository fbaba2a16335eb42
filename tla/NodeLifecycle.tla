---------------------------- MODULE NodeLifecycle ----------------------------
(***************************************************************************)
(* What a manager promises about the lifecycle of one node, whatever its   *)
(* tasks, calls and devices do: a new device session forgets everything    *)
(* about the old one, and a node is only Initialized by one attempt that   *)
(* began and ended in one session with one and the same identity.          *)
(*                                                                         *)
(* MotorLifecycle (cia402/types.rs) and MeowMotorLifecycle                 *)
(* (meow_motor/types.rs) are the stages; Cia402Session and MeowSession     *)
(* implement the steps.                                                    *)
(***************************************************************************)
EXTENDS Naturals

CONSTANTS
  Devices,   \* what an identity may be
  None       \* no identity

VARIABLES
  session,   \* session_epoch
  stage,     \* lifecycle
  id,        \* identity
  attempt    \* identity the attempt under way was begun for, or None

vars == <<session, stage, id, attempt>>

Init == session = 0 /\ stage = "Unknown" /\ id = None /\ attempt = None

(* Boot-Up, or silence for too long *)
NewSession ==
  /\ session' = session + 1
  /\ stage' = "Unknown" /\ id' = None /\ attempt' = None

(* An identification of this session.  It may find an unsupported device;   *)
(* and it may leave alone what is already identified or further.            *)
Learn(d) ==
  /\ attempt = None
  /\ id' = d
  /\ stage' \in {"Identified", "UnsupportedIdentity"} \cup ({stage} \ {"Unknown"})
  /\ UNCHANGED <<session, attempt>>

Begin ==
  /\ stage \notin {"Unknown", "Initializing", "UnsupportedIdentity", "NeedsRestart"}
  /\ id # None
  /\ stage' = "Initializing" /\ attempt' = id
  /\ UNCHANGED <<session, id>>

Finish ==
  /\ stage = "Initializing" /\ attempt = id /\ id # None
  /\ stage' = "Initialized" /\ attempt' = None
  /\ UNCHANGED <<session, id>>

Fail ==
  /\ stage = "Initializing" /\ attempt # None
  /\ stage' = "Identified" /\ attempt' = None
  /\ UNCHANGED <<session, id>>

(* Nobody carries on: the stage stays behind. *)
Abandon ==
  /\ stage = "Initializing" /\ attempt # None
  /\ attempt' = None
  /\ UNCHANGED <<session, stage, id>>

(* Not Operational any more, or without telemetry *)
Leave ==
  /\ stage = "Initialized" /\ stage' = "NeedsReinit"
  /\ UNCHANGED <<session, id, attempt>>

(* New settings were stored: out of service until it restarts. *)
Retire ==
  /\ attempt = None /\ stage' = "NeedsRestart"
  /\ UNCHANGED <<session, id, attempt>>

Next ==
  \/ NewSession \/ (\E d \in Devices : Learn(d))
  \/ Begin \/ Finish \/ Fail \/ Abandon \/ Leave \/ Retire

Spec == Init /\ [][Next]_vars
=============================================================================
