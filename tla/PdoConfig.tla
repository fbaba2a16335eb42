----------------------------- MODULE PdoConfig ------------------------------
(***************************************************************************)
(* Writing PDO recipes and compressed-MIT settings into one motor, one SDO *)
(* object at a time: the recipe part of MeowMotorManager::initialize       *)
(* (match, write, read back), of Cia402Manager::initialize (write only)    *)
(* and compressed_mit::configure.  Any object access may fail, an          *)
(* unanswered write may have been carried out, the caller may drop the     *)
(* future at any await, and the motor may reboot between two writes, which *)
(* the host notices only when it handles the next heartbeat.               *)
(*                                                                         *)
(* Identification, NMT waits and the drive part of initialization are in   *)
(* Cia402Session, MeowSession and MeowDrive; here a new session is ready   *)
(* to be initialized as soon as the reboot is noticed.                     *)
(***************************************************************************)
EXTENDS PdoRecipes

CONSTANTS
  Requests,  \* bound: what the calls ask for, see Request
  Mappings,  \* bound: compressed-MIT ranges, versions of ten floats
  MaxInits,  \* bound: initializations started
  MaxCalls,  \* bound: calls started
  MaxBoots,  \* bound: power-ups of the motor
  None

\* The arguments of one call: TPDO1 event timer, and for the shared host
\* frames the slot and the number of slots with the target ranges.
Request ==
  [timer : Profiles, shared : BOOLEAN, slot : 0..8, total : 0..8, mapping : Mappings]

ASSUME RequestsAssumption == Requests \subseteq Request
ASSUME RoomAssumption == \A q \in Requests : 2 * q.total <= MaxEntries
ASSUME BoundsAssumption == {MaxInits, MaxCalls} \subseteq Nat /\ MaxBoots \in Nat \ {0}
ASSUME NoneAssumption == None \notin Request /\ None \notin Mappings

Families == {"meow", "cia402"}
Pdos == {"tx0", "tx1", "rx0", "rx1"}
PdoOf(r) ==
  IF r.dir = "tx" THEN (IF r.index = 0 THEN "tx0" ELSE "tx1")
  ELSE IF r.index = 0 THEN "rx0" ELSE "rx1"

VARIABLES
  \* the motor
  boot,    \* power-ups so far
  od,      \* its PDOs
  mit,     \* its compressed-MIT objects, mode and control word
  \* the host
  family,  \* which manager the motor belongs to
  session, \* the power-up the entry's session stands for
  life,    \* the entry's lifecycle
  call,    \* the running call
  calls,   \* initializations started
  configures, \* and compressed-MIT configurations
  asked,   \* the request of the committed initialization
  \* history
  mixed,   \* PDOs, or "mit", whose writes straddle a reboot
  driven   \* the request whose configure enabled the drive

motor == <<boot, od, mit>>
host == <<family, session, life, call, calls, configures, asked>>
vars == <<motor, host, mixed, driven>>

Idle == [kind |-> "none"]

\* The objects a motor powers up with.
FactoryMit ==
  [ranges |-> None, lower |-> None, upper |-> None, on |-> 0, brake |-> 0,
   limits |-> 0, mode |-> 0, cw |-> 0]

Init ==
  /\ boot = 1
  /\ od = [p \in Pdos |-> FactoryPdo]
  /\ mit = FactoryMit
  /\ family \in Families
  /\ session = 1
  /\ life = "identified"
  /\ call = Idle
  /\ calls = 0
  /\ configures = 0
  /\ asked = None
  /\ mixed = {}
  /\ driven = None

-----------------------------------------------------------------------------
(* Plans: what each call does, in order.                                   *)

Recipe(r) == [do |-> "recipe", recipe |-> r]
Set(name, v) == [do |-> "set", field |-> name, value |-> v]
Guard == [do |-> "guard"]

\* Ranges, then the target that is zero under those ranges, then the selector.
MeowMitSetup(q) ==
  <<Set("ranges", q.mapping), Set("lower", q.mapping), Set("upper", q.mapping), Set("on", 1)>>

MeowInitialize(q) ==
  IF q.shared
  THEN <<Recipe(MeowTpdo1(q.timer)), Recipe(MeowTpdo2)>> \o MeowMitSetup(q)
         \o <<Recipe(MeowRpdo1(q.slot, q.total)), Recipe(MeowRpdo2(q.slot, q.total))>>
  ELSE <<Recipe(MeowTpdo1(q.timer)), Recipe(MeowTpdo2)>>

\* The last write is the control word the fault reset edge ends with.
Cia402Initialize(q) ==
  <<Recipe(Cia402Tpdo1(q.timer)), Recipe(Cia402Tpdo2), Set("cw", 0)>>

\* Mutant: the control word is written before the lane exists.
ConfigureLaneLast(q) ==
  <<Set("limits", 1), Set("ranges", q.mapping), Set("lower", q.mapping),
    Set("upper", q.mapping), Set("on", 1), Set("brake", 1), Set("mode", 5), Set("cw", 6),
    Set("cw", 7), Guard, Set("cw", 15), Recipe(Cia402Rpdo1(q.slot, q.total))>>

Configure(q) ==
  <<Set("limits", 1), Set("ranges", q.mapping), Set("lower", q.mapping),
    Set("upper", q.mapping), Set("on", 1), Set("brake", 1),
    Recipe(Cia402Rpdo1(q.slot, q.total)), Set("mode", 5), Set("cw", 6), Set("cw", 7),
    Guard, Set("cw", 15)>>

Plan(kind, q) ==
  IF kind = "configure" THEN Configure(q)
  ELSE IF family = "meow" THEN MeowInitialize(q) ELSE Cia402Initialize(q)

Item == Plan(call.kind, call.q)[call.step]
PlanDone == call.step > Len(Plan(call.kind, call.q))

\* A recipe the builders reject is found only when the plan reaches it.
Acceptable(r) ==
  /\ ValidRecipe(r)
  /\ r.dir = "rx" => ValidSlot(call.q.slot, call.q.total)

OnRecipe == call # Idle /\ ~PlanDone /\ Item.do = "recipe" /\ Acceptable(Item.recipe)

-----------------------------------------------------------------------------
(* Calls.                                                                  *)

\* Only Meow compares before it writes; Cia402 writes unconditionally.
FirstPhase == IF family = "meow" THEN "match" ELSE "write"

Started(kind, q) ==
  [kind |-> kind, q |-> q, step |-> 1, phase |-> FirstPhase, at |-> 1,
   session |-> session, from |-> boot, began |-> boot]

CallInitialize ==
  /\ call = Idle
  /\ calls < MaxInits /\ calls + configures < MaxCalls
  /\ life \in {"identified", "reinit"}
  /\ \E q \in Requests : call' = Started("initialize", q)
  /\ calls' = calls + 1
  /\ life' = "initializing"
  /\ UNCHANGED <<motor, family, session, configures, asked, mixed, driven>>

\* Its documented precondition: initialize has run, and nothing has enabled
\* the drive since.
CallConfigure ==
  /\ call = Idle
  /\ family = "cia402"
  /\ calls + configures < MaxCalls
  /\ life = "initialized"
  /\ mit.cw # 15
  /\ \E q \in Requests : call' = Started("configure", q)
  /\ configures' = configures + 1
  /\ UNCHANGED <<motor, family, session, life, calls, asked, mixed, driven>>

\* The call returns an error: an initialization of this session is undone.
Failed ==
  /\ call' = Idle
  /\ life' = IF call.kind = "initialize" /\ life = "initializing" /\ call.session = session
             THEN "identified" ELSE life
  /\ UNCHANGED <<family, session, calls, configures, asked>>

\* An access is not answered or is refused, or the pre-enable guard says no.
CallFails ==
  /\ call # Idle
  /\ Failed
  /\ UNCHANGED <<motor, mixed, driven>>

\* The caller drops the future: only the Cia402 guard resets the lifecycle.
DropCall ==
  /\ call # Idle
  /\ call' = Idle
  /\ life' = IF family = "cia402" /\ call.kind = "initialize" /\ call.session = session
             THEN "identified" ELSE life
  /\ UNCHANGED <<motor, family, session, calls, configures, asked, mixed, driven>>

Advance == [call EXCEPT !.step = @ + 1, !.phase = FirstPhase, !.at = 1]

\* The Meow manager checks its identity token before every write.
TokenHolds == family = "cia402" \/ call.session = session

\* One object of a comparison: a difference before writing starts the
\* writes, a difference after them is an error.
ReadNext ==
  LET reads == ReadsOf(Item.recipe)
      same == Shows(od[PdoOf(Item.recipe)], reads[call.at])
  IN /\ OnRecipe
     /\ call.phase \in {"match", "verify"}
     /\ IF same
        THEN /\ call' = IF call.at < Len(reads) THEN [call EXCEPT !.at = @ + 1] ELSE Advance
             /\ UNCHANGED <<family, session, life, calls, configures, asked>>
        ELSE IF call.phase = "match"
        THEN /\ call' = [call EXCEPT !.phase = "write", !.at = 1]
             /\ UNCHANGED <<family, session, life, calls, configures, asked>>
        ELSE Failed
     /\ UNCHANGED <<motor, mixed, driven>>

\* Where a recipe write leads when it is acknowledged.
AfterWrite(writes) ==
  IF call.at < Len(writes) THEN [call EXCEPT !.at = @ + 1]
  ELSE IF family = "meow" THEN [call EXCEPT !.phase = "verify", !.at = 1]
  ELSE Advance

\* One object of a recipe reaches the motor; its answer may be lost.
WriteNext ==
  LET writes == WritesOf(Item.recipe)
      p == PdoOf(Item.recipe)
      start == IF call.at = 1 THEN boot ELSE call.began
  IN /\ OnRecipe
     /\ call.phase = "write"
     /\ TokenHolds
     /\ od' = [od EXCEPT ![p] = Written(@, writes[call.at])]
     /\ mixed' = IF start # boot THEN mixed \cup {p}
                 ELSE IF call.at = 1 THEN mixed \ {p} ELSE mixed
     /\ \/ /\ call' = [AfterWrite(writes) EXCEPT !.began = start]
           /\ UNCHANGED <<family, session, life, calls, configures, asked>>
        \/ Failed
     /\ UNCHANGED <<boot, mit, driven>>

\* One compressed-MIT object, the mode or the control word.
SetNext ==
  /\ call # Idle /\ ~PlanDone /\ Item.do = "set"
  /\ TokenHolds
  /\ mit' = [mit EXCEPT ![Item.field] = Item.value]
  /\ mixed' = IF call.from # boot THEN mixed \cup {"mit"} ELSE mixed
  /\ driven' = IF Item.field = "cw" THEN (IF Item.value = 15 THEN call.q ELSE None) ELSE driven
  /\ \/ /\ call' = Advance
        /\ UNCHANGED <<family, session, life, calls, configures, asked>>
     \/ Failed
  /\ UNCHANGED <<boot, od>>

\* The caller's guard runs right before the last control word.
PassGuard ==
  /\ call # Idle /\ ~PlanDone /\ Item.do = "guard"
  /\ call' = Advance
  /\ UNCHANGED <<motor, family, session, life, calls, configures, asked, mixed, driven>>

\* Mutant: the commit does not wait for a heartbeat of this power-up.
CommitUnheard ==
  /\ call # Idle /\ PlanDone /\ call.kind = "initialize"
  /\ life' = "initialized"
  /\ asked' = call.q
  /\ call' = Idle
  /\ UNCHANGED <<motor, family, session, calls, configures, mixed, driven>>

\* The initialization commits once the node is heard Operational: the
\* heartbeats of this power-up, its Boot-Up first, have been handled.
Commit ==
  /\ call # Idle /\ PlanDone /\ call.kind = "initialize"
  /\ session = boot
  /\ call.session = session
  /\ life' = "initialized"
  /\ asked' = call.q
  /\ call' = Idle
  /\ UNCHANGED <<motor, family, session, calls, configures, mixed, driven>>

ConfigureReturns ==
  /\ call # Idle /\ PlanDone /\ call.kind = "configure"
  /\ call' = Idle
  /\ UNCHANGED <<motor, family, session, life, calls, configures, asked, mixed, driven>>

-----------------------------------------------------------------------------
(* The motor and its heartbeat.                                            *)

Reboot ==
  /\ boot < MaxBoots
  /\ boot' = boot + 1
  /\ od' = [p \in Pdos |-> FactoryPdo]
  /\ mit' = FactoryMit
  /\ mixed' = {}
  /\ driven' = None
  /\ UNCHANGED host

\* The Boot-Up is handled: a new session, which is identified again.
Notice ==
  /\ session # boot
  /\ session' = boot
  /\ life' = "identified"
  /\ asked' = None
  /\ UNCHANGED <<motor, family, call, calls, configures, mixed, driven>>

\* A heartbeat shows that an initialized node left Operational.
LeaveOperational ==
  /\ life = "initialized"
  /\ call = Idle
  /\ life' = "reinit"
  /\ UNCHANGED <<motor, family, session, call, calls, configures, asked, mixed, driven>>

\* Every call of the bound has ended and the last power-up is known.
Finished ==
  /\ boot = MaxBoots /\ session = boot
  /\ call = Idle
  /\ calls = MaxInits \/ calls + configures = MaxCalls \/ life \in {"initializing", "initialized"}
  /\ UNCHANGED vars

Next ==
  \/ CallInitialize \/ CallConfigure \/ CallFails \/ DropCall
  \/ ReadNext \/ WriteNext \/ SetNext \/ PassGuard \/ Commit \/ ConfigureReturns
  \/ Reboot \/ Notice \/ LeaveOperational
  \/ Finished

Spec == Init /\ [][Next]_vars

-----------------------------------------------------------------------------
(* Properties.                                                             *)

\* The recipes a family writes into PDO p, over all requests.
RecipesFor(p) ==
  {r \in UNION {IF family = "meow"
                THEN {MeowTpdo1(q.timer), MeowTpdo2, MeowRpdo1(q.slot, q.total),
                      MeowRpdo2(q.slot, q.total)}
                ELSE {Cia402Tpdo1(q.timer), Cia402Tpdo2, Cia402Rpdo1(q.slot, q.total)} :
                  q \in Requests} : PdoOf(r) = p}

\* A motor never has an enabled PDO that is half of one recipe and half of
\* another, or half of the factory's, however its configuration was cut short:
\* mapping and timing change only while the PDO is disabled.  The exception is
\* a reboot in the middle of a recipe, which no write is checked against.
PdosAreWhole ==
  \A p \in Pdos \ mixed :
    od[p].cob.valid => \E r \in RecipesFor(p) : Whole(od[p], r)

\* The bytes of the frame the host packs for total motors, by slot.
PackSharedFrame(total, width) ==
  [b \in 1 .. total * width |-> <<(b - 1) \div width, 1 + ((b - 1) % width)>>]

\* What PDO p passes to object index when that frame arrives.
TakenFrom(p, index, total, width) ==
  LET frame == PackSharedFrame(total, width)
  IN {frame[b + 1] : b \in TakesBytes(od[p], index) \cap 0..(Len(frame) - 1)}

OwnLane(slot, width) == {slot} \X (1..width)

\* Compressed MIT enables the drive only when everything it will act on is in
\* place: the target is zero under the ranges in force, and of the shared frame
\* the motor takes its own eight bytes.
DriveIsWhole ==
  (driven # None /\ mixed \cap {"mit", "rx0"} = {})
    => /\ mit.on = 1 /\ mit.mode = 5
       /\ mit.ranges = driven.mapping
       /\ mit.lower = mit.ranges /\ mit.upper = mit.ranges
       /\ Whole(od["rx0"], Cia402Rpdo1(driven.slot, driven.total))
       /\ TakenFrom("rx0", \h2004, driven.total, 8) = OwnLane(driven.slot, 8)

\* Whatever is enabled in the motor, a PDO or the drive, is complete.
EnabledIsWhole == PdosAreWhole /\ DriveIsWhole

\* The PDOs an initialization asked for.
AskedRecipes(q) ==
  IF family = "cia402" THEN {Cia402Tpdo1(q.timer), Cia402Tpdo2}
  ELSE {MeowTpdo1(q.timer), MeowTpdo2}
       \cup IF q.shared THEN {MeowRpdo1(q.slot, q.total), MeowRpdo2(q.slot, q.total)} ELSE {}

\* An initialized motor that has not rebooted unnoticed is configured as the
\* call that initialized it asked, whatever an earlier call with other
\* arguments left: a recipe that is skipped because it "already matches" is
\* the whole recipe; and of the host's shared frames the motor takes exactly
\* the bytes of its own slot.
InitializedAsAsked ==
  (life = "initialized" /\ session = boot /\ asked # None)
    => /\ \A r \in AskedRecipes(asked) : Whole(od[PdoOf(r)], r)
       /\ (family = "meow" /\ asked.shared) =>
            /\ mit.on = 1 /\ mit.ranges = asked.mapping
            /\ TakenFrom("rx0", \h4103, asked.total, 8) = OwnLane(asked.slot, 8)
            /\ TakenFrom("rx1", \h4401, asked.total, 1) = OwnLane(asked.slot, 1)
=============================================================================
