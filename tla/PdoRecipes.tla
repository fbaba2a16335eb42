----------------------------- MODULE PdoRecipes -----------------------------
(***************************************************************************)
(* PDO recipes as values: what a recipe contains, the ordered SDO writes   *)
(* it compiles to, the objects a match reads back, and the recipes of the  *)
(* two motor families (src/canopen/tpdo_config.rs, rpdo_config.rs,         *)
(* src/meow_motor/pdo.rs, src/cia402/initialize.rs, compressed_mit.rs,     *)
(* pdo_profile.rs).  No state: PdoConfig runs these writes against a       *)
(* motor that reboots and a bus that fails.                                *)
(*                                                                         *)
(* A write is the field of the PDO it changes with its value; the field    *)
(* stands for the object (0x1800+n:1 is "cob", 0x1A00+n:0 "count", ...).   *)
(***************************************************************************)
EXTENDS Frames, SequencesExt

CONSTANTS
  Profiles,   \* bound: the event timers, in ms, callers ask for
  MotorId, HostId, \* the CANopen node ids in the COB-IDs
  MaxEntries  \* bound: mapping objects a motor has per PDO

MaxEventTimer == 100

(* A timer of 0 would switch cyclic transmission off. *)
ValidProfile(timer) == timer \in 1..MaxEventTimer

ASSUME ProfilesAssumption == \A timer \in Profiles : ValidProfile(timer)
ASSUME EntriesAssumption == MaxEntries \in 5 .. 64  \* the longest fixed recipe has 5
ASSUME IdsAssumption == MotorId \in NodeIds /\ HostId \in NodeIds /\ MotorId # HostId

Entry(index, sub, bits) == [index |-> index, sub |-> sub, bits |-> bits]

TotalBits(entries) == FoldLeft(LAMBDA sum, e : sum + e.bits, 0, entries)

TotalBytes(entries) == (TotalBits(entries) + 7) \div 8

\* A recipe the builders accept; anything else is an error before any write.
ValidRecipe(r) ==
  /\ r.index \in 0..3
  /\ Len(r.entries) \in 1..64
  /\ TotalBits(r.entries) <= 64 * 8
  /\ r.cob <= 2047

-----------------------------------------------------------------------------
(* PDO profile.                                                            *)

\* The inhibit time that goes with an event timer, in units of 100 us.
InhibitOf(timer) == timer * 10 - 5

\* Samples of the velocity window at an event timer, in ms.
VelocityWindowOf(timer) == timer * 15

Fast(timer) == [kind |-> 255, inhibit |-> InhibitOf(timer), timer |-> timer]
Slow == [kind |-> 255, inhibit |-> 190, timer |-> 20]

-----------------------------------------------------------------------------
(* The recipes.                                                            *)

\* A motor's slot of a shared frame exists.
ValidSlot(slot, total) == total \in 1..8 /\ slot \in 0..(total - 1)

HostCob(index) == 384 + 256 * index + HostId

TpdoRecipe(index, entries, comm) ==
  [dir |-> "tx", index |-> index, cob |-> 384 + 256 * index + MotorId,
   entries |-> entries, comm |-> comm]

RpdoRecipe(index, cob, entries) ==
  [dir |-> "rx", index |-> index, cob |-> cob, entries |-> entries,
   comm |-> [kind |-> 255, inhibit |-> 0, timer |-> 0]]

\* Position, timestamp and torque: 8 bytes.
MeowTpdo1(timer) ==
  TpdoRecipe(0, <<Entry(\h4564, 0, 32), Entry(\h4713, 0, 16), Entry(\h4577, 0, 16)>>,
             Fast(timer))

\* Mode display, detailed error and two temperatures: 7 bytes.
MeowTpdo2 ==
  TpdoRecipe(1, <<Entry(\h4402, 0, 8), Entry(\h453F, 0, 16),
                  Entry(\h4104, 1, 16), Entry(\h4104, 2, 16)>>, Slow)

\* Position, timestamp, torque and error code: 12 bytes.
Cia402Tpdo1(timer) ==
  TpdoRecipe(0, <<Entry(\h6064, 0, 32), Entry(\h1013, 0, 32),
                  Entry(\h6077, 0, 16), Entry(\h603F, 0, 16)>>, Fast(timer))

\* Status word, two temperatures, control word and error code: 10 bytes.
Cia402Tpdo2 ==
  TpdoRecipe(1, <<Entry(\h6041, 0, 16), Entry(\h2204, 1, 16), Entry(\h2204, 2, 16),
                  Entry(\h6040, 0, 16), Entry(\h603F, 0, 16)>>, Slow)

\* Entry j of a shared frame's mapping, as the entries of the motor in slot
\* (j - 1) \div Len(own).
LaneEntry(j, entries) == entries[1 + ((j - 1) % Len(entries))]

\* Mutant: the slot counts from one.
LanesFromOne(own, filler, slot, total) ==
  [j \in 1 .. total * Len(own) |->
     LaneEntry(j, IF (j - 1) \div Len(own) + 1 = slot THEN own ELSE filler)]

\* Own objects in the motor's slot of the shared frame, the filler elsewhere.
Lanes(own, filler, slot, total) ==
  [j \in 1 .. total * Len(own) |->
     LaneEntry(j, IF (j - 1) \div Len(own) = slot THEN own ELSE filler)]

Filler32 == Entry(\h3000, 3, 32)
Filler8 == Entry(\h3000, 1, 8)

\* The motor's 8-byte lane of Host TPDO1, in 0x4103:02 and :03.
MeowRpdo1(slot, total) ==
  RpdoRecipe(0, HostCob(0),
             Lanes(<<Entry(\h4103, 2, 32), Entry(\h4103, 3, 32)>>,
                   <<Filler32, Filler32>>, slot, total))

\* The motor's 1-byte lane of Host TPDO2, in 0x4401.
MeowRpdo2(slot, total) ==
  RpdoRecipe(1, HostCob(1), Lanes(<<Entry(\h4401, 0, 8)>>, <<Filler8>>, slot, total))

\* The motor's 8-byte lane of the shared frame, in 0x2004:02 and :03.
Cia402Rpdo1(slot, total) ==
  RpdoRecipe(0, HostCob(0),
             Lanes(<<Entry(\h2004, 2, 32), Entry(\h2004, 3, 32)>>,
                   <<Filler32, Filler32>>, slot, total))

-----------------------------------------------------------------------------
(* Compilation and comparison.                                             *)

Field(name, value) == [field |-> name, value |-> value]
\* An entry of the mapping table; its packed 32-bit form is one to one.
MapEntry(i, e) == [field |-> "map", at |-> i, value |-> e]

MapEntries(entries) == [i \in 1..Len(entries) |-> MapEntry(i, entries[i])]

Disable(r) == Field("cob", [valid |-> FALSE, id |-> r.cob])
Enable(r) == Field("cob", [valid |-> TRUE, id |-> r.cob])

\* Disable, rewrite the mapping, set the timing, enable.
TpdoWrites(r) ==
  <<Disable(r), Field("count", 0)>>
    \o MapEntries(r.entries)
    \o <<Field("count", Len(r.entries)), Field("kind", r.comm.kind),
         Field("inhibit", r.comm.inhibit), Field("timer", r.comm.timer), Enable(r)>>

RpdoWrites(r) ==
  <<Disable(r), Field("kind", r.comm.kind), Field("count", 0)>>
    \o MapEntries(r.entries)
    \o <<Field("count", Len(r.entries)), Enable(r)>>

\* Mutant: the PDO is not disabled first.
WritesInPlace(r) == Tail(IF r.dir = "tx" THEN TpdoWrites(r) ELSE RpdoWrites(r))

WritesOf(r) == IF r.dir = "tx" THEN TpdoWrites(r) ELSE RpdoWrites(r)

\* What a match reads, in order, and stops at the first difference.
TpdoReads(r) ==
  <<Enable(r), Field("count", Len(r.entries))>>
    \o MapEntries(r.entries)
    \o <<Field("kind", r.comm.kind), Field("inhibit", r.comm.inhibit),
         Field("timer", r.comm.timer)>>

RpdoReads(r) ==
  <<Enable(r), Field("kind", r.comm.kind), Field("count", Len(r.entries))>>
    \o MapEntries(r.entries)

\* Mutant: the match trusts the entry count.
ReadsWithoutEntries(r) ==
  <<Enable(r), Field("kind", r.comm.kind), Field("count", Len(r.entries))>>

ReadsOf(r) == IF r.dir = "tx" THEN TpdoReads(r) ELSE RpdoReads(r)

-----------------------------------------------------------------------------
(* A motor's PDO, and what it holds of a recipe.                           *)

\* A PDO at power-up: whatever the firmware starts with, here disabled.
FactoryPdo ==
  [cob |-> [valid |-> FALSE, id |-> 0], kind |-> 254, inhibit |-> 0, timer |-> 0,
   count |-> 0, map |-> [i \in 1..MaxEntries |-> Entry(0, 0, 0)]]

Written(pdo, w) ==
  IF w.field = "map" THEN [pdo EXCEPT !.map[w.at] = w.value]
  ELSE [pdo EXCEPT ![w.field] = w.value]

Shows(pdo, w) ==
  IF w.field = "map" THEN pdo.map[w.at] = w.value ELSE pdo[w.field] = w.value

\* The PDO is enabled and is recipe r, down to its timing.
Whole(pdo, r) ==
  /\ pdo.cob = [valid |-> TRUE, id |-> r.cob]
  /\ pdo.count = Len(r.entries)
  /\ \A i \in DOMAIN r.entries : pdo.map[i] = r.entries[i]
  /\ pdo.kind = r.comm.kind
  /\ r.dir = "tx" => pdo.inhibit = r.comm.inhibit /\ pdo.timer = r.comm.timer

\* The first byte, within a received frame, of mapping entry i: behind those
\* that the entries before it take.  Every entry is whole bytes.
Bytes(e) == e.bits \div 8
FirstByte(pdo, i) == Cardinality(UNION {{j} \X (1 .. Bytes(pdo.map[j])) : j \in 1 .. (i - 1)})

\* The bytes of a received frame that the PDO passes to objects other than
\* the filler, i.e. those of the index the command goes to.
TakesBytes(pdo, index) ==
  UNION {FirstByte(pdo, i) .. (FirstByte(pdo, i) + Bytes(pdo.map[i]) - 1) :
           i \in {j \in 1 .. pdo.count : pdo.map[j].index = index}}
=============================================================================
