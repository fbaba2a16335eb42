-------------------------- MODULE PdoConfigProofs --------------------------
(***************************************************************************)
(* PdoConfig for every set of requests, every target range, any number of  *)
(* calls and of power-ups: a PDO that is enabled, the drive compressed MIT *)
(* enabled, and an initialized motor are complete.  Last, the identifiers  *)
(* of Frames that the recipes are addressed with.                          *)
(*                                                                         *)
(* The argument.  A recipe's writes change one field or one mapping entry  *)
(* each, so after n of them the motor shows the last write to each target  *)
(* (Showing); the first write disables the PDO and only the last enables   *)
(* it, so a PDO is enabled only when all of them show, and then it is the  *)
(* recipe (Whole).  This holds as long as the motor does not reboot, and a *)
(* call compares the power-up its recipe began in (began) with the motor's *)
(* (boot).  The steps of a plan go to different places, so what a step     *)
(* leaves stays (StepsHold), up to the commit (AskedInPlace) or to the     *)
(* control word that enables the drive (DrivenInPlace).                    *)
(***************************************************************************)
EXTENDS PdoConfig, FiniteSetTheorems, TLAPS

(* A PDO and the compressed-MIT objects have the fields they power up with. *)
PdoShape(pdo) ==
  /\ pdo = [cob |-> pdo.cob, kind |-> pdo.kind, inhibit |-> pdo.inhibit, timer |-> pdo.timer,
            count |-> pdo.count, map |-> pdo.map]
  /\ pdo.map = [i \in 1 .. MaxEntries |-> pdo.map[i]]
MitShape(m) ==
  m = [ranges |-> m.ranges, lower |-> m.lower, upper |-> m.upper, on |-> m.on,
       brake |-> m.brake, limits |-> m.limits, mode |-> m.mode, cw |-> m.cw]

Calls ==
  [kind : {"initialize", "configure"}, q : Requests, step : Nat \ {0},
   phase : {"match", "write", "verify"}, at : Nat \ {0},
   session : Nat, from : Nat, began : Nat]

MotorOK ==
  /\ boot \in Nat
  /\ od = [p \in Pdos |-> od[p]] /\ \A p \in Pdos : PdoShape(od[p])
  /\ MitShape(mit)
HostOK ==
  /\ family \in Families /\ session \in Nat /\ session <= boot
  /\ call \in Calls \cup {Idle}
  /\ asked \in Requests \cup {None} /\ driven \in Requests \cup {None}

TypeInv == MotorOK /\ HostOK

(* The plan of a call, as an operator of the family, and the step it is at. *)
PlanFor(fam, kind, q) ==
  IF kind = "configure" THEN Configure(q)
  ELSE IF fam = "meow" THEN MeowInitialize(q) ELSE Cia402Initialize(q)
PlanOf(fam, c) == PlanFor(fam, c.kind, c.q)
ItemOf(fam, c) == PlanOf(fam, c)[c.step]
AtStep(fam, c) == c.step <= Len(PlanOf(fam, c))

(* What a write changes, and which of n writes still show. *)
Target(w) == IF w.field = "map" THEN <<"map", w.at>> ELSE <<w.field, 0>>
Showing(pdo, ws, n) ==
  \A m \in 1 .. n : (\A l \in (m + 1) .. n : Target(ws[l]) # Target(ws[m])) => Shows(pdo, ws[m])

(* A step of a plan has left, in PDOs o and compressed-MIT objects m, what it *)
(* was to leave; and the first n steps have.                                *)
Holds(o, m, item, q) ==
  /\ item.do = "recipe" =>
       /\ Whole(o[PdoOf(item.recipe)], item.recipe)
       /\ item.recipe.dir = "rx" => ValidSlot(q.slot, q.total)
  /\ item.do = "set" => item.field = "cw" \/ m[item.field] = item.value
AllHold(o, m, plan, n, q) == \A s \in 1 .. n : Holds(o, m, plan[s], q)

(* Where a call c may be in its plan, and what it knows of time: it began   *)
(* no earlier than its session, and its recipe no earlier than the call.    *)
Placed(fam, c) ==
  /\ c \in Calls
  /\ c.kind = "configure" => fam = "cia402"
  /\ fam = "cia402" => c.phase = "write"
  /\ c.step <= Len(PlanOf(fam, c)) + 1
  /\ (AtStep(fam, c) /\ c.at > 1) => ItemOf(fam, c).do = "recipe"
Timed(c, s, b) ==
  /\ c.session <= c.from /\ c.from <= c.began /\ c.began <= b
  /\ c.session <= s

(* The recipe under way, in PDOs o at power-up b, is written or compared up *)
(* to the next object, unless the motor rebooted since.                     *)
Underway(fam, c, b, o) ==
  (AtStep(fam, c) /\ c.at > 1) =>
    LET r == ItemOf(fam, c).recipe
    IN IF c.phase = "write"
       THEN /\ c.at <= Len(WritesOf(r))
            /\ c.began = b => Showing(o[PdoOf(r)], WritesOf(r), c.at - 1)
       ELSE /\ c.at <= Len(ReadsOf(r))
            /\ c.from = b => \A i \in 1 .. c.at - 1 : Shows(o[PdoOf(r)], ReadsOf(r)[i])

(* What the steps before it have left, unless the motor rebooted since.     *)
StepsHold(fam, c, b, o, m) ==
  c.from = b => AllHold(o, m, PlanOf(fam, c), c.step - 1, c.q)

Running(fam, c, s, b, o, m) ==
  Placed(fam, c) /\ Timed(c, s, b) /\ Underway(fam, c, b, o) /\ StepsHold(fam, c, b, o, m)

CallOK ==
  call # Idle =>
    /\ Running(family, call, session, boot, od, mit)
    /\ call.kind = "initialize" => life # "initialized"

(* An initialized motor holds every step of its initialization.             *)
AskedInPlace ==
  (life = "initialized" /\ session = boot /\ asked # None) =>
    LET plan == PlanFor(family, "initialize", asked)
    IN AllHold(od, mit, plan, Len(plan), asked)

(* A drive that is enabled was enabled by the last step of a configure, and *)
(* nothing of that configure runs any more.                                 *)
DrivenInPlace ==
  driven # None =>
    /\ family = "cia402" /\ mit.cw = 15
    /\ (call # Idle /\ call.kind = "configure") => ~AtStep(family, call)
    /\ mixed \cap {"mit", "rx0"} = {} => AllHold(od, mit, Configure(driven), 11, driven)

ConfigInv == TypeInv /\ CallOK /\ PdosAreWhole /\ AskedInPlace /\ DrivenInPlace
-----------------------------------------------------------------------------
(* Recipes.                                                                 *)

Entries == [index : Nat, sub : Nat, bits : Nat]
IsRecipe(r) ==
  /\ r.dir \in {"tx", "rx"}
  /\ r.entries \in Seq(Entries) /\ Len(r.entries) <= MaxEntries

InLanes(lanes, n, own, filler, slot, total) ==
  /\ lanes \in Seq(Entries) /\ Len(lanes) = total * n
  /\ \A j \in 1 .. total * n :
       lanes[j] = IF (j - 1) \div n = slot THEN own[1 + ((j - 1) % n)]
                  ELSE filler[1 + ((j - 1) % n)]

(* A lane frame maps as many objects as the lanes have, in slot order.      *)
LEMMA LanesAre ==
  ASSUME NEW n \in {1, 2}, NEW own, NEW filler,
         own = [i \in 1 .. n |-> own[i]], filler = [i \in 1 .. n |-> filler[i]],
         \A i \in 1 .. n : own[i] \in Entries /\ filler[i] \in Entries,
         NEW slot \in Nat, NEW total \in Nat
  PROVE  InLanes(Lanes(own, filler, slot, total), n, own, filler, slot, total)
<1>1. Len(own) = n /\ Len(filler) = n
  OBVIOUS
<1>2. \A j \in 1 .. total * n : (j - 1) % n \in 0 .. n - 1
  <2>1. CASE n = 1
    BY <2>1
  <2>2. CASE n = 2
    BY <2>2
  <2> QED
    BY <2>1, <2>2
<1> DEFINE e(j) == IF (j - 1) \div n = slot THEN own[1 + ((j - 1) % n)]
                   ELSE filler[1 + ((j - 1) % n)]
           lanes == Lanes(own, filler, slot, total)
<1>3. lanes = [j \in 1 .. total * n |-> e(j)]
  BY <1>1 DEF Lanes, LaneEntry
<1>4. \A j \in 1 .. total * n : e(j) \in Entries
  BY <1>2
<1>5. total * n \in Nat
  OBVIOUS
<1> HIDE DEF e, lanes
<1>6. lanes \in Seq(Entries) /\ Len(lanes) = total * n
  BY <1>3, <1>4, <1>5
<1> QED
  BY <1>3, <1>6 DEF lanes, e, InLanes

(* Every recipe of the two families maps objects there is room for. *)
LEMMA FixedRecipes ==
  ASSUME NEW timer
  PROVE  /\ IsRecipe(MeowTpdo1(timer)) /\ IsRecipe(MeowTpdo2)
         /\ IsRecipe(Cia402Tpdo1(timer)) /\ IsRecipe(Cia402Tpdo2)
BY EntriesAssumption
   DEF IsRecipe, MeowTpdo1, MeowTpdo2, Cia402Tpdo1, Cia402Tpdo2, TpdoRecipe, Entry, Entries

(* So do the lane recipes: their frames have two objects per slot or one.   *)
LEMMA LaneRecipes ==
  ASSUME NEW q \in Requests
  PROVE  /\ IsRecipe(MeowRpdo1(q.slot, q.total)) /\ IsRecipe(MeowRpdo2(q.slot, q.total))
         /\ IsRecipe(Cia402Rpdo1(q.slot, q.total))
<1>1. q.slot \in Nat /\ q.total \in Nat /\ 2 * q.total <= MaxEntries /\ MaxEntries \in Nat
  BY RequestsAssumption, RoomAssumption, EntriesAssumption DEF Request
<1> DEFINE own(index) == <<Entry(index, 2, 32), Entry(index, 3, 32)>>
           filler == <<Filler32, Filler32>>
           one == <<Entry(\h4401, 0, 8)>>
           none == <<Filler8>>
<1>2. \A index \in Nat :
        LET lanes == Lanes(own(index), filler, q.slot, q.total)
        IN lanes \in Seq(Entries) /\ Len(lanes) = q.total * 2
  <2> TAKE index \in Nat
  <2>1. /\ own(index) = [i \in 1 .. 2 |-> own(index)[i]] /\ filler = [i \in 1 .. 2 |-> filler[i]]
        /\ \A i \in 1 .. 2 : own(index)[i] \in Entries /\ filler[i] \in Entries
    BY DEF Entry, Entries, Filler32
  <2> HIDE DEF own, filler
  <2> QED
    BY <1>1, <2>1, LanesAre DEF InLanes
<1>3. LET lanes == Lanes(one, none, q.slot, q.total)
      IN lanes \in Seq(Entries) /\ Len(lanes) = q.total * 1
  <2>1. /\ one = [i \in 1 .. 1 |-> one[i]] /\ none = [i \in 1 .. 1 |-> none[i]]
        /\ \A i \in 1 .. 1 : one[i] \in Entries /\ none[i] \in Entries
    BY DEF Entry, Entries, Filler8
  <2> HIDE DEF one, none
  <2> QED
    BY <1>1, <2>1, LanesAre DEF InLanes
<1> HIDE DEF own, filler, one, none
<1>4. IsRecipe(MeowRpdo1(q.slot, q.total))
  <2> DEFINE l == Lanes(own(\h4103), filler, q.slot, q.total)
  <2>1. l \in Seq(Entries) /\ Len(l) = q.total * 2
    BY <1>2
  <2>2. MeowRpdo1(q.slot, q.total).dir = "rx" /\ MeowRpdo1(q.slot, q.total).entries = l
    BY DEF MeowRpdo1, RpdoRecipe, own, filler
  <2> HIDE DEF l
  <2> QED
    BY <1>1, <2>1, <2>2 DEF IsRecipe
<1>5. IsRecipe(Cia402Rpdo1(q.slot, q.total))
  <2> DEFINE l == Lanes(own(\h2004), filler, q.slot, q.total)
  <2>1. l \in Seq(Entries) /\ Len(l) = q.total * 2
    BY <1>2
  <2>2. Cia402Rpdo1(q.slot, q.total).dir = "rx" /\ Cia402Rpdo1(q.slot, q.total).entries = l
    BY DEF Cia402Rpdo1, RpdoRecipe, own, filler
  <2> HIDE DEF l
  <2> QED
    BY <1>1, <2>1, <2>2 DEF IsRecipe
<1>6. IsRecipe(MeowRpdo2(q.slot, q.total))
  <2> DEFINE l == Lanes(one, none, q.slot, q.total)
  <2>1. l \in Seq(Entries) /\ Len(l) = q.total * 1
    BY <1>3
  <2>2. MeowRpdo2(q.slot, q.total).dir = "rx" /\ MeowRpdo2(q.slot, q.total).entries = l
    BY DEF MeowRpdo2, RpdoRecipe, one, none
  <2> HIDE DEF l
  <2> QED
    BY <1>1, <2>1, <2>2 DEF IsRecipe
<1> QED
  BY <1>4, <1>5, <1>6

-----------------------------------------------------------------------------
(* Writes.  The sequence a recipe compiles to, write by write.              *)

Scalars == {"cob", "kind", "inhibit", "timer", "count"}
IsWrite(w) ==
  \/ w = [field |-> "map", at |-> w.at, value |-> w.value] /\ w.at \in 1 .. MaxEntries
  \/ w = [field |-> w.field, value |-> w.value] /\ w.field \in Scalars

LEMMA WriteIsWrite ==
  /\ \A name \in Scalars : \A v : IsWrite(Field(name, v)) /\ Target(Field(name, v)) = <<name, 0>>
  /\ \A i \in 1 .. MaxEntries : \A e : IsWrite(MapEntry(i, e)) /\ Target(MapEntry(i, e)) = <<"map", i>>
BY DEF IsWrite, Field, MapEntry, Target, Scalars

Joins(abc, a, b, c) ==
  /\ Len(abc) = Len(a) + Len(b) + Len(c)
  /\ \A i \in 1 .. Len(a) : abc[i] = a[i]
  /\ \A i \in 1 .. Len(b) : abc[Len(a) + i] = b[i]
  /\ \A i \in 1 .. Len(c) : abc[Len(a) + Len(b) + i] = c[i]

LEMMA Joined ==
  ASSUME NEW S, NEW a \in Seq(S), NEW b \in Seq(S), NEW c \in Seq(S)
  PROVE  Joins(a \o b \o c, a, b, c)
<1>1. ASSUME NEW i \in 1 .. Len(a) PROVE (a \o b \o c)[i] = a[i]
  OBVIOUS
<1>2. ASSUME NEW i \in 1 .. Len(b) PROVE (a \o b \o c)[Len(a) + i] = b[i]
  OBVIOUS
<1>3. ASSUME NEW i \in 1 .. Len(c) PROVE (a \o b \o c)[Len(a) + Len(b) + i] = c[i]
  OBVIOUS
<1>4. Len(a \o b \o c) = Len(a) + Len(b) + Len(c)
  OBVIOUS
<1> QED
  BY <1>1, <1>2, <1>3, <1>4, Zenon DEF Joins

LEMMA TpdoWritesAre ==
  ASSUME NEW r, IsRecipe(r)
  PROVE  LET L == Len(r.entries)  ws == TpdoWrites(r)
         IN /\ L \in Nat /\ Len(ws) = L + 7
            /\ ws[1] = Disable(r) /\ ws[2] = Field("count", 0)
            /\ \A i \in 1 .. L : ws[2 + i] = MapEntry(i, r.entries[i])
            /\ ws[L + 3] = Field("count", L) /\ ws[L + 4] = Field("kind", r.comm.kind)
            /\ ws[L + 5] = Field("inhibit", r.comm.inhibit)
            /\ ws[L + 6] = Field("timer", r.comm.timer) /\ ws[L + 7] = Enable(r)
<1> DEFINE L == Len(r.entries)
           a == <<Disable(r), Field("count", 0)>>
           b == MapEntries(r.entries)
           c == <<Field("count", L), Field("kind", r.comm.kind),
                  Field("inhibit", r.comm.inhibit), Field("timer", r.comm.timer), Enable(r)>>
           S == {a[i] : i \in 1 .. 2} \cup {b[i] : i \in 1 .. L} \cup {c[i] : i \in 1 .. 5}
<1>1. L \in Nat
  BY DEF IsRecipe
<1>2. b \in Seq(S) /\ Len(b) = L /\ \A i \in 1 .. L : b[i] = MapEntry(i, r.entries[i])
  <2>1. b = [i \in 1 .. L |-> MapEntry(i, r.entries[i])]
    BY DEF MapEntries
  <2>2. \A i \in 1 .. L : b[i] \in S
    OBVIOUS
  <2> HIDE DEF a, b, c, S, L
  <2> QED
    BY <1>1, <2>1, <2>2
<1>3. /\ a \in Seq(S) /\ Len(a) = 2
      /\ a[1] = Disable(r) /\ a[2] = Field("count", 0)
  OBVIOUS
<1>4. /\ c \in Seq(S) /\ Len(c) = 5
      /\ c[1] = Field("count", L) /\ c[2] = Field("kind", r.comm.kind)
      /\ c[3] = Field("inhibit", r.comm.inhibit) /\ c[4] = Field("timer", r.comm.timer)
      /\ c[5] = Enable(r)
  OBVIOUS
<1>5. TpdoWrites(r) = a \o b \o c
  BY DEF TpdoWrites
<1> HIDE DEF a, b, c, S, L
<1>6. Joins(TpdoWrites(r), a, b, c)
  BY <1>2, <1>3, <1>4, <1>5, Joined
<1>7. /\ Len(TpdoWrites(r)) = L + 7
      /\ TpdoWrites(r)[1] = a[1] /\ TpdoWrites(r)[2] = a[2]
      /\ \A i \in 1 .. L : TpdoWrites(r)[2 + i] = b[i]
  BY <1>1, <1>2, <1>3, <1>4, <1>6 DEF Joins
<1>8. /\ TpdoWrites(r)[L + 3] = c[1] /\ TpdoWrites(r)[L + 4] = c[2]
      /\ TpdoWrites(r)[L + 5] = c[3] /\ TpdoWrites(r)[L + 6] = c[4]
      /\ TpdoWrites(r)[L + 7] = c[5]
  BY <1>1, <1>2, <1>3, <1>4, <1>6 DEF Joins
<1> QED
  BY <1>1, <1>2, <1>3, <1>4, <1>7, <1>8 DEF L

LEMMA RpdoWritesAre ==
  ASSUME NEW r, IsRecipe(r)
  PROVE  LET L == Len(r.entries)  ws == RpdoWrites(r)
         IN /\ L \in Nat /\ Len(ws) = L + 5
            /\ ws[1] = Disable(r) /\ ws[2] = Field("kind", r.comm.kind)
            /\ ws[3] = Field("count", 0)
            /\ \A i \in 1 .. L : ws[3 + i] = MapEntry(i, r.entries[i])
            /\ ws[L + 4] = Field("count", L) /\ ws[L + 5] = Enable(r)
<1> DEFINE L == Len(r.entries)
           a == <<Disable(r), Field("kind", r.comm.kind), Field("count", 0)>>
           b == MapEntries(r.entries)
           c == <<Field("count", L), Enable(r)>>
           S == {a[i] : i \in 1 .. 3} \cup {b[i] : i \in 1 .. L} \cup {c[i] : i \in 1 .. 2}
<1>1. L \in Nat
  BY DEF IsRecipe
<1>2. b \in Seq(S) /\ Len(b) = L /\ \A i \in 1 .. L : b[i] = MapEntry(i, r.entries[i])
  <2>1. b = [i \in 1 .. L |-> MapEntry(i, r.entries[i])]
    BY DEF MapEntries
  <2>2. \A i \in 1 .. L : b[i] \in S
    OBVIOUS
  <2> HIDE DEF a, b, c, S, L
  <2> QED
    BY <1>1, <2>1, <2>2
<1>3. /\ a \in Seq(S) /\ Len(a) = 3
      /\ a[1] = Disable(r) /\ a[2] = Field("kind", r.comm.kind) /\ a[3] = Field("count", 0)
  OBVIOUS
<1>4. c \in Seq(S) /\ Len(c) = 2 /\ c[1] = Field("count", L) /\ c[2] = Enable(r)
  OBVIOUS
<1>5. RpdoWrites(r) = a \o b \o c
  BY DEF RpdoWrites
<1> HIDE DEF a, b, c, S, L
<1>6. Joins(RpdoWrites(r), a, b, c)
  <2>1. a \in Seq(S) /\ b \in Seq(S) /\ c \in Seq(S)
    BY <1>2, <1>3, <1>4
  <2> QED
    BY <1>5, <2>1, Joined, Zenon
<1> QED
  BY <1>1, <1>2, <1>3, <1>4, <1>6 DEF L, Joins

(* The same for what a match reads, as far as a match needs it: each object *)
(* of the recipe is among the reads.                                        *)
LEMMA TpdoReadsAre ==
  ASSUME NEW r, IsRecipe(r)
  PROVE  LET L == Len(r.entries)  rs == TpdoReads(r)
         IN /\ L \in Nat /\ Len(rs) = L + 5
            /\ rs[1] = Enable(r) /\ rs[2] = Field("count", L)
            /\ \A i \in 1 .. L : rs[2 + i] = MapEntry(i, r.entries[i])
            /\ rs[L + 3] = Field("kind", r.comm.kind)
            /\ rs[L + 4] = Field("inhibit", r.comm.inhibit)
            /\ rs[L + 5] = Field("timer", r.comm.timer)
<1> DEFINE L == Len(r.entries)
           a == <<Enable(r), Field("count", L)>>
           b == MapEntries(r.entries)
           c == <<Field("kind", r.comm.kind), Field("inhibit", r.comm.inhibit),
                  Field("timer", r.comm.timer)>>
           S == {a[i] : i \in 1 .. 2} \cup {b[i] : i \in 1 .. L} \cup {c[i] : i \in 1 .. 3}
<1>1. L \in Nat
  BY DEF IsRecipe
<1>2. b \in Seq(S) /\ Len(b) = L /\ \A i \in 1 .. L : b[i] = MapEntry(i, r.entries[i])
  <2>1. b = [i \in 1 .. L |-> MapEntry(i, r.entries[i])]
    BY DEF MapEntries
  <2>2. \A i \in 1 .. L : b[i] \in S
    OBVIOUS
  <2> HIDE DEF a, b, c, S, L
  <2> QED
    BY <1>1, <2>1, <2>2
<1>3. a \in Seq(S) /\ Len(a) = 2 /\ a[1] = Enable(r) /\ a[2] = Field("count", L)
  OBVIOUS
<1>4. /\ c \in Seq(S) /\ Len(c) = 3
      /\ c[1] = Field("kind", r.comm.kind) /\ c[2] = Field("inhibit", r.comm.inhibit)
      /\ c[3] = Field("timer", r.comm.timer)
  OBVIOUS
<1>5. TpdoReads(r) = a \o b \o c
  BY DEF TpdoReads
<1> HIDE DEF a, b, c, S, L
<1>6. Joins(TpdoReads(r), a, b, c)
  <2>1. a \in Seq(S) /\ b \in Seq(S) /\ c \in Seq(S)
    BY <1>2, <1>3, <1>4
  <2> QED
    BY <1>5, <2>1, Joined, Zenon
<1> QED
  BY <1>1, <1>2, <1>3, <1>4, <1>6 DEF L, Joins

LEMMA RpdoReadsAre ==
  ASSUME NEW r, IsRecipe(r)
  PROVE  LET L == Len(r.entries)  rs == RpdoReads(r)
         IN /\ L \in Nat /\ Len(rs) = L + 3
            /\ rs[1] = Enable(r) /\ rs[2] = Field("kind", r.comm.kind)
            /\ rs[3] = Field("count", L)
            /\ \A i \in 1 .. L : rs[3 + i] = MapEntry(i, r.entries[i])
<1> DEFINE L == Len(r.entries)
           a == <<Enable(r), Field("kind", r.comm.kind), Field("count", L)>>
           b == MapEntries(r.entries)
           S == {a[i] : i \in 1 .. 3} \cup {b[i] : i \in 1 .. L}
<1>1. L \in Nat
  BY DEF IsRecipe
<1>2. b \in Seq(S) /\ Len(b) = L /\ \A i \in 1 .. L : b[i] = MapEntry(i, r.entries[i])
  <2>1. b = [i \in 1 .. L |-> MapEntry(i, r.entries[i])]
    BY DEF MapEntries
  <2>2. \A i \in 1 .. L : b[i] \in S
    OBVIOUS
  <2> HIDE DEF a, b, S, L
  <2> QED
    BY <1>1, <2>1, <2>2
<1>3. /\ a \in Seq(S) /\ Len(a) = 3
      /\ a[1] = Enable(r) /\ a[2] = Field("kind", r.comm.kind) /\ a[3] = Field("count", L)
  OBVIOUS
<1>5. RpdoReads(r) = a \o b
  BY DEF RpdoReads
<1> HIDE DEF a, b, S, L
<1>6. /\ Len(RpdoReads(r)) = Len(a) + Len(b)
      /\ \A i \in 1 .. Len(a) : RpdoReads(r)[i] = a[i]
      /\ \A i \in 1 .. Len(b) : RpdoReads(r)[Len(a) + i] = b[i]
  <2>1. a \in Seq(S) /\ b \in Seq(S)
    BY <1>2, <1>3
  <2>2. ASSUME NEW i \in 1 .. Len(a) PROVE (a \o b)[i] = a[i]
    BY <2>1
  <2>3. ASSUME NEW i \in 1 .. Len(b) PROVE (a \o b)[Len(a) + i] = b[i]
    BY <2>1
  <2>4. Len(a \o b) = Len(a) + Len(b)
    BY <2>1
  <2> QED
    BY <1>5, <2>2, <2>3, <2>4
<1> QED
  BY <1>1, <1>2, <1>3, <1>6 DEF L
(* Writing one object keeps the PDO's shape, shows that object, and every   *)
(* other that showed.                                                       *)
LEMMA WrittenShows ==
  ASSUME NEW pdo, PdoShape(pdo), NEW w, IsWrite(w)
  PROVE  /\ PdoShape(Written(pdo, w)) /\ Shows(Written(pdo, w), w)
         /\ \A v : IsWrite(v) /\ Target(v) # Target(w) /\ Shows(pdo, v) => Shows(Written(pdo, w), v)
<1>1. CASE w.field = "map"
  <2>1. w.at \in 1 .. MaxEntries
    BY <1>1 DEF IsWrite, Scalars
  <2>2. Written(pdo, w) = [pdo EXCEPT !.map[w.at] = w.value]
    BY <1>1 DEF Written
  <2> DEFINE new == Written(pdo, w)
  <2>3. /\ new.cob = pdo.cob /\ new.kind = pdo.kind /\ new.inhibit = pdo.inhibit
        /\ new.timer = pdo.timer /\ new.count = pdo.count
        /\ new.map = [pdo.map EXCEPT ![w.at] = w.value]
        /\ new = [cob |-> new.cob, kind |-> new.kind, inhibit |-> new.inhibit,
                  timer |-> new.timer, count |-> new.count, map |-> new.map]
    BY <2>2 DEF PdoShape
  <2> HIDE DEF new
  <2>4. /\ new.map = [i \in 1 .. MaxEntries |-> new.map[i]]
        /\ new.map[w.at] = w.value
        /\ \A i \in 1 .. MaxEntries : i # w.at => new.map[i] = pdo.map[i]
    BY <2>1, <2>3 DEF PdoShape
  <2>5. PdoShape(new) /\ Shows(new, w)
    BY <1>1, <2>3, <2>4 DEF PdoShape, Shows
  <2>6. ASSUME NEW v, IsWrite(v), Target(v) # Target(w), Shows(pdo, v)
        PROVE  Shows(new, v)
    <3>1. CASE v.field = "map"
      <4>1. v.at \in 1 .. MaxEntries /\ v.at # w.at
        BY <1>1, <2>6, <3>1 DEF IsWrite, Target, Scalars
      <4> QED
        BY <2>4, <2>6, <3>1, <4>1 DEF Shows
    <3>2. CASE v.field # "map"
      <4>1. v.field \in Scalars
        BY <2>6, <3>2 DEF IsWrite
      <4> QED
        BY <2>3, <2>6, <3>2, <4>1 DEF Shows, Scalars
    <3> QED
      BY <3>1, <3>2
  <2> QED
    BY <2>5, <2>6 DEF new
<1>2. CASE w.field # "map"
  <2>1. w.field \in Scalars
    BY <1>2 DEF IsWrite
  <2>2. Written(pdo, w) = [pdo EXCEPT ![w.field] = w.value]
    BY <1>2 DEF Written
  <2> DEFINE new == Written(pdo, w)
  <2>3. /\ new = [cob |-> new.cob, kind |-> new.kind, inhibit |-> new.inhibit,
                  timer |-> new.timer, count |-> new.count, map |-> new.map]
        /\ new.map = pdo.map /\ new[w.field] = w.value
        /\ \A name \in Scalars : name # w.field => new[name] = pdo[name]
    BY <2>1, <2>2 DEF PdoShape, Scalars
  <2> HIDE DEF new
  <2>5. PdoShape(new) /\ Shows(new, w)
    BY <1>2, <2>3 DEF PdoShape, Shows
  <2>6. ASSUME NEW v, IsWrite(v), Target(v) # Target(w), Shows(pdo, v)
        PROVE  Shows(new, v)
    <3>1. CASE v.field = "map"
      BY <2>3, <2>6, <3>1 DEF Shows
    <3>2. CASE v.field # "map"
      <4>1. v.field \in Scalars /\ v.field # w.field
        BY <1>2, <2>6, <3>2 DEF IsWrite, Target
      <4> QED
        BY <2>3, <2>6, <3>2, <4>1 DEF Shows
    <3> QED
      BY <3>1, <3>2
  <2> QED
    BY <2>5, <2>6 DEF new
<1> QED
  BY <1>1, <1>2

(* One write more shows, and those before it that it does not overwrite.    *)
LEMMA OneMoreShows ==
  ASSUME NEW pdo, PdoShape(pdo), NEW ws, NEW n \in Nat,
         \A m \in 1 .. n + 1 : IsWrite(ws[m]), Showing(pdo, ws, n)
  PROVE  Showing(Written(pdo, ws[n + 1]), ws, n + 1)
<1> DEFINE new == Written(pdo, ws[n + 1])
<1>1. SUFFICES ASSUME NEW m \in 1 .. n + 1,
                      \A l \in (m + 1) .. (n + 1) : Target(ws[l]) # Target(ws[m])
               PROVE  Shows(new, ws[m])
  BY DEF Showing
<1>2. CASE m = n + 1
  BY <1>2, WrittenShows
<1>3. CASE m # n + 1
  <2>1. m \in 1 .. n /\ n + 1 \in (m + 1) .. (n + 1)
    BY <1>3
  <2>2. Target(ws[n + 1]) # Target(ws[m])
    BY <1>1, <2>1
  <2>3. \A l \in (m + 1) .. n : Target(ws[l]) # Target(ws[m])
    BY <1>1
  <2>4. Shows(pdo, ws[m])
    BY <2>1, <2>3 DEF Showing
  <2>5. IsWrite(ws[m]) /\ IsWrite(ws[n + 1])
    OBVIOUS
  <2> QED
    BY <2>2, <2>4, <2>5, WrittenShows
<1> QED
  BY <1>2, <1>3

(* What is left of a recipe's writes: nothing is enabled before the last    *)
(* one, and after it the PDO is the whole recipe.                           *)
LEMMA TpdoShows ==
  ASSUME NEW pdo, NEW r, IsRecipe(r), r.dir = "tx"
  PROVE  LET ws == WritesOf(r)
         IN /\ Len(ws) \in Nat \ {0, 1}
            /\ \A m \in 1 .. Len(ws) : IsWrite(ws[m])
            /\ ws[1] = Disable(r)
            /\ \A n \in 1 .. Len(ws) - 1 : Showing(pdo, ws, n) => Shows(pdo, Disable(r))
            /\ Showing(pdo, ws, Len(ws)) => Whole(pdo, r)
<1> DEFINE L == Len(r.entries)  ws == WritesOf(r)
<1>1. /\ L \in Nat /\ Len(ws) = L + 7
      /\ ws[1] = Disable(r) /\ ws[2] = Field("count", 0)
      /\ \A i \in 1 .. L : ws[2 + i] = MapEntry(i, r.entries[i])
      /\ ws[L + 3] = Field("count", L) /\ ws[L + 4] = Field("kind", r.comm.kind)
      /\ ws[L + 5] = Field("inhibit", r.comm.inhibit)
      /\ ws[L + 6] = Field("timer", r.comm.timer) /\ ws[L + 7] = Enable(r)
  BY TpdoWritesAre DEF WritesOf
<1> HIDE DEF ws
<1>2. \A i \in 1 .. L : i \in 1 .. MaxEntries
  BY EntriesAssumption DEF IsRecipe
<1>3. /\ Target(ws[1]) = <<"cob", 0>> /\ Target(ws[2]) = <<"count", 0>>
      /\ Target(ws[L + 3]) = <<"count", 0>> /\ Target(ws[L + 4]) = <<"kind", 0>>
      /\ Target(ws[L + 5]) = <<"inhibit", 0>> /\ Target(ws[L + 6]) = <<"timer", 0>>
      /\ Target(ws[L + 7]) = <<"cob", 0>>
      /\ IsWrite(ws[1]) /\ IsWrite(ws[2]) /\ IsWrite(ws[L + 3]) /\ IsWrite(ws[L + 4])
      /\ IsWrite(ws[L + 5]) /\ IsWrite(ws[L + 6]) /\ IsWrite(ws[L + 7])
  BY <1>1, WriteIsWrite DEF Scalars, Disable, Enable
<1>4. \A i \in 1 .. L : Target(ws[2 + i]) = <<"map", i>> /\ IsWrite(ws[2 + i])
  BY <1>1, <1>2, WriteIsWrite
<1>5. \A m \in 1 .. L + 7 :
        \/ m \in {1, 2, L + 3, L + 4, L + 5, L + 6, L + 7}
        \/ \E i \in 1 .. L : m = 2 + i
  <2> TAKE m \in 1 .. L + 7
  <2>1. m - 2 \in 1 .. L => m = 2 + (m - 2)
    OBVIOUS
  <2> QED
    BY <1>1, <2>1
<1>6. \A m \in 1 .. L + 7 : IsWrite(ws[m])
  BY <1>3, <1>4, <1>5
<1>7. \A m \in 2 .. L + 6 : Target(ws[m]) # <<"cob", 0>>
  <2> TAKE m \in 2 .. L + 6
  <2>1. CASE m \in {2, L + 3, L + 4, L + 5, L + 6}
    BY <1>3, <2>1
  <2>2. CASE \E i \in 1 .. L : m = 2 + i
    <3>1. PICK i \in 1 .. L : m = 2 + i
      BY <2>2
    <3> QED
      BY <1>4, <3>1
  <2> QED
    BY <1>1, <1>5, <2>1, <2>2
<1>8. ASSUME NEW n \in 1 .. L + 6, Showing(pdo, ws, n)
      PROVE  Shows(pdo, ws[1])
  <2>1. 1 \in 1 .. n /\ \A l \in (1 + 1) .. n : l \in 2 .. L + 6
    BY <1>1
  <2> QED
    BY <1>3, <1>7, <1>8, <2>1 DEF Showing
<1>9. ASSUME Showing(pdo, ws, L + 7)
      PROVE  Whole(pdo, r)
  <2>1. \A i \in 1 .. L : Shows(pdo, ws[2 + i])
    <3> TAKE i \in 1 .. L
    <3>1. \A l \in (2 + i + 1) .. (L + 7) : Target(ws[l]) # <<"map", i>>
      <4> TAKE l \in (2 + i + 1) .. (L + 7)
      <4>1. CASE l \in {L + 3, L + 4, L + 5, L + 6, L + 7}
        BY <1>3, <4>1
      <4>2. CASE \E j \in 1 .. L : l = 2 + j
        <5>1. PICK j \in 1 .. L : l = 2 + j
          BY <4>2
        <5>2. i # j
          BY <1>1, <5>1
        <5>3. Target(ws[l]) = <<"map", j>>
          BY <1>4, <5>1
        <5> QED
          BY <5>2, <5>3
      <4>3. l \in 1 .. L + 7 /\ l \notin 1 .. 2
        BY <1>1
      <4> QED
        BY <1>5, <4>1, <4>2, <4>3
    <3>2. 2 + i \in 1 .. L + 7
      BY <1>1
    <3> QED
      BY <1>4, <1>9, <3>1, <3>2 DEF Showing
  <2>2. Shows(pdo, ws[L + 3]) /\ Shows(pdo, ws[L + 4]) /\ Shows(pdo, ws[L + 5])
        /\ Shows(pdo, ws[L + 6]) /\ Shows(pdo, ws[L + 7])
    <3>1. ASSUME NEW m \in {L + 3, L + 4, L + 5, L + 6, L + 7}
          PROVE  Shows(pdo, ws[m])
      <4>1. m \in 1 .. L + 7 /\ \A l \in (m + 1) .. (L + 7) : l \in {L + 4, L + 5, L + 6, L + 7}
        BY <1>1
      <4>2. \A l \in (m + 1) .. (L + 7) : Target(ws[l]) # Target(ws[m])
        <5>1. CASE m = L + 3
          BY <1>1, <1>3, <4>1, <5>1
        <5>2. CASE m = L + 4
          BY <1>1, <1>3, <4>1, <5>2
        <5>3. CASE m = L + 5
          BY <1>1, <1>3, <4>1, <5>3
        <5>4. CASE m = L + 6
          BY <1>1, <1>3, <4>1, <5>4
        <5>5. CASE m = L + 7
          BY <1>1, <4>1, <5>5
        <5> QED
          BY <5>1, <5>2, <5>3, <5>4, <5>5
      <4> QED
        BY <1>9, <4>1, <4>2 DEF Showing
    <3> QED
      BY <3>1
  <2>3. \A i \in 1 .. L : pdo.map[i] = r.entries[i]
    <3> TAKE i \in 1 .. L
    <3>1. Shows(pdo, MapEntry(i, r.entries[i]))
      BY <1>1, <2>1
    <3> QED
      BY <3>1 DEF Shows, MapEntry
  <2>4. /\ pdo.cob = [valid |-> TRUE, id |-> r.cob] /\ pdo.count = L
        /\ pdo.kind = r.comm.kind /\ pdo.inhibit = r.comm.inhibit /\ pdo.timer = r.comm.timer
    BY <1>1, <2>2 DEF Shows, Field, Enable
  <2>5. DOMAIN r.entries = 1 .. L
    BY DEF IsRecipe
  <2> QED
    BY <2>3, <2>4, <2>5 DEF Whole
<1> QED
  BY <1>1, <1>6, <1>8, <1>9 DEF ws

LEMMA RpdoShows ==
  ASSUME NEW pdo, NEW r, IsRecipe(r), r.dir = "rx"
  PROVE  LET ws == WritesOf(r)
         IN /\ Len(ws) \in Nat \ {0, 1}
            /\ \A m \in 1 .. Len(ws) : IsWrite(ws[m])
            /\ ws[1] = Disable(r)
            /\ \A n \in 1 .. Len(ws) - 1 : Showing(pdo, ws, n) => Shows(pdo, Disable(r))
            /\ Showing(pdo, ws, Len(ws)) => Whole(pdo, r)
<1> DEFINE L == Len(r.entries)  ws == WritesOf(r)
<1>1. /\ L \in Nat /\ Len(ws) = L + 5
      /\ ws[1] = Disable(r) /\ ws[2] = Field("kind", r.comm.kind) /\ ws[3] = Field("count", 0)
      /\ \A i \in 1 .. L : ws[3 + i] = MapEntry(i, r.entries[i])
      /\ ws[L + 4] = Field("count", L) /\ ws[L + 5] = Enable(r)
  BY RpdoWritesAre DEF WritesOf
<1> HIDE DEF ws
<1>2. \A i \in 1 .. L : i \in 1 .. MaxEntries
  BY EntriesAssumption DEF IsRecipe
<1>3. /\ Target(ws[1]) = <<"cob", 0>> /\ Target(ws[2]) = <<"kind", 0>>
      /\ Target(ws[3]) = <<"count", 0>>
      /\ Target(ws[L + 4]) = <<"count", 0>> /\ Target(ws[L + 5]) = <<"cob", 0>>
      /\ IsWrite(ws[1]) /\ IsWrite(ws[2]) /\ IsWrite(ws[3])
      /\ IsWrite(ws[L + 4]) /\ IsWrite(ws[L + 5])
  BY <1>1, WriteIsWrite DEF Scalars, Disable, Enable
<1>4. \A i \in 1 .. L : Target(ws[3 + i]) = <<"map", i>> /\ IsWrite(ws[3 + i])
  BY <1>1, <1>2, WriteIsWrite
<1>5. \A m \in 1 .. L + 5 :
        \/ m \in {1, 2, 3, L + 4, L + 5}
        \/ \E i \in 1 .. L : m = 3 + i
  <2> TAKE m \in 1 .. L + 5
  <2>1. m - 3 \in 1 .. L => m = 3 + (m - 3)
    OBVIOUS
  <2> QED
    BY <1>1, <2>1
<1>6. \A m \in 1 .. L + 5 : IsWrite(ws[m])
  BY <1>3, <1>4, <1>5
<1>7. \A m \in 2 .. L + 4 : Target(ws[m]) # <<"cob", 0>>
  <2> TAKE m \in 2 .. L + 4
  <2>1. CASE m \in {2, 3, L + 4}
    BY <1>3, <2>1
  <2>2. CASE \E i \in 1 .. L : m = 3 + i
    <3>1. PICK i \in 1 .. L : m = 3 + i
      BY <2>2
    <3> QED
      BY <1>4, <3>1
  <2> QED
    BY <1>1, <1>5, <2>1, <2>2
<1>8. ASSUME NEW n \in 1 .. L + 4, Showing(pdo, ws, n)
      PROVE  Shows(pdo, ws[1])
  <2>1. 1 \in 1 .. n /\ \A l \in (1 + 1) .. n : l \in 2 .. L + 4
    BY <1>1
  <2> QED
    BY <1>3, <1>7, <1>8, <2>1 DEF Showing
<1>9. ASSUME Showing(pdo, ws, L + 5)
      PROVE  Whole(pdo, r)
  <2>1. \A i \in 1 .. L : Shows(pdo, ws[3 + i])
    <3> TAKE i \in 1 .. L
    <3>1. \A l \in (3 + i + 1) .. (L + 5) : Target(ws[l]) # <<"map", i>>
      <4> TAKE l \in (3 + i + 1) .. (L + 5)
      <4>1. CASE l \in {L + 4, L + 5}
        BY <1>3, <4>1
      <4>2. CASE \E j \in 1 .. L : l = 3 + j
        <5>1. PICK j \in 1 .. L : l = 3 + j
          BY <4>2
        <5>2. i # j
          BY <1>1, <5>1
        <5>3. Target(ws[l]) = <<"map", j>>
          BY <1>4, <5>1
        <5> QED
          BY <5>2, <5>3
      <4>3. l \in 1 .. L + 5 /\ l \notin 1 .. 3
        BY <1>1
      <4> QED
        BY <1>5, <4>1, <4>2, <4>3
    <3>2. 3 + i \in 1 .. L + 5
      BY <1>1
    <3> QED
      BY <1>4, <1>9, <3>1, <3>2 DEF Showing
  <2>2. ASSUME NEW m \in {2, L + 4, L + 5}
        PROVE  Shows(pdo, ws[m])
    <3>1. m \in 1 .. L + 5
      BY <1>1
    <3>2. \A l \in (m + 1) .. (L + 5) : Target(ws[l]) # Target(ws[m])
      <4> TAKE l \in (m + 1) .. (L + 5)
      <4>1. CASE l \in {3, L + 4, L + 5}
        BY <1>1, <1>3, <4>1
      <4>2. CASE \E j \in 1 .. L : l = 3 + j
        <5>1. PICK j \in 1 .. L : l = 3 + j
          BY <4>2
        <5>2. Target(ws[l]) = <<"map", j>>
          BY <1>4, <5>1
        <5> QED
          BY <1>3, <5>2
      <4>3. l \in 1 .. L + 5 /\ l \notin 1 .. 2
        BY <1>1
      <4> QED
        BY <1>5, <4>1, <4>2, <4>3
    <3> QED
      BY <1>9, <3>1, <3>2 DEF Showing
  <2>3. \A i \in 1 .. L : pdo.map[i] = r.entries[i]
    <3> TAKE i \in 1 .. L
    <3>1. Shows(pdo, MapEntry(i, r.entries[i]))
      BY <1>1, <2>1
    <3> QED
      BY <3>1 DEF Shows, MapEntry
  <2>4. /\ pdo.cob = [valid |-> TRUE, id |-> r.cob] /\ pdo.count = L /\ pdo.kind = r.comm.kind
    <3>1. /\ Shows(pdo, Enable(r)) /\ Shows(pdo, Field("count", L))
          /\ Shows(pdo, Field("kind", r.comm.kind))
      BY <1>1, <2>2
    <3> QED
      BY <3>1 DEF Shows, Field, Enable
  <2>5. DOMAIN r.entries = 1 .. L
    BY DEF IsRecipe
  <2> QED
    BY <2>3, <2>4, <2>5 DEF Whole
<1> QED
  BY <1>1, <1>6, <1>8, <1>9 DEF ws
(* A match that has seen every object it reads has seen the whole recipe.   *)
LEMMA MatchIsWhole ==
  ASSUME NEW pdo, NEW r, IsRecipe(r)
  PROVE  /\ Len(ReadsOf(r)) \in Nat \ {0}
         /\ (\A m \in 1 .. Len(ReadsOf(r)) : Shows(pdo, ReadsOf(r)[m])) => Whole(pdo, r)
<1> DEFINE L == Len(r.entries)
<1>1. L \in Nat /\ DOMAIN r.entries = 1 .. L
  BY DEF IsRecipe
<1>2. ASSUME Shows(pdo, Enable(r)), Shows(pdo, Field("count", L)),
             Shows(pdo, Field("kind", r.comm.kind)),
             \A i \in 1 .. L : Shows(pdo, MapEntry(i, r.entries[i])),
             r.dir = "tx" => /\ Shows(pdo, Field("inhibit", r.comm.inhibit))
                             /\ Shows(pdo, Field("timer", r.comm.timer))
      PROVE  Whole(pdo, r)
  <2>1. /\ pdo.cob = [valid |-> TRUE, id |-> r.cob] /\ pdo.count = L
        /\ pdo.kind = r.comm.kind
        /\ r.dir = "tx" => pdo.inhibit = r.comm.inhibit /\ pdo.timer = r.comm.timer
    BY <1>2 DEF Shows, Field, Enable
  <2>2. \A i \in 1 .. L : pdo.map[i] = r.entries[i]
    <3> TAKE i \in 1 .. L
    <3>1. Shows(pdo, MapEntry(i, r.entries[i]))
      BY <1>2
    <3> QED
      BY <3>1 DEF Shows, MapEntry
  <2> QED
    BY <1>1, <2>1, <2>2 DEF Whole
<1>3. CASE r.dir = "tx"
  <2> DEFINE rs == TpdoReads(r)
  <2>1. ReadsOf(r) = rs
    BY <1>3 DEF ReadsOf
  <2>2. /\ Len(rs) = L + 5 /\ rs[1] = Enable(r) /\ rs[2] = Field("count", L)
        /\ \A i \in 1 .. L : rs[2 + i] = MapEntry(i, r.entries[i])
        /\ rs[L + 3] = Field("kind", r.comm.kind)
        /\ rs[L + 4] = Field("inhibit", r.comm.inhibit)
        /\ rs[L + 5] = Field("timer", r.comm.timer)
    BY TpdoReadsAre
  <2> HIDE DEF rs
  <2>3. ASSUME \A m \in 1 .. L + 5 : Shows(pdo, rs[m])
        PROVE  Whole(pdo, r)
    <3>1. /\ Shows(pdo, rs[1]) /\ Shows(pdo, rs[2]) /\ Shows(pdo, rs[L + 3])
          /\ Shows(pdo, rs[L + 4]) /\ Shows(pdo, rs[L + 5])
      BY <1>1, <2>3
    <3>2. \A i \in 1 .. L : Shows(pdo, rs[2 + i])
      <4> TAKE i \in 1 .. L
      <4>1. 2 + i \in 1 .. L + 5
        BY <1>1
      <4> QED
        BY <2>3, <4>1
    <3>3. \A i \in 1 .. L : Shows(pdo, MapEntry(i, r.entries[i]))
      BY <2>2, <3>2
    <3> QED
      BY <1>2, <2>2, <3>1, <3>3
  <2> QED
    BY <1>1, <2>1, <2>2, <2>3
<1>4. CASE r.dir = "rx"
  <2> DEFINE rs == RpdoReads(r)
  <2>1. ReadsOf(r) = rs
    BY <1>4 DEF ReadsOf
  <2>2. /\ Len(rs) = L + 3 /\ rs[1] = Enable(r) /\ rs[2] = Field("kind", r.comm.kind)
        /\ rs[3] = Field("count", L)
        /\ \A i \in 1 .. L : rs[3 + i] = MapEntry(i, r.entries[i])
    BY RpdoReadsAre
  <2> HIDE DEF rs
  <2>3. ASSUME \A m \in 1 .. L + 3 : Shows(pdo, rs[m])
        PROVE  Whole(pdo, r)
    <3>1. Shows(pdo, rs[1]) /\ Shows(pdo, rs[2]) /\ Shows(pdo, rs[3])
      BY <1>1, <2>3
    <3>2. \A i \in 1 .. L : Shows(pdo, rs[3 + i])
      <4> TAKE i \in 1 .. L
      <4>1. 3 + i \in 1 .. L + 3
        BY <1>1
      <4> QED
        BY <2>3, <4>1
    <3>3. \A i \in 1 .. L : Shows(pdo, MapEntry(i, r.entries[i]))
      BY <2>2, <3>2
    <3> QED
      BY <1>2, <1>4, <2>2, <3>1, <3>3
  <2> QED
    BY <1>1, <2>1, <2>2, <2>3
<1> QED
  BY <1>3, <1>4 DEF IsRecipe

-----------------------------------------------------------------------------
(* Lanes.  Where the bytes of a shared frame go.                            *)

(* Objects of B bytes each: the one at entry i begins behind i - 1 of them. *)
Uniform(pdo, i, B) == \A j \in 1 .. i - 1 : Bytes(pdo.map[j]) = B

LEMMA UniformBytes ==
  ASSUME NEW pdo, NEW B \in {1, 4}, NEW i \in Nat \ {0}, Uniform(pdo, i, B)
  PROVE  FirstByte(pdo, i) = IF B = 4 THEN 4 * (i - 1) ELSE i - 1
<1>1. UNION {{j} \X (1 .. Bytes(pdo.map[j])) : j \in 1 .. (i - 1)} = (1 .. (i - 1)) \X (1 .. B)
  <2>1. UNION {{j} \X (1 .. Bytes(pdo.map[j])) : j \in 1 .. (i - 1)}
        = UNION {{j} \X (1 .. B) : j \in 1 .. (i - 1)}
    BY DEF Uniform
  <2>2. UNION {{j} \X (1 .. B) : j \in 1 .. (i - 1)} = (1 .. (i - 1)) \X (1 .. B)
    OBVIOUS
  <2> QED
    BY <2>1, <2>2
<1>2. /\ IsFiniteSet(1 .. (i - 1)) /\ Cardinality(1 .. (i - 1)) = i - 1
      /\ IsFiniteSet(1 .. B) /\ Cardinality(1 .. B) = B
  <2>1. \A n \in Nat : IsFiniteSet(1 .. n) /\ Cardinality(1 .. n) = IF 1 > n THEN 0 ELSE n - 1 + 1
    <3>1. 1 \in Int /\ \A n \in Nat : n \in Int
      OBVIOUS
    <3> QED
      BY <3>1, FS_Interval
  <2>2. \A n \in Nat : IsFiniteSet(1 .. n) /\ Cardinality(1 .. n) = n
    BY <2>1
  <2>3. i - 1 \in Nat
    OBVIOUS
  <2> QED
    BY <2>2, <2>3
<1>3. Cardinality((1 .. (i - 1)) \X (1 .. B)) = (i - 1) * B
  <2>1. Cardinality((1 .. (i - 1)) \X (1 .. B)) = Cardinality(1 .. (i - 1)) * Cardinality(1 .. B)
    BY <1>2, FS_Product, Zenon
  <2> QED
    BY <1>2, <2>1
<1>4. FirstByte(pdo, i) = (i - 1) * B
  BY <1>1, <1>3 DEF FirstByte
<1> QED
  BY <1>4

(* The bytes of a slot in the frame the host packs are those of its motor.  *)
InFrame(bytes, total) ==
  LET frame == PackSharedFrame(total, 8)
  IN {frame[b + 1] : b \in bytes \cap 0 .. (Len(frame) - 1)}

LaneAt(base, slot, total) ==
  total \in 1 .. 8 /\ slot \in 0 .. total - 1 /\ base \in Nat /\ base = 8 * slot
LaneFrom(base, slot, total) == InFrame(base .. (base + 7), total) = {slot} \X (1 .. 8)

LEMMA OwnBytes ==
  ASSUME NEW total, NEW slot, NEW base, LaneAt(base, slot, total)
  PROVE  LaneFrom(base, slot, total)
<1> DEFINE frame == PackSharedFrame(total, 8)
<1>0. total \in 1 .. 8 /\ slot \in 0 .. total - 1 /\ base \in Nat /\ base = 8 * slot
  BY DEF LaneAt
<1>1. /\ Len(frame) = total * 8
      /\ \A b \in 0 .. total * 8 - 1 : frame[b + 1] = <<b \div 8, 1 + (b % 8)>>
  BY <1>0 DEF PackSharedFrame
<1> HIDE DEF frame
<1>2. base .. (base + 7) \cap 0 .. (Len(frame) - 1) = base .. (base + 7)
  BY <1>0, <1>1
<1>3. ASSUME NEW b \in base .. (base + 7)
      PROVE  frame[b + 1] = <<slot, 1 + (b - base)>>
  <2>1. b \in 0 .. total * 8 - 1 /\ b \div 8 = slot /\ b % 8 = b - base
    BY <1>0
  <2> QED
    BY <1>1, <2>1
<1>4. ASSUME NEW k \in 1 .. 8
      PROVE  \E b \in base .. (base + 7) : frame[b + 1] = <<slot, k>>
  <2>1. PICK b \in base .. (base + 7) : b = base + k - 1
    BY <1>0
  <2>2. 1 + (b - base) = k
    BY <1>0, <2>1
  <2>3. frame[b + 1] = <<slot, 1 + (b - base)>>
    BY <1>3, <2>1
  <2> QED
    BY <2>1, <2>2, <2>3
<1>5. {frame[b + 1] : b \in base .. (base + 7)} = {slot} \X (1 .. 8)
  <2>1. ASSUME NEW b \in base .. (base + 7) PROVE frame[b + 1] \in {slot} \X (1 .. 8)
    <3>1. 1 + (b - base) \in 1 .. 8
      BY <1>0
    <3> QED
      BY <1>3, <3>1
  <2>2. \A x \in {slot} \X (1 .. 8) : \E b \in base .. (base + 7) : x = frame[b + 1]
    BY <1>4
  <2> QED
    BY <2>1, <2>2
<1> QED
  BY <1>2, <1>5 DEF frame, InFrame, LaneFrom

(* What a PDO that shows the recipe of a lane maps. *)
Maps(pdo, entries) ==
  pdo.count = Len(entries) /\ \A j \in DOMAIN entries : pdo.map[j] = entries[j]
EightLanes(index, slot, total) ==
  Lanes(<<Entry(index, 2, 32), Entry(index, 3, 32)>>, <<Filler32, Filler32>>, slot, total)
OneLanes(index, slot, total) == Lanes(<<Entry(index, 0, 8)>>, <<Filler8>>, slot, total)

(* The objects of a lane are not the filler object. *)
NoFiller == Nat \ {\h3000}

(* Of a frame of 8-byte lanes a motor takes the one of its slot,            *)
LEMMA EightByteLane ==
  ASSUME NEW p, NEW index \in NoFiller, NEW slot, NEW total, ValidSlot(slot, total),
         Maps(od[p], EightLanes(index, slot, total))
  PROVE  TakenFrom(p, index, total, 8) = OwnLane(slot, 8)
<1> DEFINE own == <<Entry(index, 2, 32), Entry(index, 3, 32)>>
           filler == <<Filler32, Filler32>>
           lanes == Lanes(own, filler, slot, total)
           lane(j) == IF (j - 1) \div 2 = slot THEN own[1 + ((j - 1) % 2)]
                      ELSE filler[1 + ((j - 1) % 2)]
           pdo == od[p]
<1>1. total \in 1 .. 8 /\ slot \in 0 .. total - 1
  BY DEF ValidSlot
<1>2. /\ own = [i \in 1 .. 2 |-> own[i]] /\ filler = [i \in 1 .. 2 |-> filler[i]]
      /\ \A i \in 1 .. 2 : own[i] \in Entries /\ filler[i] \in Entries
      /\ \A i \in 1 .. 2 : own[i].index = index /\ filler[i].index # index
      /\ \A i \in 1 .. 2 : own[i].bits = 32 /\ filler[i].bits = 32
  BY DEF Entry, Entries, Filler32, NoFiller
<1>3. pdo.count = Len(lanes) /\ \A j \in DOMAIN lanes : pdo.map[j] = lanes[j]
  BY DEF Maps, EightLanes
<1> HIDE DEF own, filler, pdo
<1>4. /\ Len(lanes) = total * 2 /\ DOMAIN lanes = 1 .. total * 2
      /\ \A j \in 1 .. total * 2 : lanes[j] = lane(j)
  <2>1. 2 \in {1, 2} /\ slot \in Nat /\ total \in Nat
    BY <1>1
  <2>2. /\ lanes \in Seq(Entries) /\ Len(lanes) = total * 2
        /\ \A j \in 1 .. total * 2 : lanes[j] = lane(j)
    <3>1. InLanes(lanes, 2, own, filler, slot, total)
      BY <1>2, <2>1, LanesAre
    <3> HIDE DEF lanes
    <3> QED
      BY <3>1 DEF InLanes
  <2> HIDE DEF lanes, lane
  <2> QED
    BY <2>2
<1> HIDE DEF lanes, lane
<1>5. \A j \in 1 .. total * 2 :
        /\ pdo.map[j].bits = 32
        /\ pdo.map[j].index = index <=> (j - 1) \div 2 = slot
  <2> TAKE j \in 1 .. total * 2
  <2>1. 1 + ((j - 1) % 2) \in 1 .. 2
    BY <1>1
  <2>2. pdo.map[j] = lane(j)
    <3>1. j \in DOMAIN lanes
      BY <1>4
    <3>2. pdo.map[j] = lanes[j]
      BY <1>3, <3>1
    <3> QED
      BY <1>4, <3>2
  <2> QED
    BY <1>2, <2>1, <2>2 DEF lane
<1>6. \A j \in 1 .. total * 2 : Bytes(pdo.map[j]) = 4
  BY <1>5 DEF Bytes
<1>7. \A i \in 1 .. total * 2 : FirstByte(pdo, i) = 4 * (i - 1)
  <2> TAKE i \in 1 .. total * 2
  <2>1. i \in Nat \ {0} /\ \A j \in 1 .. i - 1 : j \in 1 .. total * 2
    BY <1>1
  <2>2. Uniform(pdo, i, 4)
    BY <1>6, <2>1 DEF Uniform
  <2>3. FirstByte(pdo, i) = IF 4 = 4 THEN 4 * (i - 1) ELSE i - 1
    BY <2>1, <2>2, UniformBytes
  <2> QED
    BY <2>3
<1>8. {j \in 1 .. pdo.count : pdo.map[j].index = index} = {2 * slot + 1, 2 * slot + 2}
  <2>1. \A j \in 1 .. total * 2 : (j - 1) \div 2 = slot <=> j \in {2 * slot + 1, 2 * slot + 2}
    <3> TAKE j \in 1 .. total * 2
    <3>1. PICK d \in Nat : d = (j - 1) \div 2
      BY <1>1
    <3>2. j - 1 = 2 * d \/ j - 1 = 2 * d + 1
      BY <1>1, <3>1
    <3>3. d = slot <=> j \in {2 * slot + 1, 2 * slot + 2}
      BY <1>1, <3>1, <3>2
    <3> QED
      BY <3>1, <3>3
  <2>2. {2 * slot + 1, 2 * slot + 2} \subseteq 1 .. total * 2
    BY <1>1
  <2>3. pdo.count = total * 2
    BY <1>3, <1>4
  <2>4. \A j \in 1 .. total * 2 : pdo.map[j].index = index <=> j \in {2 * slot + 1, 2 * slot + 2}
    BY <1>5, <2>1
  <2> QED
    BY <2>2, <2>3, <2>4
<1>0. PICK base \in Nat : base = 8 * slot
  BY <1>1
<1>9. TakesBytes(pdo, index) = base .. (base + 7)
  <2>1. /\ FirstByte(pdo, 2 * slot + 1) = base
        /\ FirstByte(pdo, 2 * slot + 2) = base + 4
        /\ Bytes(pdo.map[2 * slot + 1]) = 4 /\ Bytes(pdo.map[2 * slot + 2]) = 4
    <3>1. 2 * slot + 1 \in 1 .. total * 2 /\ 2 * slot + 2 \in 1 .. total * 2
      BY <1>1
    <3>2. \A i \in 1 .. total * 2 : i = 2 * slot + 1 => FirstByte(pdo, i) = base
      BY <1>1, <1>0, <1>7
    <3>3. \A i \in 1 .. total * 2 : i = 2 * slot + 2 => FirstByte(pdo, i) = base + 4
      BY <1>1, <1>0, <1>7
    <3>4. /\ FirstByte(pdo, 2 * slot + 1) = base
          /\ FirstByte(pdo, 2 * slot + 2) = base + 4
      BY <3>1, <3>2, <3>3
    <3> QED
      BY <1>6, <1>0, <3>1, <3>4
  <2>2. TakesBytes(pdo, index)
        = (FirstByte(pdo, 2 * slot + 1) .. (FirstByte(pdo, 2 * slot + 1) + Bytes(pdo.map[2 * slot + 1]) - 1))
          \cup (FirstByte(pdo, 2 * slot + 2) .. (FirstByte(pdo, 2 * slot + 2) + Bytes(pdo.map[2 * slot + 2]) - 1))
    BY <1>8 DEF TakesBytes
  <2> QED
    BY <1>1, <1>0, <2>1, <2>2
<1>10. TakenFrom(p, index, total, 8) = {slot} \X (1 .. 8)
  <2>1. TakenFrom(p, index, total, 8) = InFrame(TakesBytes(od[p], index), total)
    BY DEF TakenFrom, InFrame
  <2>2. TakesBytes(od[p], index) = base .. (base + 7)
    BY <1>9 DEF pdo
  <2>3. InFrame(base .. (base + 7), total) = {slot} \X (1 .. 8)
    <3>1. LaneAt(base, slot, total)
      BY <1>0, <1>1 DEF LaneAt
    <3>2. LaneFrom(base, slot, total)
      BY <3>1, OwnBytes, Zenon
    <3> QED
      BY <3>2 DEF LaneFrom
  <2> QED
    BY <2>1, <2>2, <2>3
<1> QED
  BY <1>10 DEF OwnLane

(* and of a frame of one-byte lanes the byte of its slot.                   *)
LEMMA OneByteLane ==
  ASSUME NEW p, NEW index \in NoFiller, NEW slot, NEW total, ValidSlot(slot, total),
         Maps(od[p], OneLanes(index, slot, total))
  PROVE  TakenFrom(p, index, total, 1) = OwnLane(slot, 1)
<1> DEFINE own == <<Entry(index, 0, 8)>>
           filler == <<Filler8>>
           lanes == Lanes(own, filler, slot, total)
           pdo == od[p]
<1>1. total \in 1 .. 8 /\ slot \in 0 .. total - 1
  BY DEF ValidSlot
<1>2. /\ own = [i \in 1 .. 1 |-> own[i]] /\ filler = [i \in 1 .. 1 |-> filler[i]]
      /\ \A i \in 1 .. 1 : own[i] \in Entries /\ filler[i] \in Entries
      /\ own[1].index = index /\ filler[1].index # index
      /\ own[1].bits = 8 /\ filler[1].bits = 8
  BY DEF Entry, Entries, Filler8, NoFiller
<1>3. pdo.count = Len(lanes) /\ \A j \in DOMAIN lanes : pdo.map[j] = lanes[j]
  BY DEF Maps, OneLanes
<1> HIDE DEF own, filler, pdo
<1>4. /\ Len(lanes) = total /\ DOMAIN lanes = 1 .. total
      /\ \A j \in 1 .. total : lanes[j] = IF j - 1 = slot THEN own[1] ELSE filler[1]
  <2>1. 1 \in {1, 2} /\ slot \in Nat /\ total \in Nat
    BY <1>1
  <2>2. InLanes(lanes, 1, own, filler, slot, total)
    BY <1>2, <2>1, LanesAre
  <2> HIDE DEF lanes
  <2>3. \A j \in 1 .. total : (j - 1) \div 1 = j - 1 /\ (j - 1) % 1 = 0 /\ j \in 1 .. total * 1
    BY <1>1
  <2> QED
    BY <1>1, <2>2, <2>3 DEF InLanes
<1> HIDE DEF lanes
<1>5. \A j \in 1 .. total :
        /\ Bytes(pdo.map[j]) = 1
        /\ pdo.map[j].index = index <=> j = slot + 1
  BY <1>1, <1>2, <1>3, <1>4 DEF Bytes
<1>6. FirstByte(pdo, slot + 1) = slot
  <2>1. PICK i \in Nat \ {0} : i = slot + 1
    BY <1>1
  <2>2. \A j \in 1 .. i - 1 : j \in 1 .. total
    BY <1>1, <2>1
  <2>3. Uniform(pdo, i, 1)
    BY <1>5, <2>2 DEF Uniform
  <2>4. FirstByte(pdo, i) = IF 1 = 4 THEN 4 * (i - 1) ELSE i - 1
    BY <2>1, <2>3, UniformBytes
  <2> QED
    BY <1>1, <2>1, <2>4
<1>7. {j \in 1 .. pdo.count : pdo.map[j].index = index} = {slot + 1}
  BY <1>1, <1>3, <1>4, <1>5
<1>8. TakesBytes(pdo, index) = {slot}
  <2>1. slot + 1 \in 1 .. total
    BY <1>1
  <2>2. Bytes(pdo.map[slot + 1]) = 1
    BY <1>5, <2>1
  <2>3. TakesBytes(pdo, index)
        = FirstByte(pdo, slot + 1) .. (FirstByte(pdo, slot + 1) + Bytes(pdo.map[slot + 1]) - 1)
    BY <1>7 DEF TakesBytes
  <2> QED
    BY <1>1, <1>6, <2>2, <2>3
<1> DEFINE frame == PackSharedFrame(total, 1)
<1>9. Len(frame) = total /\ frame[slot + 1] = <<slot, 1>>
  <2>1. frame = [b \in 1 .. total |-> <<(b - 1) \div 1, 1 + ((b - 1) % 1)>>]
    BY <1>1 DEF PackSharedFrame
  <2>2. slot + 1 \in 1 .. total /\ (slot + 1 - 1) \div 1 = slot /\ 1 + ((slot + 1 - 1) % 1) = 1
    BY <1>1
  <2> QED
    BY <1>1, <2>1, <2>2
<1>10. TakesBytes(pdo, index) \cap 0 .. (Len(frame) - 1) = {slot}
  BY <1>1, <1>8, <1>9
<1>11. TakenFrom(p, index, total, 1) = {frame[slot + 1]}
  BY <1>10 DEF TakenFrom, pdo
<1> HIDE DEF frame
<1> QED
  BY <1>9, <1>11 DEF OwnLane
-----------------------------------------------------------------------------
(* Plans.  Which steps there are, and that no two of them undo each other.  *)

LEMMA PlanIs ==
  ASSUME NEW kind \in {"initialize", "configure"}, NEW q
  PROVE  Plan(kind, q) = PlanFor(family, kind, q)
BY DEF Plan, PlanFor

LEMMA ConfigureIs ==
  ASSUME NEW q
  PROVE  /\ Len(Configure(q)) = 12
         /\ Configure(q)[1] = Set("limits", 1) /\ Configure(q)[2] = Set("ranges", q.mapping)
         /\ Configure(q)[3] = Set("lower", q.mapping) /\ Configure(q)[4] = Set("upper", q.mapping)
         /\ Configure(q)[5] = Set("on", 1) /\ Configure(q)[6] = Set("brake", 1)
         /\ Configure(q)[7] = Recipe(Cia402Rpdo1(q.slot, q.total))
         /\ Configure(q)[8] = Set("mode", 5)
         /\ Configure(q)[9] = Set("cw", 6) /\ Configure(q)[10] = Set("cw", 7)
         /\ Configure(q)[11] = Guard /\ Configure(q)[12] = Set("cw", 15)
BY DEF Configure

LEMMA Cia402InitializeIs ==
  ASSUME NEW q
  PROVE  /\ Len(Cia402Initialize(q)) = 3
         /\ Cia402Initialize(q)[1] = Recipe(Cia402Tpdo1(q.timer))
         /\ Cia402Initialize(q)[2] = Recipe(Cia402Tpdo2)
         /\ Cia402Initialize(q)[3] = Set("cw", 0)
BY DEF Cia402Initialize

LEMMA MeowInitializeIs ==
  ASSUME NEW q
  PROVE  LET plan == MeowInitialize(q)
         IN /\ Len(plan) = IF q.shared THEN 8 ELSE 2
            /\ plan[1] = Recipe(MeowTpdo1(q.timer)) /\ plan[2] = Recipe(MeowTpdo2)
            /\ q.shared =>
                 /\ plan[3] = Set("ranges", q.mapping) /\ plan[4] = Set("lower", q.mapping)
                 /\ plan[5] = Set("upper", q.mapping) /\ plan[6] = Set("on", 1)
                 /\ plan[7] = Recipe(MeowRpdo1(q.slot, q.total))
                 /\ plan[8] = Recipe(MeowRpdo2(q.slot, q.total))
<1> DEFINE a == <<Recipe(MeowTpdo1(q.timer)), Recipe(MeowTpdo2)>>
           b == MeowMitSetup(q)
           c == <<Recipe(MeowRpdo1(q.slot, q.total)), Recipe(MeowRpdo2(q.slot, q.total))>>
           S == {a[1], a[2], b[1], b[2], b[3], b[4], c[1], c[2]}
<1>1. a \in Seq(S) /\ b \in Seq(S) /\ c \in Seq(S)
  BY DEF MeowMitSetup
<1>2. /\ Len(a) = 2 /\ a[1] = Recipe(MeowTpdo1(q.timer)) /\ a[2] = Recipe(MeowTpdo2)
      /\ Len(b) = 4 /\ b[1] = Set("ranges", q.mapping) /\ b[2] = Set("lower", q.mapping)
      /\ b[3] = Set("upper", q.mapping) /\ b[4] = Set("on", 1)
      /\ Len(c) = 2 /\ c[1] = Recipe(MeowRpdo1(q.slot, q.total))
      /\ c[2] = Recipe(MeowRpdo2(q.slot, q.total))
  BY DEF MeowMitSetup
<1>3. CASE q.shared
  <2>1. MeowInitialize(q) = a \o b \o c
    BY <1>3 DEF MeowInitialize
  <2> HIDE DEF a, b, c, S
  <2>2. Joins(MeowInitialize(q), a, b, c)
    BY <1>1, <2>1, Joined
  <2> QED
    BY <1>2, <1>3, <2>2 DEF Joins
<1>4. CASE ~q.shared
  BY <1>2, <1>4 DEF MeowInitialize
<1> QED
  BY <1>3, <1>4

(* The PDO each recipe goes to.                                             *)
LEMMA RecipePlaces ==
  /\ \A timer : /\ PdoOf(MeowTpdo1(timer)) = "tx0" /\ MeowTpdo1(timer).dir = "tx"
                /\ PdoOf(Cia402Tpdo1(timer)) = "tx0" /\ Cia402Tpdo1(timer).dir = "tx"
  /\ PdoOf(MeowTpdo2) = "tx1" /\ MeowTpdo2.dir = "tx"
  /\ PdoOf(Cia402Tpdo2) = "tx1" /\ Cia402Tpdo2.dir = "tx"
  /\ \A slot, total :
       /\ PdoOf(MeowRpdo1(slot, total)) = "rx0" /\ MeowRpdo1(slot, total).dir = "rx"
       /\ PdoOf(MeowRpdo2(slot, total)) = "rx1" /\ MeowRpdo2(slot, total).dir = "rx"
       /\ PdoOf(Cia402Rpdo1(slot, total)) = "rx0" /\ Cia402Rpdo1(slot, total).dir = "rx"
BY DEF PdoOf, MeowTpdo1, MeowTpdo2, Cia402Tpdo1, Cia402Tpdo2, MeowRpdo1, MeowRpdo2,
       Cia402Rpdo1, TpdoRecipe, RpdoRecipe

MitFields == {"ranges", "lower", "upper", "on", "brake", "limits", "mode", "cw"}

(* A recipe the two families write, into which PDO.                         *)
MeowRecipes(q) ==
  {MeowTpdo1(q.timer), MeowTpdo2, MeowRpdo1(q.slot, q.total), MeowRpdo2(q.slot, q.total)}
Cia402Recipes(q) == {Cia402Tpdo1(q.timer), Cia402Tpdo2, Cia402Rpdo1(q.slot, q.total)}

LEMMA RecipesAre ==
  ASSUME NEW q \in Requests, NEW r \in MeowRecipes(q) \cup Cia402Recipes(q)
  PROVE  IsRecipe(r) /\ PdoOf(r) \in Pdos
BY FixedRecipes, LaneRecipes, RecipePlaces DEF MeowRecipes, Cia402Recipes, Pdos

(* What every step is.                                                      *)
ItemOK(fam, kind, q, s, item) ==
  /\ item.do \in {"recipe", "set", "guard"}
  /\ item.do = "recipe" =>
       /\ item.recipe \in IF fam = "meow" THEN MeowRecipes(q) ELSE Cia402Recipes(q)
       /\ fam = "cia402" => IF kind = "configure" THEN PdoOf(item.recipe) = "rx0"
                            ELSE PdoOf(item.recipe) \in {"tx0", "tx1"}
  /\ item.do = "set" =>
       /\ item.field \in MitFields
       /\ item.field = "cw" /\ item.value = 15 => kind = "configure" /\ s = 12
       /\ fam = "cia402" /\ kind = "initialize" => item.field = "cw" /\ item.value # 15

LEMMA SetOK ==
  ASSUME NEW fam, NEW kind, NEW q, NEW s, NEW name \in MitFields, NEW v,
         name = "cw" /\ v = 15 => kind = "configure" /\ s = 12,
         fam = "cia402" /\ kind = "initialize" => name = "cw" /\ v # 15
  PROVE  ItemOK(fam, kind, q, s, Set(name, v))
<1>1. Set(name, v).do = "set" /\ Set(name, v).field = name /\ Set(name, v).value = v
  BY DEF Set
<1> QED
  BY <1>1 DEF ItemOK

LEMMA RecipeOK ==
  ASSUME NEW fam, NEW kind, NEW q, NEW s,
         NEW r \in IF fam = "meow" THEN MeowRecipes(q) ELSE Cia402Recipes(q),
         fam = "cia402" => IF kind = "configure" THEN PdoOf(r) = "rx0"
                           ELSE PdoOf(r) \in {"tx0", "tx1"}
  PROVE  ItemOK(fam, kind, q, s, Recipe(r))
<1>1. Recipe(r).do = "recipe" /\ Recipe(r).recipe = r
  BY DEF Recipe
<1> QED
  BY <1>1 DEF ItemOK

LEMMA GuardOK ==
  ASSUME NEW fam, NEW kind, NEW q, NEW s
  PROVE  ItemOK(fam, kind, q, s, Guard)
<1>1. Guard.do = "guard"
  BY DEF Guard
<1> QED
  BY <1>1 DEF ItemOK

LEMMA PlanItems ==
  ASSUME NEW fam \in Families, NEW kind \in {"initialize", "configure"}, NEW q \in Requests,
         kind = "configure" => fam = "cia402",
         NEW s \in 1 .. Len(PlanFor(fam, kind, q))
  PROVE  ItemOK(fam, kind, q, s, PlanFor(fam, kind, q)[s])
<1>1. CASE kind = "configure"
  <2>1. PlanFor(fam, kind, q) = Configure(q) /\ fam = "cia402"
    BY <1>1 DEF PlanFor
  <2>2. s \in 1 .. 12
    BY <2>1, ConfigureIs
  <2>3. CASE s = 7
    <3>1. Cia402Rpdo1(q.slot, q.total) \in Cia402Recipes(q)
      BY DEF Cia402Recipes
    <3>2. ItemOK("cia402", "configure", q, 7, Recipe(Cia402Rpdo1(q.slot, q.total)))
      BY <3>1, RecipePlaces, RecipeOK
    <3> QED
      BY <1>1, <2>1, <2>3, <3>2, ConfigureIs
  <2>4. CASE s = 11
    BY <2>1, <2>4, ConfigureIs, GuardOK
  <2>5. CASE s \in 1 .. 12 \ {7, 11}
    <3>1. PICK name \in MitFields : \E v :
            Configure(q)[s] = Set(name, v) /\ (name = "cw" /\ v = 15 => s = 12)
      BY <2>5, ConfigureIs DEF MitFields
    <3>2. PICK v : Configure(q)[s] = Set(name, v) /\ (name = "cw" /\ v = 15 => s = 12)
      BY <3>1
    <3> QED
      BY <1>1, <2>1, <3>1, <3>2, SetOK
  <2> QED
    BY <2>2, <2>3, <2>4, <2>5
<1>2. CASE kind = "initialize" /\ fam = "cia402"
  <2>1. PlanFor(fam, kind, q) = Cia402Initialize(q)
    BY <1>2 DEF PlanFor
  <2>2. s \in 1 .. 3
    BY <2>1, Cia402InitializeIs
  <2>3. CASE s = 3
    <3>1. ItemOK("cia402", "initialize", q, 3, Set("cw", 0))
      <4>1. "cw" \in MitFields /\ 0 # 15
        BY DEF MitFields
      <4>2. \A v : v # 15 => ItemOK("cia402", "initialize", q, 3, Set("cw", v))
        BY <4>1, SetOK
      <4> QED
        BY <4>1, <4>2
    <3> QED
      BY <1>2, <2>1, <2>3, <3>1, Cia402InitializeIs
  <2>4. CASE s \in {1, 2}
    <3>1. PICK r \in Cia402Recipes(q) : Cia402Initialize(q)[s] = Recipe(r) /\ PdoOf(r) \in {"tx0", "tx1"}
      BY <2>4, Cia402InitializeIs, RecipePlaces DEF Cia402Recipes
    <3> QED
      BY <1>2, <2>1, <3>1, RecipeOK
  <2> QED
    BY <2>2, <2>3, <2>4
<1>3. CASE kind = "initialize" /\ fam = "meow"
  <2>1. PlanFor(fam, kind, q) = MeowInitialize(q)
    BY <1>3 DEF PlanFor
  <2>2. s \in 1 .. 2 \/ (q.shared /\ s \in 1 .. 8)
    BY <2>1, MeowInitializeIs
  <2>3. CASE s \in {1, 2} \/ (q.shared /\ s \in {7, 8})
    <3>1. PICK r \in MeowRecipes(q) : MeowInitialize(q)[s] = Recipe(r)
      BY <2>3, MeowInitializeIs DEF MeowRecipes
    <3> QED
      BY <1>3, <2>1, <3>1, RecipeOK
  <2>4. CASE q.shared /\ s \in 3 .. 6
    <3>1. \E name \in MitFields : \E v : MeowInitialize(q)[s] = Set(name, v) /\ name # "cw"
      BY <2>4, MeowInitializeIs DEF MitFields
    <3> QED
      BY <1>3, <2>1, <3>1, SetOK
  <2> QED
    BY <2>2, <2>3, <2>4
<1> QED
  BY <1>1, <1>2, <1>3 DEF Families
(* No two steps go to the same place.                                       *)
Apart(i1, i2) ==
  /\ (i1.do = "recipe" /\ i2.do = "recipe") => PdoOf(i1.recipe) # PdoOf(i2.recipe)
  /\ (i1.do = "set" /\ i2.do = "set") => i1.field # i2.field \/ i1.field = "cw"

LEMMA PlanApart ==
  ASSUME NEW fam \in Families, NEW kind \in {"initialize", "configure"}, NEW q \in Requests,
         NEW s \in 1 .. Len(PlanFor(fam, kind, q)), NEW t \in 1 .. Len(PlanFor(fam, kind, q)),
         s # t
  PROVE  Apart(PlanFor(fam, kind, q)[s], PlanFor(fam, kind, q)[t])
<1> DEFINE plan == PlanFor(fam, kind, q)
<1>2. CASE kind = "configure"
  <2>1. plan = Configure(q)
    BY <1>2 DEF PlanFor
  <2>2. s \in 1 .. 12 /\ t \in 1 .. 12
    BY <2>1, ConfigureIs
  <2>3. /\ plan[1] = Set("limits", 1) /\ plan[2] = Set("ranges", q.mapping)
        /\ plan[3] = Set("lower", q.mapping) /\ plan[4] = Set("upper", q.mapping)
        /\ plan[5] = Set("on", 1) /\ plan[6] = Set("brake", 1)
        /\ plan[7] = Recipe(Cia402Rpdo1(q.slot, q.total))
        /\ plan[8] = Set("mode", 5) /\ plan[9] = Set("cw", 6) /\ plan[10] = Set("cw", 7)
        /\ plan[11] = Guard /\ plan[12] = Set("cw", 15)
    BY <2>1, ConfigureIs
  <2> HIDE DEF plan
  <2>6. /\ plan[1].field = "limits" /\ plan[2].field = "ranges" /\ plan[3].field = "lower"
        /\ plan[4].field = "upper" /\ plan[5].field = "on" /\ plan[6].field = "brake"
        /\ plan[8].field = "mode" /\ plan[9].field = "cw" /\ plan[10].field = "cw"
        /\ plan[12].field = "cw"
    BY <2>3 DEF Set
  <2>7. /\ \A i \in 1 .. 6 : plan[i].do = "set"
        /\ plan[7].do = "recipe" /\ plan[11].do = "guard"
        /\ \A i \in {8, 9, 10, 12} : plan[i].do = "set"
    <3>1. /\ plan[1].do = "set" /\ plan[2].do = "set" /\ plan[3].do = "set" /\ plan[4].do = "set"
          /\ plan[5].do = "set" /\ plan[6].do = "set" /\ plan[8].do = "set" /\ plan[9].do = "set"
          /\ plan[10].do = "set" /\ plan[12].do = "set"
      BY <2>3 DEF Set
    <3>2. plan[7].do = "recipe" /\ plan[11].do = "guard"
      BY <2>3 DEF Recipe, Guard
    <3> QED
      BY <3>1, <3>2
  <2>8. ASSUME plan[s].do = "recipe", plan[t].do = "recipe"
        PROVE  FALSE
    <3>1. s \in 1 .. 6 \/ s = 7 \/ s = 11 \/ s \in {8, 9, 10, 12}
      BY <2>2
    <3>2. t \in 1 .. 6 \/ t = 7 \/ t = 11 \/ t \in {8, 9, 10, 12}
      BY <2>2
    <3> QED
      BY <2>7, <2>8, <3>1, <3>2
  <2>9. ASSUME plan[s].do = "set", plan[t].do = "set"
        PROVE  plan[s].field # plan[t].field \/ plan[s].field = "cw"
    <3>1. s \in {1, 2, 3, 4, 5, 6, 8, 9, 10, 12} /\ t \in {1, 2, 3, 4, 5, 6, 8, 9, 10, 12}
      BY <2>2, <2>7, <2>9
    <3> QED
      BY <2>6, <3>1
  <2> QED
    BY <2>8, <2>9 DEF Apart, plan
<1>3. CASE kind = "initialize" /\ fam = "cia402"
  <2>1. plan = Cia402Initialize(q)
    BY <1>3 DEF PlanFor
  <2>2. s \in 1 .. 3 /\ t \in 1 .. 3
    BY <2>1, Cia402InitializeIs
  <2>3. /\ plan[1].do = "recipe" /\ PdoOf(plan[1].recipe) = "tx0"
        /\ plan[2].do = "recipe" /\ PdoOf(plan[2].recipe) = "tx1"
        /\ plan[3].do = "set"
    <3>1. /\ plan[1] = Recipe(Cia402Tpdo1(q.timer)) /\ plan[2] = Recipe(Cia402Tpdo2)
          /\ plan[3] = Set("cw", 0)
      BY <2>1, Cia402InitializeIs
    <3> HIDE DEF plan
    <3> QED
      BY <3>1, RecipePlaces DEF Recipe, Set
  <2> HIDE DEF plan
  <2> QED
    BY <2>2, <2>3 DEF Apart, plan
<1>4. CASE kind = "initialize" /\ fam = "meow"
  <2>1. plan = MeowInitialize(q)
    BY <1>4 DEF PlanFor
  <2>2. /\ plan[1].do = "recipe" /\ PdoOf(plan[1].recipe) = "tx0"
        /\ plan[2].do = "recipe" /\ PdoOf(plan[2].recipe) = "tx1"
    <3>1. plan[1] = Recipe(MeowTpdo1(q.timer)) /\ plan[2] = Recipe(MeowTpdo2)
      BY <2>1, MeowInitializeIs
    <3> HIDE DEF plan
    <3> QED
      BY <3>1, RecipePlaces DEF Recipe
  <2>3. CASE ~q.shared
    <3>1. s \in 1 .. 2 /\ t \in 1 .. 2
      BY <2>1, <2>3, MeowInitializeIs
    <3> HIDE DEF plan
    <3> QED
      BY <2>2, <3>1 DEF Apart, plan
  <2>4. CASE q.shared
    <3>1. s \in 1 .. 8 /\ t \in 1 .. 8
      BY <2>1, <2>4, MeowInitializeIs
    <3>2. /\ plan[7].do = "recipe" /\ PdoOf(plan[7].recipe) = "rx0"
          /\ plan[8].do = "recipe" /\ PdoOf(plan[8].recipe) = "rx1"
          /\ plan[3].do = "set" /\ plan[3].field = "ranges"
          /\ plan[4].do = "set" /\ plan[4].field = "lower"
          /\ plan[5].do = "set" /\ plan[5].field = "upper"
          /\ plan[6].do = "set" /\ plan[6].field = "on"
      <4>1. /\ plan[3] = Set("ranges", q.mapping) /\ plan[4] = Set("lower", q.mapping)
            /\ plan[5] = Set("upper", q.mapping) /\ plan[6] = Set("on", 1)
            /\ plan[7] = Recipe(MeowRpdo1(q.slot, q.total))
            /\ plan[8] = Recipe(MeowRpdo2(q.slot, q.total))
        BY <2>1, <2>4, MeowInitializeIs
      <4> HIDE DEF plan
      <4>2. plan[7].do = "recipe" /\ plan[7].recipe = MeowRpdo1(q.slot, q.total)
        BY <4>1 DEF Recipe
      <4>3. plan[8].do = "recipe" /\ plan[8].recipe = MeowRpdo2(q.slot, q.total)
        BY <4>1 DEF Recipe
      <4>4. /\ plan[3].do = "set" /\ plan[3].field = "ranges"
            /\ plan[4].do = "set" /\ plan[4].field = "lower"
            /\ plan[5].do = "set" /\ plan[5].field = "upper"
            /\ plan[6].do = "set" /\ plan[6].field = "on"
        BY <4>1 DEF Set
      <4> QED
        BY <4>2, <4>3, <4>4, RecipePlaces
    <3> HIDE DEF plan
    <3>3. ASSUME plan[s].do = "recipe", plan[t].do = "recipe"
          PROVE  PdoOf(plan[s].recipe) # PdoOf(plan[t].recipe)
      <4>1. s \in {1, 2, 7, 8} /\ t \in {1, 2, 7, 8}
        BY <3>1, <3>2, <3>3
      <4> QED
        BY <2>2, <3>2, <4>1
    <3>4. ASSUME plan[s].do = "set", plan[t].do = "set"
          PROVE  plan[s].field # plan[t].field
      <4>1. s \in 3 .. 6 /\ t \in 3 .. 6
        BY <2>2, <3>1, <3>2, <3>4
      <4> QED
        BY <3>2, <4>1
    <3> QED
      BY <3>3, <3>4 DEF Apart, plan
  <2> QED
    BY <2>3, <2>4
<1> QED
  BY <1>2, <1>3, <1>4 DEF Families

(* A step done keeps the steps done before it, and holds itself.            *)
LEMMA SetHolds ==
  ASSUME NEW fam \in Families, NEW kind \in {"initialize", "configure"}, NEW q \in Requests,
         NEW o, NEW m, MitShape(m), kind = "configure" => fam = "cia402",
         NEW s \in 1 .. Len(PlanFor(fam, kind, q)), PlanFor(fam, kind, q)[s].do = "set",
         AllHold(o, m, PlanFor(fam, kind, q), s - 1, q),
         NEW new, new = [m EXCEPT ![PlanFor(fam, kind, q)[s].field] = PlanFor(fam, kind, q)[s].value]
  PROVE  AllHold(o, new, PlanFor(fam, kind, q), s, q)
<1> DEFINE plan == PlanFor(fam, kind, q)  item == plan[s]
<1>1. ItemOK(fam, kind, q, s, item)
  BY PlanItems
<1>2. item.field \in MitFields
  BY <1>1 DEF ItemOK
<1> HIDE DEF plan
<1>3. /\ new[item.field] = item.value
      /\ \A name \in MitFields : name # item.field => new[name] = m[name]
  BY <1>2 DEF MitShape, MitFields, plan
<1> SUFFICES ASSUME NEW t \in 1 .. s
             PROVE  Holds(o, new, plan[t], q)
  BY DEF AllHold, plan
<1>4. CASE t = s
  BY <1>3, <1>4 DEF Holds, plan
<1>5. CASE t # s
  <2>1. t \in 1 .. s - 1 /\ t \in 1 .. Len(plan)
    BY <1>5 DEF plan
  <2>2. Holds(o, m, plan[t], q)
    BY <2>1 DEF AllHold, plan
  <2>3. Apart(plan[t], item)
    BY <1>5, <2>1, PlanApart DEF plan
  <2>4. ASSUME plan[t].do = "set", plan[t].field # "cw"
        PROVE  plan[t].field # item.field /\ plan[t].field \in MitFields
    <3>1. ItemOK(fam, kind, q, t, plan[t])
      BY <2>1, PlanItems DEF plan
    <3>3. plan[t].field \in MitFields
      BY <2>4, <3>1 DEF ItemOK
    <3>4. item.do = "set"
      BY DEF plan
    <3> QED
      BY <2>3, <2>4, <3>3, <3>4 DEF Apart
  <2> QED
    BY <1>3, <2>2, <2>4 DEF Holds
<1> QED
  BY <1>4, <1>5

LEMMA RecipeKeeps ==
  ASSUME NEW fam \in Families, NEW kind \in {"initialize", "configure"}, NEW q \in Requests,
         NEW o, NEW m, NEW new, kind = "configure" => fam = "cia402",
         NEW s \in 1 .. Len(PlanFor(fam, kind, q)), PlanFor(fam, kind, q)[s].do = "recipe",
         AllHold(o, m, PlanFor(fam, kind, q), s - 1, q),
         \A p \in Pdos : p # PdoOf(PlanFor(fam, kind, q)[s].recipe) => new[p] = o[p]
  PROVE  AllHold(new, m, PlanFor(fam, kind, q), s - 1, q)
<1> DEFINE plan == PlanFor(fam, kind, q)  item == plan[s]
<1> SUFFICES ASSUME NEW t \in 1 .. s - 1
             PROVE  Holds(new, m, plan[t], q)
  BY DEF AllHold
<1> HIDE DEF plan
<1>1. t \in 1 .. Len(plan) /\ t # s /\ item.do = "recipe"
  BY DEF plan
<1>2. Holds(o, m, plan[t], q)
  BY DEF AllHold, plan
<1>3. Apart(plan[t], item)
  BY <1>1, PlanApart DEF plan
<1>4. ASSUME plan[t].do = "recipe"
      PROVE  new[PdoOf(plan[t].recipe)] = o[PdoOf(plan[t].recipe)]
  <2>1. ItemOK(fam, kind, q, t, plan[t])
    BY <1>1, PlanItems DEF plan
  <2>2. plan[t].recipe \in MeowRecipes(q) \cup Cia402Recipes(q)
    BY <1>4, <2>1 DEF ItemOK
  <2>3. PdoOf(plan[t].recipe) \in Pdos
    BY <2>2, RecipesAre
  <2> QED
    BY <1>1, <1>3, <1>4, <2>3 DEF Apart, plan
<1> QED
  BY <1>2, <1>4 DEF Holds
-----------------------------------------------------------------------------
(* Steps of a call.                                                         *)

LEMMA PlanLength ==
  ASSUME NEW fam, NEW kind, NEW q
  PROVE  Len(PlanFor(fam, kind, q)) \in Nat \ {0}
<1>1. CASE kind = "configure"
  BY <1>1, ConfigureIs DEF PlanFor
<1>2. CASE kind # "configure" /\ fam = "meow"
  <2>1. PlanFor(fam, kind, q) = MeowInitialize(q)
    BY <1>2 DEF PlanFor
  <2>2. CASE q.shared
    BY <2>1, <2>2, MeowInitializeIs
  <2>3. CASE ~q.shared
    BY <2>1, <2>3, MeowInitializeIs
  <2> QED
    BY <2>2, <2>3
<1>3. CASE kind # "configure" /\ fam # "meow"
  BY <1>3, Cia402InitializeIs DEF PlanFor
<1> QED
  BY <1>1, <1>2, <1>3

LEMMA RecipeOf ==
  ASSUME NEW fam \in Families, NEW c, Placed(fam, c), AtStep(fam, c),
         ItemOf(fam, c).do = "recipe"
  PROVE  LET r == ItemOf(fam, c).recipe
         IN /\ r \in IF fam = "meow" THEN MeowRecipes(c.q) ELSE Cia402Recipes(c.q)
            /\ IsRecipe(r) /\ PdoOf(r) \in Pdos
            /\ fam = "cia402" => IF c.kind = "configure" THEN PdoOf(r) = "rx0"
                                 ELSE PdoOf(r) \in {"tx0", "tx1"}
<1>1. c \in Calls /\ (c.kind = "configure" => fam = "cia402")
  BY DEF Placed
<1>2. c.kind \in {"initialize", "configure"} /\ c.q \in Requests /\ c.step \in Nat \ {0}
  BY <1>1 DEF Calls
<1>3. Len(PlanFor(fam, c.kind, c.q)) \in Nat
  BY PlanLength
<1>4. c.step \in 1 .. Len(PlanFor(fam, c.kind, c.q))
  BY <1>2, <1>3 DEF AtStep, PlanOf
<1>5. ItemOK(fam, c.kind, c.q, c.step, ItemOf(fam, c))
  BY <1>1, <1>2, <1>4, PlanItems DEF ItemOf, PlanOf
<1> QED
  BY <1>2, <1>5, RecipesAre DEF ItemOK

LEMMA SameStep ==
  ASSUME NEW fam \in Families, NEW s \in Nat, NEW b \in Nat, NEW c,
         Placed(fam, c), Timed(c, s, b), AtStep(fam, c), ItemOf(fam, c).do = "recipe",
         NEW d \in Calls, d.kind = c.kind, d.q = c.q, d.step = c.step,
         d.session = c.session, d.from = c.from, c.from <= d.began, d.began <= b,
         fam = "cia402" => d.phase = "write"
  PROVE  /\ Placed(fam, d) /\ Timed(d, s, b)
         /\ PlanOf(fam, d) = PlanOf(fam, c) /\ ItemOf(fam, d) = ItemOf(fam, c)
<1>1. PlanOf(fam, d) = PlanOf(fam, c)
  BY DEF PlanOf
<1>2. ItemOf(fam, d) = ItemOf(fam, c)
  BY <1>1 DEF ItemOf
<1>3. Placed(fam, d)
  BY <1>1, <1>2 DEF Placed, AtStep
<1>4. Timed(d, s, b)
  BY DEF Timed
<1> QED
  BY <1>1, <1>2, <1>3, <1>4

LEMMA NextStep ==
  ASSUME NEW fam \in Families, NEW s \in Nat, NEW b \in Nat, NEW c,
         Placed(fam, c), Timed(c, s, b), AtStep(fam, c),
         NEW d \in Calls, d.kind = c.kind, d.q = c.q, d.step = c.step + 1, d.at = 1,
         d.session = c.session, d.from = c.from, c.from <= d.began, d.began <= b,
         fam = "cia402" => d.phase = "write",
         NEW o, NEW m, c.from = b => AllHold(o, m, PlanOf(fam, c), c.step, c.q)
  PROVE  Running(fam, d, s, b, o, m)
<1>1. PlanOf(fam, d) = PlanOf(fam, c)
  BY DEF PlanOf
<1>2. Len(PlanOf(fam, c)) \in Nat /\ c \in Calls
  BY PlanLength DEF PlanOf, Placed
<1>3. Placed(fam, d)
  BY <1>1, <1>2 DEF Placed, AtStep, Calls
<1>4. Timed(d, s, b)
  BY DEF Timed
<1>5. Underway(fam, d, b, o)
  BY DEF Underway
<1>6. StepsHold(fam, d, b, o, m)
  <2>1. d.step - 1 = c.step
    BY <1>2 DEF Calls
  <2> QED
    BY <1>1, <2>1 DEF StepsHold
<1> QED
  BY <1>3, <1>4, <1>5, <1>6 DEF Running
(* The object a call writes: o before, new after, at power-up b.            *)
Start(c, b) == IF c.at = 1 THEN b ELSE c.began
WroteTo(new, o, c, b, r) ==
  LET p == PdoOf(r)
  IN /\ c.at \in 1 .. Len(WritesOf(r)) /\ Len(WritesOf(r)) \in Nat \ {0, 1}
     /\ new = [x \in Pdos |-> new[x]] /\ \A x \in Pdos : PdoShape(new[x])
     /\ \A x \in Pdos \ {p} : new[x] = o[x]
     /\ Start(c, b) = b =>
          /\ Showing(new[p], WritesOf(r), c.at)
          /\ c.at < Len(WritesOf(r)) => ~new[p].cob.valid
          /\ c.at = Len(WritesOf(r)) => Whole(new[p], r)

LEMMA OneWrite ==
  ASSUME NEW fam \in Families, NEW b \in Nat, NEW c, Placed(fam, c), AtStep(fam, c),
         ItemOf(fam, c).do = "recipe", c.phase = "write",
         NEW o, Underway(fam, c, b, o), o = [x \in Pdos |-> o[x]], \A x \in Pdos : PdoShape(o[x]),
         NEW r, r = ItemOf(fam, c).recipe,
         NEW new, new = [o EXCEPT ![PdoOf(r)] = Written(@, WritesOf(r)[c.at])]
  PROVE  WroteTo(new, o, c, b, r)
<1> DEFINE p == PdoOf(r)  ws == WritesOf(r)
<1>1. IsRecipe(r) /\ p \in Pdos
  BY RecipeOf
<1>2. c.at \in Nat \ {0}
  BY DEF Placed, Calls
<1>3. r.dir \in {"tx", "rx"}
  BY <1>1 DEF IsRecipe
<1>4. /\ Len(ws) \in Nat \ {0, 1} /\ \A i \in 1 .. Len(ws) : IsWrite(ws[i])
  BY <1>1, <1>3, TpdoShows, RpdoShows
<1>5. \A pdo : \A n \in 1 .. Len(ws) - 1 : Showing(pdo, ws, n) => Shows(pdo, Disable(r))
  BY <1>1, <1>3, TpdoShows, RpdoShows
<1>6. \A pdo : Showing(pdo, ws, Len(ws)) => Whole(pdo, r)
  BY <1>1, <1>3, TpdoShows, RpdoShows
<1> HIDE DEF ws
<1>7. c.at \in 1 .. Len(ws)
  <2>1. CASE c.at = 1
    BY <1>4, <2>1
  <2>2. CASE c.at > 1
    BY <1>2, <1>4, <2>2 DEF Underway, ws
  <2> QED
    BY <1>2, <2>1, <2>2
<1>8. /\ new = [x \in Pdos |-> new[x]]
      /\ new[p] = Written(o[p], ws[c.at]) /\ \A x \in Pdos \ {p} : new[x] = o[x]
  BY <1>1 DEF ws
<1>9. PdoShape(new[p])
  BY <1>1, <1>4, <1>7, <1>8, WrittenShows
<1>10. ASSUME Start(c, b) = b
       PROVE  Showing(new[p], ws, c.at)
  <2>1. Showing(o[p], ws, c.at - 1)
    <3>1. CASE c.at = 1
      BY <3>1 DEF Showing
    <3>2. CASE c.at # 1
      BY <1>2, <1>10, <3>2 DEF Start, Underway, ws
    <3> QED
      BY <3>1, <3>2
  <2>2. PICK n \in Nat : n = c.at - 1
    BY <1>2
  <2>3. n + 1 = c.at
    BY <1>2, <2>2
  <2>4. \A i \in 1 .. n + 1 : IsWrite(ws[i])
    BY <1>4, <1>7, <2>2, <2>3
  <2>5. Showing(Written(o[p], ws[n + 1]), ws, n + 1)
    BY <1>1, <2>1, <2>2, <2>4, OneMoreShows
  <2> QED
    BY <1>8, <2>3, <2>5
<1>11. ASSUME Start(c, b) = b, c.at < Len(ws)
       PROVE  ~new[p].cob.valid
  <2>1. Shows(new[p], Disable(r))
    BY <1>4, <1>5, <1>7, <1>10, <1>11
  <2> QED
    BY <2>1 DEF Shows, Disable, Field
<1>12. ASSUME Start(c, b) = b, c.at = Len(ws)
       PROVE  Whole(new[p], r)
  BY <1>6, <1>10, <1>12
<1> QED
  BY <1>4, <1>7, <1>8, <1>9, <1>10, <1>11, <1>12 DEF WroteTo, ws
(* The call that follows c when the object is acknowledged.                 *)
Follows(d, c) ==
  /\ d \in Calls /\ d.kind = c.kind /\ d.q = c.q
  /\ d.session = c.session /\ d.from = c.from
AfterObject(d, c, fam, n) ==
  \/ c.at < n /\ d.step = c.step /\ d.at = c.at + 1 /\ d.phase = "write"
  \/ c.at = n /\ fam = "meow" /\ d.step = c.step /\ d.at = 1 /\ d.phase = "verify"
  \/ c.at = n /\ fam = "cia402" /\ d.step = c.step + 1 /\ d.at = 1 /\ d.phase = "write"

Moved(c, step, phase, at, began) ==
  [kind |-> c.kind, q |-> c.q, step |-> step, phase |-> phase, at |-> at,
   session |-> c.session, from |-> c.from, began |-> began]

IsMoved(d, c, step, phase, at, began) ==
  /\ Follows(d, c) /\ d.step = step /\ d.phase = phase
  /\ d.at = at /\ d.began = began

LEMMA MovedIs ==
  ASSUME NEW c \in Calls, NEW step \in Nat \ {0}, NEW phase \in {"match", "write", "verify"},
         NEW at \in Nat \ {0}, NEW began \in Nat, NEW d, d = Moved(c, step, phase, at, began)
  PROVE  IsMoved(d, c, step, phase, at, began)
<1>1. /\ c.kind \in {"initialize", "configure"} /\ c.q \in Requests
      /\ c.session \in Nat /\ c.from \in Nat
  BY DEF Calls
<1>2. d \in Calls
  BY <1>1 DEF Moved, Calls
<1> QED
  BY <1>2 DEF Follows, Moved, IsMoved

LEMMA StartBounds ==
  ASSUME NEW b \in Nat, NEW s \in Nat, NEW c \in Calls, Timed(c, s, b)
  PROVE  /\ c.from <= Start(c, b) /\ Start(c, b) <= b
         /\ c.from = b => Start(c, b) = b
BY DEF Timed, Start, Calls

LEMMA WriteRuns ==
  ASSUME NEW fam \in Families, NEW s \in Nat, NEW b \in Nat, NEW c, NEW o, NEW m,
         Running(fam, c, s, b, o, m), AtStep(fam, c),
         ItemOf(fam, c).do = "recipe", c.phase = "write",
         NEW r, r = ItemOf(fam, c).recipe, r.dir = "rx" => ValidSlot(c.q.slot, c.q.total),
         NEW new, WroteTo(new, o, c, b, r),
         NEW d, Follows(d, c), d.began = Start(c, b), AfterObject(d, c, fam, Len(WritesOf(r)))
  PROVE  Running(fam, d, s, b, new, m)
<1> DEFINE plan == PlanOf(fam, c)
<1>1. /\ Placed(fam, c) /\ Timed(c, s, b) /\ Underway(fam, c, b, o) /\ StepsHold(fam, c, b, o, m)
      /\ c \in Calls /\ d \in Calls
  BY DEF Running, Placed, Follows
<1>2. c.step \in 1 .. Len(plan) /\ c.q \in Requests /\ c.kind \in {"initialize", "configure"}
  BY <1>1, PlanLength DEF AtStep, PlanOf, Calls
<1>3. /\ c.from <= d.began /\ d.began <= b /\ (c.from = b => Start(c, b) = b)
  BY <1>1, StartBounds
<1>4. \A x \in Pdos : x # PdoOf(r) => new[x] = o[x]
  BY DEF WroteTo
<1>5. c.from = b => AllHold(new, m, plan, c.step - 1, c.q)
  <2> SUFFICES ASSUME c.from = b PROVE AllHold(new, m, plan, c.step - 1, c.q)
    OBVIOUS
  <2>1. AllHold(o, m, plan, c.step - 1, c.q)
    BY <1>1 DEF StepsHold
  <2> QED
    BY <1>1, <1>2, <1>4, <2>1, RecipeKeeps DEF PlanOf, ItemOf, Placed
<1>6. CASE c.at < Len(WritesOf(r)) /\ d.step = c.step /\ d.at = c.at + 1 /\ d.phase = "write"
  <2>1. /\ Placed(fam, d) /\ Timed(d, s, b)
        /\ PlanOf(fam, d) = PlanOf(fam, c) /\ ItemOf(fam, d) = ItemOf(fam, c)
    BY <1>1, <1>3, <1>6, SameStep DEF Follows
  <2>2. Underway(fam, d, b, new)
    <3>1. d.at - 1 = c.at /\ c.at \in 1 .. Len(WritesOf(r)) /\ Len(WritesOf(r)) \in Nat
      BY <1>6 DEF WroteTo
    <3>2. d.began = b => Showing(new[PdoOf(r)], WritesOf(r), c.at)
      BY DEF WroteTo
    <3> QED
      BY <1>6, <2>1, <3>1, <3>2 DEF Underway
  <2>3. StepsHold(fam, d, b, new, m)
    BY <1>5, <1>6, <2>1 DEF StepsHold, Follows
  <2> QED
    BY <2>1, <2>2, <2>3 DEF Running
<1>7. CASE fam = "meow" /\ d.step = c.step /\ d.at = 1 /\ d.phase = "verify"
  <2>1. /\ Placed(fam, d) /\ Timed(d, s, b)
        /\ PlanOf(fam, d) = PlanOf(fam, c) /\ ItemOf(fam, d) = ItemOf(fam, c)
    BY <1>1, <1>3, <1>7, SameStep DEF Follows
  <2>2. Underway(fam, d, b, new)
    BY <1>7 DEF Underway
  <2>3. StepsHold(fam, d, b, new, m)
    BY <1>5, <1>7, <2>1 DEF StepsHold, Follows
  <2> QED
    BY <2>1, <2>2, <2>3 DEF Running
<1>8. CASE c.at = Len(WritesOf(r)) /\ fam = "cia402" /\ d.step = c.step + 1 /\ d.at = 1
           /\ d.phase = "write"
  <2>1. c.from = b => AllHold(new, m, plan, c.step, c.q)
    <3> SUFFICES ASSUME c.from = b, NEW t \in 1 .. c.step
                 PROVE  Holds(new, m, plan[t], c.q)
      BY DEF AllHold
    <3>1. CASE t = c.step
      <4>1. plan[t] = ItemOf(fam, c)
        BY <3>1 DEF ItemOf
      <4>2. Whole(new[PdoOf(r)], r)
        BY <1>3, <1>8 DEF WroteTo
      <4> QED
        BY <4>1, <4>2 DEF Holds
    <3>2. CASE t # c.step
      <4>1. t \in 1 .. c.step - 1
        BY <1>2, <3>2
      <4> QED
        BY <1>5, <4>1 DEF AllHold
    <3> QED
      BY <3>1, <3>2
  <2> QED
    BY <1>1, <1>3, <1>8, <2>1, NextStep DEF Follows
<1> QED
  BY <1>6, <1>7, <1>8 DEF AfterObject

(* A call that compares goes on, or turns to writing.                       *)
AfterRead(d, c, n) ==
  \/ c.at < n /\ d.step = c.step /\ d.at = c.at + 1 /\ d.phase = c.phase
  \/ c.at >= n /\ d.step = c.step + 1 /\ d.at = 1

LEMMA ReadRuns ==
  ASSUME NEW fam \in Families, NEW s \in Nat, NEW b \in Nat, NEW c, NEW o, NEW m,
         Running(fam, c, s, b, o, m), AtStep(fam, c), fam = "meow",
         ItemOf(fam, c).do = "recipe", c.phase # "write",
         NEW r, r = ItemOf(fam, c).recipe, r.dir = "rx" => ValidSlot(c.q.slot, c.q.total),
         Shows(o[PdoOf(r)], ReadsOf(r)[c.at]),
         NEW d, Follows(d, c), d.began = c.began, AfterRead(d, c, Len(ReadsOf(r)))
  PROVE  Running(fam, d, s, b, o, m)
<1> DEFINE plan == PlanOf(fam, c)  rs == ReadsOf(r)
<1>1. /\ Placed(fam, c) /\ Timed(c, s, b) /\ Underway(fam, c, b, o) /\ StepsHold(fam, c, b, o, m)
      /\ c \in Calls /\ d \in Calls
  BY DEF Running, Placed, Follows
<1>2. c.step \in Nat \ {0} /\ c.at \in Nat \ {0}
  BY <1>1 DEF Calls
<1>3. c.from <= d.began /\ d.began <= b /\ fam # "cia402"
  BY <1>1 DEF Timed
<1>4. IsRecipe(r)
  BY <1>1, RecipeOf
<1>5. Len(rs) \in Nat \ {0}
  BY <1>4, MatchIsWhole
<1>6. (\A i \in 1 .. Len(rs) : Shows(o[PdoOf(r)], rs[i])) => Whole(o[PdoOf(r)], r)
  BY <1>4, MatchIsWhole
<1> HIDE DEF rs
<1>7. c.at \in 1 .. Len(rs)
  <2>1. CASE c.at = 1
    BY <1>5, <2>1
  <2>2. CASE c.at > 1
    BY <1>1, <1>2, <1>5, <2>2 DEF Underway, rs
  <2> QED
    BY <1>2, <2>1, <2>2
<1>8. c.from = b => \A i \in 1 .. c.at : Shows(o[PdoOf(r)], rs[i])
  <2> SUFFICES ASSUME c.from = b, NEW i \in 1 .. c.at
               PROVE  Shows(o[PdoOf(r)], rs[i])
    OBVIOUS
  <2>1. CASE i = c.at
    BY <2>1 DEF rs
  <2>2. CASE i # c.at
    <3>1. c.at > 1 /\ i \in 1 .. c.at - 1
      BY <1>2, <2>2
    <3> QED
      BY <1>1, <3>1 DEF Underway, rs
  <2> QED
    BY <2>1, <2>2
<1>9. CASE c.at < Len(rs) /\ d.step = c.step /\ d.at = c.at + 1 /\ d.phase = c.phase
  <2>1. /\ Placed(fam, d) /\ Timed(d, s, b)
        /\ PlanOf(fam, d) = PlanOf(fam, c) /\ ItemOf(fam, d) = ItemOf(fam, c)
    BY <1>1, <1>3, <1>9, SameStep DEF Follows
  <2>2. d.at - 1 = c.at /\ d.at <= Len(rs) /\ d.from = c.from
    BY <1>2, <1>5, <1>9 DEF Follows
  <2>3. Underway(fam, d, b, o)
    BY <1>8, <1>9, <2>1, <2>2 DEF Underway, rs
  <2>4. StepsHold(fam, d, b, o, m)
    BY <1>1, <1>9, <2>1 DEF StepsHold, Follows
  <2> QED
    BY <2>1, <2>3, <2>4 DEF Running
<1>10. CASE c.at >= Len(rs) /\ d.step = c.step + 1 /\ d.at = 1
  <2>1. c.from = b => AllHold(o, m, plan, c.step, c.q)
    <3> SUFFICES ASSUME c.from = b, NEW t \in 1 .. c.step
                 PROVE  Holds(o, m, plan[t], c.q)
      BY DEF AllHold
    <3>1. CASE t = c.step
      <4>1. plan[t] = ItemOf(fam, c)
        BY <3>1 DEF ItemOf
      <4>2. Whole(o[PdoOf(r)], r)
        BY <1>5, <1>6, <1>7, <1>8, <1>10
      <4> QED
        BY <4>1, <4>2 DEF Holds
    <3>2. CASE t # c.step
      <4>1. t \in 1 .. c.step - 1
        BY <1>2, <3>2
      <4> QED
        BY <1>1, <4>1 DEF AllHold, StepsHold
    <3> QED
      BY <3>1, <3>2
  <2> QED
    BY <1>1, <1>3, <1>10, <2>1, NextStep DEF Follows
<1> QED
  BY <1>9, <1>10 DEF AfterRead, rs
-----------------------------------------------------------------------------
(* Steps of the system.                                                     *)

LEMMA CallIs ==
  ASSUME ConfigInv, call # Idle
  PROVE  /\ call \in Calls /\ family \in Families
         /\ boot \in Nat /\ session \in Nat /\ Running(family, call, session, boot, od, mit)
         /\ Plan(call.kind, call.q) = PlanOf(family, call) /\ Item = ItemOf(family, call)
         /\ PlanDone <=> ~AtStep(family, call)
<1>1. /\ call \in Calls /\ family \in Families
      /\ boot \in Nat /\ session \in Nat /\ Running(family, call, session, boot, od, mit)
  BY DEF ConfigInv, TypeInv, MotorOK, HostOK, CallOK
<1>2. call.kind \in {"initialize", "configure"} /\ call.step \in Nat
  BY <1>1 DEF Calls
<1>3. Plan(call.kind, call.q) = PlanOf(family, call)
  BY <1>2, PlanIs DEF PlanOf
<1>4. Item = ItemOf(family, call)
  BY <1>3 DEF Item, ItemOf
<1>5. Len(PlanOf(family, call)) \in Nat
  BY PlanLength DEF PlanOf
<1>6. PlanDone <=> ~AtStep(family, call)
  BY <1>2, <1>3, <1>5 DEF PlanDone, AtStep
<1> QED
  BY <1>1, <1>3, <1>4, <1>6

LEMMA CallsAreNotIdle ==
  \A c \in Calls : c # Idle
BY DEF Calls, Idle

(* What the TPDOs hold is all an initialized CiA402 motor depends on, and   *)
(* what RPDO1 and the objects other than the control word hold, a drive.    *)
LEMMA AskedKept ==
  ASSUME NEW q \in Requests, NEW o, NEW m, NEW new, NEW newm,
         new["tx0"] = o["tx0"], new["tx1"] = o["tx1"],
         AllHold(o, m, Cia402Initialize(q), 3, q)
  PROVE  AllHold(new, newm, Cia402Initialize(q), 3, q)
<1> DEFINE plan == Cia402Initialize(q)
<1> SUFFICES ASSUME NEW t \in 1 .. 3 PROVE Holds(new, newm, plan[t], q)
  BY DEF AllHold
<1>1. Holds(o, m, plan[t], q)
  BY DEF AllHold
<1>2. /\ plan[1] = Recipe(Cia402Tpdo1(q.timer)) /\ plan[2] = Recipe(Cia402Tpdo2)
      /\ plan[3] = Set("cw", 0)
  BY Cia402InitializeIs
<1> HIDE DEF plan
<1>3. CASE t = 1
  <2>1. plan[t].do = "recipe" /\ PdoOf(plan[t].recipe) = "tx0"
    BY <1>2, <1>3, RecipePlaces DEF Recipe
  <2> QED
    BY <1>1, <2>1 DEF Holds
<1>4. CASE t = 2
  <2>1. plan[t].do = "recipe" /\ PdoOf(plan[t].recipe) = "tx1"
    BY <1>2, <1>4, RecipePlaces DEF Recipe
  <2> QED
    BY <1>1, <2>1 DEF Holds
<1>5. CASE t = 3
  <2>1. plan[t].do = "set" /\ plan[t].field = "cw"
    BY <1>2, <1>5 DEF Set
  <2> QED
    BY <2>1 DEF Holds
<1> QED
  BY <1>3, <1>4, <1>5

LEMMA DrivenKept ==
  ASSUME NEW q \in Requests, NEW o, NEW m, NEW new, NEW newm,
         new["rx0"] = o["rx0"], \A name \in MitFields \ {"cw"} : newm[name] = m[name],
         AllHold(o, m, Configure(q), 11, q)
  PROVE  AllHold(new, newm, Configure(q), 11, q)
<1> DEFINE plan == Configure(q)
<1> SUFFICES ASSUME NEW t \in 1 .. 11 PROVE Holds(new, newm, plan[t], q)
  BY DEF AllHold
<1>1. Holds(o, m, plan[t], q)
  BY DEF AllHold
<1>2. PlanFor("cia402", "configure", q) = plan /\ Len(plan) = 12
  BY ConfigureIs DEF PlanFor
<1>3. ItemOK("cia402", "configure", q, t, plan[t])
  <2> HIDE DEF plan
  <2>1. t \in 1 .. Len(PlanFor("cia402", "configure", q)) /\ "cia402" \in Families
    <3>1. Len(PlanFor("cia402", "configure", q)) = 12
      BY <1>2
    <3>2. t \in 1 .. 12
      OBVIOUS
    <3>3. "cia402" \in Families
      BY DEF Families
    <3> QED
      BY <3>1, <3>2, <3>3
  <2>2. ItemOK("cia402", "configure", q, t, PlanFor("cia402", "configure", q)[t])
    BY <2>1, PlanItems
  <2> QED
    BY <1>2, <2>2
<1> HIDE DEF plan
<1>4. plan[t].do = "recipe" => PdoOf(plan[t].recipe) = "rx0"
  BY <1>3 DEF ItemOK
<1>5. plan[t].do = "set" => plan[t].field \in MitFields
  BY <1>3 DEF ItemOK
<1> QED
  BY <1>1, <1>4, <1>5 DEF Holds

(* Steps that leave the motor alone. *)
LEMMA MotorSame ==
  ASSUME ConfigInv, UNCHANGED <<motor, family, mixed>>
  PROVE  MotorOK' /\ PdosAreWhole'
<1>1. MotorOK /\ PdosAreWhole
  BY DEF ConfigInv, TypeInv
<1>2. boot' = boot /\ od' = od /\ mit' = mit /\ family' = family /\ mixed' = mixed
  BY DEF motor
<1>3. \A p : RecipesFor(p)' = RecipesFor(p)
  BY <1>2 DEF RecipesFor
<1>4. MotorOK'
  BY <1>1, <1>2 DEF MotorOK
<1>5. PdosAreWhole'
  BY <1>1, <1>2, <1>3 DEF PdosAreWhole
<1> QED
  BY <1>4, <1>5

LEMMA CallEnds ==
  ASSUME ConfigInv, UNCHANGED <<motor, family, session, mixed, driven, asked>>, call' = Idle,
         life' = "initialized" => life = "initialized"
  PROVE  ConfigInv'
<1>1. MotorOK' /\ PdosAreWhole'
  BY MotorSame
<1>2. HostOK'
  BY DEF ConfigInv, TypeInv, HostOK, motor
<1>3. CallOK'
  BY DEF CallOK
<1>4. AskedInPlace'
  BY DEF ConfigInv, AskedInPlace, motor
<1>5. DrivenInPlace'
  BY DEF ConfigInv, DrivenInPlace, motor
<1> QED
  BY <1>1, <1>2, <1>3, <1>4, <1>5 DEF ConfigInv, TypeInv

(* A call goes on, and only the host moves. *)
LEMMA CallGoesOn ==
  ASSUME ConfigInv, UNCHANGED <<motor, family, session, life, mixed, driven, asked>>,
         call # Idle, call' \in Calls, call'.kind = call.kind, AtStep(family, call),
         Running(family, call', session, boot, od, mit)
  PROVE  ConfigInv'
<1>1. MotorOK' /\ PdosAreWhole'
  BY MotorSame
<1>2. HostOK'
  BY DEF ConfigInv, TypeInv, HostOK, motor
<1>3. CallOK'
  BY DEF ConfigInv, CallOK, motor
<1>4. AskedInPlace'
  BY DEF ConfigInv, AskedInPlace, motor
<1>5. DrivenInPlace'
  BY DEF ConfigInv, DrivenInPlace, motor
<1> QED
  BY <1>1, <1>2, <1>3, <1>4, <1>5 DEF ConfigInv, TypeInv
LEMMA InitHolds == Init => ConfigInv
<1> SUFFICES ASSUME Init PROVE ConfigInv
  OBVIOUS
<1>1. PdoShape(FactoryPdo)
  BY DEF PdoShape, FactoryPdo
<1>2. MotorOK
  <2>1. MitShape(mit)
    BY DEF Init, FactoryMit, MitShape
  <2> QED
    BY <1>1, <2>1 DEF Init, MotorOK
<1>3. HostOK
  BY DEF Init, HostOK
<1>4. CallOK /\ AskedInPlace /\ DrivenInPlace
  BY DEF Init, CallOK, AskedInPlace, DrivenInPlace
<1>5. PdosAreWhole
  <2>1. \A p \in Pdos : ~od[p].cob.valid
    BY DEF Init, FactoryPdo
  <2> QED
    BY <2>1 DEF PdosAreWhole
<1> QED
  BY <1>2, <1>3, <1>4, <1>5 DEF ConfigInv, TypeInv

(* A call as it starts. *)
LEMMA CallStarts ==
  ASSUME ConfigInv, NEW kind \in {"initialize", "configure"}, NEW q \in Requests,
         kind = "configure" => family = "cia402"
  PROVE  /\ Started(kind, q) \in Calls /\ Started(kind, q).kind = kind
         /\ Running(family, Started(kind, q), session, boot, od, mit)
<1> DEFINE d == Started(kind, q)
<1>1. boot \in Nat /\ session \in Nat /\ session <= boot /\ family \in Families
  BY DEF ConfigInv, TypeInv, MotorOK, HostOK
<1>2. /\ d \in Calls /\ d.kind = kind /\ d.step = 1 /\ d.at = 1
      /\ d.session = session /\ d.from = boot /\ d.began = boot
      /\ d.phase = IF family = "meow" THEN "match" ELSE "write"
  BY <1>1 DEF Started, FirstPhase, Calls
<1> HIDE DEF d
<1>3. Placed(family, d)
  <2>1. Len(PlanOf(family, d)) \in Nat \ {0}
    BY PlanLength DEF PlanOf
  <2> QED
    BY <1>2, <2>1 DEF Placed
<1>4. Timed(d, session, boot)
  BY <1>1, <1>2 DEF Timed
<1>5. Underway(family, d, boot, od)
  BY <1>2 DEF Underway
<1>6. StepsHold(family, d, boot, od, mit)
  <2>1. 1 .. (d.step - 1) = {}
    BY <1>2
  <2> QED
    BY <2>1 DEF StepsHold, AllHold
<1> QED
  BY <1>2, <1>3, <1>4, <1>5, <1>6 DEF d, Running

LEMMA InitializeStarts == ConfigInv /\ CallInitialize => ConfigInv'
<1> SUFFICES ASSUME ConfigInv, CallInitialize PROVE ConfigInv'
  OBVIOUS
<1>1. PICK q \in Requests : call' = Started("initialize", q)
  BY DEF CallInitialize
<1>2. /\ UNCHANGED <<motor, family, session, mixed, driven, asked>> /\ life' = "initializing"
  BY DEF CallInitialize
<1>3. /\ call' \in Calls /\ call'.kind = "initialize"
      /\ Running(family, call', session, boot, od, mit)
  BY <1>1, CallStarts
<1>4. MotorOK' /\ PdosAreWhole'
  BY <1>2, MotorSame
<1>5. HostOK'
  BY <1>2, <1>3 DEF ConfigInv, TypeInv, HostOK, motor
<1>6. CallOK'
  BY <1>2, <1>3 DEF CallOK, motor
<1>7. AskedInPlace'
  BY <1>2 DEF AskedInPlace
<1>8. DrivenInPlace'
  BY <1>2, <1>3 DEF ConfigInv, DrivenInPlace, motor
<1> QED
  BY <1>4, <1>5, <1>6, <1>7, <1>8 DEF ConfigInv, TypeInv

LEMMA ConfigureStarts == ConfigInv /\ CallConfigure => ConfigInv'
<1> SUFFICES ASSUME ConfigInv, CallConfigure PROVE ConfigInv'
  OBVIOUS
<1>1. PICK q \in Requests : call' = Started("configure", q)
  BY DEF CallConfigure
<1>2. /\ UNCHANGED <<motor, family, session, life, mixed, driven, asked>>
      /\ family = "cia402" /\ mit.cw # 15
  BY DEF CallConfigure
<1>3. /\ call' \in Calls /\ call'.kind = "configure"
      /\ Running(family, call', session, boot, od, mit)
  BY <1>1, <1>2, CallStarts
<1>4. MotorOK' /\ PdosAreWhole'
  BY <1>2, MotorSame
<1>5. HostOK'
  BY <1>2, <1>3 DEF ConfigInv, TypeInv, HostOK, motor
<1>6. CallOK'
  BY <1>2, <1>3 DEF CallOK, motor
<1>7. AskedInPlace'
  BY <1>2 DEF ConfigInv, AskedInPlace, motor
<1>8. DrivenInPlace'
  BY <1>2 DEF ConfigInv, DrivenInPlace
<1> QED
  BY <1>4, <1>5, <1>6, <1>7, <1>8 DEF ConfigInv, TypeInv

LEMMA ReadKeeps == ConfigInv /\ ReadNext => ConfigInv'
<1> SUFFICES ASSUME ConfigInv, ReadNext PROVE ConfigInv'
  OBVIOUS
<1> DEFINE r == ItemOf(family, call).recipe  n == Len(ReadsOf(r))
<1>1. /\ call # Idle /\ ~PlanDone /\ call.phase \in {"match", "verify"}
      /\ Item.do = "recipe" /\ Acceptable(Item.recipe)
  BY DEF ReadNext, OnRecipe
<1>2. /\ call \in Calls /\ family \in Families /\ boot \in Nat /\ session \in Nat
      /\ Running(family, call, session, boot, od, mit) /\ AtStep(family, call)
      /\ Item = ItemOf(family, call)
  BY <1>1, CallIs
<1>3. Placed(family, call) /\ family = "meow" /\ call.phase # "write"
  BY <1>1, <1>2 DEF Running, Placed, Families
<1>4. n \in Nat \ {0}
  <2>1. IsRecipe(r)
    BY <1>1, <1>2, <1>3, RecipeOf
  <2> QED
    BY <2>1, MatchIsWhole
<1>5. UNCHANGED <<motor, family, session, mixed, driven, asked>>
  BY DEF ReadNext, Failed
<1>6. CASE call' = Idle
  <2>1. life' = "initialized" => life = "initialized"
    BY DEF ReadNext, Failed
  <2> QED
    BY <1>5, <1>6, <2>1, CallEnds
<1>7. ASSUME Shows(od[PdoOf(r)], ReadsOf(r)[call.at]), life' = life,
             call' = IF call.at < n THEN [call EXCEPT !.at = @ + 1] ELSE Advance
      PROVE  ConfigInv'
  <2>1. /\ Follows(call', call) /\ call'.began = call.began /\ AfterRead(call', call, n)
    <3>1. CASE call.at < n
      <4>1. call' = [call EXCEPT !.at = @ + 1]
        BY <1>7, <3>1
      <4>2. /\ call' = Moved(call, call.step, call.phase, call.at + 1, call.began)
            /\ call.step \in Nat \ {0} /\ call.at + 1 \in Nat \ {0} /\ call.began \in Nat
            /\ call.phase \in {"match", "write", "verify"}
        BY <1>2, <4>1 DEF Calls, Moved
      <4>3. IsMoved(call', call, call.step, call.phase, call.at + 1, call.began)
        BY <1>2, <4>2, MovedIs
      <4> HIDE DEF n
      <4> QED
        BY <3>1, <4>3 DEF AfterRead, IsMoved
    <3>2. CASE ~(call.at < n)
      <4>1. call' = [call EXCEPT !.step = @ + 1, !.phase = "match", !.at = 1]
        BY <1>3, <1>7, <3>2 DEF Advance, FirstPhase
      <4>2. call.at >= n
        BY <1>2, <1>4, <3>2 DEF Calls
      <4>5. call.step + 1 \in Nat \ {0} /\ call.began \in Nat
        BY <1>2 DEF Calls
      <4>3. /\ call' = Moved(call, call.step + 1, "match", 1, call.began)
            /\ call.step + 1 \in Nat \ {0} /\ call.began \in Nat
        BY <1>2, <4>1, <4>5 DEF Calls, Moved
      <4>4. IsMoved(call', call, call.step + 1, "match", 1, call.began)
        BY <1>2, <4>3, MovedIs
      <4> HIDE DEF n
      <4> QED
        BY <4>2, <4>4 DEF AfterRead, IsMoved
    <3> QED
      BY <3>1, <3>2
  <2>2. r.dir = "rx" => ValidSlot(call.q.slot, call.q.total)
    BY <1>1, <1>2 DEF Acceptable
  <2>3. Running(family, call', session, boot, od, mit)
    BY <1>1, <1>2, <1>3, <1>7, <2>1, <2>2, ReadRuns
  <2>4. call' \in Calls /\ call'.kind = call.kind
    BY <2>1 DEF Follows
  <2> QED
    BY <1>1, <1>2, <1>5, <1>7, <2>3, <2>4, CallGoesOn
<1>8. ASSUME call' = [call EXCEPT !.phase = "write", !.at = 1], life' = life
      PROVE  ConfigInv'
  <2>1. /\ Follows(call', call) /\ call'.began = call.began /\ call'.step = call.step
        /\ call'.phase = "write" /\ call'.at = 1
    <3>1. /\ call' = Moved(call, call.step, "write", 1, call.began)
          /\ call.step \in Nat \ {0} /\ call.began \in Nat
      BY <1>2, <1>8 DEF Calls, Moved
    <3>2. IsMoved(call', call, call.step, "write", 1, call.began)
      BY <1>2, <3>1, MovedIs
    <3> QED
      BY <3>2 DEF IsMoved
  <2>2. /\ Placed(family, call) /\ Timed(call, session, boot)
        /\ StepsHold(family, call, boot, od, mit)
    BY <1>2 DEF Running
  <2>3. call.from <= call'.began /\ call'.began <= boot
    BY <2>1, <2>2 DEF Timed
  <2>4. /\ Placed(family, call') /\ Timed(call', session, boot)
        /\ PlanOf(family, call') = PlanOf(family, call)
    BY <1>1, <1>2, <2>1, <2>2, <2>3, SameStep DEF Follows
  <2>5. Underway(family, call', boot, od)
    BY <2>1 DEF Underway
  <2>6. StepsHold(family, call', boot, od, mit)
    BY <2>1, <2>2, <2>4 DEF StepsHold, Follows
  <2>7. Running(family, call', session, boot, od, mit)
    BY <2>4, <2>5, <2>6 DEF Running
  <2>8. call' \in Calls /\ call'.kind = call.kind
    BY <2>1 DEF Follows
  <2> QED
    BY <1>1, <1>2, <1>5, <1>8, <2>7, <2>8, CallGoesOn
<1> QED
  BY <1>2, <1>6, <1>7, <1>8 DEF ReadNext, Failed
(* What a call may do to an initialized motor. *)
LEMMA CallConfigures ==
  ASSUME ConfigInv, call # Idle, life = "initialized"
  PROVE  call.kind = "configure" /\ family = "cia402"
<1>1. Placed(family, call) /\ call.kind # "initialize"
  BY DEF ConfigInv, CallOK, Running
<1>2. call \in Calls
  BY <1>1 DEF Placed
<1> QED
  BY <1>1, <1>2 DEF Placed, Calls

LEMMA InitializeIs ==
  ASSUME family = "cia402", NEW q
  PROVE  /\ PlanFor(family, "initialize", q) = Cia402Initialize(q)
         /\ Len(PlanFor(family, "initialize", q)) = 3
BY Cia402InitializeIs DEF PlanFor

(* One object is written into PDO p. *)
LEMMA WriteKeepsPdos ==
  ASSUME ConfigInv, WriteNext,
         NEW r, r = ItemOf(family, call).recipe, WroteTo(od', od, call, boot, r),
         PdoOf(r) \in Pdos,
         r \in IF family = "meow" THEN MeowRecipes(call.q) ELSE Cia402Recipes(call.q),
         mixed' = IF Start(call, boot) # boot THEN mixed \cup {PdoOf(r)}
                  ELSE IF call.at = 1 THEN mixed \ {PdoOf(r)} ELSE mixed,
         call.q \in Requests
  PROVE  PdosAreWhole'
<1>1. family' = family
  BY DEF WriteNext, Failed
<1>2. \A x : RecipesFor(x)' = RecipesFor(x)
  BY <1>1 DEF RecipesFor
<1>3. r \in RecipesFor(PdoOf(r))
  BY DEF RecipesFor, MeowRecipes, Cia402Recipes
<1> SUFFICES ASSUME NEW x \in Pdos, x \notin mixed', od'[x].cob.valid
             PROVE  \E k \in RecipesFor(x) : Whole(od'[x], k)
  BY <1>2 DEF PdosAreWhole
<1>4. CASE x = PdoOf(r)
  <2>1. Start(call, boot) = boot
    BY <1>4
  <2>2. Whole(od'[x], r)
    BY <1>4, <2>1 DEF WroteTo
  <2> QED
    BY <1>3, <1>4, <2>2
<1>5. CASE x # PdoOf(r)
  <2>1. x \notin mixed /\ od'[x] = od[x]
    BY <1>5 DEF WroteTo
  <2> QED
    BY <2>1 DEF ConfigInv, PdosAreWhole
<1> QED
  BY <1>4, <1>5

LEMMA WriteKeeps == ConfigInv /\ WriteNext => ConfigInv'
<1> SUFFICES ASSUME ConfigInv, WriteNext PROVE ConfigInv'
  OBVIOUS
<1> DEFINE r == ItemOf(family, call).recipe  n == Len(WritesOf(r))
<1>1. /\ call # Idle /\ ~PlanDone /\ call.phase = "write"
      /\ Item.do = "recipe" /\ Acceptable(Item.recipe)
  BY DEF WriteNext, OnRecipe
<1>2. /\ call \in Calls /\ family \in Families /\ boot \in Nat /\ session \in Nat
      /\ Running(family, call, session, boot, od, mit) /\ AtStep(family, call)
      /\ Item = ItemOf(family, call)
  BY <1>1, CallIs
<1>3. /\ Placed(family, call) /\ Timed(call, session, boot) /\ Underway(family, call, boot, od)
      /\ call.q \in Requests /\ call.kind \in {"initialize", "configure"}
  BY <1>2 DEF Running, Calls
<1>4. /\ r \in IF family = "meow" THEN MeowRecipes(call.q) ELSE Cia402Recipes(call.q)
      /\ IsRecipe(r) /\ PdoOf(r) \in Pdos
      /\ family = "cia402" => IF call.kind = "configure" THEN PdoOf(r) = "rx0"
                              ELSE PdoOf(r) \in {"tx0", "tx1"}
  BY <1>1, <1>2, <1>3, RecipeOf
<1>5. /\ boot' = boot /\ mit' = mit /\ driven' = driven /\ family' = family /\ session' = session
      /\ asked' = asked /\ (life' = "initialized" => life = "initialized")
      /\ od' = [od EXCEPT ![PdoOf(r)] = Written(@, WritesOf(r)[call.at])]
      /\ mixed' = IF Start(call, boot) # boot THEN mixed \cup {PdoOf(r)}
                  ELSE IF call.at = 1 THEN mixed \ {PdoOf(r)} ELSE mixed
  BY <1>2 DEF WriteNext, Failed, Start
<1>6. WroteTo(od', od, call, boot, r)
  <2>1. od = [x \in Pdos |-> od[x]] /\ \A x \in Pdos : PdoShape(od[x])
    BY DEF ConfigInv, TypeInv, MotorOK
  <2> QED
    BY <1>1, <1>2, <1>3, <1>5, <2>1, OneWrite
<1> HIDE DEF r
<1>7. MotorOK'
  BY <1>5, <1>6 DEF ConfigInv, TypeInv, MotorOK, WroteTo
<1>8. PdosAreWhole'
  BY <1>3, <1>4, <1>5, <1>6, WriteKeepsPdos DEF r
<1>9. AskedInPlace'
  <2> SUFFICES ASSUME life' = "initialized", session' = boot', asked' # None
               PROVE  LET plan == PlanFor(family', "initialize", asked')
                      IN AllHold(od', mit', plan, Len(plan), asked')
    BY DEF AskedInPlace
  <2>1. life = "initialized" /\ session = boot /\ asked # None
    BY <1>5
  <2>2. call.kind = "configure" /\ family = "cia402"
    BY <1>1, <2>1, CallConfigures
  <2>3. od'["tx0"] = od["tx0"] /\ od'["tx1"] = od["tx1"]
    BY <1>4, <1>6, <2>2 DEF WroteTo, Pdos
  <2>4. asked \in Requests
    BY <2>1 DEF ConfigInv, TypeInv, HostOK
  <2>5. AllHold(od, mit, Cia402Initialize(asked), 3, asked)
    BY <2>1, <2>2, InitializeIs DEF ConfigInv, AskedInPlace
  <2>6. AllHold(od', mit, Cia402Initialize(asked), 3, asked)
    BY <2>3, <2>4, <2>5, AskedKept
  <2> QED
    BY <1>5, <2>2, <2>6, InitializeIs
<1>10. /\ DrivenInPlace'
  <2> SUFFICES ASSUME driven # None PROVE DrivenInPlace'
    BY <1>5 DEF DrivenInPlace
  <2>1. /\ family = "cia402" /\ mit.cw = 15 /\ call.kind = "initialize"
        /\ driven \in Requests
        /\ mixed \cap {"mit", "rx0"} = {} => AllHold(od, mit, Configure(driven), 11, driven)
    BY <1>1, <1>2, <1>3 DEF ConfigInv, DrivenInPlace, TypeInv, HostOK
  <2>2. od'["rx0"] = od["rx0"] /\ PdoOf(r) \in {"tx0", "tx1"}
    BY <1>4, <1>6, <2>1 DEF WroteTo, Pdos
  <2>3. ASSUME mixed' \cap {"mit", "rx0"} = {}
        PROVE  AllHold(od', mit', Configure(driven), 11, driven)
    <3>1. mixed \cap {"mit", "rx0"} = {}
      BY <1>5, <2>2, <2>3
    <3> QED
      BY <1>5, <2>1, <2>2, <3>1, DrivenKept
  <2>4. call' = Idle \/ call'.kind = "initialize"
    <3>1. CASE call' = Idle
      BY <3>1
    <3>2. CASE call' = [AfterWrite(WritesOf(r)) EXCEPT !.began = Start(call, boot)]
      BY <1>2, <2>1, <3>2 DEF AfterWrite, Advance, Calls
    <3> QED
      BY <1>2, <3>1, <3>2 DEF WriteNext, Failed, Start, r
  <2> QED
    BY <1>5, <2>1, <2>3, <2>4 DEF DrivenInPlace
<1>11. HostOK' /\ CallOK'
  <2>1. CASE call' = Idle
    BY <1>5, <2>1 DEF ConfigInv, TypeInv, HostOK, CallOK
  <2>2. CASE call' = [AfterWrite(WritesOf(r)) EXCEPT !.began = Start(call, boot)] /\ life' = life
    <3>1. /\ Follows(call', call) /\ call'.began = Start(call, boot)
          /\ AfterObject(call', call, family, n)
      <4>1. /\ Start(call, boot) \in Nat /\ call.step \in Nat \ {0} /\ call.at \in 1 .. n
            /\ call.at + 1 \in Nat \ {0} /\ n \in Nat
        BY <1>2, <1>6 DEF Calls, Start, WroteTo
      <4>2. CASE call.at < n
        <5>1. call' = Moved(call, call.step, "write", call.at + 1, Start(call, boot))
          BY <1>1, <1>2, <2>2, <4>2 DEF AfterWrite, Calls, Moved
        <5>2. IsMoved(call', call, call.step, "write", call.at + 1, Start(call, boot))
          BY <1>2, <4>1, <5>1, MovedIs
        <5> HIDE DEF n
        <5> QED
          BY <4>2, <5>2 DEF AfterObject, IsMoved
      <4>3. CASE ~(call.at < n) /\ family = "meow"
        <5>1. call' = Moved(call, call.step, "verify", 1, Start(call, boot))
          BY <1>1, <1>2, <2>2, <4>3 DEF AfterWrite, Calls, Moved
        <5>2. IsMoved(call', call, call.step, "verify", 1, Start(call, boot))
          BY <1>2, <4>1, <5>1, MovedIs
        <5>3. call.at = n
          BY <4>1, <4>3
        <5> HIDE DEF n
        <5> QED
          BY <4>3, <5>2, <5>3 DEF AfterObject, IsMoved
      <4>4. CASE ~(call.at < n) /\ family # "meow"
        <5>1. call' = Moved(call, call.step + 1, "write", 1, Start(call, boot))
          BY <1>1, <1>2, <2>2, <4>4 DEF AfterWrite, Advance, FirstPhase, Calls, Moved
        <5>2. call.step + 1 \in Nat \ {0}
          BY <4>1
        <5>3. IsMoved(call', call, call.step + 1, "write", 1, Start(call, boot))
          BY <1>2, <4>1, <5>1, <5>2, MovedIs
        <5>4. call.at = n /\ family = "cia402"
          BY <1>2, <4>1, <4>4 DEF Families
        <5> HIDE DEF n
        <5> QED
          BY <5>3, <5>4 DEF AfterObject, IsMoved
      <4> QED
        BY <4>2, <4>3, <4>4
    <3>2. r.dir = "rx" => ValidSlot(call.q.slot, call.q.total)
      BY <1>1, <1>2 DEF Acceptable, r
    <3>3. Running(family, call', session, boot, od', mit)
      BY <1>1, <1>2, <1>6, <3>1, <3>2, WriteRuns DEF r
    <3>4. call' \in Calls /\ call'.kind = call.kind
      BY <3>1 DEF Follows
    <3> QED
      BY <1>1, <1>5, <2>2, <3>3, <3>4 DEF ConfigInv, TypeInv, HostOK, CallOK
  <2> QED
    BY <1>2, <2>1, <2>2 DEF WriteNext, Failed, Start, r
<1> QED
  BY <1>7, <1>8, <1>9, <1>10, <1>11 DEF ConfigInv, TypeInv
(* The step after this one, when nothing but its own place changes.         *)
LEMMA AdvanceRuns ==
  ASSUME ConfigInv, call # Idle, ~PlanDone, call' = Advance,
         NEW o, NEW m,
         call.from = boot => AllHold(o, m, PlanOf(family, call), call.step, call.q)
  PROVE  /\ call' \in Calls /\ call'.kind = call.kind /\ call'.q = call.q
         /\ call'.step = call.step + 1
         /\ Running(family, call', session, boot, o, m)
<1>1. /\ call \in Calls /\ family \in Families /\ boot \in Nat /\ session \in Nat
      /\ Running(family, call, session, boot, od, mit) /\ AtStep(family, call)
  BY CallIs
<1>2. Placed(family, call) /\ Timed(call, session, boot)
  BY <1>1 DEF Running
<1>3. FirstPhase \in {"match", "write", "verify"} /\ (family = "cia402" => FirstPhase = "write")
  BY DEF FirstPhase
<1>4. call.step + 1 \in Nat \ {0} /\ call.began \in Nat
  BY <1>1 DEF Calls
<1>5. call' = Moved(call, call.step + 1, FirstPhase, 1, call.began)
  BY <1>1 DEF Advance, Calls, Moved
<1>6. IsMoved(call', call, call.step + 1, FirstPhase, 1, call.began)
  BY <1>1, <1>3, <1>4, <1>5, MovedIs
<1>7. /\ call' \in Calls /\ call'.kind = call.kind /\ call'.q = call.q
      /\ call'.session = call.session /\ call'.from = call.from /\ call'.step = call.step + 1
      /\ call'.phase = FirstPhase /\ call'.at = 1 /\ call'.began = call.began
  BY <1>6 DEF IsMoved, Follows
<1>8. call.from <= call'.began /\ call'.began <= boot
  BY <1>2, <1>7 DEF Timed
<1>9. Running(family, call', session, boot, o, m)
  BY <1>1, <1>2, <1>3, <1>7, <1>8, NextStep
<1> QED
  BY <1>7, <1>9

MitSet(new, m, name, v) ==
  /\ MitShape(new) /\ new[name] = v
  /\ \A other \in MitFields : other # name => new[other] = m[other]

LEMMA MitWritten ==
  ASSUME NEW m, MitShape(m), NEW name \in MitFields, NEW v, NEW new, new = [m EXCEPT ![name] = v]
  PROVE  MitSet(new, m, name, v)
BY DEF MitShape, MitFields, MitSet

LEMMA SetKeeps == ConfigInv /\ SetNext => ConfigInv'
<1> SUFFICES ASSUME ConfigInv, SetNext PROVE ConfigInv'
  OBVIOUS
<1> DEFINE plan == PlanOf(family, call)  item == plan[call.step]
<1>1. /\ call # Idle /\ ~PlanDone /\ Item.do = "set"
  BY DEF SetNext
<1>2. /\ call \in Calls /\ family \in Families /\ boot \in Nat /\ session \in Nat
      /\ Running(family, call, session, boot, od, mit) /\ AtStep(family, call)
      /\ Item = item
  BY <1>1, CallIs DEF ItemOf
<1>3. /\ call.q \in Requests /\ call.kind \in {"initialize", "configure"}
      /\ call.kind = "configure" => family = "cia402"
      /\ StepsHold(family, call, boot, od, mit)
  BY <1>2 DEF Running, Placed, Calls
<1>4. call.step \in 1 .. Len(plan) /\ call.step \in Nat
  BY <1>2, PlanLength DEF AtStep, PlanOf, Calls
<1>5. /\ boot' = boot /\ od' = od /\ family' = family /\ session' = session
      /\ asked' = asked /\ (life' = "initialized" => life = "initialized")
      /\ mit' = [mit EXCEPT ![item.field] = item.value]
      /\ mixed' = IF call.from # boot THEN mixed \cup {"mit"} ELSE mixed
      /\ driven' = IF item.field = "cw" THEN (IF item.value = 15 THEN call.q ELSE None) ELSE driven
  BY <1>2 DEF SetNext, Failed
<1>6. ItemOK(family, call.kind, call.q, call.step, item)
  BY <1>2, <1>3, <1>4, PlanItems DEF PlanOf
<1>7. item.do = "set" /\ item.field \in MitFields
      /\ (item.field = "cw" /\ item.value = 15 => call.kind = "configure" /\ call.step = 12)
  BY <1>1, <1>2, <1>6 DEF ItemOK
<1>8. MitShape(mit)
  BY DEF ConfigInv, TypeInv, MotorOK
<1>9. call.from = boot => AllHold(od, mit', plan, call.step, call.q)
  <2> SUFFICES ASSUME call.from = boot PROVE AllHold(od, mit', plan, call.step, call.q)
    OBVIOUS
  <2>1. AllHold(od, mit, plan, call.step - 1, call.q)
    BY <1>3 DEF StepsHold
  <2> QED
    BY <1>2, <1>3, <1>4, <1>5, <1>7, <1>8, <2>1, SetHolds DEF PlanOf
<1> HIDE DEF plan
<1>10. /\ MitShape(mit') /\ mit'[item.field] = item.value
       /\ \A other \in MitFields : other # item.field => mit'[other] = mit[other]
  <2>1. MitSet(mit', mit, item.field, item.value)
    BY <1>5, <1>7, <1>8, MitWritten
  <2> QED
    BY <2>1 DEF MitSet
<1>11. MotorOK'
  BY <1>5, <1>10 DEF ConfigInv, TypeInv, MotorOK
<1>12. PdosAreWhole'
  <2>1. \A x : RecipesFor(x)' = RecipesFor(x)
    BY <1>5 DEF RecipesFor
  <2>2. mixed \subseteq mixed'
    BY <1>5
  <2> QED
    BY <1>5, <2>1, <2>2 DEF ConfigInv, PdosAreWhole
<1>13. AskedInPlace'
  <2> SUFFICES ASSUME life' = "initialized", session' = boot', asked' # None
               PROVE  LET p == PlanFor(family', "initialize", asked')
                      IN AllHold(od', mit', p, Len(p), asked')
    BY DEF AskedInPlace
  <2>1. life = "initialized" /\ session = boot /\ asked # None
    BY <1>5
  <2>2. family = "cia402"
    BY <1>1, <2>1, CallConfigures
  <2>3. asked \in Requests
    BY <2>1 DEF ConfigInv, TypeInv, HostOK
  <2>4. AllHold(od, mit, Cia402Initialize(asked), 3, asked)
    BY <2>1, <2>2, InitializeIs DEF ConfigInv, AskedInPlace
  <2>5. AllHold(od, mit', Cia402Initialize(asked), 3, asked)
    BY <2>3, <2>4, AskedKept
  <2> QED
    BY <1>5, <2>2, <2>5, InitializeIs
<1>14. ASSUME item.field = "cw", item.value = 15
       PROVE  DrivenInPlace'
  <2>1. /\ call.kind = "configure" /\ family = "cia402" /\ call.step = 12
        /\ driven' = call.q /\ mit'["cw"] = 15
    BY <1>3, <1>5, <1>7, <1>10, <1>14
  <2>2. plan = Configure(call.q)
    BY <2>1 DEF plan, PlanOf, PlanFor
  <2>3. ASSUME mixed' \cap {"mit", "rx0"} = {}
        PROVE  AllHold(od', mit', Configure(driven'), 11, driven')
    <3>1. call.from = boot
      BY <1>5, <2>3
    <3>2. AllHold(od, mit, Configure(call.q), 11, call.q)
      BY <1>3, <2>1, <2>2, <3>1 DEF StepsHold, plan
    <3>3. \A name \in MitFields \ {"cw"} : mit'[name] = mit[name]
      BY <1>10, <1>14
    <3>4. AllHold(od, mit', Configure(call.q), 11, call.q)
      BY <1>3, <3>2, <3>3, DrivenKept
    <3> QED
      BY <1>5, <2>1, <3>4
  <2>4. (call' # Idle /\ call'.kind = "configure") => ~AtStep(family, call')
    <3>1. CASE call' = Advance
      <4>1. call'.kind = call.kind /\ call'.q = call.q /\ call'.step = call.step + 1
        BY <1>1, <1>9, <3>1, AdvanceRuns DEF plan
      <4>2. PlanOf(family, call') = Configure(call.q)
        BY <2>1, <4>1 DEF PlanOf, PlanFor
      <4>3. Len(PlanOf(family, call')) = 12 /\ call'.step = 13
        BY <2>1, <4>1, <4>2, ConfigureIs
      <4> QED
        BY <4>3 DEF AtStep
    <3>2. CASE call' = Idle
      BY <3>2
    <3> QED
      BY <3>1, <3>2 DEF SetNext, Failed
  <2>5. driven' \in Requests /\ mit'.cw = 15
    BY <1>3, <2>1
  <2>6. DrivenInPlace'
    BY <1>5, <2>1, <2>3, <2>4, <2>5 DEF DrivenInPlace
  <2> QED
    BY <2>6
<1>15. ASSUME item.field = "cw", item.value # 15
       PROVE  DrivenInPlace'
  BY <1>5, <1>15 DEF DrivenInPlace
<1>16. ASSUME item.field # "cw"
       PROVE  DrivenInPlace'
  <2>1. driven' = driven
    BY <1>5, <1>16
  <2>2. ASSUME driven # None
        PROVE  FALSE
    <3>1. family = "cia402" /\ call.kind = "initialize"
      BY <1>1, <1>2, <1>3, <2>2 DEF ConfigInv, DrivenInPlace
    <3> QED
      BY <1>6, <1>7, <1>16, <3>1 DEF ItemOK
  <2> QED
    BY <2>1, <2>2 DEF DrivenInPlace
<1>17. driven' \in Requests \cup {None}
  BY <1>3, <1>5 DEF ConfigInv, TypeInv, HostOK
<1>18. HostOK' /\ CallOK'
  <2>1. CASE call' = Idle
    BY <1>5, <1>17, <2>1 DEF ConfigInv, TypeInv, HostOK, CallOK
  <2>2. CASE call' = Advance /\ life' = life
    <3>1. /\ call' \in Calls /\ call'.kind = call.kind
          /\ Running(family, call', session, boot, od, mit')
      BY <1>1, <1>9, <2>2, AdvanceRuns DEF plan
    <3> QED
      BY <1>1, <1>5, <1>17, <2>2, <3>1 DEF ConfigInv, TypeInv, HostOK, CallOK
  <2> QED
    BY <2>1, <2>2 DEF SetNext, Failed
<1> QED
  BY <1>11, <1>12, <1>13, <1>14, <1>15, <1>16, <1>18 DEF ConfigInv, TypeInv

LEMMA GuardKeeps == ConfigInv /\ PassGuard => ConfigInv'
<1> SUFFICES ASSUME ConfigInv, PassGuard PROVE ConfigInv'
  OBVIOUS
<1>1. /\ call # Idle /\ ~PlanDone /\ Item.do = "guard" /\ call' = Advance
      /\ UNCHANGED <<motor, family, session, life, mixed, driven, asked>>
  BY DEF PassGuard
<1>2. /\ call \in Calls /\ AtStep(family, call) /\ Item = ItemOf(family, call)
      /\ Running(family, call, session, boot, od, mit)
  BY <1>1, CallIs
<1>3. call.from = boot => AllHold(od, mit, PlanOf(family, call), call.step, call.q)
  <2> SUFFICES ASSUME call.from = boot, NEW t \in 1 .. call.step
               PROVE  Holds(od, mit, PlanOf(family, call)[t], call.q)
    BY DEF AllHold
  <2>1. CASE t = call.step
    <3>1. PlanOf(family, call)[t].do = "guard"
      BY <1>1, <1>2, <2>1 DEF ItemOf
    <3> QED
      BY <3>1 DEF Holds
  <2>2. CASE t # call.step
    <3>1. t \in 1 .. call.step - 1
      BY <1>2, <2>2 DEF Calls
    <3> QED
      BY <1>2, <3>1 DEF Running, StepsHold, AllHold
  <2> QED
    BY <2>1, <2>2
<1>4. /\ call' \in Calls /\ call'.kind = call.kind
      /\ Running(family, call', session, boot, od, mit)
  BY <1>1, <1>3, AdvanceRuns
<1> QED
  BY <1>1, <1>2, <1>4, CallGoesOn

LEMMA CommitKeeps == ConfigInv /\ Commit => ConfigInv'
<1> SUFFICES ASSUME ConfigInv, Commit PROVE ConfigInv'
  OBVIOUS
<1>1. /\ call # Idle /\ PlanDone /\ call.kind = "initialize" /\ session = boot
      /\ call.session = session /\ asked' = call.q /\ call' = Idle
      /\ UNCHANGED <<motor, family, session, mixed, driven>>
  BY DEF Commit
<1>2. /\ call \in Calls /\ ~AtStep(family, call) /\ boot \in Nat
      /\ Running(family, call, session, boot, od, mit)
  BY <1>1, CallIs
<1>3. call.q \in Requests /\ PlanOf(family, call) = PlanFor(family, "initialize", call.q)
  BY <1>1, <1>2 DEF Calls, PlanOf
<1>4. MotorOK' /\ PdosAreWhole'
  BY <1>1, MotorSame
<1>5. HostOK'
  BY <1>1, <1>3 DEF ConfigInv, TypeInv, HostOK, motor
<1>6. CallOK'
  BY <1>1 DEF CallOK
<1>7. AskedInPlace'
  <2>1. call.from = boot
    BY <1>1, <1>2 DEF Running, Timed, Calls
  <2>2. call.step - 1 = Len(PlanOf(family, call))
    <3>1. Len(PlanOf(family, call)) \in Nat
      BY PlanLength DEF PlanOf
    <3> QED
      BY <1>2, <3>1 DEF Running, Placed, AtStep, Calls
  <2>3. AllHold(od, mit, PlanOf(family, call), Len(PlanOf(family, call)), call.q)
    BY <1>2, <2>1, <2>2 DEF Running, StepsHold
  <2> QED
    BY <1>1, <1>3, <2>3 DEF AskedInPlace, motor
<1>8. DrivenInPlace'
  BY <1>1 DEF ConfigInv, DrivenInPlace, motor
<1> QED
  BY <1>4, <1>5, <1>6, <1>7, <1>8 DEF ConfigInv, TypeInv

(* A reboot: nothing is enabled, and no call under way knows the new boot.  *)
LEMMA RebootKeeps == ConfigInv /\ Reboot => ConfigInv'
<1> SUFFICES ASSUME ConfigInv, Reboot PROVE ConfigInv'
  OBVIOUS
<1>1. /\ boot \in Nat /\ session \in Nat /\ session <= boot /\ boot' = boot + 1
      /\ od' = [p \in Pdos |-> FactoryPdo] /\ mit' = FactoryMit /\ driven' = None
      /\ family' = family /\ session' = session /\ life' = life /\ call' = call
      /\ asked' = asked
  BY DEF Reboot, host, ConfigInv, TypeInv, MotorOK, HostOK
<1>2. MotorOK'
  <2>1. PdoShape(FactoryPdo)
    BY DEF PdoShape, FactoryPdo
  <2>2. MitShape(FactoryMit)
    BY DEF FactoryMit, MitShape
  <2> QED
    BY <1>1, <2>1, <2>2 DEF MotorOK
<1>3. HostOK'
  BY <1>1 DEF ConfigInv, TypeInv, HostOK
<1>4. PdosAreWhole'
  <2>1. \A p \in Pdos : ~od'[p].cob.valid
    BY <1>1 DEF FactoryPdo
  <2> QED
    BY <2>1 DEF PdosAreWhole
<1>5. CallOK'
  <2> SUFFICES ASSUME call # Idle PROVE CallOK'
    BY <1>1 DEF CallOK
  <2>1. /\ call \in Calls /\ Placed(family, call) /\ Timed(call, session, boot)
        /\ Underway(family, call, boot, od)
        /\ call.kind = "initialize" => life # "initialized"
    BY DEF ConfigInv, CallOK, Running, Placed
  <2>2. call.from # boot' /\ call.began # boot' /\ call.began <= boot'
    BY <1>1, <2>1 DEF Timed, Calls
  <2>3. Timed(call, session, boot')
    BY <2>1, <2>2 DEF Timed
  <2>4. Underway(family, call, boot', od')
    BY <2>1, <2>2 DEF Underway
  <2>5. StepsHold(family, call, boot', od', mit')
    BY <2>2 DEF StepsHold
  <2> QED
    BY <1>1, <2>1, <2>3, <2>4, <2>5 DEF CallOK, Running
<1>6. AskedInPlace'
  BY <1>1 DEF AskedInPlace
<1>7. DrivenInPlace'
  BY <1>1 DEF DrivenInPlace
<1> QED
  BY <1>2, <1>3, <1>4, <1>5, <1>6, <1>7 DEF ConfigInv, TypeInv

LEMMA NoticeKeeps == ConfigInv /\ Notice => ConfigInv'
<1> SUFFICES ASSUME ConfigInv, Notice PROVE ConfigInv'
  OBVIOUS
<1>1. /\ session' = boot /\ life' = "identified" /\ asked' = None
      /\ UNCHANGED <<motor, family, call, mixed, driven>>
      /\ boot \in Nat /\ session \in Nat /\ session <= boot
  BY DEF Notice, ConfigInv, TypeInv, MotorOK, HostOK
<1>2. MotorOK' /\ PdosAreWhole'
  BY <1>1, MotorSame
<1>3. HostOK'
  BY <1>1 DEF ConfigInv, TypeInv, HostOK, motor
<1>4. CallOK'
  <2> SUFFICES ASSUME call # Idle PROVE CallOK'
    BY <1>1 DEF CallOK
  <2>1. /\ call \in Calls /\ Running(family, call, session, boot, od, mit)
    BY DEF ConfigInv, CallOK, Running, Placed
  <2>2. Timed(call, boot, boot)
    BY <1>1, <2>1 DEF Running, Timed, Calls
  <2> QED
    BY <1>1, <2>1, <2>2 DEF CallOK, Running, motor
<1>5. AskedInPlace'
  BY <1>1 DEF AskedInPlace
<1>6. DrivenInPlace'
  BY <1>1 DEF ConfigInv, DrivenInPlace, motor
<1> QED
  BY <1>2, <1>3, <1>4, <1>5, <1>6 DEF ConfigInv, TypeInv

LEMMA StillKeeps ==
  ASSUME ConfigInv, UNCHANGED <<motor, family, session, call, asked, mixed, driven>>,
         life' = life \/ (life' = "reinit")
  PROVE  ConfigInv'
<1>1. MotorOK' /\ PdosAreWhole'
  BY MotorSame
<1>2. HostOK'
  BY DEF ConfigInv, TypeInv, HostOK, motor
<1>3. CallOK'
  BY DEF ConfigInv, CallOK, motor
<1>4. AskedInPlace'
  BY DEF ConfigInv, AskedInPlace, motor
<1>5. DrivenInPlace'
  BY DEF ConfigInv, DrivenInPlace, motor
<1> QED
  BY <1>1, <1>2, <1>3, <1>4, <1>5 DEF ConfigInv, TypeInv

LEMMA NextKeeps == ConfigInv /\ [Next]_vars => ConfigInv'
<1> SUFFICES ASSUME ConfigInv, [Next]_vars PROVE ConfigInv'
  OBVIOUS
<1>1. CASE CallInitialize
  BY <1>1, InitializeStarts
<1>2. CASE CallConfigure
  BY <1>2, ConfigureStarts
<1>3. CASE CallFails
  BY <1>3, CallEnds DEF CallFails, Failed
<1>4. CASE DropCall
  BY <1>4, CallEnds DEF DropCall
<1>5. CASE ReadNext
  BY <1>5, ReadKeeps
<1>6. CASE WriteNext
  BY <1>6, WriteKeeps
<1>7. CASE SetNext
  BY <1>7, SetKeeps
<1>8. CASE PassGuard
  BY <1>8, GuardKeeps
<1>9. CASE Commit
  BY <1>9, CommitKeeps
<1>10. CASE ConfigureReturns
  BY <1>10, CallEnds DEF ConfigureReturns
<1>11. CASE Reboot
  BY <1>11, RebootKeeps
<1>12. CASE Notice
  BY <1>12, NoticeKeeps
<1>13. CASE LeaveOperational
  BY <1>13, StillKeeps DEF LeaveOperational
<1>14. CASE Finished \/ UNCHANGED vars
  BY <1>14, StillKeeps DEF Finished, vars, host
<1> QED
  BY <1>1, <1>2, <1>3, <1>4, <1>5, <1>6, <1>7, <1>8, <1>9, <1>10, <1>11, <1>12, <1>13, <1>14
     DEF Next

(* Whatever is cut short, fails or reboots: what was written of the recipe  *)
(* under way shows, every step done is in place, and so is what an          *)
(* initialized or enabled motor was asked for.                              *)
THEOREM ConfigInvariant == Spec => []ConfigInv
<1> QED
  BY InitHolds, NextKeeps, PTL DEF Spec

-----------------------------------------------------------------------------
(* What the invariant says of the motor.                                    *)

LEMMA SetOfHolds ==
  ASSUME NEW o, NEW m, NEW name, NEW v, NEW q, Holds(o, m, Set(name, v), q), name # "cw"
  PROVE  m[name] = v
BY DEF Holds, Set

LEMMA RecipeOfHolds ==
  ASSUME NEW o, NEW m, NEW r, NEW q, Holds(o, m, Recipe(r), q)
  PROVE  Whole(o[PdoOf(r)], r) /\ (r.dir = "rx" => ValidSlot(q.slot, q.total))
BY DEF Holds, Recipe

(* A lane recipe that is in place passes the motor its own bytes.           *)
LEMMA WholeLane ==
  ASSUME NEW q, ValidSlot(q.slot, q.total)
  PROVE  /\ Whole(od["rx0"], Cia402Rpdo1(q.slot, q.total)) =>
              TakenFrom("rx0", \h2004, q.total, 8) = OwnLane(q.slot, 8)
         /\ Whole(od["rx0"], MeowRpdo1(q.slot, q.total)) =>
              TakenFrom("rx0", \h4103, q.total, 8) = OwnLane(q.slot, 8)
         /\ Whole(od["rx1"], MeowRpdo2(q.slot, q.total)) =>
              TakenFrom("rx1", \h4401, q.total, 1) = OwnLane(q.slot, 1)
<1>1. /\ Cia402Rpdo1(q.slot, q.total).entries = EightLanes(\h2004, q.slot, q.total)
      /\ MeowRpdo1(q.slot, q.total).entries = EightLanes(\h4103, q.slot, q.total)
      /\ MeowRpdo2(q.slot, q.total).entries = OneLanes(\h4401, q.slot, q.total)
  BY DEF Cia402Rpdo1, MeowRpdo1, MeowRpdo2, RpdoRecipe, EightLanes, OneLanes
<1>2. \A pdo, r : Whole(pdo, r) => Maps(pdo, r.entries)
  BY DEF Whole, Maps
<1>3. \h2004 \in NoFiller /\ \h4103 \in NoFiller /\ \h4401 \in NoFiller
  BY DEF NoFiller
<1>4. ASSUME Whole(od["rx0"], Cia402Rpdo1(q.slot, q.total))
      PROVE  TakenFrom("rx0", \h2004, q.total, 8) = OwnLane(q.slot, 8)
  <2>1. Maps(od["rx0"], EightLanes(\h2004, q.slot, q.total))
    BY <1>1, <1>2, <1>4
  <2> QED
    BY <1>3, <2>1, EightByteLane
<1>5. ASSUME Whole(od["rx0"], MeowRpdo1(q.slot, q.total))
      PROVE  TakenFrom("rx0", \h4103, q.total, 8) = OwnLane(q.slot, 8)
  <2>1. Maps(od["rx0"], EightLanes(\h4103, q.slot, q.total))
    BY <1>1, <1>2, <1>5
  <2> QED
    BY <1>3, <2>1, EightByteLane
<1>6. ASSUME Whole(od["rx1"], MeowRpdo2(q.slot, q.total))
      PROVE  TakenFrom("rx1", \h4401, q.total, 1) = OwnLane(q.slot, 1)
  <2>1. Maps(od["rx1"], OneLanes(\h4401, q.slot, q.total))
    BY <1>1, <1>2, <1>6
  <2> QED
    BY <1>3, <2>1, OneByteLane
<1> QED
  BY <1>4, <1>5, <1>6

LEMMA DriveWhole == ConfigInv => DriveIsWhole
<1> SUFFICES ASSUME ConfigInv, driven # None, mixed \cap {"mit", "rx0"} = {}
             PROVE  /\ mit.on = 1 /\ mit.mode = 5
                    /\ mit.ranges = driven.mapping
                    /\ mit.lower = mit.ranges /\ mit.upper = mit.ranges
                    /\ Whole(od["rx0"], Cia402Rpdo1(driven.slot, driven.total))
                    /\ TakenFrom("rx0", \h2004, driven.total, 8) = OwnLane(driven.slot, 8)
  BY DEF DriveIsWhole
<1> DEFINE plan == Configure(driven)
<1>1. \A t \in 1 .. 11 : Holds(od, mit, plan[t], driven)
  BY DEF ConfigInv, DrivenInPlace, AllHold
<1>2. /\ plan[2] = Set("ranges", driven.mapping) /\ plan[3] = Set("lower", driven.mapping)
      /\ plan[4] = Set("upper", driven.mapping) /\ plan[5] = Set("on", 1)
      /\ plan[7] = Recipe(Cia402Rpdo1(driven.slot, driven.total)) /\ plan[8] = Set("mode", 5)
  BY ConfigureIs
<1> HIDE DEF plan
<1>3. /\ Holds(od, mit, Set("ranges", driven.mapping), driven)
      /\ Holds(od, mit, Set("lower", driven.mapping), driven)
      /\ Holds(od, mit, Set("upper", driven.mapping), driven)
      /\ Holds(od, mit, Set("on", 1), driven) /\ Holds(od, mit, Set("mode", 5), driven)
      /\ Holds(od, mit, Recipe(Cia402Rpdo1(driven.slot, driven.total)), driven)
  BY <1>1, <1>2
<1>4. /\ mit.ranges = driven.mapping /\ mit.lower = driven.mapping /\ mit.upper = driven.mapping
      /\ mit.on = 1 /\ mit.mode = 5
  <2>1. mit["ranges"] = driven.mapping
    BY <1>3, SetOfHolds
  <2>2. mit["lower"] = driven.mapping
    BY <1>3, SetOfHolds
  <2>3. mit["upper"] = driven.mapping
    BY <1>3, SetOfHolds
  <2>4. mit["on"] = 1
    BY <1>3, SetOfHolds
  <2>5. mit["mode"] = 5
    BY <1>3, SetOfHolds
  <2> QED
    BY <2>1, <2>2, <2>3, <2>4, <2>5
<1>5. /\ Whole(od["rx0"], Cia402Rpdo1(driven.slot, driven.total))
      /\ ValidSlot(driven.slot, driven.total)
  BY <1>3, RecipeOfHolds, RecipePlaces
<1>6. TakenFrom("rx0", \h2004, driven.total, 8) = OwnLane(driven.slot, 8)
  BY <1>5, WholeLane
<1> QED
  BY <1>4, <1>5, <1>6

(* EnabledIsWhole: no enabled PDO is half of one recipe and half of another, *)
(* and a compressed-MIT drive is enabled only with every object, the control *)
(* word's last, in place, and takes the bytes of its own slot: for any       *)
(* requests, any number of calls, failures, drops and reboots.               *)
THEOREM EnabledWhole == Spec => []EnabledIsWhole
<1>1. ConfigInv => EnabledIsWhole
  BY DriveWhole DEF ConfigInv, EnabledIsWhole
<1> QED
  BY <1>1, ConfigInvariant, PTL

LEMMA AskedWhole == ConfigInv => InitializedAsAsked
<1> SUFFICES ASSUME ConfigInv, life = "initialized", session = boot, asked # None
             PROVE  /\ \A r \in AskedRecipes(asked) : Whole(od[PdoOf(r)], r)
                    /\ (family = "meow" /\ asked.shared) =>
                         /\ mit.on = 1 /\ mit.ranges = asked.mapping
                         /\ TakenFrom("rx0", \h4103, asked.total, 8) = OwnLane(asked.slot, 8)
                         /\ TakenFrom("rx1", \h4401, asked.total, 1) = OwnLane(asked.slot, 1)
  BY DEF InitializedAsAsked
<1> DEFINE plan == PlanFor(family, "initialize", asked)
<1>1. \A t \in 1 .. Len(plan) : Holds(od, mit, plan[t], asked)
  BY DEF ConfigInv, AskedInPlace, AllHold
<1>2. CASE family = "cia402"
  <2>1. plan = Cia402Initialize(asked)
    BY <1>2 DEF PlanFor
  <2>2. /\ Len(plan) = 3 /\ plan[1] = Recipe(Cia402Tpdo1(asked.timer))
        /\ plan[2] = Recipe(Cia402Tpdo2)
    BY <2>1, Cia402InitializeIs
  <2> HIDE DEF plan
  <2>3. /\ Holds(od, mit, Recipe(Cia402Tpdo1(asked.timer)), asked)
        /\ Holds(od, mit, Recipe(Cia402Tpdo2), asked)
    BY <1>1, <2>2
  <2>4. \A r \in {Cia402Tpdo1(asked.timer), Cia402Tpdo2} : Whole(od[PdoOf(r)], r)
    BY <2>3, RecipeOfHolds
  <2> QED
    BY <1>2, <2>4 DEF AskedRecipes
<1>3. CASE family # "cia402"
  <2>1. family = "meow"
    BY <1>3 DEF ConfigInv, TypeInv, HostOK, Families
  <2>2. plan = MeowInitialize(asked)
    BY <2>1 DEF PlanFor
  <2>3. /\ Len(plan) = (IF asked.shared THEN 8 ELSE 2)
        /\ plan[1] = Recipe(MeowTpdo1(asked.timer)) /\ plan[2] = Recipe(MeowTpdo2)
    BY <2>2, MeowInitializeIs
  <2>4. asked.shared =>
          /\ plan[3] = Set("ranges", asked.mapping) /\ plan[6] = Set("on", 1)
          /\ plan[7] = Recipe(MeowRpdo1(asked.slot, asked.total))
          /\ plan[8] = Recipe(MeowRpdo2(asked.slot, asked.total))
    BY <2>2, MeowInitializeIs
  <2> HIDE DEF plan
  <2>5. \A r \in {MeowTpdo1(asked.timer), MeowTpdo2} : Whole(od[PdoOf(r)], r)
    <3>1. 1 \in 1 .. Len(plan) /\ 2 \in 1 .. Len(plan)
      BY <2>3
    <3>2. /\ Holds(od, mit, Recipe(MeowTpdo1(asked.timer)), asked)
          /\ Holds(od, mit, Recipe(MeowTpdo2), asked)
      BY <1>1, <2>3, <3>1
    <3> QED
      BY <3>2, RecipeOfHolds
  <2>6. CASE ~asked.shared
    BY <2>1, <2>5, <2>6 DEF AskedRecipes
  <2>7. CASE asked.shared
    <3>1. /\ Holds(od, mit, Set("ranges", asked.mapping), asked)
          /\ Holds(od, mit, Set("on", 1), asked)
          /\ Holds(od, mit, Recipe(MeowRpdo1(asked.slot, asked.total)), asked)
          /\ Holds(od, mit, Recipe(MeowRpdo2(asked.slot, asked.total)), asked)
      BY <1>1, <2>3, <2>4, <2>7
    <3>2. mit["ranges"] = asked.mapping
      BY <3>1, SetOfHolds
    <3>3. mit["on"] = 1
      BY <3>1, SetOfHolds
    <3>4. /\ Whole(od[PdoOf(MeowRpdo1(asked.slot, asked.total))], MeowRpdo1(asked.slot, asked.total))
          /\ Whole(od[PdoOf(MeowRpdo2(asked.slot, asked.total))], MeowRpdo2(asked.slot, asked.total))
          /\ ValidSlot(asked.slot, asked.total)
      BY <3>1, RecipeOfHolds, RecipePlaces
    <3>5. /\ TakenFrom("rx0", \h4103, asked.total, 8) = OwnLane(asked.slot, 8)
          /\ TakenFrom("rx1", \h4401, asked.total, 1) = OwnLane(asked.slot, 1)
      BY <3>4, WholeLane, RecipePlaces
    <3> QED
      BY <2>1, <2>5, <2>7, <3>2, <3>3, <3>4, <3>5 DEF AskedRecipes
  <2> QED
    BY <2>6, <2>7
<1> QED
  BY <1>2, <1>3

(* InitializedAsAsked: an initialized motor is configured as the call that   *)
(* initialized it asked, and takes exactly its own slot's bytes of the       *)
(* host's shared frames.                                                     *)
THEOREM AsAsked == Spec => []InitializedAsAsked
<1> QED
  BY AskedWhole, ConfigInvariant, PTL

-----------------------------------------------------------------------------
(* Identifiers.  What the COB-IDs of Frames tell apart, for all of them.    *)

(* A function code and a node id are found again in their sum.              *)
LEMMA CodeAndNode ==
  ASSUME NEW k \in 0 .. 15, NEW node \in 0 .. 127
  PROVE  /\ CodeOf(k * 128 + node) = k * 128
         /\ NodeOf(k * 128 + node) = node
BY SMT DEF CodeOf, NodeOf

(* The codes as multiples of 128: four objects have one, and the rest their *)
(* own.                                                                     *)
LEMMA Codes ==
  /\ Objects = {"Nmt", "Sync", "Emergency", "Time", "Tpdo1", "Rpdo1", "Tpdo2", "Rpdo2",
                "Tpdo3", "Rpdo3", "Tpdo4", "Rpdo4", "Tsdo", "Rsdo", "Heartbeat"}
  /\ Addressed = {"Emergency", "Tpdo1", "Rpdo1", "Tpdo2", "Rpdo2", "Tpdo3", "Rpdo3",
                  "Tpdo4", "Rpdo4", "Tsdo", "Rsdo", "Heartbeat"}
  /\ \A o \in Objects : \E k \in 0 .. 15 : FunctionCode[o] = k * 128
  /\ \A o, p \in Addressed : FunctionCode[o] = FunctionCode[p] => o = p
BY SMT DEF Objects, Addressed, Unaddressed, FunctionCode

(* An identifier that cob_id builds for a node is read back by parse_cob_id *)
(* as that object of that node, and as nothing else.                        *)
THEOREM CobIdRoundTrip ==
  ASSUME NEW object \in Addressed, NEW node \in NodeIds
  PROVE  ParseCobId(CobId(object, node)) = {<<object, node>>}
<1>1. PICK k \in 0 .. 15 : FunctionCode[object] = k * 128
  BY Codes DEF Addressed
<1>2. CobId(object, node) = k * 128 + node
  BY <1>1 DEF CobId, Addressed
<1>3. CodeOf(k * 128 + node) = k * 128 /\ NodeOf(k * 128 + node) = node
  BY CodeAndNode DEF NodeIds
<1>4. {o \in Addressed : FunctionCode[o] = CodeOf(k * 128 + node) /\ node # 0} = {object}
  BY <1>1, <1>3, Codes DEF NodeIds
<1>5. {o \in Unaddressed : FunctionCode[o] = k * 128 + node} = {}
  BY SMT DEF Unaddressed, FunctionCode, NodeIds
<1> QED
  BY <1>2, <1>3, <1>4, <1>5 DEF ParseCobId

(* No two nodes and no two objects share an identifier.                     *)
THEOREM CobIdsAreDistinct ==
  ASSUME NEW o1 \in Addressed, NEW n1 \in NodeIds,
         NEW o2 \in Addressed, NEW n2 \in NodeIds,
         CobId(o1, n1) = CobId(o2, n2)
  PROVE  o1 = o2 /\ n1 = n2
<1>1. {<<o1, n1>>} = {<<o2, n2>>}
  BY CobIdRoundTrip
<1>2. <<o1, n1>> = <<o2, n2>>
  BY <1>1, ZenonT(10)
<1> QED
  BY <1>2, SMT

(* Every identifier of the protocol is one custom frames have to avoid.     *)
THEOREM CobIdsAreReserved ==
  ASSUME NEW object \in Objects, NEW node \in NodeIds
  PROVE  IsReservedStandard(CobId(object, node))
<1>1. CASE object \in Unaddressed
  BY <1>1 DEF IsReservedStandard, CobId
<1>2. CASE object \in Addressed
  <2>1. PICK k \in 0 .. 15 : FunctionCode[object] = k * 128
    BY Codes
  <2>2. CobId(object, node) = k * 128 + node
    BY <1>2, <2>1 DEF CobId, Addressed
  <2>3. NodeOf(k * 128 + node) # 0 /\ CodeOf(k * 128 + node) = FunctionCode[object]
    BY <2>1, CodeAndNode DEF NodeIds
  <2> QED
    BY <1>2, <2>2, <2>3 DEF IsReservedStandard
<1> QED
  BY <1>1, <1>2 DEF Addressed

(* A heartbeat is understood as the state of the node that sent it.         *)
THEOREM HeartbeatRoundTrip ==
  ASSUME NEW node \in NodeIds, NEW state \in DOMAIN NmtStateByte
  PROVE  ParseHeartbeat(Heartbeat(node, state)) = {<<node, state>>}
<1> DEFINE f == Heartbeat(node, state)
<1>1. f.kind = "Data" /\ f.standard /\ f.id = 14 * 128 + node
  BY DEF Heartbeat, Frame, NodeIds
<1>2. f.bytes = <<NmtStateByte[state]>>
  BY DEF Heartbeat, Frame
<1>3. Len(f.bytes) = 1 /\ f.bytes[1] = NmtStateByte[state]
  BY <1>2
<1>4. CodeOf(f.id) = 1792 /\ NodeOf(f.id) = node
  BY <1>1, CodeAndNode DEF NodeIds
<1>5. {t \in DOMAIN NmtStateByte : NmtStateByte[t] = NmtStateByte[state]} = {state}
  BY DEF NmtStateByte
<1> HIDE DEF f
<1> QED
  BY <1>1, <1>3, <1>4, <1>5 DEF f, ParseHeartbeat, NodeIds

(* A frame is taken by one background task at most.                         *)
THEOREM OneTaskPerFrame ==
  ASSUME NEW f, NEW own \in NodeIds, f.id \in 0 .. 2047
  PROVE  /\ ToDiscovery(f, own) # {} => ToTpdo1(f) = {} /\ ToTpdo2(f) = {}
         /\ ToTpdo1(f) # {} => ToTpdo2(f) = {}
BY DEF ToDiscovery, ToTpdo1, ToTpdo2, Subscribed

(* What the driver sends itself -- its heartbeat, NMT commands, SDO requests *)
(* -- is taken by none, if the bus hands it back.                           *)
THEOREM OwnFramesAreNotTaken ==
  ASSUME NEW own \in NodeIds, NEW node \in 0 .. 127, NEW bytes,
         NEW command \in DOMAIN NmtCommandByte,
         NEW f \in {Broadcast(own), NmtCommand(command, node), Frame(1536 + node, bytes)}
  PROVE  ToDiscovery(f, own) = {} /\ ToTpdo1(f) = {} /\ ToTpdo2(f) = {}
<1>1. CASE f = Broadcast(own)
  <2>1. f.id = 14 * 128 + own
    BY <1>1 DEF Broadcast, Heartbeat, Frame, NodeIds
  <2>2. CodeOf(f.id) = 1792
    BY <2>1, CodeAndNode DEF NodeIds
  <2>3. ParseHeartbeat(f) = {<<own, "Operational">>}
    BY <1>1, HeartbeatRoundTrip DEF Broadcast, NmtStateByte
  <2> QED
    BY <2>2, <2>3 DEF ToDiscovery, ToTpdo1, ToTpdo2, Subscribed
<1>2. CASE f = NmtCommand(command, node)
  <2>1. f.id = 0
    BY <1>2 DEF NmtCommand, Frame
  <2> QED
    BY <2>1 DEF ToDiscovery, ToTpdo1, ToTpdo2, Subscribed, CodeOf
<1>3. CASE f = Frame(1536 + node, bytes)
  <2>1. f.id = 12 * 128 + node
    BY <1>3 DEF Frame
  <2>2. CodeOf(f.id) = 1536
    BY <2>1, CodeAndNode
  <2> QED
    BY <2>2 DEF ToDiscovery, ToTpdo1, ToTpdo2, Subscribed
<1> QED
  BY <1>1, <1>2, <1>3
=============================================================================
