-------------------------- MODULE NodeTableProofs --------------------------
(***************************************************************************)
(* What NodeTable guarantees for any nodes, callers, profiles and bounds.  *)
(* Two arguments meet in TableInv: an entry that forget_offline took off   *)
(* the table hears one stale heartbeat at most, one too few to commit; and *)
(* a profile does not change while an initialization runs, so the one it   *)
(* read is still the bus's when it commits.                                *)
(***************************************************************************)
EXTENDS NodeTable, TLAPS

Ks == 1 .. MaxEntries
Entries == [online : BOOLEAN,
            stage : {"Unknown", "Identified", "Initializing", "Initialized", "NeedsReinit"}]
Calls == [pc : {"found", "read", "start", "configure", "commit"},
          op : {"identify", "initialize"}, node : Nodes, k : Ks, rate : Rates,
          current : BOOLEAN, heard : 0 .. 2]
Freezes == [pc : {"check", "set", "window"}, rate : Rates]

TablesOK == table \in [Nodes -> 0 .. MaxEntries] /\ made \in [Nodes -> 0 .. MaxEntries]
EntriesOK == entry \in [Nodes -> [Ks -> Entries]]
CallsOK == call \in [Callers -> Calls \cup {Idle}]
FreezeOK == freeze \in Freezes \cup {Idle}
RatesOK ==
  /\ rate \in [Nodes -> Rates] /\ frozen \in Rates \cup {None} /\ window \in Rates
HbOK == hb \in (Nodes \X Ks) \cup {None}

(* An entry is numbered before anyone holds it. *)
MadeBeforeHeld ==
  /\ \A n \in Nodes : table[n] <= made[n]
  /\ \A c \in Callers : call[c] # Idle => call[c].k <= made[call[c].node]

TypeInv ==
  /\ TablesOK /\ EntriesOK /\ CallsOK /\ FreezeOK /\ RatesOK /\ HbOK /\ MadeBeforeHeld

(* A motor in use is online: what forget_offline removes is not in use. *)
InitializedIsOnline ==
  \A n \in Nodes : \A k \in Ks : entry[n][k].stage = "Initialized" => entry[n][k].online

(* A call whose session goes on has heard its entry only while that was     *)
(* online; or it is off the table, and the one heartbeat that was looked up *)
(* before it was forgotten has been handled.                                *)
HeardWhileOnline ==
  \A c \in Callers :
    (call[c] # Idle /\ call[c].current /\ call[c].heard > 0) =>
      LET n == call[c].node  k == call[c].k
      IN \/ table[n] = k /\ entry[n][k].online
         \/ table[n] # k /\ call[c].heard = 1 /\ hb # <<n, k>>

(* The contract of freeze_pdo_profile. *)
FreezeAlone == \A c \in Callers : call[c] # Idle /\ call[c].op = "initialize" => freeze = Idle

(* What an initialization has read is the profile of the bus, and what it   *)
(* has written to the motor.                                                *)
RateRead ==
  \A c \in Callers : call[c] # Idle /\ call[c].op = "initialize" =>
    /\ call[c].pc \in {"found", "start", "configure", "commit"}
    /\ call[c].pc # "found" => call[c].rate = PdoProfile
    /\ call[c].pc = "commit" => rate[call[c].node] = call[c].rate
PastReadInitializes ==
  \A c \in Callers : call[c] # Idle /\ call[c].op = "identify" => call[c].pc = "read"

(* The velocity window follows the profile in the last step of a freeze,    *)
(* and from its check on no motor is in use.                                *)
WindowFollows == freeze.pc # "window" => window = PdoProfile
SetAsFrozen == freeze.pc = "window" => frozen = freeze.rate
RateInUse ==
  \A n \in Nodes : \A k \in Ks : entry[n][k].stage = "Initialized" =>
    freeze.pc \in {"idle", "check"} /\ rate[n] = PdoProfile

RateInv == FreezeAlone /\ RateRead /\ PastReadInitializes /\ WindowFollows /\ SetAsFrozen /\ RateInUse

TableInv ==
  /\ TypeInv /\ OneOperationPerNode /\ InitializedIsOnline /\ NoCommitOnOrphan
  /\ HeardWhileOnline /\ RateInv
-----------------------------------------------------------------------------
(* What the steps share.                                                    *)

LEMMA IdleIsNoCall == Idle \notin Calls /\ Idle \notin Freezes
<1>1. \A r \in Calls : r.pc # "idle"
  BY DEF Calls
<1>2. \A r \in Freezes : r.pc # "idle"
  BY DEF Freezes
<1>3. Idle.pc = "idle"
  BY DEF Idle
<1> QED
  BY <1>1, <1>2, <1>3

(* Looking an entry up, or making it, yields a number given out before now. *)
LEMMA LookedUp ==
  ASSUME TablesOK, MadeBeforeHeld, NEW n \in Nodes, GetOrInsert(n)
  PROVE  /\ TablesOK'
         /\ table'[n] \in Ks
         /\ \A m \in Nodes : table'[m] <= made'[m] /\ made[m] <= made'[m]
         /\ \A m \in Nodes : table[m] # 0 => table'[m] = table[m]
         /\ \A m \in Nodes : table'[m] = table[m] \/ table'[m] > made[m]
BY EntriesAssumption DEF TablesOK, MadeBeforeHeld, GetOrInsert, tableVars, Ks

(* A step after which every call is where it was, up to what it has heard   *)
(* of its session.                                                          *)
CallsKept ==
  \A c \in Callers :
    /\ call'[c] = Idle <=> call[c] = Idle
    /\ call[c] # Idle =>
         /\ call'[c].pc = call[c].pc /\ call'[c].op = call[c].op
         /\ call'[c].node = call[c].node /\ call'[c].k = call[c].k
         /\ call'[c].rate = call[c].rate

(* The calls on an entry hear a heartbeat. *)
LEMMA HearStep ==
  ASSUME CallsOK, NEW n \in Nodes, NEW k \in Ks, OnCalls(n, k, Hear)
  PROVE  /\ CallsOK' /\ CallsKept
         /\ \A c \in Callers : call[c] # Idle =>
              /\ call'[c].current = call[c].current
              /\ call'[c].heard > 0 => call'[c].heard <= call[c].heard + 1
              /\ <<call[c].node, call[c].k>> # <<n, k>> => call'[c].heard = call[c].heard
<1>1. \A c \in Callers :
        call'[c] = IF call[c] # Idle /\ call[c].node = n /\ call[c].k = k
                   THEN [call[c] EXCEPT !.heard = IF @ < 2 THEN @ + 1 ELSE @] ELSE call[c]
  BY DEF OnCalls, Hear
<1>2. DOMAIN call' = Callers
  BY DEF OnCalls
<1>3. ASSUME NEW c \in Callers, call[c] # Idle, call[c].node = n /\ call[c].k = k
      PROVE  /\ call'[c] \in Calls
             /\ call'[c].pc = call[c].pc /\ call'[c].op = call[c].op
             /\ call'[c].node = call[c].node /\ call'[c].k = call[c].k
             /\ call'[c].rate = call[c].rate /\ call'[c].current = call[c].current
             /\ call'[c].heard <= call[c].heard + 1
  <2> DEFINE r == call[c]
             h == IF r.heard < 2 THEN r.heard + 1 ELSE r.heard
  <2>1. r \in Calls
    BY <1>3 DEF CallsOK
  <2>2. call'[c] = [r EXCEPT !.heard = h]
    BY <1>1, <1>3
  <2>3. h \in 0 .. 2 /\ h <= r.heard + 1
    BY <2>1 DEF Calls
  <2> HIDE DEF r, h
  <2>4. /\ call'[c] \in Calls /\ call'[c].heard = h
        /\ call'[c].pc = r.pc /\ call'[c].op = r.op /\ call'[c].node = r.node
        /\ call'[c].k = r.k /\ call'[c].rate = r.rate /\ call'[c].current = r.current
    BY <2>1, <2>2, <2>3 DEF Calls
  <2> QED
    BY <2>3, <2>4 DEF r
<1>4. CallsOK'
  <2>1. \A c \in Callers : call'[c] \in Calls \cup {Idle}
    BY <1>1, <1>3 DEF CallsOK
  <2>2. call' = [c \in Callers |-> call'[c]]
    BY DEF OnCalls
  <2> QED
    BY <2>1, <2>2 DEF CallsOK
<1> QED
  BY <1>1, <1>3, <1>4, IdleIsNoCall DEF CallsKept, CallsOK, Calls

(* The calls on an entry learn that its session is over. *)
LEMMA InvalidateStep ==
  ASSUME CallsOK, NEW n \in Nodes, NEW k \in Ks, OnCalls(n, k, Invalidate)
  PROVE  /\ CallsOK' /\ CallsKept
         /\ \A c \in Callers : call[c] # Idle =>
              IF <<call[c].node, call[c].k>> = <<n, k>> THEN ~call'[c].current
              ELSE call'[c] = call[c]
<1>1. \A c \in Callers :
        call'[c] = IF call[c] # Idle /\ call[c].node = n /\ call[c].k = k
                   THEN [call[c] EXCEPT !.current = FALSE] ELSE call[c]
  BY DEF OnCalls, Invalidate
<1>2. ASSUME NEW c \in Callers, call[c] # Idle, call[c].node = n /\ call[c].k = k
      PROVE  /\ call'[c] \in Calls
             /\ call'[c].pc = call[c].pc /\ call'[c].op = call[c].op
             /\ call'[c].node = call[c].node /\ call'[c].k = call[c].k
             /\ call'[c].rate = call[c].rate /\ ~call'[c].current
  <2>1. call[c] \in Calls
    BY <1>2 DEF CallsOK
  <2> QED
    BY <1>1, <1>2, <2>1 DEF Calls
<1>3. CallsOK'
  <2>1. \A c \in Callers : call'[c] \in Calls \cup {Idle}
    BY <1>1, <1>2 DEF CallsOK
  <2>2. call' = [c \in Callers |-> call'[c]]
    BY DEF OnCalls
  <2> QED
    BY <2>1, <2>2 DEF CallsOK
<1> QED
  BY <1>1, <1>2, <1>3, IdleIsNoCall DEF CallsKept
(* The heartbeat that was looked up reaches its entry, listed or not. *)
LEMMA HandledStep ==
  ASSUME TypeInv, HeartbeatHandled
  PROVE  \E n \in Nodes, k \in Ks :
           /\ hb = <<n, k>> /\ hb' = None
           /\ EntriesOK' /\ CallsOK' /\ CallsKept
           /\ entry'[n][k].online
           /\ entry'[n][k].stage = "Initialized" => entry[n][k].stage = "Initialized"
           /\ \A m \in Nodes, j \in Ks : <<m, j>> # <<n, k>> => entry'[m][j] = entry[m][j]
           /\ \A c \in Callers : call[c] # Idle =>
                /\ call'[c].current =>
                     /\ call[c].current
                     /\ call'[c].heard > 0 => call'[c].heard <= call[c].heard + 1
                /\ <<call[c].node, call[c].k>> # <<n, k>> =>
                     call'[c].current = call[c].current /\ call'[c].heard = call[c].heard
<1> DEFINE n == hb[1]
           k == hb[2]
<1>1. n \in Nodes /\ k \in Ks /\ hb = <<n, k>>
  BY DEF TypeInv, HbOK, HeartbeatHandled
<1> DEFINE e == entry[n][k]
           f == entry'[n][k]
<1>2. /\ hb' = None
      /\ \/ entry' = [entry EXCEPT ![n][k].online = TRUE] /\ OnCalls(n, k, Hear)
         \/ /\ e.stage = "Initialized"
            /\ entry' = [entry EXCEPT ![n][k] = [online |-> TRUE, stage |-> "NeedsReinit"]]
            /\ OnCalls(n, k, Hear)
         \/ /\ entry' = [entry EXCEPT ![n][k] = [online |-> TRUE, stage |-> "Unknown"]]
            /\ OnCalls(n, k, Invalidate)
  BY DEF HeartbeatHandled
<1>3. EntriesOK /\ CallsOK
  BY DEF TypeInv
<1> HIDE DEF n, k
<1>4. /\ EntriesOK' /\ f.online
      /\ f.stage = "Initialized" => e.stage = "Initialized"
      /\ \A m \in Nodes, j \in Ks : <<m, j>> # <<n, k>> => entry'[m][j] = entry[m][j]
  <2>1. e \in Entries
    BY <1>1, <1>3 DEF EntriesOK
  <2>2. CASE entry' = [entry EXCEPT ![n][k].online = TRUE]
    <3>1. entry' = [entry EXCEPT ![n][k] = [e EXCEPT !.online = TRUE]]
      BY <2>2
    <3>2. [e EXCEPT !.online = TRUE] \in Entries
      BY <2>1 DEF Entries
    <3>3. f = [e EXCEPT !.online = TRUE]
      BY <1>1, <1>3, <3>1 DEF EntriesOK
    <3> QED
      BY <1>1, <1>3, <2>1, <3>1, <3>2, <3>3 DEF EntriesOK, Entries
  <2>3. CASE \/ entry' = [entry EXCEPT ![n][k] = [online |-> TRUE, stage |-> "NeedsReinit"]]
             \/ entry' = [entry EXCEPT ![n][k] = [online |-> TRUE, stage |-> "Unknown"]]
    <3>1. PICK g \in {[online |-> TRUE, stage |-> "NeedsReinit"],
                      [online |-> TRUE, stage |-> "Unknown"]} :
            entry' = [entry EXCEPT ![n][k] = g]
      BY <2>3
    <3>2. g \in Entries /\ g.online = TRUE /\ g.stage # "Initialized"
      <4>1. CASE g = [online |-> TRUE, stage |-> "NeedsReinit"]
        BY <4>1 DEF Entries
      <4>2. CASE g = [online |-> TRUE, stage |-> "Unknown"]
        BY <4>2 DEF Entries
      <4> QED
        BY <3>1, <4>1, <4>2
    <3> QED
      BY <1>1, <1>3, <3>1, <3>2 DEF EntriesOK
  <2> QED
    BY <1>2, <2>2, <2>3
<1>5. /\ CallsOK' /\ CallsKept
      /\ \A c \in Callers : call[c] # Idle =>
           /\ call'[c].current =>
                /\ call[c].current
                /\ call'[c].heard > 0 => call'[c].heard <= call[c].heard + 1
           /\ <<call[c].node, call[c].k>> # <<n, k>> =>
                call'[c].current = call[c].current /\ call'[c].heard = call[c].heard
  <2>1. CASE OnCalls(n, k, Hear)
    BY <1>1, <1>3, <2>1, HearStep
  <2>2. CASE OnCalls(n, k, Invalidate)
    <3>1. /\ CallsOK' /\ CallsKept
          /\ \A c \in Callers : call[c] # Idle =>
              IF <<call[c].node, call[c].k>> = <<n, k>> THEN ~call'[c].current
              ELSE call'[c] = call[c]
      BY <1>1, <1>3, <2>2, InvalidateStep
    <3>2. \A c \in Callers : call[c] # Idle => call[c].heard \in Nat
      BY <1>3 DEF CallsOK, Calls
    <3> QED
      BY <3>1, <3>2
  <2> QED
    BY <1>2, <2>1, <2>2
<1> QED
  BY <1>1, <1>2, <1>4, <1>5

Stages == {"Unknown", "Identified", "Initializing", "Initialized", "NeedsReinit"}
SetStage(n, k, s) == entry' = [entry EXCEPT ![n][k].stage = s]

(* Entries stay entries where one of them gets another stage. *)
LEMMA StageStep ==
  ASSUME EntriesOK, NEW n \in Nodes, NEW k \in Ks, NEW s \in Stages, SetStage(n, k, s)
  PROVE  /\ EntriesOK'
         /\ entry'[n][k].stage = s /\ entry'[n][k].online = entry[n][k].online
         /\ \A m \in Nodes, j \in Ks : <<m, j>> # <<n, k>> => entry'[m][j] = entry[m][j]
<1> DEFINE e == [entry[n][k] EXCEPT !.stage = s]
<1>1. e \in Entries /\ e.stage = s /\ e.online = entry[n][k].online
  <2>1. entry[n][k] \in Entries
    BY DEF EntriesOK
  <2> QED
    BY <2>1 DEF Entries, Stages
<1>2. entry' = [entry EXCEPT ![n][k] = e]
  BY DEF SetStage
<1> HIDE DEF e
<1> QED
  BY <1>1, <1>2 DEF EntriesOK

(* The monitor takes the listed entry back to the beginning. *)
LEMMA OfflineStep ==
  ASSUME TypeInv, NEW n \in Nodes, MonitorOffline(n)
  PROVE  \E k \in Ks :
           /\ table[n] = k
           /\ EntriesOK' /\ CallsOK' /\ CallsKept
           /\ entry'[n][k] = NewEntry
           /\ \A m \in Nodes, j \in Ks : <<m, j>> # <<n, k>> => entry'[m][j] = entry[m][j]
           /\ \A c \in Callers : call[c] # Idle =>
                IF <<call[c].node, call[c].k>> = <<n, k>> THEN ~call'[c].current
                ELSE call'[c] = call[c]
<1>1. PICK k \in Ks : table[n] = k
  BY EntriesAssumption DEF MonitorOffline, TypeInv, TablesOK, Ks
<1>2. /\ entry' = [entry EXCEPT ![n][k] = NewEntry] /\ OnCalls(n, k, Invalidate)
      /\ EntriesOK /\ CallsOK
  BY <1>1 DEF MonitorOffline, TypeInv
<1>3. /\ EntriesOK' /\ entry'[n][k] = NewEntry
      /\ \A m \in Nodes, j \in Ks : <<m, j>> # <<n, k>> => entry'[m][j] = entry[m][j]
  BY <1>2 DEF EntriesOK, Entries, NewEntry
<1>4. /\ CallsOK' /\ CallsKept
      /\ \A c \in Callers : call[c] # Idle =>
           IF <<call[c].node, call[c].k>> = <<n, k>> THEN ~call'[c].current
           ELSE call'[c] = call[c]
  BY <1>2, InvalidateStep
<1> QED
  BY <1>1, <1>3, <1>4
-----------------------------------------------------------------------------
(* Types.                                                                   *)

(* A call gets a new record, the others keep theirs. *)
LEMMA ReplaceStep ==
  ASSUME CallsOK, NEW c \in Callers, NEW r \in Calls, call' = [call EXCEPT ![c] = r]
  PROVE  /\ CallsOK' /\ call'[c] = r /\ call'[c] # Idle
         /\ \A d \in Callers : d # c => call'[d] = call[d]
BY IdleIsNoCall DEF CallsOK

(* A call that begins, or begins in earnest, on an entry. *)
LEMMA BeginStep ==
  ASSUME CallsOK, NEW c \in Callers, NEW o \in {"identify", "initialize"}, NEW n \in Nodes,
         NEW k \in Ks, NEW pc \in {"found", "read", "start"}, NEW x \in Rates,
         Begin(c, o, n, k, pc, x)
  PROVE  /\ CallsOK'
         /\ call'[c] # Idle /\ call'[c].pc = pc /\ call'[c].op = o /\ call'[c].node = n
         /\ call'[c].k = k /\ call'[c].rate = x /\ call'[c].heard = 0
         /\ \A d \in Callers : d # c => call'[d] = call[d]
<1> DEFINE r == [pc |-> pc, op |-> o, node |-> n, k |-> k, rate |-> x,
                 current |-> TRUE, heard |-> 0]
<1>1. r \in Calls
  BY DEF Calls
<1>2. /\ r.pc = pc /\ r.op = o /\ r.node = n /\ r.k = k /\ r.rate = x /\ r.heard = 0
  OBVIOUS
<1>3. call' = [call EXCEPT ![c] = r]
  BY DEF Begin
<1> HIDE DEF r
<1> QED
  BY <1>1, <1>2, <1>3, ReplaceStep

(* A call that goes on. *)
LEMMA GotoStep ==
  ASSUME CallsOK, NEW c \in Callers, call[c] # Idle, NEW pc \in {"configure", "commit"},
         Goto(c, pc)
  PROVE  /\ CallsOK'
         /\ call'[c] # Idle /\ call'[c].pc = pc /\ call'[c].op = call[c].op
         /\ call'[c].node = call[c].node /\ call'[c].k = call[c].k
         /\ call'[c].rate = call[c].rate /\ call'[c].current = call[c].current
         /\ call'[c].heard = call[c].heard
         /\ \A d \in Callers : d # c => call'[d] = call[d]
<1> DEFINE r == [call[c] EXCEPT !.pc = pc]
<1>1. /\ r \in Calls
      /\ r.pc = pc /\ r.op = call[c].op /\ r.node = call[c].node /\ r.k = call[c].k
      /\ r.rate = call[c].rate /\ r.current = call[c].current /\ r.heard = call[c].heard
  <2>1. call[c] \in Calls
    BY DEF CallsOK
  <2> QED
    BY <2>1 DEF Calls
<1>2. call' = [call EXCEPT ![c] = r]
  BY DEF Goto
<1> HIDE DEF r
<1> QED
  BY <1>1, <1>2, ReplaceStep

(* A call that ends. *)
LEMMA EndStep ==
  ASSUME CallsOK, NEW c \in Callers, call' = [call EXCEPT ![c] = Idle]
  PROVE  CallsOK' /\ call'[c] = Idle /\ \A d \in Callers : d # c => call'[d] = call[d]
BY DEF CallsOK
(* The number a call holds is not taken back. *)
LEMMA NumbersKept ==
  ASSUME TypeInv, CallsKept, CallsOK', UNCHANGED tableVars
  PROVE  TablesOK' /\ MadeBeforeHeld'
BY DEF TypeInv, TablesOK, MadeBeforeHeld, CallsKept, tableVars

(* The same where one call changes and holds an entry that has been made. *)
LEMMA NumbersKeptBut ==
  ASSUME TypeInv, UNCHANGED tableVars, NEW c \in Callers,
         \A d \in Callers : d # c => call'[d] = call[d],
         call'[c] = Idle \/ call'[c].k <= made[call'[c].node]
  PROVE  TablesOK' /\ MadeBeforeHeld'
BY DEF TypeInv, TablesOK, MadeBeforeHeld, tableVars

(* The same where an entry is made. *)
LEMMA NumbersGrow ==
  ASSUME TypeInv, TablesOK', \A m \in Nodes : table'[m] <= made'[m] /\ made[m] <= made'[m],
         NEW S \in SUBSET Callers, \A d \in Callers \ S : call'[d] = call[d],
         \A c \in S : call'[c].k <= made'[call'[c].node]
  PROVE  MadeBeforeHeld'
<1>1. ASSUME NEW d \in Callers \ S, call'[d] # Idle PROVE call'[d].k <= made'[call'[d].node]
  <2>1. call[d] \in Calls /\ call'[d] = call[d] /\ call[d].k <= made[call[d].node]
    BY <1>1 DEF TypeInv, CallsOK, MadeBeforeHeld
  <2> DEFINE n == call[d].node
  <2>2. n \in Nodes /\ call[d].k \in Int
    BY <2>1 DEF Calls, Ks
  <2>3. made[n] \in Int /\ made'[n] \in Int /\ made[n] <= made'[n]
    BY <2>2 DEF TypeInv, TablesOK
  <2> QED
    BY <2>1, <2>2, <2>3
<1> QED
  BY <1>1 DEF MadeBeforeHeld

(* Every variable keeps its type, and a number stays given out. *)
LEMMA TypeStep == TypeInv /\ [Next]_vars => TypeInv'
<1> SUFFICES ASSUME TypeInv, [Next]_vars PROVE TypeInv'
  OBVIOUS
<1>0. /\ TablesOK /\ EntriesOK /\ CallsOK /\ FreezeOK /\ RatesOK /\ HbOK /\ MadeBeforeHeld
  BY DEF TypeInv
<1>a. ASSUME UNCHANGED rateVars PROVE FreezeOK' /\ RatesOK'
  BY <1>0, <1>a DEF FreezeOK, RatesOK, rateVars
<1>b. ASSUME UNCHANGED <<rate, frozen, window, freeze>> PROVE FreezeOK' /\ RatesOK'
  BY <1>0, <1>b DEF FreezeOK, RatesOK
<1>e. ASSUME UNCHANGED entry PROVE EntriesOK'
  BY <1>0, <1>e DEF EntriesOK
<1>h. ASSUME UNCHANGED hb PROVE HbOK'
  BY <1>0, <1>h DEF HbOK
<1>c. ASSUME UNCHANGED call PROVE CallsOK' /\ CallsKept
  BY <1>0, <1>c DEF CallsOK, CallsKept
<1>n. DefaultRate \in Rates /\ PdoProfile \in Rates
  BY <1>0, RatesAssumption DEF RatesOK, PdoProfile
<1>1. CASE Power
  BY <1>1, <1>a, <1>e, <1>h, <1>c, NumbersKept DEF Power, TypeInv
<1>2. ASSUME NEW n \in Nodes, HeartbeatFound(n) PROVE TypeInv'
  <2>1. /\ GetOrInsert(n) /\ hb' = <<n, table'[n]>>
        /\ UNCHANGED <<entry, call, rateVars>>
    BY <1>2 DEF HeartbeatFound
  <2>2. /\ TablesOK' /\ table'[n] \in Ks
        /\ \A m \in Nodes : table'[m] <= made'[m] /\ made[m] <= made'[m]
    BY <1>0, <2>1, LookedUp
  <2>3. MadeBeforeHeld'
    <3>1. \A d \in Callers \ {} : call'[d] = call[d]
      BY <2>1
    <3>2. {} \in SUBSET Callers /\ \A d \in {} : call'[d].k <= made'[call'[d].node]
      OBVIOUS
    <3> QED
      BY <2>2, <3>1, <3>2, NumbersGrow, Zenon
  <2>4. HbOK'
    BY <2>1, <2>2 DEF HbOK
  <2> QED
    BY <1>a, <1>e, <1>c, <2>1, <2>2, <2>3, <2>4 DEF TypeInv
<1>3. CASE HeartbeatHandled
  <2>1. EntriesOK' /\ CallsOK' /\ CallsKept /\ hb' = None
    BY <1>3, HandledStep
  <2>2. HbOK' /\ UNCHANGED <<tableVars, rateVars>>
    BY <1>3, <2>1 DEF HeartbeatHandled, HbOK
  <2> QED
    BY <1>a, <2>1, <2>2, NumbersKept DEF TypeInv
<1>4. ASSUME NEW n \in Nodes, MonitorOffline(n) PROVE TypeInv'
  <2>1. EntriesOK' /\ CallsOK' /\ CallsKept
    BY <1>4, OfflineStep
  <2>2. UNCHANGED <<tableVars, hb, rateVars>>
    BY <1>4 DEF MonitorOffline
  <2> QED
    BY <1>a, <1>h, <2>1, <2>2, NumbersKept DEF TypeInv
<1>5. CASE ForgetOffline
  <2>1. /\ table' = [n \in Nodes |-> IF table[n] # 0 /\ Forgotten(n) THEN 0 ELSE table[n]]
        /\ UNCHANGED <<made, entry, call, hb, rateVars>>
    BY <1>5 DEF ForgetOffline
  <2>2. TablesOK' /\ MadeBeforeHeld'
    BY <1>0, <2>1, EntriesAssumption DEF TablesOK, MadeBeforeHeld
  <2> QED
    BY <1>a, <1>e, <1>h, <1>c, <2>1, <2>2 DEF TypeInv
<1>6. ASSUME NEW c \in Callers, Identify(c) PROVE TypeInv'
  <2>1. PICK n \in Nodes : /\ GetOrInsert(n)
                           /\ Begin(c, "identify", n, table'[n], "read", DefaultRate)
                           /\ UNCHANGED <<entry, hb, rateVars>>
    BY <1>6 DEF Identify
  <2>2. /\ TablesOK' /\ table'[n] \in Ks
        /\ \A m \in Nodes : table'[m] <= made'[m] /\ made[m] <= made'[m]
    BY <1>0, <2>1, LookedUp
  <2>3. /\ CallsOK' /\ call'[c].node = n /\ call'[c].k = table'[n]
        /\ \A d \in Callers : d # c => call'[d] = call[d]
    BY <1>0, <1>n, <2>1, <2>2, BeginStep
  <2>4. MadeBeforeHeld'
    <3>1. \A d \in Callers \ {c} : call'[d] = call[d]
      BY <2>3
    <3>2. \A d \in {c} : call'[d].k <= made'[call'[d].node]
      BY <2>2, <2>3
    <3>3. {c} \in SUBSET Callers
      OBVIOUS
    <3> QED
      BY <2>2, <3>1, <3>2, <3>3, NumbersGrow, Zenon
  <2> QED
    BY <1>a, <1>e, <1>h, <2>1, <2>2, <2>3, <2>4 DEF TypeInv
<1>7. ASSUME NEW c \in Callers, IdentifyDone(c) \/ InitializeCommit(c) \/ Fail(c)
      PROVE  TypeInv'
  <2>1. /\ call[c] # Idle /\ call' = [call EXCEPT ![c] = Idle]
        /\ UNCHANGED <<tableVars, hb, rateVars>>
    BY <1>7 DEF IdentifyDone, InitializeCommit, Fail
  <2>2. call[c].node \in Nodes /\ call[c].k \in Ks
    BY <1>0, <2>1 DEF CallsOK, Calls
  <2>3. EntriesOK'
    <3>1. \/ UNCHANGED entry
          \/ \E s \in Stages : SetStage(call[c].node, call[c].k, s)
      BY <1>7 DEF IdentifyDone, InitializeCommit, Fail, SetStage, Stages
    <3> QED
      BY <1>0, <1>e, <2>2, <3>1, StageStep
  <2>4. CallsOK' /\ call'[c] = Idle /\ \A d \in Callers : d # c => call'[d] = call[d]
    BY <1>0, <2>1, EndStep
  <2>5. TablesOK' /\ MadeBeforeHeld'
    BY <2>1, <2>4, NumbersKeptBut
  <2> QED
    BY <1>a, <1>h, <2>1, <2>3, <2>4, <2>5 DEF TypeInv
<1>8. ASSUME NEW c \in Callers, InitializeFound(c) PROVE TypeInv'
  <2>1. PICK n \in Nodes : /\ table[n] # 0
                           /\ Begin(c, "initialize", n, table[n], "found", DefaultRate)
                           /\ UNCHANGED <<tableVars, entry, hb, rateVars>>
    BY <1>8 DEF InitializeFound
  <2>2. table[n] \in Ks
    BY <1>0, <2>1, EntriesAssumption DEF TablesOK, Ks
  <2>3. /\ CallsOK' /\ call'[c].node = n /\ call'[c].k = table[n]
        /\ \A d \in Callers : d # c => call'[d] = call[d]
    BY <1>0, <1>n, <2>1, <2>2, BeginStep
  <2>4. TablesOK' /\ MadeBeforeHeld'
    BY <1>0, <2>1, <2>3, NumbersKeptBut DEF MadeBeforeHeld
  <2> QED
    BY <1>a, <1>e, <1>h, <2>1, <2>3, <2>4 DEF TypeInv
<1>9. ASSUME NEW c \in Callers, InitializeAcquire(c) PROVE TypeInv'
  <2>1. /\ call[c] # Idle /\ UNCHANGED <<tableVars, entry, hb, rateVars>>
        /\ \/ Begin(c, "initialize", call[c].node, call[c].k, "start", PdoProfile)
           \/ call' = [call EXCEPT ![c] = Idle]
    BY <1>9 DEF InitializeAcquire
  <2>2. call[c].node \in Nodes /\ call[c].k \in Ks /\ call[c].k <= made[call[c].node]
    BY <1>0, <2>1 DEF CallsOK, Calls, MadeBeforeHeld
  <2>3. /\ CallsOK' /\ \A d \in Callers : d # c => call'[d] = call[d]
        /\ call'[c] = Idle \/ call'[c].k <= made[call'[c].node]
    <3>1. CASE Begin(c, "initialize", call[c].node, call[c].k, "start", PdoProfile)
      BY <1>0, <1>n, <2>2, <3>1, BeginStep
    <3>2. CASE call' = [call EXCEPT ![c] = Idle]
      BY <1>0, <3>2, EndStep
    <3> QED
      BY <2>1, <3>1, <3>2
  <2>4. TablesOK' /\ MadeBeforeHeld'
    BY <2>1, <2>3, NumbersKeptBut
  <2> QED
    BY <1>a, <1>e, <1>h, <2>1, <2>3, <2>4 DEF TypeInv
<1>10. ASSUME NEW c \in Callers, InitializeStart(c) \/ InitializeConfigure(c) PROVE TypeInv'
  <2>1. PICK pc \in {"configure", "commit"} :
          call[c] # Idle /\ Goto(c, pc) /\ UNCHANGED <<tableVars, hb>>
    BY <1>10 DEF InitializeStart, InitializeConfigure
  <2>2. call[c].node \in Nodes /\ call[c].k \in Ks /\ call[c].rate \in Rates
        /\ call[c].k <= made[call[c].node]
    BY <1>0, <2>1 DEF CallsOK, Calls, MadeBeforeHeld
  <2>3. /\ CallsOK' /\ call'[c].node = call[c].node /\ call'[c].k = call[c].k
        /\ \A d \in Callers : d # c => call'[d] = call[d]
    BY <1>0, <2>1, GotoStep
  <2>4. TablesOK' /\ MadeBeforeHeld'
    BY <2>1, <2>2, <2>3, NumbersKeptBut
  <2>5. EntriesOK' /\ RatesOK' /\ FreezeOK'
    <3>1. CASE InitializeStart(c)
      <4>1. /\ "Initializing" \in Stages /\ SetStage(call[c].node, call[c].k, "Initializing")
            /\ UNCHANGED rateVars
        BY <3>1 DEF InitializeStart, SetStage, Stages
      <4> QED
        BY <1>0, <1>a, <2>2, <4>1, StageStep
    <3>2. CASE InitializeConfigure(c)
      BY <1>0, <1>e, <2>2, <3>2 DEF InitializeConfigure, RatesOK, FreezeOK
    <3> QED
      BY <1>10, <3>1, <3>2
  <2> QED
    BY <1>h, <2>1, <2>3, <2>4, <2>5 DEF TypeInv
<1>11. CASE Freeze \/ FreezeStep
  <2>1. UNCHANGED <<tableVars, entry, call, hb>>
    BY <1>11 DEF Freeze, FreezeStep, FreezeChecked, FreezeSet, FreezeWindow
  <2>2. FreezeOK' /\ RatesOK'
    <3>1. CASE Freeze
      BY <1>0, <3>1 DEF Freeze, FreezeOK, Freezes, RatesOK
    <3>2. CASE FreezeStep
      <4>1. freeze \in Freezes
        <5>1. Idle.pc = "idle"
          BY DEF Idle
        <5> QED
          BY <1>0, <3>2, <5>1
             DEF FreezeStep, FreezeChecked, FreezeSet, FreezeWindow, FreezeOK
      <4> QED
        BY <1>0, <3>2, <4>1
           DEF FreezeStep, FreezeChecked, FreezeSet, FreezeWindow, FreezeOK, Freezes, RatesOK
    <3> QED
      BY <1>11, <3>1, <3>2
  <2> QED
    BY <1>e, <1>h, <1>c, <2>1, <2>2, NumbersKept DEF TypeInv
<1>12. CASE UNCHANGED vars
  BY <1>12, <1>a, <1>b, <1>e, <1>h, <1>c, NumbersKept DEF vars, TypeInv, tableVars, rateVars
<1> QED
  BY <1>1, <1>2, <1>3, <1>4, <1>5, <1>6, <1>7, <1>8, <1>9, <1>10, <1>11, <1>12
     DEF Next, Heartbeats, CallerStep
-----------------------------------------------------------------------------
(* One operation per node.                                                  *)

(* A call is at work on the same node as before. *)
LEMMA WorkKept ==
  ASSUME OneOperationPerNode, UNCHANGED inflight,
         \A d \in Callers, m \in Nodes : Working(d, m)' <=> Working(d, m)
  PROVE  OneOperationPerNode'
BY DEF OneOperationPerNode

(* A call begins to work on a node nobody works on. *)
LEMMA WorkBegins ==
  ASSUME OneOperationPerNode, NEW c \in Callers, NEW n \in Nodes,
         n \notin inflight, inflight' = inflight \cup {n},
         \A d \in Callers, m \in Nodes : Working(d, m)' <=> Working(d, m) \/ (d = c /\ m = n)
  PROVE  OneOperationPerNode'
BY DEF OneOperationPerNode

(* A call ends, and frees its node. *)
LEMMA WorkEnds ==
  ASSUME OneOperationPerNode, NEW c \in Callers, NEW n \in Nodes,
         Working(c, n), inflight' = inflight \ {n},
         \A d \in Callers, m \in Nodes : Working(d, m)' <=> Working(d, m) /\ d # c
  PROVE  OneOperationPerNode'
<1>1. \A m \in Nodes : Working(c, m) => m = n
  BY DEF Working
<1>2. ASSUME NEW m \in Nodes PROVE m \in inflight' <=> \E d \in Callers : Working(d, m)'
  BY <1>1 DEF OneOperationPerNode
<1>3. \A m \in Nodes, d, e \in Callers : Working(d, m)' /\ Working(e, m)' => d = e
  BY DEF OneOperationPerNode
<1> QED
  BY <1>2, <1>3 DEF OneOperationPerNode

LEMMA ExclusionStep == TypeInv /\ OneOperationPerNode /\ [Next]_vars => OneOperationPerNode'
<1> SUFFICES ASSUME TypeInv, OneOperationPerNode, [Next]_vars PROVE OneOperationPerNode'
  OBVIOUS
<1>0. /\ TablesOK /\ CallsOK /\ RatesOK /\ MadeBeforeHeld
      /\ \A c \in Callers : call[c] # Idle => call[c].node \in Nodes /\ call[c].k \in Ks
  BY DEF TypeInv, CallsOK, Calls
<1>n. DefaultRate \in Rates /\ PdoProfile \in Rates
  BY <1>0, RatesAssumption DEF RatesOK, PdoProfile
<1>k. ASSUME CallsKept, UNCHANGED inflight PROVE OneOperationPerNode'
  <2>1. \A d \in Callers, m \in Nodes : Working(d, m)' <=> Working(d, m)
    BY <1>k DEF CallsKept, Working
  <2> QED
    BY <1>k, <2>1, WorkKept
<1>c. UNCHANGED call => CallsKept
  BY DEF CallsKept
<1>1. CASE Power \/ ForgetOffline \/ Freeze \/ FreezeStep \/ \E n \in Nodes : HeartbeatFound(n)
  BY <1>1, <1>k, <1>c
     DEF Power, ForgetOffline, Freeze, FreezeStep, FreezeChecked, FreezeSet, FreezeWindow,
         HeartbeatFound
<1>2. CASE HeartbeatHandled
  BY <1>2, <1>k, HandledStep DEF HeartbeatHandled
<1>3. ASSUME NEW n \in Nodes, MonitorOffline(n) PROVE OneOperationPerNode'
  BY <1>3, <1>k, OfflineStep DEF MonitorOffline
<1>4. ASSUME NEW c \in Callers, Identify(c) PROVE OneOperationPerNode'
  <2>1. PICK n \in Nodes : /\ call[c] = Idle /\ n \notin inflight /\ inflight' = inflight \cup {n}
                           /\ GetOrInsert(n)
                           /\ Begin(c, "identify", n, table'[n], "read", DefaultRate)
    BY <1>4 DEF Identify, Acquirable
  <2>2. table'[n] \in Ks
    BY <1>0, <2>1, LookedUp
  <2>3. /\ call'[c] # Idle /\ call'[c].pc = "read" /\ call'[c].node = n
        /\ \A d \in Callers : d # c => call'[d] = call[d]
    BY <1>0, <1>n, <2>1, <2>2, BeginStep
  <2>4. \A d \in Callers, m \in Nodes : Working(d, m)' <=> Working(d, m) \/ (d = c /\ m = n)
    BY <2>1, <2>3 DEF Working
  <2> QED
    BY <2>1, <2>4, WorkBegins
<1>5. ASSUME NEW c \in Callers, IdentifyDone(c) \/ InitializeCommit(c) \/ Fail(c)
      PROVE  OneOperationPerNode'
  <2> DEFINE n == call[c].node
  <2>1. /\ call[c] # Idle /\ call[c].pc # "found" /\ inflight' = inflight \ {n}
        /\ call' = [call EXCEPT ![c] = Idle]
    BY <1>5 DEF IdentifyDone, InitializeCommit, Fail
  <2>2. call'[c] = Idle /\ \A d \in Callers : d # c => call'[d] = call[d]
    BY <1>0, <2>1, EndStep
  <2>3. n \in Nodes /\ Working(c, n)
    BY <1>0, <2>1 DEF Working
  <2>4. \A d \in Callers, m \in Nodes : Working(d, m)' <=> Working(d, m) /\ d # c
    BY <2>2 DEF Working
  <2> HIDE DEF n
  <2> QED
    BY <2>1, <2>3, <2>4, WorkEnds
<1>6. ASSUME NEW c \in Callers, InitializeFound(c) PROVE OneOperationPerNode'
  <2>1. PICK n \in Nodes : /\ call[c] = Idle /\ table[n] # 0 /\ UNCHANGED inflight
                           /\ Begin(c, "initialize", n, table[n], "found", DefaultRate)
    BY <1>6 DEF InitializeFound
  <2>2. table[n] \in Ks
    BY <1>0, <2>1, EntriesAssumption DEF TablesOK, Ks
  <2>3. /\ call'[c] # Idle /\ call'[c].pc = "found"
        /\ \A d \in Callers : d # c => call'[d] = call[d]
    BY <1>0, <1>n, <2>1, <2>2, BeginStep
  <2>4. \A d \in Callers, m \in Nodes : Working(d, m)' <=> Working(d, m)
    BY <2>1, <2>3 DEF Working
  <2> QED
    BY <2>1, <2>4, WorkKept
<1>7. ASSUME NEW c \in Callers, InitializeAcquire(c) PROVE OneOperationPerNode'
  <2> DEFINE n == call[c].node
  <2>1. /\ call[c] # Idle /\ call[c].pc = "found"
        /\ \/ /\ Begin(c, "initialize", n, call[c].k, "start", PdoProfile)
              /\ n \notin inflight /\ inflight' = inflight \cup {n}
           \/ call' = [call EXCEPT ![c] = Idle] /\ UNCHANGED inflight
    BY <1>7 DEF InitializeAcquire, Acquirable
  <2>2. n \in Nodes /\ call[c].k \in Ks
    BY <1>0, <2>1
  <2> HIDE DEF n
  <2>3. CASE /\ Begin(c, "initialize", n, call[c].k, "start", PdoProfile)
             /\ n \notin inflight /\ inflight' = inflight \cup {n}
    <3>1. /\ call'[c] # Idle /\ call'[c].pc = "start" /\ call'[c].node = n
          /\ \A d \in Callers : d # c => call'[d] = call[d]
      BY <1>0, <1>n, <2>2, <2>3, BeginStep
    <3>2. \A d \in Callers, m \in Nodes : Working(d, m)' <=> Working(d, m) \/ (d = c /\ m = n)
      BY <2>1, <3>1 DEF Working
    <3> QED
      BY <2>2, <2>3, <3>2, WorkBegins
  <2>4. CASE call' = [call EXCEPT ![c] = Idle] /\ UNCHANGED inflight
    <3>1. call'[c] = Idle /\ \A d \in Callers : d # c => call'[d] = call[d]
      BY <1>0, <2>4, EndStep
    <3>2. \A d \in Callers, m \in Nodes : Working(d, m)' <=> Working(d, m)
      BY <2>1, <3>1 DEF Working
    <3> QED
      BY <2>4, <3>2, WorkKept
  <2> QED
    BY <2>1, <2>3, <2>4
<1>8. ASSUME NEW c \in Callers, InitializeStart(c) \/ InitializeConfigure(c)
      PROVE  OneOperationPerNode'
  <2>1. PICK pc \in {"configure", "commit"} :
          call[c] # Idle /\ call[c].pc # "found" /\ Goto(c, pc) /\ UNCHANGED inflight
    BY <1>8 DEF InitializeStart, InitializeConfigure
  <2>2. /\ call'[c] # Idle /\ call'[c].pc # "found" /\ call'[c].node = call[c].node
        /\ \A d \in Callers : d # c => call'[d] = call[d]
    BY <1>0, <2>1, GotoStep
  <2>3. \A d \in Callers, m \in Nodes : Working(d, m)' <=> Working(d, m)
    BY <2>1, <2>2 DEF Working
  <2> QED
    BY <2>1, <2>3, WorkKept
<1>9. CASE UNCHANGED vars
  BY <1>9, <1>k, <1>c DEF vars
<1> QED
  BY <1>1, <1>2, <1>3, <1>4, <1>5, <1>6, <1>7, <1>8, <1>9 DEF Next, Heartbeats, CallerStep
-----------------------------------------------------------------------------
(* No commit on an entry off the table.                                     *)

OrphanInv == InitializedIsOnline /\ NoCommitOnOrphan /\ HeardWhileOnline

(* What a call has heard, and of which entry. *)
HeardOf(c, n, k) ==
  call[c] # Idle /\ call[c].current /\ call[c].heard > 0 /\ call[c].node = n /\ call[c].k = k

LEMMA HeardWhileOnlineIs ==
  HeardWhileOnline <=>
    \A c \in Callers : \A n, k : HeardOf(c, n, k) =>
      \/ table[n] = k /\ entry[n][k].online
      \/ table[n] # k /\ call[c].heard = 1 /\ hb # <<n, k>>
BY DEF HeardWhileOnline, HeardOf

(* A caller's step changes neither the table nor what is online, and no     *)
(* call has heard more of its entry than before.                            *)
LEMMA OrphansKept ==
  ASSUME TypeInv, OrphanInv, TypeInv',
         \A n \in Nodes : \A k \in Ks : table[n] = k => table'[n] = k,
         \A n \in Nodes : \A k \in Ks :
           /\ entry'[n][k].online = entry[n][k].online
           /\ entry'[n][k].stage = "Initialized" =>
                entry[n][k].stage = "Initialized" \/ (table[n] = k /\ entry[n][k].online),
         \A c \in Callers : \A n \in Nodes, k \in Ks : HeardOf(c, n, k)' =>
           /\ HeardOf(c, n, k) /\ call'[c].heard = call[c].heard
           /\ table[n] # k => table'[n] # k /\ hb' # <<n, k>>
  PROVE  OrphanInv'
<1>1. ASSUME NEW n \in Nodes, NEW k \in Ks, entry'[n][k].stage = "Initialized"
      PROVE  entry'[n][k].online /\ table'[n] = k
  BY <1>1 DEF OrphanInv, InitializedIsOnline, NoCommitOnOrphan, Ks
<1>2. ASSUME NEW c \in Callers, NEW n, NEW k, HeardOf(c, n, k)'
      PROVE  \/ table'[n] = k /\ entry'[n][k].online
             \/ table'[n] # k /\ call'[c].heard = 1 /\ hb' # <<n, k>>
  <2>1. n \in Nodes /\ k \in Ks
    BY <1>2 DEF HeardOf, TypeInv, CallsOK, Calls
  <2>2. /\ HeardOf(c, n, k) /\ call'[c].heard = call[c].heard
        /\ table[n] # k => table'[n] # k /\ hb' # <<n, k>>
    BY <1>2, <2>1
  <2>3. \/ table[n] = k /\ entry[n][k].online
        \/ table[n] # k /\ call[c].heard = 1 /\ hb # <<n, k>>
    BY <2>2, HeardWhileOnlineIs DEF OrphanInv
  <2> QED
    BY <2>1, <2>2, <2>3
<1>3. InitializedIsOnline' /\ NoCommitOnOrphan'
  BY <1>1 DEF InitializedIsOnline, NoCommitOnOrphan, Ks
<1>4. HeardWhileOnline'
  BY <1>2 DEF HeardWhileOnline, HeardOf
<1> QED
  BY <1>3, <1>4 DEF OrphanInv
(* Only a listed entry that is online can be committed. *)
LEMMA CommitListed ==
  ASSUME TypeInv, OrphanInv, NEW c \in Callers, InitializeCommit(c)
  PROVE  table[call[c].node] = call[c].k /\ entry[call[c].node][call[c].k].online
<1>1. /\ call[c] # Idle /\ call[c].current /\ call[c].heard = 2
  BY DEF InitializeCommit
<1> QED
  BY <1>1 DEF OrphanInv, HeardWhileOnline

LEMMA OrphanStep == TypeInv /\ OrphanInv /\ TypeInv' /\ [Next]_vars => OrphanInv'
<1> SUFFICES ASSUME TypeInv, OrphanInv, TypeInv', [Next]_vars PROVE OrphanInv'
  OBVIOUS
<1>0. /\ TablesOK /\ CallsOK /\ RatesOK /\ MadeBeforeHeld
      /\ \A c \in Callers : call[c] # Idle => call[c].node \in Nodes /\ call[c].k \in Ks
  BY DEF TypeInv, CallsOK, Calls
<1>n. DefaultRate \in Rates /\ PdoProfile \in Rates
  BY <1>0, RatesAssumption DEF RatesOK, PdoProfile
<1>o. \A c \in Callers : \A n \in Nodes, k \in Ks : HeardOf(c, n, k) /\ table[n] # k => hb # <<n, k>>
  BY HeardWhileOnlineIs DEF OrphanInv
<1>k. ASSUME UNCHANGED <<table, hb>>,
             \A n \in Nodes : \A k \in Ks :
               /\ entry'[n][k].online = entry[n][k].online
               /\ entry'[n][k].stage = "Initialized" =>
                    entry[n][k].stage = "Initialized" \/ (table[n] = k /\ entry[n][k].online),
             NEW c \in Callers, \A d \in Callers : d # c => call'[d] = call[d],
             \A n \in Nodes, k \in Ks : HeardOf(c, n, k)' =>
               HeardOf(c, n, k) /\ call'[c].heard = call[c].heard
      PROVE  OrphanInv'
  <2>1. ASSUME NEW d \in Callers, NEW n \in Nodes, NEW k \in Ks, HeardOf(d, n, k)'
        PROVE  /\ HeardOf(d, n, k) /\ call'[d].heard = call[d].heard
               /\ table[n] # k => table'[n] # k /\ hb' # <<n, k>>
    <3>1. HeardOf(d, n, k) /\ call'[d].heard = call[d].heard
      BY <1>k, <2>1 DEF HeardOf
    <3> QED
      BY <1>k, <1>o, <3>1
  <2>2. \A n \in Nodes : \A k \in Ks : table[n] = k => table'[n] = k
    BY <1>k
  <2> QED
    BY <1>k, <2>1, <2>2, OrphansKept
<1>u. ASSUME UNCHANGED <<table, entry, call>>, hb' = hb \/ hb' = None PROVE OrphanInv'
  <2>1. \A n \in Nodes, k \in Ks : None # <<n, k>>
    BY NoneAssumption, EntriesAssumption DEF Ks
  <2> QED
    BY <1>u, <1>o, <2>1, OrphansKept DEF HeardOf
<1>1. CASE Power \/ Freeze \/ FreezeStep \/ UNCHANGED vars
  <2>1. UNCHANGED <<table, entry, call, hb>>
    BY <1>1 DEF Power, Freeze, FreezeStep, FreezeChecked, FreezeSet, FreezeWindow, vars, tableVars
  <2> QED
    BY <1>u, <2>1
<1>2. ASSUME NEW n \in Nodes, HeartbeatFound(n) PROVE OrphanInv'
  <2>1. GetOrInsert(n) /\ hb' = <<n, table'[n]>> /\ UNCHANGED <<entry, call>>
    BY <1>2 DEF HeartbeatFound
  <2>2. /\ \A m \in Nodes : table[m] # 0 => table'[m] = table[m]
        /\ \A m \in Nodes : table'[m] = table[m] \/ table'[m] > made[m]
    BY <1>0, <2>1, LookedUp
  <2>3. \A m \in Nodes : \A k \in Ks : table[m] = k => table'[m] = k
    BY <2>2 DEF Ks
  <2>4. ASSUME NEW c \in Callers, NEW m \in Nodes, NEW k \in Ks, HeardOf(c, m, k)'
        PROVE  /\ HeardOf(c, m, k) /\ call'[c].heard = call[c].heard
               /\ table[m] # k => table'[m] # k /\ hb' # <<m, k>>
    <3>1. HeardOf(c, m, k) /\ call'[c].heard = call[c].heard
      BY <2>1, <2>4 DEF HeardOf
    <3>2. k <= made[m] /\ made[m] \in Nat /\ table'[m] \in Nat
      BY <1>0, <3>1 DEF MadeBeforeHeld, HeardOf, TablesOK, TypeInv
    <3>3. table[m] # k => table'[m] # k
      BY <2>2, <3>2 DEF Ks
    <3> QED
      BY <2>1, <3>1, <3>3
  <2> QED
    BY <2>1, <2>3, <2>4, OrphansKept
<1>3. CASE HeartbeatHandled
  <2>1. PICK n \in Nodes, k \in Ks :
           /\ hb = <<n, k>> /\ hb' = None
           /\ CallsKept
           /\ entry'[n][k].online
           /\ entry'[n][k].stage = "Initialized" => entry[n][k].stage = "Initialized"
           /\ \A m \in Nodes, j \in Ks : <<m, j>> # <<n, k>> => entry'[m][j] = entry[m][j]
           /\ \A c \in Callers : call[c] # Idle =>
                /\ call'[c].current =>
                     /\ call[c].current
                     /\ call'[c].heard > 0 => call'[c].heard <= call[c].heard + 1
                /\ <<call[c].node, call[c].k>> # <<n, k>> =>
                     call'[c].current = call[c].current /\ call'[c].heard = call[c].heard
    BY <1>3, HandledStep
  <2>2. table' = table
    BY <1>3 DEF HeartbeatHandled, tableVars
  <2>3. None # <<n, k>>
    BY <1>3, <2>1 DEF HeartbeatHandled
  <2>4. InitializedIsOnline' /\ NoCommitOnOrphan'
    BY <2>1, <2>2 DEF OrphanInv, InitializedIsOnline, NoCommitOnOrphan, Ks
  <2>5. ASSUME NEW c \in Callers, NEW m, NEW j, HeardOf(c, m, j)'
        PROVE  \/ table'[m] = j /\ entry'[m][j].online
               \/ table'[m] # j /\ call'[c].heard = 1 /\ hb' # <<m, j>>
    <3>1. /\ call[c] # Idle /\ call[c].node = m /\ call[c].k = j /\ call[c].current
          /\ call'[c].current /\ call'[c].heard > 0 /\ m \in Nodes /\ j \in Ks
          /\ call[c].heard \in 0 .. 2 /\ call'[c].heard \in 0 .. 2
      BY <1>0, <2>1, <2>5 DEF HeardOf, CallsKept, CallsOK, Calls, TypeInv
    <3>2. hb' # <<m, j>>
      BY <2>1, <3>1, NoneAssumption, EntriesAssumption DEF Ks
    <3>3. CASE <<m, j>> = <<n, k>>
      <4>1. m = n /\ j = k
        BY <3>3
      <4>2. CASE table[n] = k
        BY <2>1, <2>2, <4>1, <4>2
      <4>3. CASE table[n] # k
        <5>1. ~HeardOf(c, n, k)
          BY <1>o, <2>1, <4>3
        <5>2. call[c].heard = 0
          BY <3>1, <4>1, <5>1 DEF HeardOf
        <5>3. call'[c].heard = 1
          BY <2>1, <3>1, <5>2
        <5> QED
          BY <2>2, <3>2, <4>1, <4>3, <5>3
      <4> QED
        BY <4>2, <4>3
    <3>4. CASE <<m, j>> # <<n, k>>
      <4>1. HeardOf(c, m, j) /\ call'[c].heard = call[c].heard /\ entry'[m][j] = entry[m][j]
        BY <2>1, <3>1, <3>4 DEF HeardOf
      <4> QED
        BY <2>2, <3>2, <4>1, HeardWhileOnlineIs DEF OrphanInv
    <3> QED
      BY <3>3, <3>4
  <2>6. HeardWhileOnline'
    BY <2>5 DEF HeardWhileOnline, HeardOf
  <2> QED
    BY <2>4, <2>6 DEF OrphanInv
<1>4. ASSUME NEW n \in Nodes, MonitorOffline(n) PROVE OrphanInv'
  <2>1. PICK k \in Ks :
           /\ table[n] = k
           /\ entry'[n][k] = NewEntry
           /\ \A m \in Nodes, j \in Ks : <<m, j>> # <<n, k>> => entry'[m][j] = entry[m][j]
           /\ \A c \in Callers : call[c] # Idle =>
                IF <<call[c].node, call[c].k>> = <<n, k>> THEN ~call'[c].current
                ELSE call'[c] = call[c]
           /\ CallsKept
    BY <1>4, OfflineStep
  <2>2. UNCHANGED <<table, hb>>
    BY <1>4 DEF MonitorOffline, tableVars
  <2>3. InitializedIsOnline' /\ NoCommitOnOrphan'
    BY <2>1, <2>2 DEF OrphanInv, InitializedIsOnline, NoCommitOnOrphan, Ks, NewEntry
  <2>4. ASSUME NEW c \in Callers, NEW m, NEW j, HeardOf(c, m, j)'
        PROVE  \/ table'[m] = j /\ entry'[m][j].online
               \/ table'[m] # j /\ call'[c].heard = 1 /\ hb' # <<m, j>>
    <3>1. call[c] # Idle /\ call[c].node = m /\ call[c].k = j /\ m \in Nodes /\ j \in Ks
      BY <1>0, <2>1, <2>4 DEF HeardOf, CallsKept
    <3>2. <<m, j>> # <<n, k>> /\ call'[c] = call[c]
      BY <2>1, <2>4, <3>1 DEF HeardOf
    <3>3. HeardOf(c, m, j) /\ entry'[m][j] = entry[m][j]
      BY <2>1, <2>4, <3>1, <3>2 DEF HeardOf
    <3> QED
      BY <2>2, <3>2, <3>3, HeardWhileOnlineIs DEF OrphanInv
  <2>5. HeardWhileOnline'
    BY <2>4 DEF HeardWhileOnline, HeardOf
  <2> QED
    BY <2>3, <2>5 DEF OrphanInv
<1>5. CASE ForgetOffline
  <2>1. /\ table' = [n \in Nodes |-> IF table[n] # 0 /\ Forgotten(n) THEN 0 ELSE table[n]]
        /\ UNCHANGED <<entry, call, hb>>
    BY <1>5 DEF ForgetOffline
  <2>2. \A n \in Nodes : \A k \in Ks :
          /\ table'[n] = k => table[n] = k
          /\ table[n] = k /\ entry[n][k].online => table'[n] = k
    BY <2>1 DEF Forgotten, Ks
  <2>3. InitializedIsOnline' /\ NoCommitOnOrphan'
    BY <2>1, <2>2 DEF OrphanInv, InitializedIsOnline, NoCommitOnOrphan, Ks
  <2>4. ASSUME NEW c \in Callers, NEW n, NEW k, HeardOf(c, n, k)
        PROVE  \/ table'[n] = k /\ entry[n][k].online
               \/ table'[n] # k /\ call[c].heard = 1 /\ hb # <<n, k>>
    <3>1. n \in Nodes /\ k \in Ks
      BY <1>0, <2>4 DEF HeardOf
    <3> QED
      BY <2>2, <2>4, <3>1, HeardWhileOnlineIs DEF OrphanInv
  <2>5. HeardWhileOnline'
    BY <2>1, <2>4 DEF HeardWhileOnline, HeardOf
  <2> QED
    BY <2>3, <2>5 DEF OrphanInv
<1>6. ASSUME NEW c \in Callers, Identify(c) PROVE OrphanInv'
  <2>1. PICK n \in Nodes : /\ GetOrInsert(n)
                           /\ Begin(c, "identify", n, table'[n], "read", DefaultRate)
                           /\ UNCHANGED <<entry, hb>>
    BY <1>6 DEF Identify
  <2>2. /\ \A m \in Nodes : table[m] # 0 => table'[m] = table[m]
        /\ \A m \in Nodes : table'[m] = table[m] \/ table'[m] > made[m]
        /\ table'[n] \in Ks
    BY <1>0, <2>1, LookedUp
  <2>3. call'[c].heard = 0 /\ \A d \in Callers : d # c => call'[d] = call[d]
    BY <1>0, <1>n, <2>1, <2>2, BeginStep
  <2>4. \A m \in Nodes : \A k \in Ks : table[m] = k => table'[m] = k
    BY <2>2 DEF Ks
  <2>5. ASSUME NEW d \in Callers, NEW m \in Nodes, NEW k \in Ks, HeardOf(d, m, k)'
        PROVE  /\ HeardOf(d, m, k) /\ call'[d].heard = call[d].heard
               /\ table[m] # k => table'[m] # k /\ hb' # <<m, k>>
    <3>1. HeardOf(d, m, k) /\ call'[d].heard = call[d].heard
      BY <2>3, <2>5 DEF HeardOf
    <3>2. k <= made[m] /\ made[m] \in Nat /\ table'[m] \in Nat
      BY <1>0, <3>1 DEF MadeBeforeHeld, HeardOf, TablesOK, TypeInv
    <3>3. table[m] # k => table'[m] # k
      BY <2>2, <3>2 DEF Ks
    <3> QED
      BY <1>o, <2>1, <3>1, <3>3
  <2> QED
    BY <2>1, <2>4, <2>5, OrphansKept
<1>7. ASSUME NEW c \in Callers, IdentifyDone(c) \/ InitializeCommit(c) \/ Fail(c)
      PROVE  OrphanInv'
  <2> DEFINE n == call[c].node
             k == call[c].k
  <2>1. /\ call[c] # Idle /\ call' = [call EXCEPT ![c] = Idle]
        /\ UNCHANGED <<table, hb>>
    BY <1>7 DEF IdentifyDone, InitializeCommit, Fail, tableVars
  <2>2. n \in Nodes /\ k \in Ks /\ EntriesOK
    BY <1>0, <2>1 DEF TypeInv
  <2>3. \/ UNCHANGED entry
        \/ entry' = [entry EXCEPT ![n][k].stage = "Identified"]
        \/ entry' = [entry EXCEPT ![n][k].stage = "Initialized"] /\ InitializeCommit(c)
    BY <1>7 DEF IdentifyDone, InitializeCommit, Fail
  <2>4. InitializeCommit(c) => table[n] = k /\ entry[n][k].online
    BY CommitListed
  <2>5. call'[c] = Idle /\ \A d \in Callers : d # c => call'[d] = call[d]
    BY <1>0, <2>1, EndStep
  <2> HIDE DEF n, k
  <2>6. ASSUME NEW m \in Nodes, NEW j \in Ks
        PROVE  /\ entry'[m][j].online = entry[m][j].online
               /\ entry'[m][j].stage = "Initialized" =>
                    entry[m][j].stage = "Initialized" \/ (table[m] = j /\ entry[m][j].online)
    <3>1. CASE UNCHANGED entry
      BY <3>1
    <3>2. CASE entry' = [entry EXCEPT ![n][k].stage = "Identified"]
      <4>1. /\ entry'[n][k].stage = "Identified" /\ entry'[n][k].online = entry[n][k].online
            /\ <<m, j>> # <<n, k>> => entry'[m][j] = entry[m][j]
        <5>1. "Identified" \in Stages /\ SetStage(n, k, "Identified")
          BY <3>2 DEF SetStage, Stages
        <5> QED
          BY <2>2, <5>1, StageStep
      <4> QED
        BY <4>1
    <3>3. CASE entry' = [entry EXCEPT ![n][k].stage = "Initialized"] /\ InitializeCommit(c)
      <4>1. /\ entry'[n][k].online = entry[n][k].online
            /\ <<m, j>> # <<n, k>> => entry'[m][j] = entry[m][j]
        <5>1. "Initialized" \in Stages /\ SetStage(n, k, "Initialized")
          BY <3>3 DEF SetStage, Stages
        <5> QED
          BY <2>2, <5>1, StageStep
      <4> QED
        BY <2>4, <3>3, <4>1
    <3> QED
      BY <2>3, <3>1, <3>2, <3>3
  <2> QED
    BY <1>k, <2>1, <2>5, <2>6 DEF HeardOf
<1>8. ASSUME NEW c \in Callers, InitializeFound(c) PROVE OrphanInv'
  <2>1. PICK n \in Nodes : /\ table[n] # 0
                           /\ Begin(c, "initialize", n, table[n], "found", DefaultRate)
                           /\ UNCHANGED <<table, entry, hb>>
    BY <1>8 DEF InitializeFound, tableVars
  <2>2. table[n] \in Ks
    BY <1>0, <2>1, EntriesAssumption DEF TablesOK, Ks
  <2>3. call'[c].heard = 0 /\ \A d \in Callers : d # c => call'[d] = call[d]
    BY <1>0, <1>n, <2>1, <2>2, BeginStep
  <2> QED
    BY <1>k, <2>1, <2>3 DEF HeardOf
<1>9. ASSUME NEW c \in Callers, InitializeAcquire(c) PROVE OrphanInv'
  <2>1. /\ call[c] # Idle /\ UNCHANGED <<table, entry, hb>>
        /\ \/ Begin(c, "initialize", call[c].node, call[c].k, "start", PdoProfile)
           \/ call' = [call EXCEPT ![c] = Idle]
    BY <1>9 DEF InitializeAcquire, tableVars
  <2>2. /\ call'[c] = Idle \/ call'[c].heard = 0
        /\ \A d \in Callers : d # c => call'[d] = call[d]
    <3>1. CASE Begin(c, "initialize", call[c].node, call[c].k, "start", PdoProfile)
      BY <1>0, <1>n, <2>1, <3>1, BeginStep
    <3>2. CASE call' = [call EXCEPT ![c] = Idle]
      BY <1>0, <3>2, EndStep
    <3> QED
      BY <2>1, <3>1, <3>2
  <2> QED
    BY <1>k, <2>1, <2>2 DEF HeardOf
<1>10. ASSUME NEW c \in Callers, InitializeStart(c) \/ InitializeConfigure(c) PROVE OrphanInv'
  <2>1. PICK pc \in {"configure", "commit"} :
          /\ call[c] # Idle /\ Goto(c, pc) /\ UNCHANGED <<table, hb>>
          /\ \/ entry' = [entry EXCEPT ![call[c].node][call[c].k].stage = "Initializing"]
             \/ UNCHANGED entry
    BY <1>10 DEF InitializeStart, InitializeConfigure, tableVars
  <2>2. /\ call'[c].node = call[c].node /\ call'[c].k = call[c].k
        /\ call'[c].current = call[c].current /\ call'[c].heard = call[c].heard
        /\ \A d \in Callers : d # c => call'[d] = call[d]
    BY <1>0, <2>1, GotoStep
  <2>3. ASSUME NEW m \in Nodes, NEW j \in Ks
        PROVE  /\ entry'[m][j].online = entry[m][j].online
               /\ entry'[m][j].stage = "Initialized" => entry[m][j].stage = "Initialized"
    <3>1. CASE UNCHANGED entry
      BY <3>1
    <3>2. CASE entry' = [entry EXCEPT ![call[c].node][call[c].k].stage = "Initializing"]
      <4> DEFINE n == call[c].node
                 k == call[c].k
      <4>1. n \in Nodes /\ k \in Ks /\ EntriesOK
        BY <1>0, <2>1 DEF TypeInv
      <4>2. entry' = [entry EXCEPT ![n][k].stage = "Initializing"]
        BY <3>2
      <4> HIDE DEF n, k
      <4>3. /\ entry'[n][k].stage = "Initializing" /\ entry'[n][k].online = entry[n][k].online
            /\ <<m, j>> # <<n, k>> => entry'[m][j] = entry[m][j]
        <5>1. "Initializing" \in Stages /\ SetStage(n, k, "Initializing")
          BY <4>2 DEF SetStage, Stages
        <5> QED
          BY <4>1, <5>1, StageStep
      <4> QED
        BY <4>3
    <3> QED
      BY <2>1, <3>1, <3>2
  <2> QED
    BY <1>k, <2>1, <2>2, <2>3 DEF HeardOf
<1> QED
  BY <1>1, <1>2, <1>3, <1>4, <1>5, <1>6, <1>7, <1>8, <1>9, <1>10
     DEF Next, Heartbeats, CallerStep
-----------------------------------------------------------------------------
(* One rate per bus.                                                        *)

(* The part of RateInv about the calls, and the part about the bus. *)
RateCalls == FreezeAlone /\ RateRead /\ PastReadInitializes
RateBus == WindowFollows /\ SetAsFrozen /\ RateInUse

(* What holds of one call. *)
RateCall(c) ==
  call[c] # Idle =>
    /\ call[c].op = "initialize" =>
         /\ freeze = Idle
         /\ call[c].pc \in {"found", "start", "configure", "commit"}
         /\ call[c].pc # "found" => call[c].rate = PdoProfile
         /\ call[c].pc = "commit" => rate[call[c].node] = call[c].rate
    /\ call[c].op = "identify" => call[c].pc = "read"

LEMMA RateCallsIs == RateCalls <=> \A c \in Callers : RateCall(c)
BY DEF RateCalls, FreezeAlone, RateRead, PastReadInitializes, RateCall

LEMMA RateCallsNext == RateCalls' <=> \A c \in Callers : RateCall(c)'
BY DEF RateCalls, FreezeAlone, RateRead, PastReadInitializes, RateCall

(* Nobody writes a rate, and the calls but one are where they were. *)
LEMMA RateCallsKept ==
  ASSUME RateCalls, UNCHANGED rateVars,
         NEW S \in SUBSET Callers, \A c \in S : RateCall(c)',
         \A d \in Callers \ S : call'[d] = call[d]
  PROVE  RateCalls'
<1>1. PdoProfile' = PdoProfile
  BY DEF PdoProfile, rateVars
<1>2. ASSUME NEW d \in Callers \ S PROVE RateCall(d)'
  BY <1>1, <1>2, RateCallsIs DEF RateCall, rateVars
<1> QED
  BY <1>2, RateCallsNext

LEMMA RateCallsHeard ==
  ASSUME RateCalls, UNCHANGED rateVars, CallsKept
  PROVE  RateCalls'
<1>1. PdoProfile' = PdoProfile
  BY DEF PdoProfile, rateVars
<1>2. ASSUME NEW d \in Callers PROVE RateCall(d)'
  BY <1>1, <1>2, RateCallsIs DEF RateCall, rateVars, CallsKept
<1> QED
  BY <1>2, RateCallsNext

(* No motor is taken into use. *)
LEMMA RateBusKept ==
  ASSUME RateBus, UNCHANGED rateVars,
         \A n \in Nodes : \A k \in Ks :
           entry'[n][k].stage = "Initialized" => entry[n][k].stage = "Initialized"
  PROVE  RateBus'
<1>1. PdoProfile' = PdoProfile
  BY DEF PdoProfile, rateVars
<1> QED
  BY <1>1 DEF RateBus, WindowFollows, SetAsFrozen, RateInUse, rateVars

(* What becomes of the entry when a call steps. *)
LEMMA StageOnly ==
  ASSUME EntriesOK, NEW n \in Nodes, NEW k \in Ks,
         NEW s \in {"Identified", "Initializing"}, SetStage(n, k, s)
  PROVE  \A m \in Nodes : \A j \in Ks :
           entry'[m][j].stage = "Initialized" => entry[m][j].stage = "Initialized"
<1>1. s \in Stages /\ s # "Initialized"
  BY DEF Stages
<1>2. /\ entry'[n][k].stage = s
      /\ \A m \in Nodes, j \in Ks : <<m, j>> # <<n, k>> => entry'[m][j] = entry[m][j]
  BY <1>1, StageStep
<1> QED
  BY <1>1, <1>2

LEMMA RateStep ==
  TypeInv /\ OneOperationPerNode /\ OrphanInv /\ RateInv /\ TypeInv' /\ [Next]_vars => RateInv'
<1> SUFFICES ASSUME TypeInv, OneOperationPerNode, OrphanInv, RateInv, TypeInv', [Next]_vars
             PROVE  RateCalls' /\ RateBus'
  BY DEF RateInv, RateCalls, RateBus
<1>r. RateCalls /\ RateBus
  BY DEF RateInv, RateCalls, RateBus
<1>0. /\ TablesOK /\ CallsOK /\ RatesOK /\ EntriesOK /\ MadeBeforeHeld
      /\ \A c \in Callers : call[c] # Idle =>
           call[c].node \in Nodes /\ call[c].k \in Ks /\ call[c].op \in {"identify", "initialize"}
  BY DEF TypeInv, CallsOK, Calls
<1>n. DefaultRate \in Rates /\ PdoProfile \in Rates
  BY <1>0, RatesAssumption DEF RatesOK, PdoProfile
<1>i. Idle.pc = "idle"
  BY DEF Idle
<1>c. \A c \in Callers : RateCall(c)
  BY <1>r, RateCallsIs
<1>o. ASSUME UNCHANGED rateVars, NEW c \in Callers,
             \A d \in Callers : d # c => call'[d] = call[d], RateCall(c)'
      PROVE  RateCalls'
  <2>1. {c} \in SUBSET Callers /\ \A d \in {c} : RateCall(d)'
    BY <1>o
  <2>2. \A d \in Callers \ {c} : call'[d] = call[d]
    BY <1>o
  <2> QED
    BY <1>o, <1>r, <2>1, <2>2, RateCallsKept, Zenon
<1>k. UNCHANGED call => CallsKept
  BY DEF CallsKept
<1>1. CASE Power \/ ForgetOffline \/ UNCHANGED vars \/ \E n \in Nodes : HeartbeatFound(n)
  <2>1. UNCHANGED <<entry, call, rateVars>>
    BY <1>1 DEF Power, ForgetOffline, vars, HeartbeatFound, rateVars
  <2> QED
    BY <1>r, <1>k, <2>1, RateCallsHeard, RateBusKept
<1>2. CASE HeartbeatHandled
  <2>1. UNCHANGED rateVars
    BY <1>2 DEF HeartbeatHandled
  <2>2. CallsKept /\ \A n \in Nodes : \A k \in Ks :
           entry'[n][k].stage = "Initialized" => entry[n][k].stage = "Initialized"
    BY <1>2, HandledStep
  <2> QED
    BY <1>r, <2>1, <2>2, RateCallsHeard, RateBusKept
<1>3. ASSUME NEW n \in Nodes, MonitorOffline(n) PROVE RateCalls' /\ RateBus'
  <2>1. UNCHANGED rateVars
    BY <1>3 DEF MonitorOffline
  <2>2. CallsKept /\ \A m \in Nodes : \A k \in Ks :
           entry'[m][k].stage = "Initialized" => entry[m][k].stage = "Initialized"
    BY <1>3, OfflineStep DEF NewEntry
  <2> QED
    BY <1>r, <2>1, <2>2, RateCallsHeard, RateBusKept
<1>4. ASSUME NEW c \in Callers, Identify(c) PROVE RateCalls' /\ RateBus'
  <2>1. PICK n \in Nodes : /\ GetOrInsert(n) /\ UNCHANGED <<entry, rateVars>>
                           /\ Begin(c, "identify", n, table'[n], "read", DefaultRate)
    BY <1>4 DEF Identify
  <2>2. table'[n] \in Ks
    BY <1>0, <2>1, LookedUp
  <2>3. /\ call'[c].pc = "read" /\ call'[c].op = "identify"
        /\ \A d \in Callers : d # c => call'[d] = call[d]
    BY <1>0, <1>n, <2>1, <2>2, BeginStep
  <2>4. RateCall(c)'
    BY <2>3 DEF RateCall
  <2> QED
    BY <1>o, <1>r, <2>1, <2>3, <2>4, RateBusKept
<1>5. ASSUME NEW c \in Callers, IdentifyDone(c) \/ InitializeCommit(c) \/ Fail(c)
      PROVE  RateCalls' /\ RateBus'
  <2> DEFINE n == call[c].node
             k == call[c].k
  <2>1. /\ call[c] # Idle /\ call' = [call EXCEPT ![c] = Idle] /\ UNCHANGED rateVars
    BY <1>5 DEF IdentifyDone, InitializeCommit, Fail
  <2>2. call'[c] = Idle /\ \A d \in Callers : d # c => call'[d] = call[d]
    BY <1>0, <2>1, EndStep
  <2>3. RateCalls'
    BY <1>o, <2>1, <2>2 DEF RateCall
  <2>4. n \in Nodes /\ k \in Ks
    BY <1>0, <2>1
  <2>5. CASE InitializeCommit(c)
    <3>1. SetStage(n, k, "Initialized") /\ call[c].pc = "commit"
      BY <2>5 DEF InitializeCommit, SetStage
    <3>2. call[c].op = "initialize"
      BY <1>0, <1>c, <2>1, <3>1 DEF RateCall
    <3>3. freeze = Idle /\ rate[n] = PdoProfile
      BY <1>c, <2>1, <3>1, <3>2 DEF RateCall
    <3>4. PdoProfile' = PdoProfile /\ UNCHANGED <<rate, frozen, window, freeze>>
      BY <2>1 DEF PdoProfile, rateVars
    <3> HIDE DEF n, k
    <3>5. \A m \in Nodes, j \in Ks : <<m, j>> # <<n, k>> => entry'[m][j] = entry[m][j]
      BY <1>0, <2>4, <3>1, StageStep DEF Stages
    <3>6. RateInUse'
      <4> SUFFICES ASSUME NEW m \in Nodes, NEW j \in Ks, entry'[m][j].stage = "Initialized"
                   PROVE  freeze'.pc \in {"idle", "check"} /\ rate'[m] = PdoProfile'
        BY DEF RateInUse, Ks
      <4>1. CASE <<m, j>> = <<n, k>>
        BY <1>i, <3>3, <3>4, <4>1
      <4>2. CASE <<m, j>> # <<n, k>>
        BY <1>r, <3>4, <3>5, <4>2 DEF RateBus, RateInUse, Ks
      <4> QED
        BY <4>1, <4>2
    <3> QED
      BY <1>r, <2>3, <3>4, <3>6 DEF RateBus, WindowFollows, SetAsFrozen
  <2>6. CASE IdentifyDone(c) \/ Fail(c)
    <3>1. UNCHANGED entry \/ SetStage(n, k, "Identified")
      BY <2>6 DEF IdentifyDone, Fail, SetStage
    <3> HIDE DEF n, k
    <3>2. \A m \in Nodes : \A j \in Ks :
             entry'[m][j].stage = "Initialized" => entry[m][j].stage = "Initialized"
      BY <1>0, <2>4, <3>1, StageOnly
    <3> QED
      BY <1>r, <2>1, <2>3, <3>2, RateBusKept
  <2> QED
    BY <1>5, <2>5, <2>6
<1>6. ASSUME NEW c \in Callers, InitializeFound(c) PROVE RateCalls' /\ RateBus'
  <2>1. PICK n \in Nodes : /\ table[n] # 0 /\ UNCHANGED <<entry, rateVars>> /\ freeze = Idle
                           /\ Begin(c, "initialize", n, table[n], "found", DefaultRate)
    BY <1>6 DEF InitializeFound, Contract
  <2>2. table[n] \in Ks
    BY <1>0, <2>1, EntriesAssumption DEF TablesOK, Ks
  <2>3. /\ call'[c].pc = "found" /\ call'[c].op = "initialize"
        /\ \A d \in Callers : d # c => call'[d] = call[d]
    BY <1>0, <1>n, <2>1, <2>2, BeginStep
  <2>4. RateCall(c)'
    BY <2>1, <2>3 DEF RateCall, rateVars
  <2> QED
    BY <1>o, <1>r, <2>1, <2>3, <2>4, RateBusKept
<1>7. ASSUME NEW c \in Callers, InitializeAcquire(c) PROVE RateCalls' /\ RateBus'
  <2>1. /\ call[c] # Idle /\ call[c].pc = "found" /\ UNCHANGED <<entry, rateVars>>
        /\ \/ Begin(c, "initialize", call[c].node, call[c].k, "start", PdoProfile)
           \/ call' = [call EXCEPT ![c] = Idle]
    BY <1>7 DEF InitializeAcquire
  <2>2. freeze = Idle
    BY <1>0, <1>c, <2>1 DEF RateCall
  <2>3. RateCall(c)' /\ \A d \in Callers : d # c => call'[d] = call[d]
    <3>1. CASE Begin(c, "initialize", call[c].node, call[c].k, "start", PdoProfile)
      <4>1. /\ call'[c].pc = "start" /\ call'[c].op = "initialize" /\ call'[c].rate = PdoProfile
            /\ \A d \in Callers : d # c => call'[d] = call[d]
        BY <1>0, <1>n, <2>1, <3>1, BeginStep
      <4>2. PdoProfile' = PdoProfile /\ freeze' = Idle
        BY <2>1, <2>2 DEF PdoProfile, rateVars
      <4> QED
        BY <4>1, <4>2 DEF RateCall
    <3>2. CASE call' = [call EXCEPT ![c] = Idle]
      BY <1>0, <3>2, EndStep DEF RateCall
    <3> QED
      BY <2>1, <3>1, <3>2
  <2> QED
    BY <1>o, <1>r, <2>1, <2>3, RateBusKept
<1>8. ASSUME NEW c \in Callers, InitializeStart(c) PROVE RateCalls' /\ RateBus'
  <2>1. /\ call[c] # Idle /\ call[c].pc = "start" /\ Goto(c, "configure") /\ UNCHANGED rateVars
        /\ SetStage(call[c].node, call[c].k, "Initializing")
    BY <1>8 DEF InitializeStart, SetStage
  <2>2. /\ call'[c].pc = "configure" /\ call'[c].op = call[c].op /\ call'[c].rate = call[c].rate
        /\ \A d \in Callers : d # c => call'[d] = call[d]
    BY <1>0, <2>1, GotoStep
  <2>3. PdoProfile' = PdoProfile /\ freeze' = freeze
    BY <2>1 DEF PdoProfile, rateVars
  <2>4. RateCall(c)'
    BY <1>0, <1>c, <2>1, <2>2, <2>3 DEF RateCall
  <2>5. \A m \in Nodes : \A j \in Ks :
           entry'[m][j].stage = "Initialized" => entry[m][j].stage = "Initialized"
    BY <1>0, <2>1, StageOnly
  <2> QED
    BY <1>o, <1>r, <2>1, <2>2, <2>4, <2>5, RateBusKept
<1>9. ASSUME NEW c \in Callers, InitializeConfigure(c) PROVE RateCalls' /\ RateBus'
  <2> DEFINE n == call[c].node
  <2>1. /\ call[c] # Idle /\ call[c].pc = "configure" /\ Goto(c, "commit")
        /\ rate' = [rate EXCEPT ![n] = call[c].rate]
        /\ UNCHANGED <<entry, frozen, window, freeze>>
    BY <1>9 DEF InitializeConfigure
  <2>2. /\ call'[c].pc = "commit" /\ call'[c].op = call[c].op /\ call'[c].rate = call[c].rate
        /\ call'[c].node = n
        /\ \A d \in Callers : d # c => call'[d] = call[d]
    BY <1>0, <2>1, GotoStep
  <2>3. call[c].op = "initialize" /\ call[c].rate = PdoProfile /\ freeze = Idle
    BY <1>0, <1>c, <2>1 DEF RateCall
  <2>4. n \in Nodes /\ Working(c, n)
    BY <1>0, <2>1 DEF Working
  <2> HIDE DEF n
  <2>5. PdoProfile' = PdoProfile /\ freeze' = freeze
    BY <2>1 DEF PdoProfile
  <2>6. \A m \in Nodes : rate'[m] = IF m = n THEN PdoProfile ELSE rate[m]
    BY <1>0, <2>1, <2>3 DEF RatesOK
  <2>7. RateCall(c)'
    BY <2>2, <2>3, <2>4, <2>5, <2>6 DEF RateCall
  <2>8. ASSUME NEW d \in Callers, d # c PROVE RateCall(d)'
    <3>1. call'[d] = call[d] /\ RateCall(d)
      BY <1>c, <2>2, <2>8
    <3>2. call[d] # Idle /\ call[d].pc = "commit" => call[d].node \in Nodes /\ call[d].node # n
      BY <1>0, <2>4, <2>8 DEF OneOperationPerNode, Working
    <3> QED
      BY <2>5, <2>6, <3>1, <3>2 DEF RateCall
  <2>9. RateCalls'
    BY <2>7, <2>8, RateCallsNext
  <2>10. RateInUse'
    BY <1>r, <2>1, <2>5, <2>6 DEF RateBus, RateInUse
  <2> QED
    BY <1>r, <2>1, <2>5, <2>9, <2>10 DEF RateBus, WindowFollows, SetAsFrozen
<1>10. CASE Freeze
  <2>1. /\ freeze = Idle /\ freeze'.pc = "check" /\ UNCHANGED <<entry, call, rate, frozen, window>>
        /\ ~\E c \in Callers : call[c] # Idle /\ call[c].op = "initialize"
    BY <1>10 DEF Freeze
  <2>2. PdoProfile' = PdoProfile
    BY <2>1 DEF PdoProfile
  <2>3. RateCalls'
    <3>1. ASSUME NEW c \in Callers PROVE RateCall(c)'
      BY <1>c, <2>1 DEF RateCall
    <3> QED
      BY <3>1, RateCallsNext
  <2> QED
    BY <1>r, <1>i, <2>1, <2>2, <2>3 DEF RateBus, WindowFollows, SetAsFrozen, RateInUse
<1>11. CASE FreezeStep
  <2>1. freeze \in Freezes /\ freeze # Idle /\ UNCHANGED <<entry, call>>
    BY <1>11, <1>i, IdleIsNoCall
       DEF FreezeStep, FreezeChecked, FreezeSet, FreezeWindow, TypeInv, FreezeOK
  <2>2. RateCalls'
    <3>1. ASSUME NEW c \in Callers PROVE RateCall(c)'
      BY <1>c, <2>1 DEF RateCall
    <3> QED
      BY <3>1, RateCallsNext
  <2>3. CASE FreezeChecked
    <3>1. /\ freeze.pc = "check" /\ UNCHANGED <<rate, frozen, window>>
          /\ IF SomeConfigured THEN freeze' = Idle ELSE freeze'.pc = "set"
      BY <2>1, <2>3 DEF FreezeChecked, Freezes
    <3>2. ~SomeConfigured => \A n \in Nodes : \A k \in Ks : entry[n][k].stage # "Initialized"
      BY DEF SomeConfigured, OrphanInv, NoCommitOnOrphan, Ks
    <3>3. PdoProfile' = PdoProfile
      BY <3>1 DEF PdoProfile
    <3> QED
      BY <1>r, <1>i, <2>1, <2>2, <3>1, <3>2, <3>3
         DEF RateBus, WindowFollows, SetAsFrozen, RateInUse, Ks
  <2>4. CASE FreezeSet
    <3>1. /\ freeze.pc = "set" /\ UNCHANGED <<rate, window>>
          /\ \/ /\ frozen' = freeze.rate /\ freeze'.pc = "window" /\ freeze'.rate = freeze.rate
             \/ freeze' = Idle /\ UNCHANGED frozen
      BY <2>1, <2>4 DEF FreezeSet, Freezes
    <3>2. \A n \in Nodes : \A k \in Ks : entry[n][k].stage # "Initialized"
      BY <1>r, <3>1 DEF RateBus, RateInUse, Ks
    <3>3. UNCHANGED frozen => PdoProfile' = PdoProfile
      BY DEF PdoProfile
    <3> QED
      BY <1>r, <1>i, <2>1, <2>2, <3>1, <3>2, <3>3
         DEF RateBus, WindowFollows, SetAsFrozen, RateInUse, Ks
  <2>5. CASE FreezeWindow
    <3>1. /\ freeze.pc = "window" /\ UNCHANGED <<rate, frozen>>
          /\ window' = freeze.rate /\ freeze' = Idle
      BY <2>5 DEF FreezeWindow
    <3>2. \A n \in Nodes : \A k \in Ks : entry[n][k].stage # "Initialized"
      BY <1>r, <3>1 DEF RateBus, RateInUse, Ks
    <3>3. PdoProfile' = freeze.rate
      BY <1>r, <2>1, <3>1, RatesAssumption DEF RateBus, SetAsFrozen, PdoProfile, Freezes
    <3> QED
      BY <1>r, <1>i, <2>1, <2>2, <3>1, <3>2, <3>3
         DEF RateBus, WindowFollows, SetAsFrozen, RateInUse, Ks
  <2> QED
    BY <1>11, <2>3, <2>4, <2>5 DEF FreezeStep
<1> QED
  BY <1>1, <1>2, <1>3, <1>4, <1>5, <1>6, <1>7, <1>8, <1>9, <1>10, <1>11
     DEF Next, Heartbeats, CallerStep

-----------------------------------------------------------------------------

LEMMA TableInit == Init => TableInv
<1> SUFFICES ASSUME Init PROVE TableInv
  OBVIOUS
<1>i. Idle.pc = "idle"
  BY DEF Idle
<1>1. TypeInv
  BY RatesAssumption, EntriesAssumption
     DEF Init, TypeInv, TablesOK, EntriesOK, Entries, NewEntry, CallsOK, FreezeOK, RatesOK, HbOK,
         MadeBeforeHeld, Ks
<1>2. OneOperationPerNode /\ HeardWhileOnline /\ FreezeAlone /\ RateRead /\ PastReadInitializes
  BY DEF Init, OneOperationPerNode, Working, HeardWhileOnline, FreezeAlone, RateRead,
         PastReadInitializes
<1>3. \A n \in Nodes : \A k \in Ks : entry[n][k].stage # "Initialized"
  BY DEF Init, NewEntry, Ks
<1>4. InitializedIsOnline /\ NoCommitOnOrphan /\ RateInUse
  BY <1>3 DEF InitializedIsOnline, NoCommitOnOrphan, RateInUse, Ks
<1>5. WindowFollows /\ SetAsFrozen
  BY <1>i DEF Init, WindowFollows, SetAsFrozen, PdoProfile
<1> QED
  BY <1>1, <1>2, <1>4, <1>5 DEF TableInv, RateInv

(* TableInv holds in every reachable state, for any nodes and callers.      *)
THEOREM TableInvariant == Spec => []TableInv
<1>1. TableInv /\ [Next]_vars => TableInv'
  <2> SUFFICES ASSUME TableInv, [Next]_vars PROVE TableInv'
    OBVIOUS
  <2>1. TypeInv /\ OneOperationPerNode /\ OrphanInv /\ RateInv
    BY DEF TableInv, OrphanInv
  <2>2. TypeInv' /\ OneOperationPerNode'
    BY <2>1, TypeStep, ExclusionStep
  <2>3. OrphanInv' /\ RateInv'
    BY <2>1, <2>2, OrphanStep, RateStep
  <2> QED
    BY <2>2, <2>3 DEF TableInv, OrphanInv
<1> QED
  BY <1>1, TableInit, PTL DEF Spec

(* Only one operation is at work on a node, also when the calls hold        *)
(* different entries of it, for any number of callers.                      *)
THEOREM OneAtATime == Spec => []OneOperationPerNode
<1>1. TableInv => OneOperationPerNode
  BY DEF TableInv
<1> QED
  BY <1>1, TableInvariant, PTL

(* A motor is Initialized only on the entry the table lists: a call that    *)
(* holds a forgotten entry cannot commit.                                   *)
THEOREM OrphansNeverCommit == Spec => []NoCommitOnOrphan
<1>1. TableInv => NoCommitOnOrphan
  BY DEF TableInv
<1> QED
  BY <1>1, TableInvariant, PTL

(* However the steps of freeze_pdo_profile interleave with heartbeats,      *)
(* forgetting and identification, the bus has one rate once it returns.     *)
THEOREM BusHasOneRate == Spec => []OneRatePerBus
<1>1. TableInv => OneRatePerBus
  <2>1. Idle.pc = "idle"
    BY DEF Idle
  <2> QED
    BY <2>1 DEF TableInv, RateInv, WindowFollows, RateInUse, OneRatePerBus, Ks
<1> QED
  BY <1>1, TableInvariant, PTL
=============================================================================
