------------------------------ MODULE NodeTable ------------------------------
(***************************************************************************)
(* The manager's table of nodes (src/cia402/manager.rs): entries are       *)
(* shared objects that the table lists by node id, so a call, the          *)
(* heartbeat handler or the monitor may still hold an entry that           *)
(* forget_offline has removed while a later heartbeat makes a new one.     *)
(* The exclusive operations are therefore keyed by node id, not by entry.  *)
(* The bus's PDO profile is frozen once, in three steps without a lock,    *)
(* and its contract is that no initialize is at work meanwhile.            *)
(***************************************************************************)
EXTENDS Integers, FiniteSets

CONSTANTS
  Nodes,       \* node ids
  Callers,     \* tasks that call identify and initialize
  Rates,       \* PDO profiles
  DefaultRate, \* the profile of the options
  MaxEntries,  \* bound: entries made for one node id
  None

ASSUME RatesAssumption == DefaultRate \in Rates /\ None \notin Rates
ASSUME NoneAssumption == None \notin Nodes \X Nat  \* no looked-up entry
ASSUME EntriesAssumption == MaxEntries \in Nat \ {0}

VARIABLES
  table,    \* node id -> the number of the listed entry, 0 when there is none
  made,     \* node id -> entries made so far
  entry,    \* node id -> entry number -> its fields
  inflight, \* inflight_ops
  call,     \* what each caller is at
  hb,       \* the entry the heartbeat handler has looked up
  beating,  \* the nodes that send heartbeats
  rate,     \* the profile each node's TPDO1 was configured with
  frozen,   \* the OnceLock, None while empty
  window,   \* the profile of the velocity window
  freeze    \* the freeze_pdo_profile call in progress

vars == <<table, made, entry, inflight, call, hb, beating, rate, frozen, window, freeze>>

\* The stages are Unknown, Identified, Initializing, Initialized, NeedsReinit.
NewEntry == [online |-> FALSE, stage |-> "Unknown"]

\* A call has its place pc ("found", "read", "start", "configure", "commit"),
\* its operation op, the node id, the number k of the entry it holds, and what
\* initialize has read and seen: the profile rate, whether the session is still
\* the one it began in, and how many heartbeats its entry received (up to 2).
Idle == [pc |-> "idle"]

Init ==
  /\ table = [n \in Nodes |-> 0]
  /\ made = [n \in Nodes |-> 0]
  /\ entry = [n \in Nodes |-> [k \in 1..MaxEntries |-> NewEntry]]
  /\ inflight = {}
  /\ call = [c \in Callers |-> Idle]
  /\ hb = None
  /\ beating = {}
  /\ rate = [n \in Nodes |-> DefaultRate]
  /\ frozen = None
  /\ window = DefaultRate
  /\ freeze = Idle

\* pdo_profile(): the frozen value, else the one of the options.
PdoProfile == IF frozen = None THEN DefaultRate ELSE frozen

tableVars == <<table, made>>
rateVars == <<rate, frozen, window, freeze>>

-----------------------------------------------------------------------------
(* Looking up and making entries.                                          *)

\* Mutant: an entry that was forgotten is not made again.
InsertOnce(n) ==
  IF made[n] # 0
  THEN UNCHANGED tableVars
  ELSE made' = [made EXCEPT ![n] = 1] /\ table' = [table EXCEPT ![n] = 1]

\* get_or_insert_entry and the first step of handle_inbound_hb.
GetOrInsert(n) ==
  IF table[n] # 0
  THEN UNCHANGED tableVars
  ELSE /\ made[n] < MaxEntries
       /\ made' = [made EXCEPT ![n] = @ + 1]
       /\ table' = [table EXCEPT ![n] = made[n] + 1]

Power == \E n \in Nodes :
  /\ beating' = IF n \in beating THEN beating \ {n} ELSE beating \cup {n}
  /\ UNCHANGED <<tableVars, entry, inflight, call, hb, rateVars>>

HeartbeatFound(n) ==
  /\ hb = None /\ n \in beating
  /\ GetOrInsert(n)
  /\ hb' = <<n, table'[n]>>
  /\ UNCHANGED <<entry, inflight, call, beating, rateVars>>

\* Calls on entry k of node n, changed by f.
OnCalls(n, k, f(_)) ==
  call' = [c \in Callers |->
             IF call[c] # Idle /\ call[c].node = n /\ call[c].k = k THEN f(call[c]) ELSE call[c]]

Hear(r) == [r EXCEPT !.heard = IF @ < 2 THEN @ + 1 ELSE @]
Invalidate(r) == [r EXCEPT !.current = FALSE]

\* The second step, under the entry's lock: the entry is online; one that was
\* initialized may have left Operational, and a boot-up begins a session.
HeartbeatHandled ==
  /\ hb # None
  /\ LET n == hb[1]  k == hb[2]  e == entry[n][k] IN
       \/ /\ entry' = [entry EXCEPT ![n][k].online = TRUE]
          /\ OnCalls(n, k, Hear)
       \/ /\ e.stage = "Initialized"
          /\ entry' = [entry EXCEPT ![n][k] = [online |-> TRUE, stage |-> "NeedsReinit"]]
          /\ OnCalls(n, k, Hear)
       \/ /\ entry' = [entry EXCEPT ![n][k] = [online |-> TRUE, stage |-> "Unknown"]]
          /\ OnCalls(n, k, Invalidate)
  /\ hb' = None
  /\ UNCHANGED <<tableVars, inflight, beating, rateVars>>

\* The monitor finds an entry of its list silent and starts a new session.
MonitorOffline(n) ==
  /\ table[n] # 0 /\ n \notin beating
  /\ entry[n][table[n]].online
  /\ entry' = [entry EXCEPT ![n][table[n]] = NewEntry]
  /\ OnCalls(n, table[n], Invalidate)
  /\ UNCHANGED <<tableVars, inflight, hb, beating, rateVars>>

\* Mutant: every motor that is not in use is forgotten.
NotInitialized(n) == entry[n][table[n]].stage # "Initialized"

\* forget_offline removes node n exactly when its entry is offline.
Forgotten(n) == ~entry[n][table[n]].online

ForgetOffline ==
  /\ table' = [n \in Nodes |-> IF table[n] # 0 /\ Forgotten(n) THEN 0 ELSE table[n]]
  /\ table' # table
  /\ UNCHANGED <<made, entry, inflight, call, hb, beating, rateVars>>

-----------------------------------------------------------------------------
(* identify and initialize.                                                *)

Contract == freeze = Idle   \* what freeze_pdo_profile asks of its caller

\* Mutant: operations exclude each other by entry instead of by node id.
FreeEntry(n, k) ==
  ~\E c \in Callers : call[c] # Idle /\ call[c].pc # "found" /\ call[c].node = n /\ call[c].k = k

\* InflightGuard::acquire succeeds.
Acquirable(n, k) == n \notin inflight

Begin(c, o, n, k, pc, r) ==
  call' = [call EXCEPT ![c] = [pc |-> pc, op |-> o, node |-> n, k |-> k, rate |-> r,
                               current |-> TRUE, heard |-> 0]]

Goto(c, pc) == call' = [call EXCEPT ![c].pc = pc]

\* identify acquires the guard before it looks the entry up.
Identify(c) == \E n \in Nodes :
  /\ call[c] = Idle
  /\ Acquirable(n, table[n])
  /\ inflight' = inflight \cup {n}
  /\ GetOrInsert(n)
  /\ Begin(c, "identify", n, table'[n], "read", DefaultRate)
  /\ UNCHANGED <<entry, hb, beating, rateVars>>

IdentifyDone(c) ==
  /\ call[c] # Idle /\ call[c].pc = "read"
  /\ LET n == call[c].node  k == call[c].k IN
       /\ entry' = IF call[c].current
                   THEN [entry EXCEPT ![n][k].stage = "Identified"] ELSE entry
       /\ inflight' = inflight \ {n}
  /\ call' = [call EXCEPT ![c] = Idle]
  /\ UNCHANGED <<tableVars, hb, beating, rateVars>>

\* initialize looks the entry up first and acquires the guard second.
InitializeFound(c) == \E n \in Nodes :
  /\ call[c] = Idle /\ table[n] # 0
  /\ Contract
  /\ Begin(c, "initialize", n, table[n], "found", DefaultRate)
  /\ UNCHANGED <<tableVars, entry, inflight, hb, beating, rateVars>>

InitializeAcquire(c) ==
  /\ call[c] # Idle /\ call[c].pc = "found"
  /\ LET n == call[c].node  k == call[c].k IN
       IF Acquirable(n, k) /\ entry[n][k].stage # "Unknown"
       THEN /\ inflight' = inflight \cup {n}
            /\ Begin(c, "initialize", n, k, "start", PdoProfile)
       ELSE call' = [call EXCEPT ![c] = Idle] /\ UNCHANGED inflight
  /\ UNCHANGED <<tableVars, entry, hb, beating, rateVars>>

InitializeStart(c) ==
  /\ call[c] # Idle /\ call[c].pc = "start" /\ call[c].current
  /\ entry' = [entry EXCEPT ![call[c].node][call[c].k].stage = "Initializing"]
  /\ Goto(c, "configure")
  /\ UNCHANGED <<tableVars, inflight, hb, beating, rateVars>>

\* After a heartbeat in Pre-Operational the TPDO recipe reaches the device.
InitializeConfigure(c) ==
  /\ call[c] # Idle /\ call[c].pc = "configure" /\ call[c].heard >= 1
  /\ rate' = [rate EXCEPT ![call[c].node] = call[c].rate]
  /\ Goto(c, "commit")
  /\ UNCHANGED <<tableVars, entry, inflight, hb, beating, frozen, window, freeze>>

\* The commit needs the session, an online entry and a second heartbeat, the
\* one that reports Operational.
InitializeCommit(c) ==
  /\ call[c] # Idle /\ call[c].pc = "commit" /\ call[c].current /\ call[c].heard = 2
  /\ LET n == call[c].node  k == call[c].k IN
       /\ entry[n][k].online
       /\ entry' = [entry EXCEPT ![n][k].stage = "Initialized"]
       /\ inflight' = inflight \ {n}
  /\ call' = [call EXCEPT ![c] = Idle]
  /\ UNCHANGED <<tableVars, hb, beating, rateVars>>

\* An error, a timeout or a dropped future: the rollback guard restores
\* Identified and the inflight guard is dropped.
Fail(c) ==
  /\ call[c] # Idle /\ call[c].pc # "found"
  /\ LET n == call[c].node  k == call[c].k IN
       /\ entry' = IF call[c].pc \in {"configure", "commit"} /\ call[c].current
                   THEN [entry EXCEPT ![n][k].stage = "Identified"] ELSE entry
       /\ inflight' = inflight \ {n}
  /\ call' = [call EXCEPT ![c] = Idle]
  /\ UNCHANGED <<tableVars, hb, beating, rateVars>>

-----------------------------------------------------------------------------
(* freeze_pdo_profile.                                                     *)

\* Mutant: only initializations in progress are looked for.
OnlyInitializing == \E n \in Nodes : table[n] # 0 /\ entry[n][table[n]].stage = "Initializing"

\* A listed motor has been, or is being, configured with the previous profile.
SomeConfigured ==
  \E n \in Nodes : table[n] # 0 /\ entry[n][table[n]].stage \in {"Initializing", "Initialized"}

Freeze == \E r \in Rates :
  /\ freeze = Idle /\ frozen = None
  /\ ~\E c \in Callers : call[c] # Idle /\ call[c].op = "initialize"  \* the contract
  /\ freeze' = [pc |-> "check", rate |-> r]
  /\ UNCHANGED <<tableVars, entry, inflight, call, hb, beating, rate, frozen, window>>

FreezeChecked ==
  /\ freeze.pc = "check"
  /\ freeze' = IF SomeConfigured THEN Idle ELSE [freeze EXCEPT !.pc = "set"]
  /\ UNCHANGED <<tableVars, entry, inflight, call, hb, beating, rate, frozen, window>>

\* OnceLock::set, which a value set meanwhile refuses.
FreezeSet ==
  /\ freeze.pc = "set"
  /\ IF frozen = None
     THEN frozen' = freeze.rate /\ freeze' = [freeze EXCEPT !.pc = "window"]
     ELSE freeze' = Idle /\ UNCHANGED frozen
  /\ UNCHANGED <<tableVars, entry, inflight, call, hb, beating, rate, window>>

FreezeWindow ==
  /\ freeze.pc = "window"
  /\ window' = freeze.rate
  /\ freeze' = Idle
  /\ UNCHANGED <<tableVars, entry, inflight, call, hb, beating, rate, frozen>>

-----------------------------------------------------------------------------

Heartbeats == HeartbeatHandled \/ \E n \in Nodes : HeartbeatFound(n)
FreezeStep == FreezeChecked \/ FreezeSet \/ FreezeWindow
CallerStep(c) ==
  \/ Identify(c) \/ IdentifyDone(c)
  \/ InitializeFound(c) \/ InitializeAcquire(c) \/ InitializeStart(c)
  \/ InitializeConfigure(c) \/ InitializeCommit(c) \/ Fail(c)

Next ==
  \/ Power \/ Heartbeats \/ ForgetOffline
  \/ \E n \in Nodes : MonitorOffline(n)
  \/ \E c \in Callers : CallerStep(c)
  \/ Freeze \/ FreezeStep

Spec == Init /\ [][Next]_vars

-----------------------------------------------------------------------------
(* Properties.                                                             *)

\* Every initialized motor runs at the bus's one PDO profile, and the velocity
\* window is that of the profile: freezing cannot leave two rates on the line.
OneRatePerBus ==
  freeze = Idle =>
    /\ window = PdoProfile
    /\ \A n \in Nodes : \A k \in 1..MaxEntries :
         entry[n][k].stage = "Initialized" => rate[n] = PdoProfile

\* Only one operation is at work on a node, also when the calls hold different
\* entries of it because one was forgotten and made anew.
Working(c, n) == call[c] # Idle /\ call[c].pc # "found" /\ call[c].node = n
OneOperationPerNode ==
  \A n \in Nodes :
    /\ \A c, d \in Callers : Working(c, n) /\ Working(d, n) => c = d
    /\ n \in inflight <=> \E c \in Callers : Working(c, n)

\* A motor is committed as Initialized only on the entry the table lists, so
\* the caller's result, list() and the freeze check agree.
NoCommitOnOrphan ==
  \A n \in Nodes : \A k \in 1..MaxEntries :
    entry[n][k].stage = "Initialized" => table[n] = k
=============================================================================
