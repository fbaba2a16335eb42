--------------------------- MODULE StatusStream ---------------------------
(***************************************************************************)
(* How a state of one motor reaches status() and one StatusStream          *)
(* (cia402/subscribe.rs, MotorEntry::publish, subscribe_status).           *)
(*                                                                         *)
(* The publishers are the tasks that change the entry: discovery, TPDO     *)
(* listener, liveness monitor.  Each builds a LiveState under the entry's  *)
(* lock and publishes it after the lock is gone, so publishers overtake    *)
(* each other.  A LiveState is the number of the change it was built from. *)
(*                                                                         *)
(* Item: [kind, first, count, state] stands for the pushes first ..        *)
(* first + count - 1 of this subscriber; count is the field dropped of a   *)
(* Lagged, first is there for the properties only.                         *)
(***************************************************************************)
EXTENDS Naturals, Sequences

CONSTANTS
  Publishers,  \* tasks that publish
  Capacity,    \* StreamOptions::capacity
  MaxVersion,  \* bound on changes of the entry
  MaxPushes    \* bound on pushes to the subscriber

(* subscribe_status refuses a capacity of zero. *)
ASSUME CapacityAssumption == Capacity \in Nat \ {0}
ASSUME StreamBoundsAssumption == MaxVersion \in Nat /\ MaxPushes \in Nat

VARIABLES
  version,     \* changes of the entry so far
  at,          \* publisher -> where it is: "idle", "built", "stored", "paid"
  built,       \* publisher -> the LiveState it has built
  snapshot,    \* MotorEntry::snapshot
  stage,       \* the subscription: "none", "loaded", "listed", "removed"
  initial,     \* the snapshot subscribe_status loaded
  open,        \* the StatusStream has not been dropped
  queue,       \* the mpsc channel
  pending,     \* pending_lagged
  pushes,      \* states pushed to this subscriber so far
  seen         \* pushes the user knows of: samples received, drops reported

publishVars == <<version, at, built, snapshot>>
channelVars == <<queue, pending, pushes>>
streamVars  == <<stage, initial, open, channelVars, seen>>
vars == <<publishVars, streamVars>>

(* Subscriber::new *)
Slots == Capacity

Init ==
  /\ version = 0 /\ snapshot = 0
  /\ at = [p \in Publishers |-> "idle"] /\ built = [p \in Publishers |-> 0]
  /\ stage = "none" /\ initial = 0 /\ open = TRUE
  /\ queue = <<>> /\ pending = 0 /\ pushes = 0 /\ seen = 0

Sample(n, state) == [kind |-> "sample", first |-> n, count |-> 1, state |-> state]
Lagged(n, dropped) == [kind |-> "lagged", first |-> n, count |-> dropped, state |-> 0]

-----------------------------------------------------------------------------
(* Subscriber::push on an open channel.  Its two try_sends are two steps:   *)
(* the user may receive, or drop the stream, in between.                    *)

(* Mutant: one item more than the channel holds. *)
RoomOffByOne(q) == Len(q) <= Slots

(* Mutant: a slot is kept free for the next Lagged. *)
RoomButOne(q) == Len(q) + 1 < Slots

(* try_send finds a slot. *)
Room(q) == Len(q) < Slots

(* Mutant: the count is not reset when the Lagged went out. *)
RepayOnly == queue' = Append(queue, Lagged(pushes + 1 - pending, pending)) /\ UNCHANGED pending

(* The Lagged that is owed goes out. *)
Repay == queue' = Append(queue, Lagged(pushes + 1 - pending, pending)) /\ pending' = 0

(* The sample goes out, or is counted. *)
Offer(state) ==
  /\ pushes' = pushes + 1
  /\ \/ /\ Room(queue)
        /\ queue' = Append(queue, Sample(pushes + 1, state)) /\ UNCHANGED pending
     \/ /\ ~Room(queue)
        /\ pending' = pending + 1 /\ UNCHANGED queue

(* A Lagged that finds no slot costs the sample of the same call as well,   *)
(* so the sample is offered first only when nothing is owed or there is no  *)
(* room for either.                                                         *)
Owed == pending > 0 /\ Room(queue)

-----------------------------------------------------------------------------
(* Publishers.                                                              *)

(* The critical section: the entry changes and its LiveState is built. *)
Change(p) ==
  /\ at[p] = "idle" /\ version < MaxVersion
  /\ version' = version + 1
  /\ built' = [built EXCEPT ![p] = version + 1]
  /\ at' = [at EXCEPT ![p] = "built"]
  /\ UNCHANGED <<snapshot, streamVars>>

(* publish, first half: the snapshot is replaced. *)
Store(p) ==
  /\ at[p] = "built"
  /\ snapshot' = built[p]
  /\ at' = [at EXCEPT ![p] = "stored"]
  /\ UNCHANGED <<version, built, streamVars>>

(* No publisher is inside the locked list of subscribers. *)
ListFree == \A q \in Publishers : at[q] # "paid"

Publish(p, next) == at' = [at EXCEPT ![p] = next] /\ UNCHANGED <<version, built, snapshot>>

(* publish, second half, under the lock of the list, with an open stream in *)
(* it: the Lagged first, when one is owed ...                               *)
FanOutLagged(p) ==
  /\ at[p] = "stored" /\ ListFree
  /\ stage = "listed" /\ open /\ pushes < MaxPushes
  /\ Owed /\ Repay
  /\ Publish(p, "paid")
  /\ UNCHANGED <<stage, initial, open, pushes, seen>>

(* ... then the sample. *)
FanOutSample(p) ==
  /\ \/ /\ at[p] = "stored" /\ ListFree
        /\ pushes < MaxPushes /\ ~Owed
     \/ at[p] = "paid"
  /\ stage = "listed" /\ open
  /\ Offer(built[p])
  /\ Publish(p, "idle")
  /\ UNCHANGED <<stage, initial, open, seen>>

(* A closed stream is taken off the list, wherever in push it is noticed;   *)
(* without a subscriber there is nothing to do.                             *)
FanOutNothing(p) ==
  /\ (at[p] = "stored" /\ ListFree) \/ at[p] = "paid"
  /\ stage # "listed" \/ ~open
  /\ stage' = IF stage = "listed" THEN "removed" ELSE stage
  /\ Publish(p, "idle")
  /\ UNCHANGED <<initial, open, channelVars, seen>>

-----------------------------------------------------------------------------
(* The user.                                                                *)

(* subscribe_status loads the snapshot ... *)
Load ==
  /\ stage = "none"
  /\ stage' = "loaded" /\ initial' = snapshot
  /\ UNCHANGED <<publishVars, open, channelVars, seen>>

(* ... pushes it and lists the subscriber.  Nobody else reaches the new     *)
(* subscriber before it is listed, so the push belongs to the same step.    *)
Attach ==
  /\ stage = "loaded" /\ ListFree
  /\ Offer(initial)
  /\ stage' = "listed"
  /\ UNCHANGED <<publishVars, initial, open, seen>>

(* recv or try_recv *)
Receive ==
  /\ stage \in {"listed", "removed"} /\ open /\ queue # <<>>
  /\ queue' = Tail(queue)
  /\ seen' = seen + Head(queue).count
  /\ UNCHANGED <<publishVars, stage, initial, open, pending, pushes>>

(* The user drops the stream, and with it what is queued. *)
Drop ==
  /\ stage = "listed" /\ open
  /\ open' = FALSE /\ queue' = <<>>
  /\ UNCHANGED <<publishVars, stage, initial, pending, pushes, seen>>

Next ==
  \/ \E p \in Publishers :
       Change(p) \/ Store(p) \/ FanOutLagged(p) \/ FanOutSample(p) \/ FanOutNothing(p)
  \/ Load \/ Attach \/ Receive \/ Drop

Spec == Init /\ [][Next]_vars

-----------------------------------------------------------------------------
(* Properties.                                                              *)

Items == [kind : {"sample", "lagged"}, first : Nat, count : Nat, state : Nat]

TypeOK ==
  /\ version \in Nat /\ snapshot \in Nat /\ initial \in Nat
  /\ at \in [Publishers -> {"idle", "built", "stored", "paid"}]
  /\ built \in [Publishers -> Nat]
  /\ stage \in {"none", "loaded", "listed", "removed"} /\ open \in BOOLEAN
  /\ queue \in Seq(Items) /\ pending \in Nat /\ pushes \in Nat /\ seen \in Nat
  /\ Len(queue) <= Slots

(* What the user has yet to hear of begins right after what it knows, item  *)
(* follows item without a gap, and the pending count covers the rest: every *)
(* push is either delivered or reported lost, once, in its place, whatever  *)
(* the speeds of the publishers and the user.                               *)
LossAccounted ==
  open =>
    /\ \A i \in 1 .. Len(queue) :
         queue[i].first = IF i = 1 THEN seen + 1
                          ELSE queue[i - 1].first + queue[i - 1].count
    /\ pushes = pending + (IF queue = <<>> THEN seen
                           ELSE queue[Len(queue)].first + queue[Len(queue)].count - 1)

(* What LossAccounted rests on: no more is owed than was pushed; the lock   *)
(* of the list lets one publisher at a time be between its two try_sends,   *)
(* and nothing is owed then, nor before the subscriber is listed, which is  *)
(* when the user gets the stream and can drop it.                           *)
OwedWasPushed == pending <= pushes
OnePaid == \A p, q \in Publishers : at[p] = "paid" /\ at[q] = "paid" => p = q
PaidOwesNothing ==
  stage \in {"none", "loaded"} \/ (\E p \in Publishers : at[p] = "paid") => pending = 0
ListedBeforeDropped == stage \in {"none", "loaded"} => open

StreamInv ==
  /\ TypeOK /\ OwedWasPushed /\ OnePaid /\ PaidOwesNothing /\ ListedBeforeDropped
  /\ LossAccounted

(* A push that finds the stream drained delivers the state itself, and not  *)
(* only the report of a loss before it.  Needs two slots; with one, the     *)
(* report fills the channel, and a user who is not quick enough gets        *)
(* nothing but reports.                                                     *)
DrainedStreamResumes ==
  [][stage = "listed" /\ pushes' > pushes /\
     (queue = <<>> \/ (Len(queue) = 1 /\ \E p \in Publishers : at[p] = "paid"))
       => queue' # <<>> /\ queue'[Len(queue')].kind = "sample"]_vars
=============================================================================
