--------------------------- MODULE ReadingsProofs ---------------------------
(***************************************************************************)
(* What the library tells its user is true: the states of a status stream  *)
(* (StatusStream), the accumulated position and the velocity samples       *)
(* (Telemetry), the verdict on a factory calibration (FactoryCalibration). *)
(***************************************************************************)
EXTENDS StatusStream, Telemetry, FactoryCalibration, SequenceTheorems, WellFoundedInduction, TLAPS

(***************************************************************************)
(* The status stream.                                                      *)
(***************************************************************************)

(* What the channel holds is one item longer after an Append, the items     *)
(* before it are the same.                                                  *)
LEMMA AppendedItem ==
  ASSUME NEW S, NEW q \in Seq(S), NEW e \in S
  PROVE  /\ Append(q, e) \in Seq(S)
         /\ Append(q, e) # <<>>
         /\ Len(Append(q, e)) = Len(q) + 1
         /\ \A i \in 1 .. Len(q) : Append(q, e)[i] = q[i]
         /\ Append(q, e)[Len(q) + 1] = e
OBVIOUS

(* The items of a channel follow each other up to what was not yet queued.  *)
Contiguous(q, heard) ==
  \A i \in 1 .. Len(q) :
    q[i].first = IF i = 1 THEN heard + 1 ELSE q[i - 1].first + q[i - 1].count

(* The last push the user hears of when it drains the channel. *)
Reach(q, heard) ==
  IF q = <<>> THEN heard ELSE q[Len(q)].first + q[Len(q)].count - 1

(* An empty channel is one of length zero. *)
LEMMA EmptyChannel ==
  ASSUME NEW q \in Seq(Items)
  PROVE  Len(q) \in Nat /\ (q = <<>> <=> Len(q) = 0)
BY EmptySeq

(* The last push heard of is a number. *)
LEMMA ReachIsNumber ==
  ASSUME NEW q \in Seq(Items), NEW heard \in Nat
  PROVE  Reach(q, heard) \in Int
<1>1. CASE q = <<>>
  BY <1>1 DEF Reach
<1>2. CASE q # <<>>
  <2>1. q[Len(q)] \in Items
    BY <1>2, EmptySeq
  <2>2. q[Len(q)].first \in Nat /\ q[Len(q)].count \in Nat
    BY <2>1 DEF Items
  <2> QED
    BY <1>2, <2>2 DEF Reach
<1> QED
  BY <1>1, <1>2

(* An item that starts where the channel ends keeps it contiguous. *)
LEMMA ContiguousAppend ==
  ASSUME NEW q \in Seq(Items), NEW heard \in Nat, NEW e \in Items,
         Contiguous(q, heard), e.first = Reach(q, heard) + 1
  PROVE  /\ Contiguous(Append(q, e), heard)
         /\ Reach(Append(q, e), heard) = e.first + e.count - 1
<1>1. /\ Append(q, e) \in Seq(Items) /\ Append(q, e) # <<>>
      /\ Len(Append(q, e)) = Len(q) + 1
      /\ \A i \in 1 .. Len(q) : Append(q, e)[i] = q[i]
      /\ Append(q, e)[Len(q) + 1] = e
  BY AppendedItem
<1>2. Reach(Append(q, e), heard) = e.first + e.count - 1
  BY <1>1 DEF Reach
<1>3. ASSUME NEW i \in 1 .. Len(q) + 1
      PROVE  Append(q, e)[i].first =
               IF i = 1 THEN heard + 1
               ELSE Append(q, e)[i - 1].first + Append(q, e)[i - 1].count
  <2>1. CASE i <= Len(q)
    BY <1>1, <2>1 DEF Contiguous
  <2>2. CASE i = Len(q) + 1 /\ q = <<>>
    BY <1>1, <2>2 DEF Reach
  <2>3. CASE i = Len(q) + 1 /\ q # <<>>
    <3>1. Len(q) \in 1 .. Len(q)
      BY <2>3
    <3>2. q[Len(q)] \in Items
      BY <3>1
    <3>3. i - 1 = Len(q) /\ i # 1
      BY <2>3, <3>1
    <3>4. Append(q, e)[i - 1] = q[Len(q)]
      BY <1>1, <3>1, <3>3
    <3>5. e.first = q[Len(q)].first + q[Len(q)].count
      <4>1. q[Len(q)].first \in Nat /\ q[Len(q)].count \in Nat
        BY <3>2 DEF Items
      <4> QED
        BY <2>3, <4>1 DEF Reach
    <3>6. Append(q, e)[i] = e
      BY <1>1, <2>3
    <3> QED
      BY <3>3, <3>4, <3>5, <3>6
  <2> QED
    BY <2>1, <2>2, <2>3
<1> QED
  BY <1>1, <1>2, <1>3 DEF Contiguous

(* Taking the head moves what the user knows to where the tail starts. *)
LEMMA ContiguousTail ==
  ASSUME NEW q \in Seq(Items), NEW heard \in Nat, q # <<>>,
         Contiguous(q, heard)
  PROVE  /\ Contiguous(Tail(q), heard + Head(q).count)
         /\ Reach(Tail(q), heard + Head(q).count) = Reach(q, heard)
<1>1. /\ Tail(q) \in Seq(Items) /\ Len(Tail(q)) = Len(q) - 1
      /\ \A i \in 1 .. Len(Tail(q)) : Tail(q)[i] = q[i + 1]
      /\ Head(q) = q[1] /\ q[1] \in Items /\ Len(q) \in Nat \ {0}
  OBVIOUS
<1>2. q[1].first = heard + 1
  BY <1>1 DEF Contiguous
<1>3. ASSUME NEW i \in 1 .. Len(Tail(q))
      PROVE  Tail(q)[i].first =
               IF i = 1 THEN heard + Head(q).count + 1
               ELSE Tail(q)[i - 1].first + Tail(q)[i - 1].count
  <2>1. i + 1 \in 1 .. Len(q) /\ i + 1 # 1 /\ Tail(q)[i] = q[i + 1]
    BY <1>1
  <2>2. q[i + 1].first = q[i].first + q[i].count
    BY <2>1 DEF Contiguous
  <2>3. CASE i = 1
    BY <1>1, <1>2, <2>1, <2>2, <2>3 DEF Items
  <2>4. CASE i # 1
    BY <1>1, <2>1, <2>2, <2>4
  <2> QED
    BY <2>3, <2>4
<1>4. Reach(Tail(q), heard + Head(q).count) = Reach(q, heard)
  <2> DEFINE t == Tail(q)
  <2>0. Len(t) \in Nat /\ (t = <<>> <=> Len(t) = 0)
    <3> HIDE DEF t
    <3>1. t \in Seq(Items)
      BY <1>1 DEF t
    <3> QED
      BY <3>1, EmptyChannel
  <2>1. CASE Len(q) = 1
    <3>1. Tail(q) = <<>>
      BY <1>1, <2>0, <2>1
    <3>2. Reach(Tail(q), heard + Head(q).count) = heard + Head(q).count
      BY <3>1 DEF Reach
    <3>3. Reach(q, heard) = q[1].first + q[1].count - 1
      BY <2>1 DEF Reach
    <3>4. q[1].count \in Nat
      BY <1>1 DEF Items
    <3> QED
      BY <1>1, <1>2, <3>2, <3>3, <3>4
  <2>2. CASE Len(q) # 1
    <3>1. Tail(q) # <<>> /\ Len(Tail(q)) \in 1 .. Len(Tail(q))
      BY <1>1, <2>0, <2>2
    <3>2. Tail(q)[Len(Tail(q))] = q[Len(q)]
      BY <1>1, <3>1
    <3> QED
      BY <3>1, <3>2 DEF Reach
  <2> QED
    BY <2>1, <2>2
<1> QED
  BY <1>3, <1>4 DEF Contiguous

(* LossAccounted in these terms. *)
LEMMA LossAccountedIs ==
  LossAccounted <=> (open => Contiguous(queue, seen) /\ pushes = pending + Reach(queue, seen))
BY DEF LossAccounted, Contiguous, Reach

(* The same of the next state. *)
LEMMA LossAccountedNext ==
  LossAccounted' <=>
    (open' => Contiguous(queue', seen') /\ pushes' = pending' + Reach(queue', seen'))
BY DEF LossAccounted, Contiguous, Reach

(* A sample that is offered while nothing is owed, or without room for it,  *)
(* is queued behind what is there or counted.                               *)
LEMMA OfferStep ==
  ASSUME StreamInv, open, NEW state \in Nat, Offer(state), pending = 0 \/ ~Room(queue),
         open' = open, seen' = seen
  PROVE  /\ queue' \in Seq(Items) /\ pending' \in Nat /\ pushes' \in Nat
         /\ Len(queue') <= Slots /\ OwedWasPushed' /\ LossAccounted'
<1>1. /\ queue \in Seq(Items) /\ pending \in Nat /\ pushes \in Nat /\ seen \in Nat
      /\ Len(queue) <= Slots /\ Slots \in Nat /\ pending <= pushes
  BY CapacityAssumption DEF StreamInv, TypeOK, OwedWasPushed, Slots
<1>2. Contiguous(queue, seen) /\ pushes = pending + Reach(queue, seen)
  BY LossAccountedIs DEF StreamInv
<1>3. Reach(queue, seen) \in Int /\ Len(queue) \in Nat
  BY <1>1, ReachIsNumber
<1>4. CASE Room(queue)
  <2> DEFINE e == Sample(pushes + 1, state)
  <2>1. e \in Items /\ e.first = pushes + 1 /\ e.count = 1
    BY <1>1 DEF Sample, Items
  <2>2. queue' = Append(queue, e) /\ pending' = pending /\ pushes' = pushes + 1
    BY <1>4 DEF Offer
  <2>3. e.first = Reach(queue, seen) + 1
    BY <1>1, <1>2, <1>3, <1>4, <2>1
  <2> HIDE DEF e
  <2>4. Contiguous(queue', seen) /\ Reach(queue', seen) = pushes + 1
    BY <1>1, <1>2, <2>1, <2>2, <2>3, ContiguousAppend
  <2>5. queue' \in Seq(Items) /\ Len(queue') <= Slots
    BY <1>1, <1>3, <1>4, <2>1, <2>2, AppendedItem DEF Room
  <2>6. LossAccounted'
    BY <1>1, <1>4, <2>2, <2>4, LossAccountedNext
  <2> QED
    BY <1>1, <2>2, <2>5, <2>6 DEF OwedWasPushed
<1>5. CASE ~Room(queue)
  <2>1. queue' = queue /\ pending' = pending + 1 /\ pushes' = pushes + 1
    BY <1>5 DEF Offer
  <2>2. LossAccounted'
    BY <1>1, <1>2, <1>3, <2>1, LossAccountedNext
  <2> QED
    BY <1>1, <2>1, <2>2 DEF OwedWasPushed
<1> QED
  BY <1>4, <1>5

(* The report of a loss covers exactly what was lost.                       *)
LEMMA RepayStep ==
  ASSUME StreamInv, open, Owed, Repay, open' = open, seen' = seen, pushes' = pushes
  PROVE  /\ queue' \in Seq(Items) /\ pending' = 0
         /\ Len(queue') <= Slots /\ OwedWasPushed' /\ LossAccounted'
<1>1. /\ queue \in Seq(Items) /\ pending \in Nat /\ pushes \in Nat /\ seen \in Nat
      /\ Len(queue) <= Slots /\ Slots \in Nat /\ pending <= pushes
  BY CapacityAssumption DEF StreamInv, TypeOK, OwedWasPushed, Slots
<1>2. Contiguous(queue, seen) /\ pushes = pending + Reach(queue, seen)
  BY LossAccountedIs DEF StreamInv
<1>3. Reach(queue, seen) \in Int /\ Len(queue) \in Nat
  BY <1>1, ReachIsNumber
<1> DEFINE e == Lagged(pushes + 1 - pending, pending)
<1>4. e \in Items /\ e.first = pushes + 1 - pending /\ e.count = pending
  BY <1>1 DEF Lagged, Items
<1>5. queue' = Append(queue, e) /\ pending' = 0
  BY DEF Repay
<1>6. e.first = Reach(queue, seen) + 1
  BY <1>1, <1>2, <1>3, <1>4
<1> HIDE DEF e
<1>7. Contiguous(queue', seen) /\ Reach(queue', seen) = pushes
  BY <1>1, <1>2, <1>4, <1>5, <1>6, ContiguousAppend
<1>8. queue' \in Seq(Items) /\ Len(queue') <= Slots
  BY <1>1, <1>3, <1>4, <1>5, AppendedItem DEF Owed, Room
<1>9. LossAccounted'
  BY <1>1, <1>5, <1>7, LossAccountedNext
<1> QED
  BY <1>1, <1>5, <1>8, <1>9 DEF OwedWasPushed
-----------------------------------------------------------------------------
(* The inductive invariant.                                                 *)

(* What StreamInv says of the variables outside the channel. *)
Surroundings ==
  /\ version \in Nat /\ snapshot \in Nat /\ initial \in Nat
  /\ at \in [Publishers -> {"idle", "built", "stored", "paid"}]
  /\ built \in [Publishers -> Nat]
  /\ stage \in {"none", "loaded", "listed", "removed"} /\ open \in BOOLEAN
  /\ seen \in Nat /\ ListedBeforeDropped

(* What it says of the channel. *)
ChannelOK ==
  /\ queue \in Seq(Items) /\ pending \in Nat /\ pushes \in Nat
  /\ Len(queue) <= Slots /\ OwedWasPushed /\ LossAccounted

(* StreamInv in these parts. *)
LEMMA StreamInvIs == StreamInv <=> Surroundings /\ ChannelOK /\ OnePaid /\ PaidOwesNothing
BY DEF StreamInv, TypeOK, Surroundings, ChannelOK

(* No step takes the variables outside the channel out of their types. *)
LEMMA SurroundingsStep == StreamInv /\ [Next]_vars => Surroundings'
<1> SUFFICES ASSUME StreamInv, [Next]_vars PROVE Surroundings'
  OBVIOUS
<1> USE StreamInvIs DEF Surroundings, ListedBeforeDropped, publishVars, channelVars, streamVars
<1>1. ASSUME NEW p \in Publishers, Change(p) PROVE Surroundings'
  BY <1>1 DEF Change
<1>2. ASSUME NEW p \in Publishers, Store(p) PROVE Surroundings'
  BY <1>2 DEF Store
<1>3. ASSUME NEW p \in Publishers, FanOutLagged(p) PROVE Surroundings'
  BY <1>3 DEF FanOutLagged, Publish
<1>4. ASSUME NEW p \in Publishers, FanOutSample(p) PROVE Surroundings'
  BY <1>4 DEF FanOutSample, Publish
<1>5. ASSUME NEW p \in Publishers, FanOutNothing(p) PROVE Surroundings'
  BY <1>5 DEF FanOutNothing, Publish
<1>6. CASE Load
  BY <1>6 DEF Load
<1>7. CASE Attach
  BY <1>7 DEF Attach
<1>8. CASE Receive
  <2>1. Head(queue) \in Items
    BY <1>8, EmptyChannel DEF Receive, ChannelOK
  <2>2. Head(queue).count \in Nat
    BY <2>1 DEF Items
  <2> QED
    BY <1>8, <2>2 DEF Receive
<1>9. CASE Drop
  BY <1>9 DEF Drop
<1>10. CASE UNCHANGED vars
  BY <1>10 DEF vars
<1> QED
  BY <1>1, <1>2, <1>3, <1>4, <1>5, <1>6, <1>7, <1>8, <1>9, <1>10 DEF Next

(* A step that leaves the channel alone. *)
LEMMA ChannelKept ==
  ASSUME StreamInv, UNCHANGED <<channelVars, open, seen>>
  PROVE  ChannelOK'
BY StreamInvIs DEF ChannelOK, channelVars, OwedWasPushed, LossAccounted

(* No step loses a push, or reports one twice. *)
LEMMA ChannelStep == StreamInv /\ [Next]_vars => ChannelOK'
<1> SUFFICES ASSUME StreamInv, [Next]_vars PROVE ChannelOK'
  OBVIOUS
<1>0. Surroundings /\ ChannelOK /\ PaidOwesNothing
  BY StreamInvIs
<1>1. ASSUME NEW p \in Publishers, Change(p) \/ Store(p) \/ FanOutNothing(p)
      PROVE  ChannelOK'
  BY <1>1, ChannelKept
     DEF Change, Store, FanOutNothing, Publish, streamVars
<1>2. ASSUME NEW p \in Publishers, FanOutLagged(p) PROVE ChannelOK'
  <2>1. open /\ Owed /\ Repay /\ open' = open /\ seen' = seen /\ pushes' = pushes
    BY <1>2 DEF FanOutLagged
  <2>2. /\ queue' \in Seq(Items) /\ pending' = 0
        /\ Len(queue') <= Slots /\ OwedWasPushed' /\ LossAccounted'
    BY <2>1, RepayStep
  <2> QED
    BY <1>0, <2>1, <2>2 DEF ChannelOK
<1>3. ASSUME NEW p \in Publishers, FanOutSample(p) PROVE ChannelOK'
  <2>1. open /\ Offer(built[p]) /\ open' = open /\ seen' = seen /\ built[p] \in Nat
    BY <1>0, <1>3 DEF FanOutSample, Surroundings
  <2>2. pending = 0 \/ ~Room(queue)
    <3>1. CASE at[p] = "paid"
      BY <1>0, <3>1 DEF PaidOwesNothing
    <3>2. CASE ~Owed
      BY <1>0, <3>2 DEF Owed, ChannelOK
    <3> QED
      BY <1>3, <3>1, <3>2 DEF FanOutSample
  <2> QED
    BY <2>1, <2>2, OfferStep DEF ChannelOK
<1>4. CASE Load
  BY <1>4, ChannelKept DEF Load
<1>5. CASE Attach
  <2>1. Offer(initial) /\ open' = open /\ seen' = seen /\ initial \in Nat
    BY <1>0, <1>5 DEF Attach, Surroundings
  <2>2. pending = 0
    BY <1>0, <1>5 DEF Attach, PaidOwesNothing
  <2>3. open
    BY <1>0, <1>5 DEF Attach, Surroundings, ListedBeforeDropped
  <2> QED
    BY <2>1, <2>2, <2>3, OfferStep DEF ChannelOK
<1>6. CASE Receive
  <2>1. /\ open /\ queue # <<>> /\ queue' = Tail(queue)
        /\ seen' = seen + Head(queue).count
        /\ open' = open /\ pending' = pending /\ pushes' = pushes
    BY <1>6 DEF Receive
  <2>2. queue \in Seq(Items) /\ seen \in Nat /\ Len(queue) <= Slots /\ Slots \in Nat
    BY <1>0, CapacityAssumption DEF ChannelOK, Surroundings, Slots
  <2>3. Contiguous(queue, seen) /\ pushes = pending + Reach(queue, seen)
    BY <1>0, <2>1, LossAccountedIs DEF ChannelOK
  <2>4. Contiguous(queue', seen') /\ Reach(queue', seen') = Reach(queue, seen)
    BY <2>1, <2>2, <2>3, ContiguousTail
  <2>5. LossAccounted'
    BY <2>1, <2>3, <2>4, LossAccountedNext
  <2>6. queue' \in Seq(Items) /\ Len(queue') <= Slots
    BY <2>1, <2>2
  <2> QED
    BY <1>0, <2>1, <2>5, <2>6 DEF ChannelOK, OwedWasPushed
<1>7. CASE Drop
  <2>1. queue' = <<>> /\ ~open' /\ pending' = pending /\ pushes' = pushes
    BY <1>7 DEF Drop
  <2>2. queue' \in Seq(Items) /\ Len(queue') <= Slots
    BY <2>1, CapacityAssumption DEF Slots
  <2> QED
    BY <1>0, <2>1, <2>2 DEF ChannelOK, OwedWasPushed, LossAccounted
<1>8. CASE UNCHANGED vars
  BY <1>8, ChannelKept DEF vars, streamVars, channelVars
<1> QED
  BY <1>1, <1>2, <1>3, <1>4, <1>5, <1>6, <1>7, <1>8 DEF Next

(* The lock of the list keeps its promise. *)
LEMMA LockStep == StreamInv /\ [Next]_vars => OnePaid' /\ PaidOwesNothing'
<1> SUFFICES ASSUME StreamInv, [Next]_vars PROVE OnePaid' /\ PaidOwesNothing'
  OBVIOUS
<1>0. /\ at \in [Publishers -> {"idle", "built", "stored", "paid"}]
      /\ OnePaid /\ PaidOwesNothing
  BY StreamInvIs DEF Surroundings
<1> USE DEF OnePaid, PaidOwesNothing, publishVars, channelVars, streamVars
<1>1. ASSUME NEW p \in Publishers, Change(p) \/ Store(p)
      PROVE  OnePaid' /\ PaidOwesNothing'
  BY <1>0, <1>1 DEF Change, Store
<1>2. ASSUME NEW p \in Publishers, FanOutLagged(p) PROVE OnePaid' /\ PaidOwesNothing'
  BY <1>0, <1>2 DEF FanOutLagged, Publish, ListFree, Repay
<1>3. ASSUME NEW p \in Publishers, FanOutSample(p) PROVE OnePaid' /\ PaidOwesNothing'
  <2>1. stage = "listed" /\ stage' = stage /\ at' = [at EXCEPT ![p] = "idle"]
    BY <1>3 DEF FanOutSample, Publish
  <2>2. \A q \in Publishers : at[q] = "paid" => q = p
    BY <1>0, <1>3 DEF FanOutSample, ListFree
  <2>3. \A q \in Publishers : at'[q] # "paid"
    BY <1>0, <2>1, <2>2
  <2> QED
    BY <2>1, <2>3
<1>4. ASSUME NEW p \in Publishers, FanOutNothing(p) PROVE OnePaid' /\ PaidOwesNothing'
  BY <1>0, <1>4 DEF FanOutNothing, Publish
<1>5. CASE Load \/ Receive \/ Drop
  BY <1>0, <1>5 DEF Load, Receive, Drop
<1>6. CASE Attach
  BY <1>0, <1>6 DEF Attach, ListFree
<1>7. CASE UNCHANGED vars
  BY <1>0, <1>7 DEF vars
<1> QED
  BY <1>1, <1>2, <1>3, <1>4, <1>5, <1>6, <1>7 DEF Next

(* StreamInv holds in every reachable state, for any number of publishers   *)
(* and any capacity.                                                        *)
THEOREM StreamInductive == Spec => []StreamInv
<1>1. Init => StreamInv
  BY CapacityAssumption
     DEF Init, StreamInv, TypeOK, OwedWasPushed, OnePaid, PaidOwesNothing,
         ListedBeforeDropped, LossAccounted, Slots
<1>2. StreamInv /\ [Next]_vars => StreamInv'
  <2>1. ASSUME StreamInv, [Next]_vars
        PROVE  Surroundings' /\ ChannelOK' /\ OnePaid' /\ PaidOwesNothing'
    BY <2>1, SurroundingsStep, ChannelStep, LockStep
  <2> QED
    BY <2>1 DEF StreamInv, TypeOK, Surroundings, ChannelOK
<1> QED
  BY <1>1, <1>2, PTL DEF Spec

(* The variables keep their types, and the channel of a subscriber never    *)
(* holds more than its capacity, however many publishers push to it.        *)
THEOREM StreamTypes == Spec => []TypeOK
<1>1. StreamInv => TypeOK
  BY DEF StreamInv
<1> QED
  BY <1>1, StreamInductive, PTL

(* Every state pushed to a stream is delivered or reported lost, once and   *)
(* in its place, however publishers and the user interleave.                *)
THEOREM EveryLossAccounted == Spec => []LossAccounted
<1>1. StreamInv => LossAccounted
  BY DEF StreamInv
<1> QED
  BY <1>1, StreamInductive, PTL

(* With two slots or more, a push that finds the stream drained delivers    *)
(* its state.                                                               *)
THEOREM DrainedResumes ==
  ASSUME Capacity >= 2
  PROVE  Spec => DrainedStreamResumes
<1> DEFINE Drained == queue = <<>> \/ (Len(queue) = 1 /\ \E p \in Publishers : at[p] = "paid")
<1>1. ASSUME StreamInv, [Next]_vars, stage = "listed", pushes' > pushes, Drained
      PROVE  queue' # <<>> /\ queue'[Len(queue')].kind = "sample"
  <2>1. queue \in Seq(Items) /\ pushes \in Nat /\ PaidOwesNothing
    BY <1>1, StreamInvIs DEF ChannelOK
  <2>2. PICK p \in Publishers : FanOutSample(p)
    <3>1. pushes' # pushes
      BY <1>1, <2>1
    <3> QED
      BY <1>1, <3>1
         DEF Next, Change, Store, FanOutLagged, FanOutNothing, Load, Attach, Receive, Drop,
             vars, streamVars, channelVars
  <2>3. Room(queue)
    <3>1. queue = <<>> => Len(queue) = 0
      BY <2>1, EmptyChannel
    <3>2. Len(queue) \in {0, 1} /\ Capacity \in Nat
      BY <1>1, <3>1, CapacityAssumption
    <3> QED
      BY <3>2 DEF Room, Slots
  <2> DEFINE e == Sample(pushes + 1, built[p])
  <2>4. queue' = Append(queue, e) /\ e.kind = "sample"
    BY <2>2, <2>3 DEF FanOutSample, Offer, Sample
  <2>5. e \in Items
    BY <1>1, <2>1, StreamInvIs DEF Sample, Items, Surroundings
  <2> HIDE DEF e
  <2> QED
    BY <2>1, <2>4, <2>5, AppendedItem
<1> QED
  BY <1>1, StreamInductive, PTL DEF Spec, DrainedStreamResumes

(***************************************************************************)
(* Telemetry.  The motor's frames reach the host in order, late and with   *)
(* gaps.  A Meow frame that is neither too late nor after a gap is of the  *)
(* same power-up as the last one and less than half the range from it, so  *)
(* that the signed difference of the two wrapped positions is the distance *)
(* the motor really moved.  A Cia402 difference is that distance up to     *)
(* whole turns, and exactly that below half a turn.                        *)
(***************************************************************************)

(* What the proofs need of the assumptions of Telemetry.                    *)
TelemetryAssumptions ==
  /\ Circle \in Nat /\ Turn \in Nat /\ ClockMod \in Nat
  /\ Circle > 0 /\ Turn > 0 /\ ClockMod > 0
  /\ GapLimit \in Nat /\ Discontinuity \in Nat /\ Window \in Nat
  /\ BootTime \in Nat /\ MaxDelay \in Nat
  /\ 2 * (GapLimit + MaxDelay) < Circle /\ BootTime > GapLimit + MaxDelay
  /\ Moves \subseteq -1 .. 1 /\ Homes \subseteq Int
  /\ None \notin Int

LEMMA TelemetryFacts == TelemetryAssumptions
BY SlowEnough, BootTakesLonger, TelemetryBounds, NoneIsNoNumber DEF TelemetryAssumptions

(* y less k times m.                                                        *)
Less(y, m, k) == y - m * k

(* A remainder is known by its range.                                       *)
LEMMA RemainderIs ==
  ASSUME NEW m \in Nat, m > 0, NEW k \in Int, NEW r \in Nat, r < m
  PROVE  Less(r, m, k) % m = r
<1> DEFINE y == r - m * k
           q == y \div m
           s == y % m
<1>1. y \in Int
  OBVIOUS
<1> HIDE DEF y
<1>2. q \in Int /\ s \in Nat /\ s < m
  BY <1>1
<1>3. y = m * q + s
  BY <1>1, Z3
<1> HIDE DEF q, s
<1>4. PICK d \in Int : d = q + k
  BY <1>2
<1>5. m * d = r - s
  BY <1>2, <1>3, <1>4 DEF y
<1>6. (d >= 1 => m * d >= m) /\ (d <= -1 => m * d <= -m)
  OBVIOUS
<1>7. d = 0
  BY <1>2, <1>5, <1>6
<1> QED
  BY <1>2, <1>5, <1>7 DEF s, y, Less

(* A remainder is what is left when a multiple is taken off.                *)
LEMMA Divided ==
  ASSUME NEW m \in Nat, m > 0, NEW y \in Int
  PROVE  \E k \in Int : y % m = Less(y, m, k)
<1> DEFINE q == y \div m
           s == y % m
<1>1. q \in Int /\ s \in Nat
  OBVIOUS
<1>2. y = m * q + s
  BY Z3
<1> HIDE DEF q, s
<1>3. s = Less(y, m, q)
  BY <1>1, <1>2 DEF Less
<1> QED
  BY <1>1, <1>3 DEF s

(* A signed position is the position, whole ranges taken off, and lies in   *)
(* half a range to both sides.                                              *)
LEMMA SignedIs ==
  ASSUME NEW m \in Nat, m > 0, NEW x \in Int
  PROVE  /\ \E k \in Int : Signed(x, m) = Less(x, m, k)
         /\ Signed(x, m) \in Int /\ -m <= 2 * Signed(x, m) /\ 2 * Signed(x, m) < m
<1> DEFINE h == m \div 2
           y == x + h
           r == y % m
<1>1. h \in Int /\ y \in Int /\ (m = 2 * h \/ m = 2 * h + 1) /\ r \in Nat /\ r < m
  OBVIOUS
<1>2. Signed(x, m) = r - h
  BY Zenon DEF Signed
<1>3. PICK k \in Int : r = Less(y, m, k)
  BY <1>1, Divided
<1> HIDE DEF h, r
<1>4. Less(y, m, k) - h = Less(x, m, k)
  BY <1>1 DEF Less
<1> HIDE DEF y
<1>5. Signed(x, m) = Less(x, m, k)
  BY <1>2, <1>3, <1>4
<1>6. Signed(x, m) \in Int /\ -m <= 2 * Signed(x, m) /\ 2 * Signed(x, m) < m
  BY <1>1, <1>2
<1> QED
  BY <1>5, <1>6

(* The difference of two signed positions is that of the positions, whole   *)
(* ranges taken off.                                                        *)
LEMMA DifferenceIs ==
  ASSUME NEW m \in Nat, m > 0, NEW a \in Int, NEW b \in Int
  PROVE  \E k \in Int : Signed(a, m) - Signed(b, m) = Less(a - b, m, k)
<1>1. PICK i \in Int : Signed(a, m) = Less(a, m, i)
  BY SignedIs
<1>2. PICK j \in Int : Signed(b, m) = Less(b, m, j)
  BY SignedIs
<1>3. PICK k \in Int : k = i - j
  OBVIOUS
<1>4. Less(a, m, i) - Less(b, m, j) = Less(a - b, m, k)
  BY <1>3 DEF Less
<1> QED
  BY <1>1, <1>2, <1>4

(* While the motor moves less than half the range, the signed difference of *)
(* two positions is the distance between them.                              *)
LEMMA DeltaIsDistance ==
  ASSUME TelemetryAssumptions, NEW a \in Int, NEW b \in Int,
         2 * (a - b) < Circle, 2 * (b - a) < Circle
  PROVE  WrappingDelta(Signed(a, Circle), Signed(b, Circle)) = a - b
<1> DEFINE h == Circle \div 2
           d == a - b
           z == Signed(a, Circle) - Signed(b, Circle)
           y == z + h
<1>0. Circle \in Nat /\ Circle > 0
  BY DEF TelemetryAssumptions
<1>1. h \in Nat /\ (Circle = 2 * h \/ Circle = 2 * h + 1)
  BY <1>0
<1>2. WrappingDelta(Signed(a, Circle), Signed(b, Circle)) = (y % Circle) - h
  BY Zenon DEF WrappingDelta, Signed
<1> HIDE DEF h
<1>3. d + h \in Nat /\ d + h < Circle
  BY <1>0, <1>1
<1>4. PICK k \in Int : z = Less(d, Circle, k)
  BY <1>0, DifferenceIs
<1> HIDE DEF z
<1>5. Less(d, Circle, k) + h = Less(d + h, Circle, k)
  BY <1>0, <1>1 DEF Less
<1> HIDE DEF d
<1>6. Less(d + h, Circle, k) % Circle = d + h
  BY <1>0, <1>3, RemainderIs
<1>7. y % Circle = d + h
  BY <1>4, <1>5, <1>6
<1> HIDE DEF y
<1> QED
  BY <1>1, <1>2, <1>7 DEF d

(* A number of whole turns.                                                 *)
WholeTurns(x) == \E k \in Int : x = Turn * k

LEMMA TurnsAdd ==
  ASSUME TelemetryAssumptions, NEW x \in Int, NEW y \in Int, WholeTurns(x), WholeTurns(y)
  PROVE  WholeTurns(x + y)
<1>1. PICK i \in Int : x = Turn * i
  BY DEF WholeTurns
<1>2. PICK j \in Int : y = Turn * j
  BY DEF WholeTurns
<1>3. PICK k \in Int : k = i + j
  OBVIOUS
<1>4. Turn * i + Turn * j = Turn * k
  BY <1>3 DEF TelemetryAssumptions
<1> QED
  BY <1>1, <1>2, <1>4 DEF WholeTurns

LEMMA TurnsRemainder ==
  ASSUME TelemetryAssumptions, NEW x \in Int, WholeTurns(x)
  PROVE  x % Turn = 0
<1>1. PICK k \in Int : x = Turn * k
  BY DEF WholeTurns
<1>2. PICK j \in Int : j = -k
  OBVIOUS
<1>3. x = Less(0, Turn, j)
  BY <1>1, <1>2 DEF Less, TelemetryAssumptions
<1> QED
  BY <1>3, RemainderIs DEF TelemetryAssumptions

(* The corrected difference of two single-turn positions is the distance    *)
(* between them up to whole turns, and exactly that below half a turn.      *)
LEMMA TurnDeltaIs ==
  ASSUME TelemetryAssumptions, NEW a \in Int, NEW b \in Int,
         NEW d, d = TurnDelta(Signed(a, Turn), Signed(b, Turn))
  PROVE  /\ d \in Int /\ WholeTurns(d - (a - b))
         /\ 2 * (a - b) < Turn /\ 2 * (b - a) < Turn => d = a - b
<1> DEFINE z == Signed(a, Turn) - Signed(b, Turn)
<1>0. Turn \in Nat /\ Turn > 0
  BY DEF TelemetryAssumptions
<1>1. z \in Int /\ -2 * Turn < 2 * z /\ 2 * z < 2 * Turn
  <2>1. /\ Signed(a, Turn) \in Int /\ -Turn <= 2 * Signed(a, Turn) /\ 2 * Signed(a, Turn) < Turn
        /\ Signed(b, Turn) \in Int /\ -Turn <= 2 * Signed(b, Turn) /\ 2 * Signed(b, Turn) < Turn
    BY <1>0, SignedIs
  <2> QED
    BY <1>0, <2>1
<1>2. PICK k \in Int : z = Less(a - b, Turn, k)
  BY <1>0, DifferenceIs
<1>3. d = z + IF 2 * z > Turn THEN -Turn ELSE IF 2 * z < -Turn THEN Turn ELSE 0
  BY Zenon DEF TurnDelta
<1> HIDE DEF z
<1>4. PICK j \in {-1, 0, 1} : d = z + Turn * j /\ -Turn <= 2 * d /\ 2 * d <= Turn
  <2>1. CASE 2 * z > Turn
    <3>1. d = z - Turn /\ Turn * (-1) = -Turn
      BY <1>0, <1>1, <1>3, <2>1
    <3> QED
      BY <1>0, <1>1, <2>1, <3>1
  <2>2. CASE ~(2 * z > Turn) /\ 2 * z < -Turn
    BY <1>0, <1>1, <1>3, <2>2
  <2>3. CASE ~(2 * z > Turn) /\ ~(2 * z < -Turn)
    BY <1>0, <1>1, <1>3, <2>3
  <2> QED
    BY <2>1, <2>2, <2>3
<1>5. PICK i \in Int : i = j - k
  OBVIOUS
<1>6. d \in Int /\ d - (a - b) = Turn * i
  <2>1. d = ((a - b) - Turn * k) + Turn * j
    BY <1>2, <1>4 DEF Less
  <2> QED
    BY <1>0, <1>5, <2>1
<1>7. ASSUME 2 * (a - b) < Turn, 2 * (b - a) < Turn
      PROVE  d = a - b
  <2> DEFINE t == Turn * i
  <2>1. t \in Int /\ -2 * Turn < 2 * t /\ 2 * t < 2 * Turn
    BY <1>0, <1>4, <1>6, <1>7
  <2>2. (i >= 1 => t >= Turn) /\ (i <= -1 => t <= -Turn) /\ (i = 0 => t = 0)
    BY <1>0
  <2> HIDE DEF t
  <2>3. t = 0
    BY <1>0, <2>1, <2>2
  <2> QED
    BY <1>6, <2>3 DEF t
<1> QED
  BY <1>6, <1>7 DEF WholeTurns

(* A difference of 32-bit stamps less than the range apart is the time      *)
(* between them.                                                            *)
LEMMA ClockDeltaIs ==
  ASSUME TelemetryAssumptions, NEW s \in Int, NEW l \in Int, s - l \in Nat, s - l < ClockMod
  PROVE  ClockDelta(s, l % ClockMod) = s - l
<1>0. ClockMod \in Nat /\ ClockMod > 0
  BY DEF TelemetryAssumptions
<1>1. PICK k \in Int : l % ClockMod = Less(l, ClockMod, k)
  BY <1>0, Divided
<1>2. PICK j \in Int : j = -k
  OBVIOUS
<1>3. s - Less(l, ClockMod, k) = Less(s - l, ClockMod, j)
  BY <1>0, <1>2 DEF Less
<1>4. Less(s - l, ClockMod, j) % ClockMod = s - l
  BY <1>0, RemainderIs
<1> QED
  BY <1>1, <1>3, <1>4 DEF ClockDelta
-----------------------------------------------------------------------------
(* What is in the air.                                                      *)

TelemetryFrames == [at : Int, stamp : Nat, sentAt : Nat, boot : Nat]

(* The motor sent the frame f.  If it has not restarted since, its clock and *)
(* its position have moved on by what a tick allows; if it has, it was not  *)
(* ready before BootTime.                                                   *)
Sent(f) ==
  /\ f \in TelemetryFrames
  /\ sent # None /\ f.sentAt <= sent /\ f.sentAt <= now /\ f.boot <= boots
  /\ f.boot = boots => /\ clock - f.stamp = now - f.sentAt
                       /\ shaft - f.at <= now - f.sentAt /\ f.at - shaft <= now - f.sentAt
  /\ f.boot # boots => f.sentAt + BootTime <= ready

(* Frame g was sent after frame f.                                          *)
Follows(g, f) ==
  /\ f.sentAt < g.sentAt /\ f.boot <= g.boot
  /\ g.boot = f.boot => /\ g.stamp - f.stamp = g.sentAt - f.sentAt
                        /\ g.at - f.at <= g.sentAt - f.sentAt
                        /\ f.at - g.at <= g.sentAt - f.sentAt
  /\ g.boot # f.boot => f.sentAt + BootTime <= g.sentAt

IsFrame(f) == Sent(f) /\ now - f.sentAt <= MaxDelay

MotorOK ==
  /\ now \in Nat /\ clock \in Nat /\ shaft \in Int /\ ready \in Nat /\ boots \in Nat
  /\ operational => ready <= now
  /\ sent # None => sent \in Nat /\ sent <= now

WireOK ==
  /\ wire \in Seq(TelemetryFrames)
  /\ \A i \in 1 .. Len(wire) : IsFrame(wire[i])
  /\ \A i, j \in 1 .. Len(wire) : i < j => Follows(wire[j], wire[i])

WireFollows(f) == \A i \in 1 .. Len(wire) : Follows(wire[i], f)

HeldOK ==
  held # None =>
    /\ IsFrame(held.frame)
    /\ held.at \in Nat /\ held.frame.sentAt <= held.at /\ held.at <= now
    /\ WireFollows(held.frame)

BusInv == MotorOK /\ WireOK /\ HeldOK

(* What is in the air comes after the frame f.                              *)
AirFollows(f) ==
  WireFollows(f) /\ (held # None => Follows(held.frame, f))

(* No frame is taken back, and what is known of it stays true.              *)
LEMMA SentStays ==
  ASSUME TelemetryAssumptions, BusInv, [TelemetryNext]_telemetryVars
  PROVE  \A f : Sent(f) => Sent(f)'
<1> SUFFICES ASSUME NEW f, Sent(f) PROVE Sent(f)'
  OBVIOUS
<1>0. None \notin Int /\ Moves \subseteq -1 .. 1 /\ BootTime \in Nat
  BY DEF TelemetryAssumptions
<1>m. /\ MotorOK
      /\ f \in TelemetryFrames /\ f.at \in Int /\ f.stamp \in Nat /\ f.sentAt \in Nat
      /\ f.boot \in Nat
  BY DEF BusInv, Sent, TelemetryFrames
<1>1. CASE Tick
  <2>1. PICK move \in Moves : shaft' = shaft + move
    BY <1>1 DEF Tick
  <2>2. /\ now' = now + 1 /\ clock' = clock + 1 /\ UNCHANGED <<sent, boots, ready>>
        /\ move \in {-1, 0, 1}
    BY <1>0, <1>1 DEF Tick
  <2> QED
    BY <1>m, <2>1, <2>2 DEF Sent, MotorOK
<1>2. CASE SendTpdo1
  BY <1>0, <1>m, <1>2 DEF SendTpdo1, Sent, MotorOK
<1>3. CASE Reboot
  <2>1. /\ boots' = boots + 1 /\ ready' = now + BootTime /\ UNCHANGED <<now, sent>>
    BY <1>3 DEF Reboot
  <2> QED
    BY <1>0, <1>m, <2>1 DEF Sent, MotorOK
<1>4. CASE UNCHANGED <<now, clock, shaft, ready, boots, sent>>
  BY <1>4 DEF Sent
<1> QED
  BY <1>1, <1>2, <1>3, <1>4
     DEF TelemetryNext, telemetryVars, motorVars, SwitchNmt, EndSession, IdentifyMotor,
         BeginInitialize, AcceptFrame, ApplyTpdo1, HandleTpdo1, Finished

(* A frame stays a frame until it is too old.                               *)
LEMMA FrameStays ==
  ASSUME TelemetryAssumptions, BusInv, [TelemetryNext]_telemetryVars
  PROVE  \A f : IsFrame(f) /\ now' - f.sentAt <= MaxDelay => IsFrame(f)'
<1> SUFFICES ASSUME NEW f, IsFrame(f), now' - f.sentAt <= MaxDelay PROVE IsFrame(f)'
  OBVIOUS
<1>1. Sent(f)'
  BY SentStays DEF IsFrame
<1> QED
  BY <1>1 DEF IsFrame

(* A new frame follows all that were sent.                                  *)
LEMMA NewFollows ==
  ASSUME TelemetryAssumptions, BusInv, SendTpdo1, NEW f, Sent(f)
  PROVE  Frame \in TelemetryFrames /\ Follows(Frame, f)
<1>1. MotorOK /\ operational /\ sent # now
  BY DEF BusInv, SendTpdo1
<1>2. /\ now \in Nat /\ clock \in Nat /\ shaft \in Int /\ boots \in Nat /\ ready \in Nat
      /\ ready <= now
  BY <1>1 DEF MotorOK
<1>3. PICK g : g = Frame
  OBVIOUS
<1>4. /\ g \in TelemetryFrames
      /\ g.at = shaft /\ g.stamp = clock /\ g.sentAt = now /\ g.boot = boots
  BY <1>2, <1>3 DEF Frame, TelemetryFrames
<1>5. f.at \in Int /\ f.stamp \in Nat /\ f.sentAt \in Nat /\ f.boot \in Nat
  BY DEF Sent, TelemetryFrames
<1>6. sent \in Nat /\ sent <= now /\ f.sentAt <= sent
  BY <1>1 DEF MotorOK, Sent
<1>7. f.sentAt < now
  BY <1>1, <1>2, <1>5, <1>6
<1>8. Follows(g, f)
  BY <1>2, <1>4, <1>5, <1>7 DEF Follows, Sent, TelemetryAssumptions
<1> QED
  BY <1>3, <1>4, <1>8

(* Taking the first frame off the wire.                                     *)
LEMMA TakeHead ==
  ASSUME BusInv, wire # <<>>, wire' = Tail(wire), UNCHANGED motorVars,
         NEW h, h = Head(wire)
  PROVE  /\ IsFrame(h) /\ IsFrame(h)' /\ WireOK' /\ MotorOK' /\ WireFollows(h)'
         /\ \A f : WireFollows(f) => WireFollows(f)' /\ Follows(h, f)
<1>m. MotorOK /\ WireOK
  BY DEF BusInv
<1>1. /\ wire' \in Seq(TelemetryFrames) /\ Len(wire) \in Nat /\ Len(wire) > 0
      /\ Len(wire') = Len(wire) - 1
      /\ \A i \in 1 .. Len(wire') : wire'[i] = wire[i + 1]
      /\ h = wire[1]
  BY <1>m, HeadTailProperties, EmptySeq, LenProperties DEF WireOK
<1>2. \A i \in 1 .. Len(wire') : i + 1 \in 1 .. Len(wire) /\ 1 \in 1 .. Len(wire) /\ 1 < i + 1
  BY <1>1
<1>3. \A f : IsFrame(f) => IsFrame(f)'
  BY DEF IsFrame, Sent, motorVars
<1>4. \A i \in 1 .. Len(wire') : IsFrame(wire[i + 1])
  BY <1>m, <1>2 DEF WireOK
<1>5. \A i \in 1 .. Len(wire') : IsFrame(wire[i])'
  <2> TAKE i \in 1 .. Len(wire')
  <2>1. PICK f : f = wire[i + 1]
    OBVIOUS
  <2>2. IsFrame(f)' /\ wire'[i] = f
    BY <1>1, <1>3, <1>4, <2>1
  <2> QED
    BY <2>2 DEF IsFrame, Sent
<1>6. \A i, j \in 1 .. Len(wire') : i < j => Follows(wire'[j], wire'[i])
  <2> TAKE i, j \in 1 .. Len(wire')
  <2> HAVE i < j
  <2>1. i + 1 < j + 1
    BY <1>1
  <2>2. Follows(wire[j + 1], wire[i + 1])
    BY <1>m, <1>2, <2>1 DEF WireOK
  <2> QED
    BY <1>1, <2>2
<1>7. WireOK'
  BY <1>1, <1>5, <1>6 DEF WireOK, Follows
<1>8. WireFollows(h)'
  <2>1. \A i \in 1 .. Len(wire') : Follows(wire'[i], h)
    BY <1>m, <1>1, <1>2 DEF WireOK
  <2> QED
    BY <1>1, <2>1 DEF WireFollows, Follows
<1>9. IsFrame(h) /\ IsFrame(h)'
  BY <1>m, <1>1, <1>3 DEF WireOK
<1>10. \A f : WireFollows(f) => WireFollows(f)' /\ Follows(h, f)
  BY <1>1, <1>2 DEF WireFollows, Follows
<1>11. MotorOK'
  BY <1>m DEF MotorOK, motorVars
<1> QED
  BY <1>7, <1>8, <1>9, <1>10, <1>11

(* Putting a frame on the wire.                                             *)
LEMMA WireLonger ==
  ASSUME TelemetryAssumptions, BusInv, SendTpdo1, NEW g, g = Frame
  PROVE  /\ wire' \in Seq(TelemetryFrames) /\ Len(wire) \in Nat /\ Len(wire') = Len(wire) + 1
         /\ \A i \in 1 .. Len(wire) : wire'[i] = wire[i]
         /\ wire'[Len(wire) + 1] = g /\ g \in TelemetryFrames
<1>1. g \in TelemetryFrames
  BY DEF Frame, TelemetryFrames, BusInv, MotorOK
<1>2. wire' = Append(wire, g) /\ wire \in Seq(TelemetryFrames)
  BY DEF SendTpdo1, BusInv, WireOK
<1> QED
  BY <1>1, <1>2, AppendProperties, LenProperties

(* Every step keeps what is known of the motor.                             *)
LEMMA MotorStep ==
  ASSUME TelemetryAssumptions, BusInv, [TelemetryNext]_telemetryVars
  PROVE  MotorOK'
<1>0. None \notin Int /\ Moves \subseteq -1 .. 1 /\ Homes \subseteq Int /\ BootTime \in Nat
  BY DEF TelemetryAssumptions
<1>m. MotorOK
  BY DEF BusInv
<1>1. CASE Tick
  <2>1. PICK move \in Moves : shaft' = shaft + move
    BY <1>1 DEF Tick
  <2>2. /\ now' = now + 1 /\ clock' = clock + 1
        /\ UNCHANGED <<sent, boots, ready, operational>> /\ move \in Int
    BY <1>0, <1>1 DEF Tick
  <2> QED
    BY <1>m, <2>1, <2>2 DEF MotorOK
<1>2. CASE SendTpdo1
  BY <1>0, <1>m, <1>2 DEF SendTpdo1, MotorOK
<1>3. CASE SwitchNmt
  BY <1>m, <1>3 DEF SwitchNmt, MotorOK
<1>4. CASE Reboot
  <2>1. /\ boots' = boots + 1 /\ ready' = now + BootTime /\ clock' = 0 /\ operational' = FALSE
        /\ shaft' \in Int /\ UNCHANGED <<now, sent>>
    BY <1>0, <1>m, <1>4 DEF Reboot, MotorOK
  <2> QED
    BY <1>0, <1>m, <2>1 DEF MotorOK
<1>5. CASE UNCHANGED motorVars
  BY <1>m, <1>5 DEF MotorOK, motorVars
<1> QED
  BY <1>1, <1>2, <1>3, <1>4, <1>5
     DEF TelemetryNext, telemetryVars, EndSession, IdentifyMotor, BeginInitialize,
         AcceptFrame, ApplyTpdo1, HandleTpdo1, Finished

(* Every step keeps what is known of the frames in the air.                 *)
LEMMA BusStep ==
  ASSUME TelemetryAssumptions, BusInv, [TelemetryNext]_telemetryVars
  PROVE  BusInv'
<1>0. None \notin Int /\ MaxDelay \in Nat
  BY DEF TelemetryAssumptions
<1>m. MotorOK /\ WireOK /\ HeldOK
  BY DEF BusInv
<1>p. MotorOK'
  BY MotorStep
<1>f. \A f : IsFrame(f) /\ now' - f.sentAt <= MaxDelay => IsFrame(f)'
  BY FrameStays
<1>s. ASSUME UNCHANGED now
      PROVE  \A f : IsFrame(f) => IsFrame(f)'
  BY <1>s, <1>f DEF IsFrame
<1>1. CASE Tick
  <2>1. UNCHANGED <<wire, held>> /\ now' = now + 1 /\ now \in Nat
    BY <1>1, <1>m DEF Tick, MotorOK, hostVars
  <2>2. \A i \in 1 .. Len(wire) : wire[i].sentAt \in Nat /\ now - wire[i].sentAt < MaxDelay
    <3>1. DOMAIN wire = 1 .. Len(wire)
      BY <1>m DEF WireOK
    <3>2. \A i \in 1 .. Len(wire) : now - wire[i].sentAt < MaxDelay
      BY <1>1, <3>1 DEF Tick
    <3>3. \A i \in 1 .. Len(wire) : wire[i].sentAt \in Nat
      BY <1>m DEF WireOK, IsFrame, Sent, TelemetryFrames
    <3> QED
      BY <3>2, <3>3
  <2>3. \A i \in 1 .. Len(wire) : IsFrame(wire[i])'
    <3> TAKE i \in 1 .. Len(wire)
    <3>1. PICK f : f = wire[i]
      OBVIOUS
    <3>2. IsFrame(f) /\ now' - f.sentAt <= MaxDelay
      <4>1. IsFrame(f) /\ f.sentAt \in Nat /\ now - f.sentAt < MaxDelay
        BY <1>m, <2>2, <3>1 DEF WireOK
      <4> QED
        BY <1>0, <2>1, <4>1
    <3>3. IsFrame(f)' /\ wire'[i] = f
      BY <1>f, <2>1, <3>1, <3>2
    <3> QED
      BY <3>3 DEF IsFrame, Sent
  <2>4. WireOK'
    BY <1>m, <2>1, <2>3 DEF WireOK, Follows
  <2>5. ASSUME held # None PROVE IsFrame(held.frame)'
    <3>1. PICK f : f = held.frame
      OBVIOUS
    <3>2. IsFrame(f) /\ now - f.sentAt < MaxDelay /\ f.sentAt \in Nat
      BY <1>1, <1>m, <2>5, <3>1 DEF Tick, HeldOK, IsFrame, Sent, TelemetryFrames
    <3>3. IsFrame(f)' /\ held'.frame = f
      BY <1>0, <1>f, <2>1, <3>1, <3>2
    <3> QED
      BY <3>3 DEF IsFrame, Sent
  <2>6. HeldOK'
    BY <1>m, <2>1, <2>5 DEF HeldOK, WireFollows, Follows
  <2> QED
    BY <1>p, <2>4, <2>6 DEF BusInv
<1>2. CASE SendTpdo1
  <2>1. UNCHANGED <<now, clock, shaft, boots, ready, held>> /\ sent' = now
    BY <1>2 DEF SendTpdo1, hostVars
  <2>2. PICK g : g = Frame
    OBVIOUS
  <2>3. /\ wire' \in Seq(TelemetryFrames) /\ Len(wire) \in Nat /\ Len(wire') = Len(wire) + 1
        /\ \A i \in 1 .. Len(wire) : wire'[i] = wire[i]
        /\ wire'[Len(wire) + 1] = g /\ g \in TelemetryFrames
    BY <1>2, <2>2, WireLonger
  <2>4. IsFrame(g)'
    <3>1. /\ g.at = shaft /\ g.stamp = clock /\ g.sentAt = now /\ g.boot = boots
      BY <2>2 DEF Frame
    <3> QED
      BY <1>0, <1>m, <2>1, <2>3, <3>1 DEF IsFrame, Sent, MotorOK
  <2>5. \A i \in 1 .. Len(wire) :
          /\ IsFrame(wire[i])'
          /\ Follows(g, wire'[i])
    <3> TAKE i \in 1 .. Len(wire)
    <3>1. PICK e : e = wire[i]
      OBVIOUS
    <3>2. IsFrame(e) /\ Sent(e)
      BY <1>m, <3>1 DEF WireOK, IsFrame
    <3>3. IsFrame(e)' /\ Follows(g, e)
      BY <1>2, <1>s, <2>1, <2>2, <3>2, NewFollows
    <3>4. wire'[i] = e
      BY <2>3, <3>1
    <3> QED
      BY <3>3, <3>4 DEF IsFrame, Sent
  <2>6. \A i \in 1 .. Len(wire') : IsFrame(wire[i])'
    <3> TAKE i \in 1 .. Len(wire')
    <3>1. i \in 1 .. Len(wire) \/ i = Len(wire) + 1
      BY <2>3
    <3>2. CASE i \in 1 .. Len(wire)
      BY <2>5, <3>2
    <3>3. CASE i = Len(wire) + 1
      BY <2>3, <2>4, <3>3 DEF IsFrame, Sent
    <3> QED
      BY <3>1, <3>2, <3>3
  <2>7. \A i, j \in 1 .. Len(wire') : i < j => Follows(wire'[j], wire'[i])
    <3> TAKE i, j \in 1 .. Len(wire')
    <3> HAVE i < j
    <3>1. Len(wire) \in Nat /\ i \in 1 .. Len(wire) + 1 /\ j \in 1 .. Len(wire) + 1
      BY <2>3, Zenon
    <3>2. i \in 1 .. Len(wire) /\ (j \in 1 .. Len(wire) \/ j = Len(wire) + 1)
      BY <3>1
    <3>3. CASE j \in 1 .. Len(wire)
      <4>1. Follows(wire[j], wire[i])
        BY <1>m, <3>2, <3>3 DEF WireOK
      <4> QED
        BY <2>3, <3>2, <3>3, <4>1
    <3>4. CASE j = Len(wire) + 1
      BY <2>3, <2>5, <3>2, <3>4
    <3> QED
      BY <3>2, <3>3, <3>4
  <2>8. WireOK'
    BY <2>3, <2>6, <2>7 DEF WireOK, Follows
  <2>9. HeldOK'
    <3> SUFFICES ASSUME held # None PROVE HeldOK'
      BY <2>1 DEF HeldOK
    <3>1. PICK h : h = held.frame
      OBVIOUS
    <3>2. IsFrame(h) /\ Sent(h) /\ WireFollows(h)
      BY <1>m, <3>1 DEF HeldOK, IsFrame
    <3>3. IsFrame(h)' /\ Follows(g, h) /\ held'.frame = h
      BY <1>2, <1>s, <2>1, <2>2, <3>1, <3>2, NewFollows
    <3>4. WireFollows(h)'
      <4>1. \A i \in 1 .. Len(wire) : Follows(wire'[i], h)
        BY <2>3, <3>2 DEF WireFollows
      <4>2. \A i \in 1 .. Len(wire') : i \in 1 .. Len(wire) \/ i = Len(wire) + 1
        BY <2>3
      <4> QED
        BY <2>3, <3>3, <4>1, <4>2 DEF WireFollows, Follows
    <3> QED
      BY <1>m, <2>1, <3>3, <3>4 DEF HeldOK, IsFrame, Sent, WireFollows, Follows
  <2> QED
    BY <1>p, <2>8, <2>9 DEF BusInv
<1>3. CASE AcceptFrame
  <2>1. /\ wire # <<>> /\ wire' = Tail(wire) /\ held' = [frame |-> Head(wire), at |-> now]
        /\ UNCHANGED motorVars /\ UNCHANGED now
    BY <1>3 DEF AcceptFrame, motorVars
  <2>2. PICK f : f = Head(wire)
    OBVIOUS
  <2>3. WireOK' /\ IsFrame(f)' /\ IsFrame(f) /\ WireFollows(f)'
    BY <2>1, <2>2, TakeHead
  <2>4. held'.frame = f /\ held'.at = now /\ now \in Nat /\ f.sentAt <= now
    BY <1>m, <2>1, <2>2, <2>3 DEF MotorOK, IsFrame, Sent
  <2>5. HeldOK'
    BY <1>p, <2>1, <2>3, <2>4 DEF HeldOK, IsFrame, Sent, WireFollows, Follows, MotorOK
  <2> QED
    BY <1>p, <2>3, <2>5 DEF BusInv
<1>4. CASE HandleTpdo1
  <2>1. wire # <<>> /\ wire' = Tail(wire) /\ UNCHANGED motorVars /\ UNCHANGED <<now, held>>
    BY <1>4 DEF HandleTpdo1, motorVars
  <2>2. WireOK' /\ \A f : WireFollows(f) => WireFollows(f)'
    BY <2>1, TakeHead
  <2>3. HeldOK'
    <3> SUFFICES ASSUME held # None PROVE HeldOK'
      BY <2>1 DEF HeldOK
    <3>1. PICK f : f = held.frame
      OBVIOUS
    <3>2. IsFrame(f)' /\ WireFollows(f)' /\ held'.frame = f
      BY <1>m, <1>s, <2>1, <2>2, <3>1 DEF HeldOK
    <3> QED
      BY <1>m, <2>1, <3>2 DEF HeldOK, IsFrame, Sent, WireFollows, Follows
  <2> QED
    BY <1>p, <2>2, <2>3 DEF BusInv
<1>5. CASE UNCHANGED <<now, wire>> /\ (UNCHANGED held \/ held' = None)
  <2>1. \A f : IsFrame(f) => IsFrame(f)'
    BY <1>5, <1>s
  <2>2. WireOK'
    <3>1. \A i \in 1 .. Len(wire) : IsFrame(wire[i])'
      <4> TAKE i \in 1 .. Len(wire)
      <4>1. PICK f : f = wire[i]
        OBVIOUS
      <4>2. IsFrame(f)' /\ wire'[i] = f
        BY <1>m, <1>5, <2>1, <4>1 DEF WireOK
      <4> QED
        BY <4>2 DEF IsFrame, Sent
    <3> QED
      BY <1>m, <1>5, <3>1 DEF WireOK, Follows
  <2>3. HeldOK'
    <3> SUFFICES ASSUME held' # None PROVE HeldOK'
      BY DEF HeldOK
    <3>1. PICK f : f = held.frame
      OBVIOUS
    <3>2. held # None /\ UNCHANGED held /\ IsFrame(f)' /\ held'.frame = f
      BY <1>m, <1>5, <2>1, <3>1 DEF HeldOK
    <3> QED
      BY <1>m, <1>5, <3>2 DEF HeldOK, IsFrame, Sent, WireFollows, Follows
  <2> QED
    BY <1>p, <2>2, <2>3 DEF BusInv
<1> QED
  BY <1>1, <1>2, <1>3, <1>4, <1>5
     DEF TelemetryNext, telemetryVars, motorVars, hostVars, SwitchNmt, Reboot, EndSession,
         IdentifyMotor, BeginInitialize, ApplyTpdo1, Finished

(* What follows a frame that was sent keeps following it.                   *)
LEMMA AirStep ==
  ASSUME TelemetryAssumptions, BusInv, [TelemetryNext]_telemetryVars
  PROVE  \A f : Sent(f) =>
           /\ WireFollows(f) => WireFollows(f)'
           /\ AirFollows(f) => AirFollows(f)'
<1> SUFFICES ASSUME NEW f, Sent(f)
             PROVE  /\ WireFollows(f) => WireFollows(f)'
                    /\ AirFollows(f) => AirFollows(f)'
  OBVIOUS
<1>1. CASE SendTpdo1
  <2>1. PICK g : g = Frame
    OBVIOUS
  <2>2. UNCHANGED held
    BY <1>1 DEF SendTpdo1, hostVars
  <2>3. Follows(g, f)
    BY <1>1, <2>1, NewFollows
  <2>4. /\ Len(wire) \in Nat /\ Len(wire') = Len(wire) + 1
        /\ \A i \in 1 .. Len(wire) : wire'[i] = wire[i]
        /\ wire'[Len(wire) + 1] = g
    BY <1>1, <2>1, WireLonger
  <2>5. \A i \in 1 .. Len(wire') : i \in 1 .. Len(wire) \/ i = Len(wire) + 1
    BY <2>4
  <2>6. WireFollows(f) => WireFollows(f)'
    BY <2>3, <2>4, <2>5 DEF WireFollows, Follows
  <2> QED
    BY <2>2, <2>6 DEF AirFollows, Follows
<1>2. CASE AcceptFrame
  <2>1. /\ wire # <<>> /\ wire' = Tail(wire) /\ held' = [frame |-> Head(wire), at |-> now]
        /\ UNCHANGED motorVars
    BY <1>2 DEF AcceptFrame
  <2>2. PICK g : g = Head(wire)
    OBVIOUS
  <2>3. WireFollows(f) => WireFollows(f)' /\ Follows(g, f)
    BY <2>1, <2>2, TakeHead
  <2>4. held'.frame = g
    BY <2>1, <2>2
  <2> QED
    BY <2>3, <2>4 DEF AirFollows, Follows
<1>3. CASE HandleTpdo1
  <2>1. wire # <<>> /\ wire' = Tail(wire) /\ UNCHANGED motorVars /\ UNCHANGED held
    BY <1>3 DEF HandleTpdo1
  <2>2. WireFollows(f) => WireFollows(f)'
    BY <2>1, TakeHead
  <2> QED
    BY <2>1, <2>2 DEF AirFollows, Follows
<1>4. CASE UNCHANGED wire /\ (UNCHANGED held \/ held' = None)
  BY <1>4 DEF AirFollows, WireFollows, Follows
<1> QED
  BY <1>1, <1>2, <1>3, <1>4
     DEF TelemetryNext, telemetryVars, hostVars, Tick, SwitchNmt, Reboot, EndSession,
         IdentifyMotor, BeginInitialize, ApplyTpdo1, Finished
-----------------------------------------------------------------------------
(* Meow: the accumulated position.                                          *)

(* The offset o was seen in this session and initialization.                *)
Present(o) == o[1] = sessions /\ o[2] = inits

AccumulatedOK ==
  /\ meow.segment \in Nat /\ sessions \in Nat /\ inits \in Nat
  /\ meow.accumulated # None =>
       meow.accumulated \in Int /\ meow.baseline = FALSE /\ meow.lastRaw # None

(* What was seen before the last reset is over; what was seen since is of   *)
(* this segment, and the segment is still valid.                            *)
OffsetsOK ==
  \A o \in offsets :
    /\ o[1] \in Nat /\ o[1] <= sessions /\ o[2] \in Nat /\ o[2] <= inits
    /\ Present(o) => o[3] = meow.segment /\ meow.accumulated # None

(* The frame f was applied last.                                            *)
LastApplied(f) ==
  /\ Sent(f) /\ AirFollows(f)
  /\ meow.lastRaw = Signed(f.at, Circle)
  /\ meow.lastAt \in Nat /\ meow.lastAt <= f.sentAt + MaxDelay
  /\ meow.accumulated # None =>
       \A o \in offsets : Present(o) => o[4] = meow.accumulated - f.at

LastOK == meow.lastRaw # None => \E f : LastApplied(f)

MeowInv == AccumulatedOK /\ OffsetsOK /\ LastOK /\ AccumulationIsTrue

(* The steps that apply no frame.                                           *)
LEMMA MeowOtherStep ==
  ASSUME TelemetryAssumptions, BusInv, MeowInv, [TelemetryNext]_telemetryVars, ~ApplyTpdo1
  PROVE  MeowInv'
<1>m. AccumulatedOK /\ OffsetsOK /\ LastOK /\ AccumulationIsTrue
  BY DEF MeowInv
<1>1. CASE UNCHANGED <<meow, offsets, sessions, inits>>
  <2>1. AccumulatedOK' /\ OffsetsOK' /\ AccumulationIsTrue'
    BY <1>1, <1>m DEF AccumulatedOK, OffsetsOK, AccumulationIsTrue, Present
  <2>2. LastOK'
    <3> SUFFICES ASSUME meow.lastRaw # None PROVE LastOK'
      BY <1>1 DEF LastOK
    <3>1. PICK f : LastApplied(f)
      BY <1>m DEF LastOK
    <3>2. Sent(f)' /\ AirFollows(f)'
      BY <3>1, SentStays, AirStep DEF LastApplied
    <3>3. LastApplied(f)'
      BY <1>1, <3>1, <3>2 DEF LastApplied, Present
    <3> QED
      BY <3>3 DEF LastOK
  <2> QED
    BY <2>1, <2>2 DEF MeowInv
<1>2. CASE EndSession \/ BeginInitialize
  <2>1. /\ meow' = NoTelemetry /\ UNCHANGED offsets
        /\ \/ sessions' = sessions + 1 /\ inits' = inits
           \/ sessions' = sessions /\ inits' = inits + 1
    BY <1>2 DEF EndSession, BeginInitialize
  <2>2. meow'.lastRaw = None /\ meow'.accumulated = None /\ meow'.segment = 0
    BY <2>1 DEF NoTelemetry
  <2>3. AccumulatedOK' /\ LastOK' /\ AccumulationIsTrue'
    BY <1>m, <2>1, <2>2 DEF AccumulatedOK, LastOK, AccumulationIsTrue
  <2>4. OffsetsOK'
    BY <1>m, <2>1, <2>2 DEF AccumulatedOK, OffsetsOK, Present
  <2> QED
    BY <2>3, <2>4 DEF MeowInv
<1> QED
  BY <1>1, <1>2
     DEF TelemetryNext, telemetryVars, hostVars, Tick, SendTpdo1, SwitchNmt, Reboot,
         IdentifyMotor, AcceptFrame, HandleTpdo1, Finished

(* What a frame does to the segment: it ends it, it starts the accumulation *)
(* anew, or it continues from the last frame by the distance between them.  *)
Ends(next) ==
  next.segment = meow.segment + 1 /\ next.accumulated = None /\ next.valid = FALSE

Starts(g, next) ==
  /\ next.segment = meow.segment /\ meow.accumulated = None
  /\ next.accumulated = Signed(g.at, Circle) /\ next.valid = TRUE /\ next.baseline = FALSE

Continues(g, next) ==
  /\ next.segment = meow.segment /\ meow.accumulated # None
  /\ next.valid = TRUE /\ next.baseline = FALSE
  /\ \A f : LastApplied(f) => next.accumulated = meow.accumulated + (g.at - f.at)

(* Accumulation does one of the three, and where it continues the wrapped   *)
(* difference is the real distance: the host's clock bounds the time        *)
(* between the two frames, so that no restart fits between them and the     *)
(* motor cannot have gone half round.                                       *)
LEMMA Unwrapped ==
  ASSUME TelemetryAssumptions, BusInv, MeowInv, held # None,
         NEW g, g = held.frame, NEW next, next = Accumulation(g, held.at)
  PROVE  Ends(next) \/ Starts(g, next) \/ Continues(g, next)
<1>m. AccumulatedOK /\ OffsetsOK /\ LastOK
  BY DEF MeowInv
<1>h. IsFrame(g) /\ held.at \in Nat /\ g.sentAt <= held.at
  BY DEF BusInv, HeldOK
<1>1. CASE Invalidates(g.stamp, held.at)
  BY <1>1 DEF Accumulation, NextSegment, Ends
<1>2. CASE ~Invalidates(g.stamp, held.at)
           /\ (meow.baseline \/ meow.lastRaw = None \/ meow.accumulated = None)
  <2>1. next = FromHere(g)
    BY <1>2 DEF Accumulation
  <2>2. meow.accumulated = None
    BY <1>2, <1>m DEF AccumulatedOK
  <2> QED
    BY <2>1, <2>2 DEF FromHere, Starts
<1>3. CASE ~Invalidates(g.stamp, held.at)
           /\ ~(meow.baseline \/ meow.lastRaw = None \/ meow.accumulated = None)
  <2>1. next = Accumulate(g) /\ meow.accumulated # None
    BY <1>3 DEF Accumulation
  <2>2. meow.lastAt # None => ~(held.at - meow.lastAt > GapLimit)
    BY <1>3 DEF Invalidates
  <2>3. ASSUME NEW f, LastApplied(f)
        PROVE  next.accumulated = meow.accumulated + (g.at - f.at)
    <3>1. /\ meow.lastAt \in Nat /\ meow.lastAt <= f.sentAt + MaxDelay
          /\ meow.lastRaw = Signed(f.at, Circle) /\ Sent(f) /\ Follows(g, f)
      BY <2>3 DEF LastApplied, AirFollows
    <3>2. held.at - meow.lastAt <= GapLimit
      BY <1>h, <2>2, <3>1 DEF TelemetryAssumptions
    <3>3. /\ g.at \in Int /\ g.sentAt \in Nat /\ f.at \in Int /\ f.sentAt \in Nat
          /\ GapLimit \in Nat /\ MaxDelay \in Nat
      BY <1>h, <3>1 DEF IsFrame, Sent, TelemetryFrames, TelemetryAssumptions
    <3>4. g.sentAt - f.sentAt <= GapLimit + MaxDelay
      BY <1>h, <3>1, <3>2, <3>3
    <3>5. g.boot = f.boot
      <4> SUFFICES ASSUME g.boot # f.boot PROVE FALSE
        OBVIOUS
      <4>1. f.sentAt + BootTime <= g.sentAt /\ BootTime \in Nat /\ BootTime > GapLimit + MaxDelay
        BY <3>1 DEF Follows, TelemetryAssumptions
      <4> QED
        BY <3>3, <3>4, <4>1
    <3>6. 2 * (g.at - f.at) < Circle /\ 2 * (f.at - g.at) < Circle
      BY <3>1, <3>3, <3>4, <3>5 DEF Follows, TelemetryAssumptions
    <3>7. WrappingDelta(Signed(g.at, Circle), meow.lastRaw) = g.at - f.at
      BY <3>1, <3>3, <3>6, DeltaIsDistance
    <3> QED
      BY <2>1, <3>7 DEF Accumulate
  <2> QED
    BY <2>1, <2>3 DEF Accumulate, Continues
<1> QED
  BY <1>1, <1>2, <1>3

(* Applying a frame keeps the accumulation true.                            *)
LEMMA MeowApplyStep ==
  ASSUME TelemetryAssumptions, BusInv, MeowInv, ApplyTpdo1
  PROVE  MeowInv'
<1>a. None \notin Int
  BY DEF TelemetryAssumptions
<1>m. AccumulatedOK /\ OffsetsOK /\ LastOK /\ AccumulationIsTrue
  BY DEF MeowInv
<1>1. PICK g : g = held.frame
  OBVIOUS
<1>2. PICK next : next = Accumulation(g, held.at)
  OBVIOUS
<1>3. /\ held # None /\ held' = None /\ UNCHANGED motorVars /\ UNCHANGED <<wire, sessions, inits>>
      /\ meow'.lastAt = held.at /\ meow'.lastRaw = Signed(g.at, Circle)
      /\ meow'.baseline = next.baseline
      /\ meow'.segment = next.segment /\ meow'.accumulated = next.accumulated
      /\ offsets' = {o \in offsets : o[3] = next.segment} \cup
           IF next.valid
           THEN {<<sessions, inits, next.segment, next.accumulated - g.at>>} ELSE {}
  BY <1>1, <1>2 DEF ApplyTpdo1
<1>p. \A o : Present(o)' <=> Present(o)
  BY <1>3 DEF Present
<1>4. /\ IsFrame(g) /\ held.at \in Nat /\ held.at <= now /\ WireFollows(g)
  BY <1>1, <1>3 DEF BusInv, HeldOK
<1>5. /\ g.at \in Int /\ g.sentAt \in Nat /\ now \in Nat /\ now - g.sentAt <= MaxDelay
      /\ Signed(g.at, Circle) \in Int /\ MaxDelay \in Nat
  BY <1>4, SignedIs DEF IsFrame, Sent, TelemetryFrames, BusInv, MotorOK, TelemetryAssumptions
<1>6. /\ Sent(g)' /\ AirFollows(g)'
      /\ meow'.lastRaw = Signed(g.at, Circle) /\ meow'.lastRaw # None
      /\ meow'.lastAt \in Nat /\ meow'.lastAt <= g.sentAt + MaxDelay
  <2>1. Sent(g)'
    BY <1>3, <1>4 DEF IsFrame, Sent, motorVars
  <2>2. AirFollows(g)'
    BY <1>3, <1>4 DEF AirFollows, WireFollows, Follows
  <2> QED
    BY <1>a, <1>3, <1>4, <1>5, <2>1, <2>2
<1>7. ASSUME /\ AccumulatedOK' /\ OffsetsOK' /\ AccumulationIsTrue'
             /\ meow'.accumulated # None =>
                  \A o \in offsets' : Present(o) => o[4] = meow'.accumulated - g.at
      PROVE  MeowInv'
  <2>1. LastApplied(g)'
    BY <1>p, <1>6, <1>7 DEF LastApplied
  <2>2. LastOK'
    BY <2>1 DEF LastOK
  <2> QED
    BY <1>7, <2>2 DEF MeowInv
<1>8. CASE Ends(next)
  <2>1. offsets' = {o \in offsets : o[3] = meow.segment + 1}
    BY <1>3, <1>8 DEF Ends
  <2>2. AccumulatedOK'
    BY <1>m, <1>3, <1>8 DEF AccumulatedOK, Ends
  <2>3. \A o \in offsets' : ~Present(o)
    BY <1>m, <2>1 DEF AccumulatedOK, OffsetsOK
  <2>4. OffsetsOK'
    <3> SUFFICES ASSUME NEW o \in offsets'
                 PROVE  o[1] \in Nat /\ o[1] <= sessions /\ o[2] \in Nat /\ o[2] <= inits
      BY <1>3, <1>p, <2>3 DEF OffsetsOK
    <3>1. o \in offsets
      BY <2>1
    <3> QED
      BY <1>m, <3>1 DEF OffsetsOK
  <2>5. AccumulationIsTrue'
    BY <1>m, <2>1 DEF AccumulationIsTrue
  <2> QED
    BY <1>7, <2>2, <2>3, <2>4, <2>5
<1> DEFINE new == <<sessions, inits, meow.segment, next.accumulated - g.at>>
<1>9. ASSUME next.segment = meow.segment, next.accumulated \in Int,
             next.valid = TRUE, next.baseline = FALSE,
             \A o \in offsets : Present(o) => o[4] = next.accumulated - g.at
      PROVE  MeowInv'
  <2>1. offsets' \subseteq offsets \cup {new}
    BY <1>3, <1>9
  <2>2. /\ new[1] = sessions /\ new[2] = inits /\ new[3] = meow.segment
        /\ new[4] = next.accumulated - g.at
    OBVIOUS
  <2> HIDE DEF new
  <2>3. AccumulatedOK'
    BY <1>a, <1>m, <1>3, <1>6, <1>9 DEF AccumulatedOK
  <2>4. \A o \in offsets' : Present(o) => o[4] = next.accumulated - g.at
    BY <1>9, <2>1, <2>2
  <2>5. OffsetsOK'
    <3> SUFFICES ASSUME NEW o \in offsets'
                 PROVE  /\ o[1] \in Nat /\ o[1] <= sessions /\ o[2] \in Nat /\ o[2] <= inits
                        /\ Present(o) => o[3] = meow.segment
      BY <1>a, <1>3, <1>9, <1>p DEF OffsetsOK
    <3>1. CASE o \in offsets
      BY <1>m, <3>1 DEF OffsetsOK
    <3>2. CASE o = new
      BY <1>m, <2>2, <3>2 DEF AccumulatedOK
    <3> QED
      BY <2>1, <3>1, <3>2
  <2>6. AccumulationIsTrue'
    <3> SUFFICES ASSUME NEW a \in offsets', NEW b \in offsets',
                        a[1] = b[1], a[2] = b[2], a[3] = b[3]
                 PROVE  a[4] = b[4]
      BY DEF AccumulationIsTrue
    <3>1. CASE Present(a)
      <4>1. Present(b)
        BY <3>1 DEF Present
      <4>2. a[4] = next.accumulated - g.at /\ b[4] = next.accumulated - g.at
        BY <2>4, <3>1, <4>1, Zenon
      <4> QED
        BY <4>2, Zenon
    <3>2. CASE ~Present(a)
      <4>1. a \in offsets /\ b \in offsets
        BY <2>1, <2>2, <3>2 DEF Present
      <4> QED
        BY <1>m, <4>1 DEF AccumulationIsTrue
    <3> QED
      BY <3>1, <3>2
  <2> QED
    BY <1>3, <1>7, <1>9, <2>3, <2>4, <2>5, <2>6
<1>10. CASE Starts(g, next)
  <2>1. \A o \in offsets : ~Present(o)
    BY <1>m, <1>10 DEF OffsetsOK, Starts
  <2> QED
    BY <1>5, <1>9, <1>10, <2>1 DEF Starts
<1>11. CASE Continues(g, next)
  <2>1. meow.accumulated \in Int /\ meow.lastRaw # None
    BY <1>m, <1>11 DEF AccumulatedOK, Continues
  <2>2. PICK f : LastApplied(f)
    BY <1>m, <2>1 DEF LastOK
  <2>3. next.accumulated = meow.accumulated + (g.at - f.at) /\ f.at \in Int
    BY <1>11, <2>2 DEF LastApplied, Sent, TelemetryFrames, Continues
  <2>4. \A o \in offsets : Present(o) => o[4] = meow.accumulated - f.at
    BY <1>11, <2>2 DEF LastApplied, Continues
  <2>5. meow.accumulated - f.at = next.accumulated - g.at /\ next.accumulated \in Int
    BY <1>5, <2>1, <2>3
  <2> QED
    BY <1>9, <1>11, <2>4, <2>5 DEF Continues
<1>12. Ends(next) \/ Starts(g, next) \/ Continues(g, next)
  <2>1. held # None
    BY <1>3
  <2> QED
    BY <1>1, <1>2, <2>1, Unwrapped
<1> QED
  BY <1>8, <1>10, <1>11, <1>12
-----------------------------------------------------------------------------
(* Cia402: the samples of the estimator.                                    *)

Points == [time : Int, position : Int, sentAt : Nat, at : Int, boot : Nat]

(* The last sample is of the frame f, which is the estimator's baseline.    *)
IsLast(f) ==
  /\ Sent(f) /\ WireFollows(f)
  /\ est.lastRaw = Signed(f.at, Turn) /\ est.lastStamp = f.stamp % ClockMod
  /\ Len(est.samples) > 0
  /\ est.samples[Len(est.samples)] = Point(est.time, est.position, f)

EstOK ==
  /\ est.samples \in Seq(Points) /\ est.time \in Int /\ est.position \in Int
  /\ est.lastRaw # None => \E f : IsLast(f)

(* Of two samples the second is later, and its position is right up to      *)
(* whole turns; the two are exactly right if every step between them was    *)
(* tracked.                                                                 *)
Later(b, a) == b.time > a.time /\ WholeTurns((b.position - a.position) - (b.at - a.at))

Exactly(b, a) == b.time - a.time = b.sentAt - a.sentAt /\ b.position - a.position = b.at - a.at

AllTracked(samples, i, j) == \A k \in i .. (j - 1) : Tracked(samples[k], samples[k + 1])

OnTrajectory(samples) ==
  \A i, j \in 1 .. Len(samples) : i < j =>
    /\ Later(samples[j], samples[i])
    /\ AllTracked(samples, i, j) => Exactly(samples[j], samples[i])

LEMMA LaterTransitive ==
  ASSUME TelemetryAssumptions,
         NEW a \in Points, NEW b \in Points, NEW c \in Points, Later(b, a), Later(c, b)
  PROVE  Later(c, a)
<1> DEFINE x == (b.position - a.position) - (b.at - a.at)
           y == (c.position - b.position) - (c.at - b.at)
<1>1. /\ a.position \in Int /\ b.position \in Int /\ c.position \in Int
      /\ a.at \in Int /\ b.at \in Int /\ c.at \in Int
      /\ a.time \in Int /\ b.time \in Int /\ c.time \in Int
  BY DEF Points
<1>2. x \in Int /\ y \in Int /\ WholeTurns(x) /\ WholeTurns(y)
  BY <1>1 DEF Later
<1>3. x + y = (c.position - a.position) - (c.at - a.at)
  BY <1>1
<1> HIDE DEF x, y
<1>4. WholeTurns(x + y)
  BY <1>2, TurnsAdd
<1>5. c.time > a.time
  BY <1>1 DEF Later
<1> QED
  BY <1>3, <1>4, <1>5 DEF Later

LEMMA ExactlyTransitive ==
  ASSUME NEW a \in Points, NEW b \in Points, NEW c \in Points, Exactly(b, a), Exactly(c, b)
  PROVE  Exactly(c, a)
BY DEF Exactly, Points

EstInv == EstOK /\ OnTrajectory(est.samples)

(* Dropping samples drops none of the last two: it keeps an end of the      *)
(* sequence.                                                                *)
LEMMA WindowIsEnd ==
  ASSUME TelemetryAssumptions, NEW samples \in Seq(Points), Len(samples) > 0,
         NEW time \in Int
  PROVE  \E k \in 1 .. Len(samples) :
           InWindow(samples, time) = SubSeq(samples, k, Len(samples))
<1> DEFINE n == Len(samples)
           Kept(i) == i = n - 1 \/ samples[i].time >= time - Window
           First(i) == /\ i = n - 1 \/ samples[i].time >= time - Window
                       /\ \A j \in 1 .. (i - 1) : samples[j].time < time - Window
           first == CHOOSE i \in 1 .. Len(samples) :
                      /\ i = Len(samples) - 1 \/ samples[i].time >= time - Window
                      /\ \A j \in 1 .. (i - 1) : samples[j].time < time - Window
<1>0. n \in Nat /\ n > 0
  BY LenProperties
<1>1. CASE n <= 2
  <2>1. InWindow(samples, time) = samples
    BY <1>1 DEF InWindow
  <2>2. SubSeq(samples, 1, n) = samples
    BY <1>0, SubSeqProperties, LenProperties
  <2> QED
    BY <1>0, <2>1, <2>2
<1>2. CASE n > 2
  <2> DEFINE K == {i \in 1 .. n : Kept(i)}
  <2>1. n - 1 \in K
    BY <1>0, <1>2
  <2>2. \E i \in K : \A j \in K : ~(j < i)
    <3>1. K \subseteq Nat /\ K # {}
      <4>1. \A i \in 1 .. n : i \in Nat
        BY <1>0
      <4> HIDE DEF Kept
      <4> QED
        BY <2>1, <4>1
    <3> HIDE DEF K
    <3>2. PICK i \in K : \A j \in Nat : <<j, i>> \in OpToRel(<, Nat) => j \notin K
      BY <3>1, NatLessThanWellFounded, WFMin
    <3>3. \A j \in K : ~(j < i)
      BY <3>1, <3>2 DEF OpToRel
    <3> QED
      BY <3>3
  <2>3. PICK i \in K : \A j \in K : ~(j < i)
    BY <2>2
  <2>4. \A j \in 1 .. (i - 1) : j \in 1 .. n /\ ~Kept(j)
    BY <1>0, <2>3
  <2>5. \A j \in 1 .. (i - 1) : samples[j].time < time - Window
    <3> TAKE j \in 1 .. (i - 1)
    <3>1. samples[j].time \in Int /\ Window \in Int
      <4>1. samples[j] \in Points
        BY <1>0, <2>4
      <4>2. samples[j].time \in Int
        BY <4>1 DEF Points
      <4> QED
        BY <4>2 DEF TelemetryAssumptions
    <3> QED
      BY <2>4, <3>1
  <2>6. i \in 1 .. n /\ First(i)
    BY <2>3, <2>5
  <2>7. first \in 1 .. n
    BY <2>6
  <2>8. ~(Len(samples) <= 2)
    BY <1>0, <1>2
  <2>9. InWindow(samples, time) = SubSeq(samples, first, Len(samples))
    BY <2>8, Zenon DEF InWindow
  <2> QED
    BY <2>7, <2>9
<1> QED
  BY <1>0, <1>1, <1>2

(* An end of a sequence on the trajectory is on it, and has the same last   *)
(* sample.                                                                  *)
LEMMA EndOnTrajectory ==
  ASSUME NEW s \in Seq(Points), NEW k \in 1 .. Len(s), OnTrajectory(s),
         NEW t, t = SubSeq(s, k, Len(s))
  PROVE  t \in Seq(Points) /\ Len(t) > 0 /\ t[Len(t)] = s[Len(s)] /\ OnTrajectory(t)
<1>1. /\ Len(s) \in Nat /\ t \in Seq(Points) /\ Len(t) = Len(s) - k + 1
      /\ \A i \in 1 .. Len(t) : t[i] = s[k + i - 1]
  BY LenProperties, SubSeqProperties
<1>2. \A i \in 1 .. Len(t) : k + i - 1 \in 1 .. Len(s)
  BY <1>1
<1>3. OnTrajectory(t)
  <2> SUFFICES ASSUME NEW i \in 1 .. Len(t), NEW j \in 1 .. Len(t), i < j
               PROVE  /\ Later(t[j], t[i])
                      /\ AllTracked(t, i, j) => Exactly(t[j], t[i])
    BY DEF OnTrajectory
  <2> DEFINE I == k + i - 1
             J == k + j - 1
  <2>1. I \in 1 .. Len(s) /\ J \in 1 .. Len(s) /\ I < J /\ t[i] = s[I] /\ t[j] = s[J]
    BY <1>1, <1>2
  <2>2. ASSUME AllTracked(t, i, j) PROVE AllTracked(s, I, J)
    <3> SUFFICES ASSUME NEW m \in I .. (J - 1) PROVE Tracked(s[m], s[m + 1])
      BY DEF AllTracked
    <3>1. PICK n \in Int : n = m - k + 1
      BY <1>1, <2>1
    <3>2. /\ n \in i .. (j - 1) /\ n \in 1 .. Len(t) /\ n + 1 \in 1 .. Len(t)
          /\ k + n - 1 = m /\ k + (n + 1) - 1 = m + 1
      <4>1. /\ i \in Int /\ j \in Int /\ k \in Int /\ m \in Int /\ Len(t) \in Int
            /\ 1 <= i /\ j <= Len(t)
        BY <1>1
      <4>2. k + i - 1 <= m /\ m <= k + j - 1 - 1
        BY <4>1
      <4> QED
        BY <3>1, <4>1, <4>2
    <3>3. Tracked(t[n], t[n + 1])
      BY <2>2, <3>2 DEF AllTracked
    <3>4. t[n] = s[m] /\ t[n + 1] = s[m + 1]
      BY <1>1, <3>2
    <3> QED
      BY <3>3, <3>4
  <2> HIDE DEF I, J
  <2>3. Later(s[J], s[I]) /\ (AllTracked(s, I, J) => Exactly(s[J], s[I]))
    BY <2>1 DEF OnTrajectory
  <2> QED
    BY <2>1, <2>2, <2>3
<1>4. Len(t) > 0 /\ Len(t) \in 1 .. Len(t) /\ k + Len(t) - 1 = Len(s)
  BY <1>1
<1> QED
  BY <1>1, <1>3, <1>4

(* A sample later than the last one is later than all of them.              *)
LEMMA AppendOnTrajectory ==
  ASSUME TelemetryAssumptions,
         NEW s \in Seq(Points), Len(s) > 0, OnTrajectory(s), NEW e \in Points,
         Later(e, s[Len(s)]), Tracked(s[Len(s)], e) => Exactly(e, s[Len(s)]),
         NEW t, t = Append(s, e)
  PROVE  t \in Seq(Points) /\ Len(t) > 0 /\ t[Len(t)] = e /\ OnTrajectory(t)
<1> DEFINE n == Len(s)
<1>1. /\ n \in Nat /\ n > 0 /\ t \in Seq(Points) /\ Len(t) = n + 1 /\ t[n + 1] = e
      /\ \A i \in 1 .. n : t[i] = s[i] /\ s[i] \in Points
  BY LenProperties, AppendProperties
<1> HIDE DEF n
<1>2. n \in 1 .. n /\ t[n] = s[n] /\ s[n] \in Points /\ Later(e, s[n])
      /\ (Tracked(s[n], e) => Exactly(e, s[n]))
  BY <1>1 DEF n
<1>3. \A i, j \in 1 .. n : i < j =>
        Later(s[j], s[i]) /\ (AllTracked(s, i, j) => Exactly(s[j], s[i]))
  BY DEF OnTrajectory, n
<1>4. ASSUME NEW i \in 1 .. n
      PROVE  Later(e, s[i]) /\ (AllTracked(t, i, n + 1) => Exactly(e, s[i]))
  <2>1. CASE i = n
    <3>1. ASSUME AllTracked(t, i, n + 1) PROVE Exactly(e, s[i])
      <4>1. n \in n .. ((n + 1) - 1)
        BY <1>1
      <4>2. Tracked(t[n], t[n + 1])
        BY <2>1, <3>1, <4>1 DEF AllTracked
      <4> QED
        BY <1>1, <1>2, <2>1, <4>2
    <3> QED
      BY <1>2, <2>1, <3>1
  <2>2. CASE i < n
    <3>1. Later(s[n], s[i]) /\ s[i] \in Points
      BY <1>1, <1>2, <1>3, <2>2
    <3>2. Later(e, s[i])
      BY <1>2, <3>1, LaterTransitive
    <3>3. ASSUME AllTracked(t, i, n + 1) PROVE Exactly(e, s[i])
      <4>1. \A m \in i .. (n - 1) : m \in i .. ((n + 1) - 1) /\ m \in 1 .. n /\ m + 1 \in 1 .. n
        BY <1>1
      <4>2. AllTracked(s, i, n)
        BY <1>1, <3>3, <4>1 DEF AllTracked
      <4>3. Exactly(s[n], s[i])
        BY <1>2, <1>3, <2>2, <4>2
      <4>4. n \in i .. ((n + 1) - 1)
        BY <1>1, <2>2
      <4>5. Tracked(t[n], t[n + 1])
        BY <3>3, <4>4 DEF AllTracked
      <4>6. Exactly(e, s[n])
        BY <1>1, <1>2, <4>5
      <4> QED
        BY <1>2, <3>1, <4>3, <4>6, ExactlyTransitive
    <3> QED
      BY <3>2, <3>3
  <2> QED
    BY <1>1, <2>1, <2>2
<1>5. OnTrajectory(t)
  <2> SUFFICES ASSUME NEW i \in 1 .. Len(t), NEW j \in 1 .. Len(t), i < j
               PROVE  /\ Later(t[j], t[i])
                      /\ AllTracked(t, i, j) => Exactly(t[j], t[i])
    BY DEF OnTrajectory
  <2>1. i \in 1 .. n /\ (j \in 1 .. n \/ j = n + 1)
    BY <1>1
  <2>2. CASE j \in 1 .. n
    <3>1. AllTracked(t, i, j) => AllTracked(s, i, j)
      <4>1. \A m \in i .. (j - 1) : m \in 1 .. n /\ m + 1 \in 1 .. n
        BY <1>1, <2>1, <2>2
      <4> QED
        BY <1>1, <4>1 DEF AllTracked
    <3> QED
      BY <1>1, <1>3, <2>1, <2>2, <3>1
  <2>3. CASE j = n + 1
    BY <1>1, <1>4, <2>1, <2>3
  <2> QED
    BY <2>1, <2>2, <2>3
<1> QED
  BY <1>1, <1>5

(* The steps that take no frame into the window.                            *)
LEMMA EstOtherStep ==
  ASSUME TelemetryAssumptions, BusInv, EstInv, [TelemetryNext]_telemetryVars, ~HandleTpdo1
  PROVE  EstInv'
<1>m. EstOK /\ OnTrajectory(est.samples)
  BY DEF EstInv
<1>1. CASE UNCHANGED est
  <2>1. OnTrajectory(est.samples)'
    BY <1>1, <1>m
  <2>2. EstOK'
    <3> SUFFICES ASSUME est.lastRaw # None PROVE EstOK'
      BY <1>1, <1>m DEF EstOK
    <3>1. PICK f : IsLast(f)
      BY <1>m DEF EstOK
    <3>2. Sent(f)' /\ WireFollows(f)'
      BY <3>1, SentStays, AirStep DEF IsLast
    <3>3. IsLast(f)'
      BY <1>1, <3>1, <3>2 DEF IsLast
    <3> QED
      BY <1>1, <1>m, <3>3 DEF EstOK
  <2> QED
    BY <2>1, <2>2 DEF EstInv
<1>2. CASE EndSession \/ BeginInitialize
  <2>1. /\ est'.lastRaw = None /\ est'.samples = <<>> /\ est'.time = 0 /\ est'.position = 0
    BY <1>2 DEF EndSession, BeginInitialize, NoEstimate
  <2>2. est'.samples \in Seq(Points) /\ Len(est'.samples) = 0
    BY <2>1
  <2> QED
    BY <2>1, <2>2 DEF EstInv, EstOK, OnTrajectory
<1> QED
  BY <1>1, <1>2
     DEF TelemetryNext, telemetryVars, hostVars, Tick, SendTpdo1, SwitchNmt, Reboot,
         IdentifyMotor, AcceptFrame, ApplyTpdo1, Finished

(* A frame that is no gap is later than the last sample, at its position up *)
(* to whole turns, and exactly where and when the motor was if it was       *)
(* tracked.                                                                 *)
LEMMA ExtendedIsLater ==
  ASSUME TelemetryAssumptions, BusInv, EstOK, NEW l, IsLast(l),
         NEW f, Sent(f), Follows(f, l),
         ClockDelta(f.stamp, est.lastStamp) \in 1 .. Discontinuity,
         NEW time, time = est.time + ClockDelta(f.stamp, est.lastStamp),
         NEW position, position = est.position + TurnDelta(Signed(f.at, Turn), est.lastRaw),
         NEW p, p = Point(est.time, est.position, l), NEW e, e = Point(time, position, f)
  PROVE  /\ time \in Int /\ position \in Int /\ e \in Points
         /\ Later(e, p) /\ (Tracked(p, e) => Exactly(e, p))
<1> DEFINE dt == ClockDelta(f.stamp, est.lastStamp)
           dp == TurnDelta(Signed(f.at, Turn), est.lastRaw)
<1>1. /\ f.at \in Int /\ f.stamp \in Nat /\ f.sentAt \in Nat /\ f.boot \in Nat
      /\ l.at \in Int /\ l.stamp \in Nat /\ l.sentAt \in Nat /\ l.boot \in Nat
      /\ est.time \in Int /\ est.position \in Int
  BY DEF IsLast, Sent, TelemetryFrames, EstOK
<1>2. dt \in Nat /\ dt > 0
  BY DEF TelemetryAssumptions
<1>3. est.lastRaw = Signed(l.at, Turn) /\ est.lastStamp = l.stamp % ClockMod
  BY DEF IsLast
<1>4. /\ dp \in Int /\ WholeTurns(dp - (f.at - l.at))
      /\ 2 * (f.at - l.at) < Turn /\ 2 * (l.at - f.at) < Turn => dp = f.at - l.at
  BY <1>1, <1>3, TurnDeltaIs
<1>5. ASSUME f.boot = l.boot, f.sentAt - l.sentAt < ClockMod
      PROVE  dt = f.sentAt - l.sentAt
  <2>1. f.stamp - l.stamp = f.sentAt - l.sentAt /\ l.sentAt < f.sentAt
    BY <1>5 DEF Follows
  <2>2. f.stamp - l.stamp \in Nat /\ f.stamp - l.stamp < ClockMod
    BY <1>1, <1>5, <2>1 DEF TelemetryAssumptions
  <2> QED
    BY <1>1, <1>3, <2>1, <2>2, ClockDeltaIs
<1> HIDE DEF dt, dp
<1>6. time = est.time + dt /\ position = est.position + dp
  BY DEF dt, dp
<1>7. /\ p.time = est.time /\ p.position = est.position
      /\ p.sentAt = l.sentAt /\ p.at = l.at /\ p.boot = l.boot
      /\ e.time = time /\ e.position = position
      /\ e.sentAt = f.sentAt /\ e.at = f.at /\ e.boot = f.boot
  BY DEF Point
<1>8. time \in Int /\ position \in Int /\ time > est.time
  BY <1>1, <1>2, <1>4, <1>6
<1>9. e \in Points
  BY <1>1, <1>8 DEF Point, Points
<1>10. Later(e, p)
  <2>1. (e.position - p.position) - (e.at - p.at) = dp - (f.at - l.at)
    BY <1>1, <1>4, <1>6, <1>7
  <2> QED
    BY <1>4, <1>7, <1>8, <2>1 DEF Later
<1>11. ASSUME Tracked(p, e) PROVE Exactly(e, p)
  <2>1. dt = f.sentAt - l.sentAt
    BY <1>5, <1>7, <1>11 DEF Tracked
  <2>2. dp = f.at - l.at
    BY <1>4, <1>7, <1>11 DEF Tracked
  <2> QED
    BY <1>1, <1>6, <1>7, <2>1, <2>2 DEF Exactly
<1> QED
  BY <1>8, <1>9, <1>10, <1>11

(* Handling a frame restarts the window or extends it along the trajectory. *)
LEMMA EstHandleStep ==
  ASSUME TelemetryAssumptions, BusInv, EstInv, HandleTpdo1
  PROVE  EstInv'
<1>m. EstOK /\ OnTrajectory(est.samples)
  BY DEF EstInv
<1>1. PICK f : f = Head(wire)
  OBVIOUS
<1>2. /\ wire # <<>> /\ wire' = Tail(wire) /\ UNCHANGED motorVars
      /\ est' = Update(f)
  BY <1>1 DEF HandleTpdo1
<1>3. /\ Sent(f) /\ Sent(f)' /\ WireFollows(f)'
      /\ \A l : WireFollows(l) => Follows(f, l)
  BY <1>1, <1>2, TakeHead DEF IsFrame
<1>4. f.at \in Int /\ f.stamp \in Nat /\ f.sentAt \in Nat /\ f.boot \in Nat
  BY <1>3 DEF Sent, TelemetryFrames
<1>5. ASSUME NEW time \in Int, NEW position \in Int, NEW samples \in Seq(Points),
             est' = Baseline(time, position, samples, f), Len(samples) > 0,
             samples[Len(samples)] = Point(time, position, f), OnTrajectory(samples)
      PROVE  EstInv'
  <2>1. /\ est'.lastRaw = Signed(f.at, Turn) /\ est'.lastStamp = f.stamp % ClockMod
        /\ est'.time = time /\ est'.position = position /\ est'.samples = samples
    BY <1>5 DEF Baseline
  <2>2. IsLast(f)'
    BY <1>3, <1>5, <2>1 DEF IsLast
  <2>3. EstOK'
    BY <1>5, <2>1, <2>2 DEF EstOK
  <2> QED
    BY <1>5, <2>1, <2>3 DEF EstInv
<1>6. CASE Update(f) = ResetTo(f)
  <2>1. PICK e : e = Point(0, 0, f)
    OBVIOUS
  <2>2. est' = Baseline(0, 0, <<e>>, f)
    BY <1>2, <1>6, <2>1 DEF ResetTo
  <2>3. e \in Points
    BY <1>4, <2>1 DEF Point, Points
  <2>4. <<e>> \in Seq(Points) /\ Len(<<e>>) = 1 /\ <<e>>[1] = e
    BY <2>3
  <2>5. OnTrajectory(<<e>>)
    BY <2>4 DEF OnTrajectory
  <2>6. PICK samples : samples = <<e>>
    OBVIOUS
  <2>7. /\ samples \in Seq(Points) /\ Len(samples) > 0 /\ OnTrajectory(samples)
        /\ samples[Len(samples)] = Point(0, 0, f) /\ est' = Baseline(0, 0, samples, f)
    BY <2>1, <2>2, <2>4, <2>5, <2>6
  <2> QED
    BY <1>5, <2>7
<1>7. CASE /\ est.lastRaw # None /\ ClockDelta(f.stamp, est.lastStamp) \in 1 .. Discontinuity
           /\ Update(f) = Extend(f)
  <2>1. PICK l : IsLast(l)
    BY <1>7, <1>m DEF EstOK
  <2>2. Follows(f, l)
    BY <1>3, <2>1 DEF IsLast
  <2>3. PICK time : time = est.time + ClockDelta(f.stamp, est.lastStamp)
    OBVIOUS
  <2>4. PICK position : position = est.position + TurnDelta(Signed(f.at, Turn), est.lastRaw)
    OBVIOUS
  <2>5. PICK p : p = Point(est.time, est.position, l)
    OBVIOUS
  <2>6. PICK e : e = Point(time, position, f)
    OBVIOUS
  <2>7. /\ time \in Int /\ position \in Int /\ e \in Points
        /\ Later(e, p) /\ (Tracked(p, e) => Exactly(e, p))
    BY <1>m, <1>3, <1>7, <2>1, <2>2, <2>3, <2>4, <2>5, <2>6, ExtendedIsLater
  <2>8. PICK samples : samples = Append(est.samples, e)
    OBVIOUS
  <2>9. est' = Baseline(time, position, InWindow(samples, time), f)
    BY <1>2, <1>7, <2>3, <2>4, <2>6, <2>8 DEF Extend
  <2>10. est.samples \in Seq(Points) /\ Len(est.samples) > 0 /\ est.samples[Len(est.samples)] = p
    BY <1>m, <2>1, <2>5 DEF IsLast, EstOK
  <2>11. /\ samples \in Seq(Points) /\ Len(samples) > 0 /\ samples[Len(samples)] = e
         /\ OnTrajectory(samples)
    BY <1>m, <2>7, <2>8, <2>10, AppendOnTrajectory
  <2>12. PICK k \in 1 .. Len(samples) :
           InWindow(samples, time) = SubSeq(samples, k, Len(samples))
    BY <2>7, <2>11, WindowIsEnd
  <2>13. PICK kept : kept = InWindow(samples, time)
    OBVIOUS
  <2>14. kept \in Seq(Points) /\ Len(kept) > 0 /\ kept[Len(kept)] = e /\ OnTrajectory(kept)
    BY <2>11, <2>12, <2>13, EndOnTrajectory
  <2> QED
    BY <1>5, <2>6, <2>7, <2>9, <2>13, <2>14
<1> QED
  BY <1>2, <1>6, <1>7 DEF Update
-----------------------------------------------------------------------------
TelemetryInv == BusInv /\ MeowInv /\ EstInv

(* The invariant of the telemetry: what is known of the frames under way,   *)
(* of the accumulation and of the samples holds of every run, over session  *)
(* changes, initializations and restarts the host does not hear of.         *)
THEOREM TelemetryInvariant == TelemetrySpec => []TelemetryInv
<1> USE TelemetryFacts
<1>1. TelemetryInit => TelemetryInv
  <2> SUFFICES ASSUME TelemetryInit PROVE TelemetryInv
    OBVIOUS
  <2>1. /\ now = 0 /\ clock = 0 /\ shaft = 0 /\ operational = FALSE /\ ready = 0 /\ boots = 0
        /\ sent = None /\ wire = <<>> /\ held = None /\ sessions = 0 /\ inits = 0
        /\ offsets = {} /\ meow = NoTelemetry /\ est = NoEstimate
    BY DEF TelemetryInit
  <2>2. wire \in Seq(TelemetryFrames) /\ Len(wire) = 0
    BY <2>1
  <2>3. BusInv
    BY <2>1, <2>2 DEF BusInv, MotorOK, WireOK, HeldOK
  <2>4. MeowInv
    BY <2>1 DEF MeowInv, AccumulatedOK, OffsetsOK, LastOK, AccumulationIsTrue, NoTelemetry
  <2>5. /\ est.samples \in Seq(Points) /\ Len(est.samples) = 0 /\ est.lastRaw = None
        /\ est.time = 0 /\ est.position = 0
    BY <2>1 DEF NoEstimate
  <2>6. EstInv
    BY <2>5 DEF EstInv, EstOK, OnTrajectory
  <2> QED
    BY <2>3, <2>4, <2>6 DEF TelemetryInv
<1>2. TelemetryInv /\ [TelemetryNext]_telemetryVars => TelemetryInv'
  <2> SUFFICES ASSUME TelemetryInv, [TelemetryNext]_telemetryVars PROVE TelemetryInv'
    OBVIOUS
  <2>1. BusInv'
    BY BusStep DEF TelemetryInv
  <2>2. MeowInv'
    BY MeowApplyStep, MeowOtherStep DEF TelemetryInv
  <2>3. EstInv'
    BY EstHandleStep, EstOtherStep DEF TelemetryInv
  <2> QED
    BY <2>1, <2>2, <2>3 DEF TelemetryInv
<1> QED
  BY <1>1, <1>2, PTL DEF TelemetrySpec

(* While a Meow consumer sees one session, one initialization and one       *)
(* segment, the accumulated position (MotorEntryInner::apply_tpdo1) differs *)
(* from the motor's own position by one constant, whatever frames were lost *)
(* or late, however the 16-bit timestamp aliased, and also when the motor   *)
(* restarted without the host hearing of it (invalidate_session is what the *)
(* host does when it does hear).                                            *)
THEOREM AccumulationTrue == TelemetrySpec => []AccumulationIsTrue
<1>1. TelemetryInv => AccumulationIsTrue
  BY DEF TelemetryInv, MeowInv
<1> QED
  BY <1>1, TelemetryInvariant, PTL

(* The samples a Cia402 velocity is fitted to (VelocityEstimator::update)   *)
(* advance in time and are at the shaft's position up to whole turns, for   *)
(* any speed of the motor; between two of them time and position are exact  *)
(* if no step in between went half a turn, round the 32-bit clock or over a *)
(* restart.                                                                 *)
THEOREM SamplesTrue == TelemetrySpec => []VelocitySamplesTrue
<1>1. TelemetryAssumptions
  BY TelemetryFacts
<1>2. TelemetryInv => VelocitySamplesTrue
  <2> SUFFICES ASSUME TelemetryInv PROVE VelocitySamplesTrue
    OBVIOUS
  <2>1. est.samples \in Seq(Points) /\ OnTrajectory(est.samples)
    BY DEF TelemetryInv, EstInv, EstOK
  <2>2. DOMAIN est.samples = 1 .. Len(est.samples)
    BY <2>1
  <2>3. ASSUME NEW i \in 1 .. Len(est.samples), NEW j \in 1 .. Len(est.samples), i < j,
               NEW a, a = est.samples[i], NEW b, b = est.samples[j]
        PROVE  /\ b.time > a.time
               /\ ((b.position - a.position) - (b.at - a.at)) % Turn = 0
               /\ (\A k \in i .. (j - 1) : Tracked(est.samples[k], est.samples[k + 1])) =>
                    /\ b.time - a.time = b.sentAt - a.sentAt
                    /\ b.position - a.position = b.at - a.at
    <3>1. Later(b, a) /\ (AllTracked(est.samples, i, j) => Exactly(b, a))
      BY <2>1, <2>3 DEF OnTrajectory
    <3>2. a \in Points /\ b \in Points
      BY <2>1, <2>3
    <3>3. (b.position - a.position) - (b.at - a.at) \in Int
      BY <3>2 DEF Points
    <3>4. ((b.position - a.position) - (b.at - a.at)) % Turn = 0
      BY <1>1, <3>1, <3>3, TurnsRemainder DEF Later
    <3> QED
      BY <3>1, <3>4 DEF Later, Exactly, AllTracked
  <2> QED
    BY <2>2, <2>3 DEF VelocitySamplesTrue
<1> QED
  BY <1>2, TelemetryInvariant, PTL

(***************************************************************************)
(* The factory calibration.  The decoder's checks are exactly the          *)
(* conditions of a complete calibration, for any seven words and any code  *)
(* over them; and in the session a read began in, without a restart the    *)
(* host does not know of, every answer came from the device that is there. *)
(***************************************************************************)

(* What the proofs need of the assumptions of FactoryCalibration: nothing   *)
(* of the identities.                                                       *)
CalibrationAssumptions ==
  /\ \A d \in Devices : \A a \in Areas[d] : IsArea(a)
  /\ Nothing \notin Devices

LEMMA CalibrationFacts == CalibrationAssumptions
BY AreasAssumption, NothingIsNoDevice DEF CalibrationAssumptions
-----------------------------------------------------------------------------
(* e4m11 and the checks.                                                    *)

(* Zero, or the negative zero.                                              *)
IsZero(raw) == raw = 0 \/ raw = 32768

(* Exponent and fraction of a half, which are both zero in the two zeros    *)
(* only.                                                                    *)
LEMMA Parts ==
  ASSUME NEW raw \in U16
  PROVE  /\ Exponent(raw) \in 0 .. 15
         /\ Fraction(raw) \in Nat
         /\ Exponent(raw) = 0 /\ Fraction(raw) = 0 <=> IsZero(raw)
<1>1. raw \in Nat /\ raw < 65536
  <2>1. MaxU16 \in Nat /\ MaxU16 + 1 = 65536
    BY Z3 DEF MaxU16
  <2>2. raw \in 0 .. MaxU16
    BY Zenon DEF U16
  <2>3. raw \in Nat /\ raw < MaxU16 + 1
    BY <2>1, <2>2
  <2> QED
    BY <2>1, <2>3, SMT
<1> DEFINE q == raw \div 2048
           f == raw % 2048
<1>2. q \in Nat /\ q < 32 /\ f \in Nat /\ f < 2048 /\ raw = 2048 * q + f
  BY <1>1, Z3
<1>3. q % 16 \in Nat /\ q % 16 < 16 /\ (q % 16 = 0 <=> q = 0 \/ q = 16)
  BY <1>2, Z3
<1>4. Exponent(raw) = q % 16 /\ Fraction(raw) = f
  BY Zenon DEF Exponent, Fraction
<1> HIDE DEF q, f
<1>5. f = 0 /\ (q = 0 \/ q = 16) <=> IsZero(raw)
  BY <1>1, <1>2, Z3 DEF IsZero
<1>6. q % 16 \in 0 .. 15
  BY <1>3
<1>7. f \in Nat /\ (q % 16 = 0 /\ f = 0 <=> IsZero(raw))
  BY <1>2, <1>3, <1>5, SMT
<1> QED
  BY <1>4, <1>6, <1>7, Zenon

(* A weight is at least one step.                                           *)
LEMMA Weights ==
  ASSUME NEW e \in 1 .. 15
  PROVE  Weight[e] \in Nat /\ Weight[e] >= 1
BY DEF Weight

(* So is the value of a normal number.                                      *)
LEMMA Product ==
  ASSUME NEW w \in Nat, w >= 1, NEW f \in Nat
  PROVE  w * (2048 + f) \in Nat /\ w * (2048 + f) > 0
BY Z3

(* A canonical half that decodes to more than zero is a positive one.       *)
LEMMA PositiveIs ==
  ASSUME NEW raw \in U16
  PROVE  /\ Canonical(raw) /\ DecodeE4m11(raw) > 0 <=> Positive(raw)
         /\ Canonical(raw) /\ DecodeE4m11(raw) >= 0 <=> Positive(raw) \/ raw = 0
<1> DEFINE e == Exponent(raw)
           f == Fraction(raw)
           w == Weight[e]
           m == IF e = 0 THEN f ELSE w * (2048 + f)
<1>0. e \in 0 .. 15 /\ f \in Nat /\ (e = 0 /\ f = 0 <=> IsZero(raw))
  BY Parts, Zenon
<1>1. DecodeE4m11(raw) = IF Negative(raw) THEN -m ELSE m
  BY Zenon DEF DecodeE4m11
<1>2. m \in Nat /\ (m = 0 <=> IsZero(raw))
  <2>1. CASE e = 0
    BY <1>0, <2>1
  <2>2. CASE e # 0
    <3>1. e \in 1 .. 15
      BY <1>0, <2>2
    <3>2. w \in Nat /\ w >= 1
      BY <3>1, Weights
    <3> HIDE DEF e, f, w
    <3>3. w * (2048 + f) \in Nat /\ w * (2048 + f) > 0
      BY <1>0, <3>2, Product
    <3> QED
      BY <1>0, <2>2, <3>3
  <2> QED
    BY <2>1, <2>2
<1> HIDE DEF m
<1>3. raw = 0 => ~Negative(raw)
  BY Z3 DEF Negative
<1>4. IsZero(raw) /\ raw # 0 => Negative(raw)
  BY Z3 DEF Negative, IsZero
<1>5. raw = 0 => IsZero(raw)
  BY SMT DEF IsZero
<1>6. (raw = 0 => Canonical(raw)) /\ (IsZero(raw) /\ raw # 0 => ~Canonical(raw))
  BY <1>0, <1>3, <1>4, <1>5, SMT DEF Canonical
<1> QED
  BY <1>1, <1>2, <1>3, <1>5, <1>6, SMT DEF Positive
-----------------------------------------------------------------------------
(* The checks of a verdict.                                                 *)

Reasons ==
  {<<"NotV1">>, <<"CrcMismatch">>, <<"ZeroToken">>,
   <<"TorqueGroupInvalid">>, <<"FrictionGroupInvalid">>}
  \cup {<<"NonCanonicalE4m11", i>> : i \in 4 .. 7}

CheckSet == [ok : BOOLEAN, reason : Reasons]

AllOk(checks) == \A i \in 1 .. Len(checks) : checks[i].ok

(* No check fails with the reason of success.                               *)
LEMMA ReasonsDiffer == <<"Valid">> \notin Reasons
BY DEF Reasons

(* A single check holds when its condition does.                            *)
LEMMA CheckIs ==
  ASSUME NEW p \in BOOLEAN, NEW r, <<r>> \in Reasons
  PROVE  Check(p, r) \in Seq(CheckSet) /\ (AllOk(Check(p, r)) <=> p)
<1> DEFINE c == [ok |-> p, reason |-> <<r>>]
<1>1. c \in CheckSet /\ c.ok = p
  BY Zenon DEF CheckSet
<1>2. Check(p, r) = <<c>>
  BY Zenon DEF Check
<1> HIDE DEF c
<1>3. <<c>> \in Seq(CheckSet) /\ Len(<<c>>) = 1 /\ <<c>>[1] = c
  BY <1>1
<1>4. AllOk(<<c>>) <=> c.ok
  BY <1>3 DEF AllOk
<1> QED
  BY <1>1, <1>2, <1>3, <1>4

(* Checks one after the other all hold when both lots do.                   *)
LEMMA AllOkConcat ==
  ASSUME NEW s \in Seq(CheckSet), NEW t \in Seq(CheckSet)
  PROVE  s \o t \in Seq(CheckSet) /\ (AllOk(s \o t) <=> AllOk(s) /\ AllOk(t))
<1>1. /\ s \o t \in Seq(CheckSet) /\ Len(s \o t) = Len(s) + Len(t)
      /\ \A i \in 1 .. Len(s) + Len(t) :
           (s \o t)[i] = IF i <= Len(s) THEN s[i] ELSE t[i - Len(s)]
      /\ Len(s) \in Nat /\ Len(t) \in Nat
  BY ConcatProperties, LenProperties
<1> DEFINE u == s \o t
<1> HIDE DEF u
<1>2. \A i \in 1 .. Len(s) : i \in 1 .. Len(u) /\ u[i] = s[i]
  BY <1>1 DEF u
<1>3. \A i \in 1 .. Len(t) : Len(s) + i \in 1 .. Len(u) /\ u[Len(s) + i] = t[i]
  BY <1>1 DEF u
<1>4. \A i \in 1 .. Len(u) :
        i \in 1 .. Len(s) \/ (i - Len(s) \in 1 .. Len(t) /\ i = Len(s) + (i - Len(s)))
  BY <1>1 DEF u
<1>5. AllOk(u) => AllOk(s) /\ AllOk(t)
  BY <1>2, <1>3 DEF AllOk
<1>6. ASSUME AllOk(s), AllOk(t) PROVE AllOk(u)
  <2> SUFFICES ASSUME NEW i \in 1 .. Len(u) PROVE u[i].ok
    BY DEF AllOk
  <2>1. CASE i \in 1 .. Len(s)
    BY <1>2, <1>6, <2>1 DEF AllOk
  <2>2. CASE i - Len(s) \in 1 .. Len(t) /\ i = Len(s) + (i - Len(s))
    <3>1. PICK j \in 1 .. Len(t) : i = Len(s) + j
      BY <2>2
    <3> QED
      BY <1>3, <1>6, <3>1 DEF AllOk
  <2> QED
    BY <1>4, <2>1, <2>2
<1> QED
  BY <1>1, <1>5, <1>6 DEF u

Halves == (4 .. 7) \X U16

(* The checks of a list of halves hold when all are canonical.              *)
LEMMA HalfChecksAre ==
  ASSUME NEW halves \in Seq(Halves)
  PROVE  /\ HalfChecks(halves) \in Seq(CheckSet)
         /\ AllOk(HalfChecks(halves)) <=>
              \A i \in 1 .. Len(halves) : Canonical(halves[i][2])
<1> DEFINE C(i) == [ok |-> Canonical(halves[i][2]),
                    reason |-> <<"NonCanonicalE4m11", halves[i][1]>>]
           h == [i \in 1 .. Len(halves) |-> C(i)]
<1>1. Len(halves) \in Nat
  BY LenProperties
<1>2. HalfChecks(halves) = h
  BY Zenon DEF HalfChecks
<1>3. ASSUME NEW i \in 1 .. Len(halves)
      PROVE  C(i) \in CheckSet /\ (C(i).ok <=> Canonical(halves[i][2]))
  <2>1. halves[i] \in Halves
    BY <1>3
  <2>2. <<"NonCanonicalE4m11", halves[i][1]>> \in Reasons
    BY <2>1 DEF Halves, Reasons
  <2>3. Canonical(halves[i][2]) \in BOOLEAN
    BY Zenon DEF Canonical
  <2> QED
    BY <2>2, <2>3, Zenon DEF CheckSet
<1> HIDE DEF C
<1>4. h \in Seq(CheckSet) /\ Len(h) = Len(halves) /\ \A i \in 1 .. Len(halves) : h[i] = C(i)
  BY <1>1, <1>3
<1> HIDE DEF h
<1>5. AllOk(h) <=> \A i \in 1 .. Len(halves) : Canonical(halves[i][2])
  BY <1>3, <1>4 DEF AllOk
<1> QED
  BY <1>2, <1>4, <1>5
AreWords(w) == \A i \in 1 .. 7 : IsU32(w[i])

(* The halves of a word.                                                    *)
LEMMA HalvesAre ==
  ASSUME NEW w, IsU32(w)
  PROVE  Lo(w) \in U16 /\ Hi(w) \in U16
BY DEF IsU32, Lo, Hi

(* A word is its two halves.                                                *)
LEMMA PairIs ==
  ASSUME NEW w, IsU32(w), NEW a, NEW b
  PROVE  w = <<a, b>> <=> Lo(w) = a /\ Hi(w) = b
BY DEF IsU32, Lo, Hi

TorqueOk(w) ==
  /\ Positive(Lo(w[4]))
  /\ Positive(Hi(w[4])) \/ Hi(w[4]) = 0

(* The checks of the torque group say that it is valid.                     *)
LEMMA TorqueChecksAre ==
  ASSUME NEW w, AreWords(w)
  PROVE  TorqueChecks(w) \in Seq(CheckSet) /\ (AllOk(TorqueChecks(w)) <=> TorqueOk(w))
<1> DEFINE lo == Lo(w[4])
           hi == Hi(w[4])
           halves == <<<<4, lo>>, <<4, hi>>>>
           p == DecodeE4m11(lo) > 0 /\ DecodeE4m11(hi) >= 0
           s == HalfChecks(halves)
           t == Check(p, "TorqueGroupInvalid")
<1>1. TorqueChecks(w) = s \o t
  BY Zenon DEF TorqueChecks, TorqueHalves
<1>2. lo \in U16 /\ hi \in U16
  BY HalvesAre DEF AreWords
<1>3. TorqueOk(w) <=> Positive(lo) /\ (Positive(hi) \/ hi = 0)
  BY Zenon DEF TorqueOk
<1> HIDE DEF lo, hi
<1>4. halves \in Seq(Halves) /\ Len(halves) = 2 /\ halves[1] = <<4, lo>> /\ halves[2] = <<4, hi>>
  BY <1>2 DEF Halves
<1>5. p \in BOOLEAN
  OBVIOUS
<1>6. <<"TorqueGroupInvalid">> \in Reasons
  BY DEF Reasons
<1> HIDE DEF halves
<1>7. s \in Seq(CheckSet) /\ (AllOk(s) <=> Canonical(lo) /\ Canonical(hi))
  <2>1. s \in Seq(CheckSet) /\ (AllOk(s) <=> \A i \in 1 .. 2 : Canonical(halves[i][2]))
    BY <1>4, HalfChecksAre
  <2>2. \A i \in 1 .. 2 : i = 1 \/ i = 2
    OBVIOUS
  <2> QED
    BY <1>4, <2>1, <2>2
<1>8. t \in Seq(CheckSet) /\ (AllOk(t) <=> p)
  BY <1>5, <1>6, CheckIs
<1> HIDE DEF s, t
<1>9. AllOk(s \o t) <=> AllOk(s) /\ AllOk(t)
  BY <1>7, <1>8, AllOkConcat
<1>10. s \o t \in Seq(CheckSet)
  BY <1>7, <1>8, AllOkConcat
<1> QED
  BY <1>1, <1>2, <1>3, <1>7, <1>8, <1>9, <1>10, PositiveIs

(* The six halves of the friction group.                                    *)
FrictionOk(w) ==
  /\ Positive(Lo(w[5])) /\ Positive(Hi(w[5])) /\ Positive(Lo(w[6]))
  /\ Positive(Hi(w[6])) /\ Positive(Lo(w[7])) /\ Canonical(Hi(w[7]))

(* The checks of the friction group say that it is valid.                   *)
LEMMA FrictionChecksAre ==
  ASSUME NEW w, AreWords(w)
  PROVE  /\ FrictionChecks(w) \in Seq(CheckSet)
         /\ AllOk(FrictionChecks(w)) <=> FrictionOk(w)
<1> DEFINE halves == FrictionHalves(w)
           last == <<<<7, Hi(w[7])>>>>
           p == \A i \in 1 .. 5 : DecodeE4m11(halves[i][2]) > 0
           s == HalfChecks(halves)
           t == Check(p, "FrictionGroupInvalid")
           u == HalfChecks(last)
           a == Lo(w[5])
           b == Hi(w[5])
           c == Lo(w[6])
           d == Hi(w[6])
           e == Lo(w[7])
           f == Hi(w[7])
<1>1. FrictionChecks(w) = s \o t \o u
  BY Zenon DEF FrictionChecks
<1>2. /\ a \in U16 /\ b \in U16 /\ c \in U16
      /\ d \in U16 /\ e \in U16 /\ f \in U16
  BY HalvesAre DEF AreWords
<1>3. halves = <<<<5, a>>, <<5, b>>, <<6, c>>, <<6, d>>, <<7, e>>>>
  BY Zenon DEF FrictionHalves
<1>4. FrictionOk(w) <=> /\ Positive(a) /\ Positive(b) /\ Positive(c)
                        /\ Positive(d) /\ Positive(e) /\ Canonical(f)
  BY Zenon DEF FrictionOk
<1>5. last = <<<<7, f>>>>
  OBVIOUS
<1> HIDE DEF halves, last, a, b, c, d, e, f
<1>6. /\ halves \in Seq(Halves) /\ Len(halves) = 5
      /\ halves[1][2] = a /\ halves[2][2] = b /\ halves[3][2] = c
      /\ halves[4][2] = d /\ halves[5][2] = e
  BY <1>2, <1>3 DEF Halves
<1>7. last \in Seq(Halves) /\ Len(last) = 1 /\ last[1][2] = f
  BY <1>2, <1>5 DEF Halves
<1>8. \A i \in 1 .. 5 : i = 1 \/ i = 2 \/ i = 3 \/ i = 4 \/ i = 5
  OBVIOUS
<1>9. /\ s \in Seq(CheckSet)
      /\ AllOk(s) <=> /\ Canonical(a) /\ Canonical(b) /\ Canonical(c)
                      /\ Canonical(d) /\ Canonical(e)
  <2>1. s \in Seq(CheckSet) /\ (AllOk(s) <=> \A i \in 1 .. 5 : Canonical(halves[i][2]))
    BY <1>6, HalfChecksAre
  <2> QED
    BY <1>6, <1>8, <2>1
<1>10. p <=> /\ DecodeE4m11(a) > 0 /\ DecodeE4m11(b) > 0 /\ DecodeE4m11(c) > 0
             /\ DecodeE4m11(d) > 0 /\ DecodeE4m11(e) > 0
  BY <1>6, <1>8
<1>11. t \in Seq(CheckSet) /\ (AllOk(t) <=> p)
  <2>1. p \in BOOLEAN
    OBVIOUS
  <2>2. <<"FrictionGroupInvalid">> \in Reasons
    BY DEF Reasons
  <2> QED
    BY <2>1, <2>2, CheckIs
<1> HIDE DEF p
<1>12. u \in Seq(CheckSet) /\ (AllOk(u) <=> Canonical(f))
  <2>1. u \in Seq(CheckSet) /\ (AllOk(u) <=> \A i \in 1 .. 1 : Canonical(last[i][2]))
    BY <1>7, HalfChecksAre
  <2> QED
    BY <1>7, <2>1
<1> HIDE DEF s, t, u
<1>13. s \o t \in Seq(CheckSet) /\ (AllOk(s \o t) <=> AllOk(s) /\ AllOk(t))
  BY <1>9, <1>11, AllOkConcat
<1>14. s \o t \o u \in Seq(CheckSet) /\ (AllOk(s \o t \o u) <=> AllOk(s \o t) /\ AllOk(u))
  BY <1>12, <1>13, AllOkConcat
<1> QED
  BY <1>1, <1>2, <1>4, <1>9, <1>10, <1>11, <1>12, <1>13, <1>14, PositiveIs

(* What Calibrated says of seven words.                                     *)
GoodWords(d, w) ==
  /\ w[1] = <<FactoryCrc16(IdentityOf[d], w), ManifestUpperV1>>
  /\ \E i \in {2, 3} : w[i] # Zero32
  /\ TorqueOk(w)
  /\ (\A i \in 5 .. 7 : w[i] = Zero32) \/ FrictionOk(w)

(* All checks of seven words together say that they are a calibration.      *)
LEMMA ChecksAre ==
  ASSUME NEW d, NEW w, AreWords(w), NEW checks, checks = Checks(IdentityOf[d], w)
  PROVE  checks \in Seq(CheckSet) /\ (AllOk(checks) <=> GoodWords(d, w))
<1> DEFINE p == Hi(w[1]) = ManifestUpperV1
           q == CrcAgrees(IdentityOf[d], w)
           r == ~(w[2] = Zero32 /\ w[3] = Zero32)
           n == NoFriction(w)
           c1 == Check(p, "NotV1")
           c2 == Check(q, "CrcMismatch")
           c3 == Check(r, "ZeroToken")
           c4 == TorqueChecks(w)
           c5 == IF n THEN <<>> ELSE FrictionChecks(w)
<1>1. checks = c1 \o c2 \o c3 \o c4 \o c5
  BY Zenon DEF Checks
<1>2. GoodWords(d, w) <=> p /\ q /\ r /\ TorqueOk(w) /\ (n \/ FrictionOk(w))
  <2>1. IsU32(w[1])
    BY DEF AreWords
  <2>2. w[1] = <<FactoryCrc16(IdentityOf[d], w), ManifestUpperV1>> <=> p /\ q
    BY <2>1, PairIs, Zenon DEF CrcAgrees
  <2>3. (\E i \in {2, 3} : w[i] # Zero32) <=> r
    BY Zenon
  <2> QED
    BY <2>2, <2>3, Zenon DEF GoodWords, NoFriction
<1>3. c1 \in Seq(CheckSet) /\ (AllOk(c1) <=> p)
  <2>1. <<"NotV1">> \in Reasons /\ p \in BOOLEAN
    BY DEF Reasons
  <2> QED
    BY <2>1, CheckIs, Zenon
<1>4. c2 \in Seq(CheckSet) /\ (AllOk(c2) <=> q)
  <2>1. <<"CrcMismatch">> \in Reasons
    BY DEF Reasons
  <2>2. q \in BOOLEAN
    BY Zenon DEF CrcAgrees
  <2> QED
    BY <2>1, <2>2, CheckIs, Zenon
<1>5. c3 \in Seq(CheckSet) /\ (AllOk(c3) <=> r)
  <2>1. <<"ZeroToken">> \in Reasons /\ r \in BOOLEAN
    BY DEF Reasons
  <2> QED
    BY <2>1, CheckIs, Zenon
<1>6. c4 \in Seq(CheckSet) /\ (AllOk(c4) <=> TorqueOk(w))
  BY TorqueChecksAre, Zenon
<1>7. c5 \in Seq(CheckSet) /\ (AllOk(c5) <=> n \/ FrictionOk(w))
  <2>1. CASE n
    <3>1. c5 = <<>>
      BY <2>1
    <3>2. <<>> \in Seq(CheckSet) /\ AllOk(<<>>)
      BY DEF AllOk
    <3> QED
      BY <2>1, <3>1, <3>2
  <2>2. CASE ~n
    <3>1. c5 = FrictionChecks(w)
      BY <2>2
    <3> QED
      BY <2>2, <3>1, FrictionChecksAre
  <2> QED
    BY <2>1, <2>2
<1> HIDE DEF p, q, r, n, c1, c2, c3, c4, c5
<1>8. c1 \o c2 \in Seq(CheckSet) /\ (AllOk(c1 \o c2) <=> AllOk(c1) /\ AllOk(c2))
  BY <1>3, <1>4, AllOkConcat
<1>9. c1 \o c2 \o c3 \in Seq(CheckSet) /\ (AllOk(c1 \o c2 \o c3) <=> AllOk(c1 \o c2) /\ AllOk(c3))
  BY <1>5, <1>8, AllOkConcat
<1>10. /\ c1 \o c2 \o c3 \o c4 \in Seq(CheckSet)
       /\ AllOk(c1 \o c2 \o c3 \o c4) <=> AllOk(c1 \o c2 \o c3) /\ AllOk(c4)
  BY <1>6, <1>9, AllOkConcat
<1>11. /\ c1 \o c2 \o c3 \o c4 \o c5 \in Seq(CheckSet)
       /\ AllOk(c1 \o c2 \o c3 \o c4 \o c5) <=> AllOk(c1 \o c2 \o c3 \o c4) /\ AllOk(c5)
  BY <1>7, <1>10, AllOkConcat
<1> QED
  BY <1>1, <1>2, <1>3, <1>4, <1>5, <1>6, <1>7, <1>8, <1>9, <1>10, <1>11

(* The verdict on seven words is Valid exactly when they are a calibration, *)
(* whatever the words, and keeps them either way.                           *)
LEMMA DecodedIs ==
  ASSUME NEW d, NEW w, AreWords(w), NEW v, v = DecodeFactoryWords(IdentityOf[d], w)
  PROVE  (IsValid(v) <=> GoodWords(d, w)) /\ v.words = w
<1> DEFINE checks == Checks(IdentityOf[d], w)
           failed == {i \in DOMAIN checks : ~checks[i].ok}
<1>1. checks \in Seq(CheckSet) /\ (AllOk(checks) <=> GoodWords(d, w))
  BY ChecksAre
<1>2. DOMAIN checks = 1 .. Len(checks) /\ Len(checks) \in Nat
  BY <1>1
<1>3. failed = {} <=> AllOk(checks)
  BY <1>2 DEF AllOk
<1>4. CASE failed = {}
  <2>1. v.reason = <<"Valid">> /\ v.words = w
    BY <1>4, Zenon DEF DecodeFactoryWords
  <2> QED
    BY <1>1, <1>3, <1>4, <2>1 DEF IsValid
<1>5. CASE failed # {}
  <2>1. v = Missing(checks[Min(failed)].reason, w)
    BY <1>5, Zenon DEF DecodeFactoryWords
  <2>2. Min(failed) \in failed
    <3>1. failed \subseteq Nat
      BY <1>2
    <3> HIDE DEF failed
    <3>2. PICK i \in failed : \A j \in failed : <<j, i>> \notin OpToRel(<, Nat)
      BY <1>5, <3>1, NatLessThanWellFounded, WFMin, Zenon
    <3>3. \A j \in failed : ~(j < i)
      BY <3>1, <3>2 DEF OpToRel
    <3>4. \A j \in failed : i =< j
      BY <3>1, <3>3
    <3> QED
      BY <3>4, Zenon DEF Min
  <2>3. checks[Min(failed)].reason \in Reasons
    <3>1. Min(failed) \in 1 .. Len(checks)
      BY <1>2, <2>2
    <3> HIDE DEF checks, failed
    <3>2. checks[Min(failed)] \in CheckSet
      BY <1>1, <3>1
    <3> QED
      BY <3>2 DEF CheckSet
  <2>4. v.reason \in Reasons /\ v.words = w
    BY <2>1, <2>3 DEF Missing
  <2>5. ~IsValid(v)
    BY <2>4, ReasonsDiffer DEF IsValid
  <2> QED
    BY <1>1, <1>3, <1>5, <2>4, <2>5
<1> QED
  BY <1>4, <1>5
-----------------------------------------------------------------------------
(* The areas.                                                               *)

(* A calibrated area is one that answers every upload with good words.      *)
LEMMA CalibratedIs ==
  ASSUME NEW a, NEW d
  PROVE  Calibrated(a, d) <=> Complete(a) /\ GoodWords(d, WordsOf(a))
BY Zenon DEF Calibrated, GoodWords, TorqueOk, FrictionOk

(* What an area answers are words.                                          *)
LEMMA AreaHasWords ==
  ASSUME NEW a, IsArea(a)
  PROVE  AreWords(WordsOf(a)) /\ \A i \in 0 .. 7 : a[i].found \in BOOLEAN /\ IsU32(a[i].data)
<1>1. \A i \in 0 .. 7 : a[i].found \in BOOLEAN /\ IsU32(a[i].data)
  BY Zenon DEF IsArea, WordCount
<1>2. \A i \in 1 .. 7 : i \in 0 .. 7 /\ WordsOf(a)[i] = a[i].data
  BY DEF WordsOf, WordCount
<1> QED
  BY <1>1, <1>2 DEF AreWords
-----------------------------------------------------------------------------
(* The read.                                                                *)

U32s == {w \in Seq(U16) : Len(w) = 2}

CalTypes ==
  /\ \A d \in Devices : IsArea(area[d])
  /\ who \in Devices /\ known \in Devices \cup {Nothing}
  /\ powered \in BOOLEAN /\ booted \in BOOLEAN
  /\ epoch \in Nat /\ token.epoch \in Nat /\ token.epoch <= epoch
  /\ words \in Seq(U32s)

(* An identity that is known is the device's own, unless it has restarted   *)
(* unnoticed.                                                               *)
KnownIsWho == ~RestartPending => known \in {who, Nothing}

(* What a verdict says of an area.                                          *)
Says(v, a) ==
  \/ v.words = Nothing /\ ~IsValid(v) /\ ~Complete(a)
  \/ Complete(a) /\ v = DecodeFactoryWords(IdentityOf[token.device], WordsOf(a))

(* In the session the read began in, all that was read is of the device     *)
(* that is there.                                                           *)
ReadIsWho ==
  ~RestartPending /\ token.epoch = epoch =>
    /\ pc = "words" =>
         /\ HighestOk(area[who])
         /\ \A i \in 1 .. Len(words) : WordOk(area[who], i) /\ words[i] = area[who][i].data
    /\ pc \in {"check", "returned"} => Says(verdict, area[who])

(* A call under way has the token of a device; the words it has read.       *)
CallOK ==
  /\ pc \in {"highest", "words", "check", "returned"} => token.device \in Devices
  /\ pc = "highest" => words = <<>>
  /\ pc = "words" => Len(words) < 7

CalInv == CalTypes /\ KnownIsWho /\ ReadIsWho /\ CallOK

(* Restarts, Boot-Ups, silence and identification keep the invariant: they  *)
(* end the session, or leave a restart pending, or change nothing that was  *)
(* read.                                                                    *)
LEMMA SessionStep ==
  ASSUME CalibrationAssumptions, CalInv,
         \/ PowerOff \/ PowerOn \/ ReceiveBootUp \/ GoOffline \/ Identify
         \/ UNCHANGED calibrationVars
  PROVE  CalInv'
<1>m. CalTypes /\ KnownIsWho /\ ReadIsWho /\ CallOK
  BY DEF CalInv
<1>1. CASE PowerOff
  BY <1>m, <1>1
     DEF CalInv, CalTypes, KnownIsWho, ReadIsWho, CallOK, RestartPending,
         PowerOff, entryVars, callVars
<1>2. CASE PowerOn
  BY <1>m, <1>2
     DEF CalInv, CalTypes, KnownIsWho, ReadIsWho, CallOK, RestartPending,
         PowerOn, entryVars, callVars
<1>3. CASE ReceiveBootUp
  <2>1. /\ epoch' = epoch + 1 /\ known' = Nothing /\ booted' = FALSE
        /\ UNCHANGED <<area, powered, who, pc, token, words, verdict>>
    BY <1>3 DEF ReceiveBootUp, InvalidateSession, callVars
  <2>2. CalTypes'
    <3>1. epoch' \in Nat /\ token'.epoch <= epoch'
      BY <1>m, <2>1 DEF CalTypes
    <3>2. booted' \in BOOLEAN /\ known' \in Devices \cup {Nothing}
      BY <2>1, Zenon
    <3> QED
      BY <1>m, <2>1, <3>1, <3>2 DEF CalTypes
  <2>3. token'.epoch # epoch'
    BY <1>m, <2>1 DEF CalTypes
  <2> QED
    BY <1>m, <2>1, <2>2, <2>3 DEF CalInv, KnownIsWho, ReadIsWho, CallOK
<1>4. CASE GoOffline
  <2>1. epoch' = epoch + 1 /\ known' = Nothing /\ UNCHANGED <<deviceVars, callVars>>
    BY <1>4 DEF GoOffline, InvalidateSession
  <2>2. CalTypes'
    BY <1>m, <2>1 DEF CalTypes, deviceVars, callVars
  <2>3. token'.epoch # epoch'
    BY <1>m, <2>1 DEF CalTypes, callVars
  <2> QED
    BY <1>m, <2>1, <2>2, <2>3
       DEF CalInv, KnownIsWho, ReadIsWho, CallOK, callVars
<1>5. CASE Identify
  BY <1>m, <1>5
     DEF CalInv, CalTypes, KnownIsWho, ReadIsWho, CallOK, RestartPending,
         Identify, callVars, deviceVars
<1>6. CASE UNCHANGED calibrationVars
  BY <1>m, <1>6
     DEF CalInv, CalTypes, KnownIsWho, ReadIsWho, CallOK, RestartPending, Says,
         calibrationVars, callVars, deviceVars, entryVars
<1> QED
  BY <1>1, <1>2, <1>3, <1>4, <1>5, <1>6
(* An upload keeps it: the answer is of the device that is there.           *)
LEMMA ReadStep ==
  ASSUME CalibrationAssumptions, CalInv, ReadHighest \/ ReadWord
  PROVE  CalInv'
<1>m. CalTypes /\ KnownIsWho /\ ReadIsWho /\ CallOK
  BY DEF CalInv
<1> DEFINE a == area[who]
<1>a. IsArea(a) /\ AreWords(WordsOf(a))
      /\ \A i \in 0 .. 7 : a[i].found \in BOOLEAN /\ IsU32(a[i].data)
  BY <1>m, AreaHasWords DEF CalTypes
<1>u. UNCHANGED <<token, area, powered, who, booted, epoch, known>>
  BY DEF ReadHighest, ReadWord, deviceVars, entryVars
<1>p. KnownIsWho' /\ token'.device \in Devices
  BY <1>m, <1>u DEF KnownIsWho, CallOK, RestartPending, ReadHighest, ReadWord
<1>t. words' \in Seq(U32s) => CalTypes'
  BY <1>m, <1>u DEF CalTypes
<1>r. ASSUME words' \in Seq(U32s), pc' \in {"words", "check"}, pc' = "words" => Len(words') < 7,
             ~RestartPending /\ token.epoch = epoch =>
                \/ /\ pc' = "words" /\ HighestOk(a)
                   /\ \A i \in 1 .. Len(words') : WordOk(a, i) /\ words'[i] = a[i].data
                \/ pc' = "check" /\ Says(verdict', a)
      PROVE  CalInv'
  <2>1. ReadIsWho'
    BY <1>u, <1>r DEF ReadIsWho, RestartPending, Says
  <2> QED
    BY <1>p, <1>t, <1>r, <2>1 DEF CalInv, CallOK
(* An answer that ends the read says nothing of a calibration.              *)
<1>e. ASSUME NEW reason, EndWith(reason), reason # <<"Valid">>, ~Complete(a)
      PROVE  CalInv'
  <2>1. /\ verdict' = Missing(reason, Nothing) /\ pc' = "check" /\ words' = words
    BY <1>e DEF EndWith
  <2>2. verdict'.words = Nothing /\ ~IsValid(verdict')
    BY <1>e, <2>1 DEF Missing, IsValid
  <2>3. Says(verdict', a)
    BY <1>e, <2>2, Zenon DEF Says
  <2>4. words' \in Seq(U32s)
    BY <1>m, <2>1 DEF CalTypes
  <2> HIDE DEF a
  <2> QED
    BY <1>r, <2>1, <2>3, <2>4
<1>1. CASE ReadHighest
  <2> DEFINE answer == Answer(0)
  <2>0. answer = a[0] /\ answer.found \in BOOLEAN /\ pc = "highest"
    BY <1>1, <1>a DEF Answer, ReadHighest
  <2>1. CASE ~answer.found /\ EndWith(<<"ObjectAbsent">>)
    BY <1>e, <2>0, <2>1 DEF Complete, HighestOk
  <2>2. CASE answer.found /\ answer.len # 1 /\ EndWith(<<"WrongLength", 0>>)
    BY <1>e, <2>0, <2>2 DEF Complete, HighestOk
  <2>3. CASE /\ answer.found /\ answer.len = 1 /\ Lo(answer.data) < WordCount
             /\ EndWith(<<"TooFewSubIndices">>)
    <3>1. Lo(answer.data) \in Nat
      BY <1>a, <2>0, HalvesAre DEF U16
    <3>2. WordCount = 7
      BY DEF WordCount
    <3> QED
      BY <1>e, <2>0, <2>3, <3>1, <3>2 DEF Complete, HighestOk
  <2>4. CASE /\ answer.found /\ answer.len = 1 /\ Lo(answer.data) >= WordCount
             /\ pc' = "words" /\ UNCHANGED <<words, verdict>>
    <3>1. HighestOk(a)
      BY <2>0, <2>4 DEF HighestOk
    <3>2. words' = <<>>
      BY <1>m, <2>0, <2>4 DEF CallOK
    <3> QED
      BY <1>m, <1>r, <2>4, <3>1, <3>2 DEF CalTypes
  <2> QED
    BY <1>1, <2>1, <2>2, <2>3, <2>4 DEF ReadHighest
<1>2. CASE ReadWord
  <2> DEFINE n == Len(words) + 1
             answer == Answer(n)
             mine == ~RestartPending /\ token.epoch = epoch
             decoded == DecodeFactoryWords(IdentityOf[token.device], words')
  <2>0. answer = a[n] /\ pc = "words" /\ WordCount = 7 /\ n \in Nat /\ Len(words) = n - 1
    BY <1>2, <1>m, LenProperties DEF Answer, ReadWord, WordCount, CalTypes
  <2>n. n \in 1 .. 7
    BY <1>m, <2>0 DEF CallOK
  <2>s. mine => HighestOk(a) /\ \A i \in 1 .. n - 1 : WordOk(a, i) /\ words[i] = a[i].data
    BY <1>m, <2>0 DEF ReadIsWho
  <2>e. ASSUME NEW reason, EndWith(reason), reason # <<"Valid">>, ~WordOk(a, n)
        PROVE  CalInv'
    <3>1. CASE mine
      <4>1. ~Complete(a)
        BY <2>0, <2>n, <2>e DEF Complete
      <4> QED
        BY <1>e, <2>e, <4>1
    <3>2. CASE ~mine
      <4>1. words' = words
        BY <2>e DEF EndWith
      <4> QED
        BY <1>m, <1>r, <2>e, <3>2, <4>1 DEF CalTypes, EndWith
    <3> QED
      BY <3>1, <3>2
  <2>1. CASE ~answer.found /\ EndWith(<<"SubIndexAbsent", n>>)
    BY <2>0, <2>1, <2>e DEF WordOk
  <2>2. CASE answer.found /\ answer.len # 4 /\ EndWith(<<"WrongLength", n>>)
    BY <2>0, <2>2, <2>e DEF WordOk
  <2>3. CASE /\ answer.found /\ answer.len = 4
             /\ words' = Append(words, answer.data)
             /\ IF n < WordCount THEN UNCHANGED <<pc, verdict>>
                ELSE pc' = "check" /\ verdict' = decoded
    <3>1. a[n].data \in U32s
      BY <1>a, <2>n DEF U32s, IsU32
    <3>2. /\ words' \in Seq(U32s) /\ Len(words') = n /\ words'[n] = a[n].data
          /\ \A i \in 1 .. n - 1 : words'[i] = words[i]
      BY <1>m, <2>0, <2>3, <3>1, AppendProperties DEF CalTypes
    <3>3. ASSUME mine
          PROVE  \A i \in 1 .. n : WordOk(a, i) /\ words'[i] = a[i].data
      <4> TAKE i \in 1 .. n
      <4>1. i \in 1 .. n - 1 \/ i = n
        BY <2>n
      <4> QED
        BY <2>0, <2>3, <2>s, <3>2, <3>3, <4>1 DEF WordOk
    <3>4. CASE n < WordCount
      <4>1. pc' = "words" /\ Len(words') < 7
        BY <2>0, <2>3, <3>2, <3>4
      <4> QED
        BY <1>r, <2>s, <3>2, <3>3, <4>1
    <3>5. CASE ~(n < WordCount)
      <4>1. pc' = "check" /\ verdict' = decoded /\ n = 7
        BY <2>0, <2>n, <2>3, <3>5
      <4>2. ASSUME mine PROVE Says(verdict', a)
        <5>1. \A i \in 1 .. 7 : WordOk(a, i) /\ words'[i] = a[i].data
          BY <3>3, <4>1, <4>2
        <5>2. Complete(a)
          BY <2>0, <2>s, <4>2, <5>1 DEF Complete
        <5>3. words' = WordsOf(a)
          BY <2>0, <3>2, <4>1, <5>1 DEF WordsOf
        <5> HIDE DEF a
        <5> QED
          BY <4>1, <5>2, <5>3 DEF Says
      <4> QED
        BY <1>r, <3>2, <4>1, <4>2
    <3> QED
      BY <3>4, <3>5
  <2> QED
    BY <1>2, <2>1, <2>2, <2>3 DEF ReadWord
<1> QED
  BY <1>1, <1>2

(* Starting, returning and ending the call keep it.                         *)
LEMMA CallStep ==
  ASSUME CalibrationAssumptions, CalInv,
         StartRead \/ ReturnVerdict \/ CallFails \/ CallDone
  PROVE  CalInv'
<1>m. CalTypes /\ KnownIsWho /\ ReadIsWho /\ CallOK
  BY DEF CalInv
<1>u. UNCHANGED <<area, powered, who, booted, epoch, known>>
  BY DEF StartRead, ReturnVerdict, CallFails, CallDone, deviceVars,
         entryVars
<1>k. KnownIsWho'
  BY <1>m, <1>u DEF KnownIsWho, RestartPending
<1>1. CASE StartRead
  <2>1. /\ known # Nothing /\ pc' = "highest" /\ token' = [epoch |-> epoch, device |-> known]
        /\ words' = <<>>
    BY <1>1 DEF StartRead
  <2>2. CallOK'
    BY <1>m, <2>1 DEF CalTypes, CallOK
  <2>3. words' \in Seq(U32s) /\ token'.epoch = epoch
    BY <2>1
  <2>4. CalTypes'
    BY <1>m, <1>u, <2>3 DEF CalTypes
  <2>5. ReadIsWho'
    BY <2>1 DEF ReadIsWho
  <2> QED
    BY <1>k, <2>2, <2>4, <2>5 DEF CalInv
<1>2. CASE ReturnVerdict
  <2>1. pc = "check" /\ pc' = "returned" /\ UNCHANGED <<token, words, verdict>>
    BY <1>2 DEF ReturnVerdict, SessionStillHolds
  <2>2. CalTypes' /\ CallOK'
    BY <1>m, <1>u, <2>1 DEF CalTypes, CallOK
  <2>3. ReadIsWho'
    BY <1>m, <1>u, <2>1 DEF ReadIsWho, RestartPending, Says
  <2> QED
    BY <1>k, <2>2, <2>3 DEF CalInv
<1>3. CASE CallFails \/ CallDone
  <2>1. pc' = "idle" /\ token' = NoToken /\ words' = <<>>
    BY <1>3 DEF CallFails, CallDone, EndCall
  <2>2. words' \in Seq(U32s) /\ token'.epoch = 0
    BY <2>1 DEF NoToken
  <2>3. CalTypes'
    BY <1>m, <1>u, <2>2 DEF CalTypes
  <2> QED
    BY <1>k, <2>1, <2>3 DEF CalInv, CallOK, ReadIsWho
<1> QED
  BY <1>1, <1>2, <1>3

(* What is known of a read of the calibration holds of every run.           *)
THEOREM CalibrationInvariant == CalibrationSpec => []CalInv
<1> USE CalibrationFacts
<1>1. CalibrationInit => CalInv
  <2> SUFFICES ASSUME CalibrationInit PROVE CalInv
    OBVIOUS
  <2>1. /\ area \in Contents
        /\ who \in Devices /\ known = Nothing /\ powered = TRUE /\ booted = FALSE
        /\ epoch = 0 /\ token = NoToken /\ words = <<>> /\ pc = "idle"
    BY DEF CalibrationInit
  <2>2. \A d \in Devices : IsArea(area[d])
    BY <2>1 DEF CalibrationAssumptions, Contents
  <2>3. words \in Seq(U32s) /\ token.epoch = 0
    BY <2>1 DEF NoToken
  <2> QED
    <3>1. powered \in BOOLEAN /\ booted \in BOOLEAN /\ known \in {who, Nothing}
      BY <2>1, Zenon
    <3>2. CalTypes
      BY <2>1, <2>2, <2>3, <3>1 DEF CalTypes
    <3> QED
      BY <2>1, <3>1, <3>2 DEF CalInv, KnownIsWho, ReadIsWho, CallOK
<1>2. CalInv /\ [CalibrationNext]_calibrationVars => CalInv'
  BY SessionStep, ReadStep, CallStep DEF CalibrationNext
<1> QED
  BY <1>1, <1>2, PTL DEF CalibrationSpec

(* A verdict read_factory_calibration returns is Valid exactly when the     *)
(* device that is there holds a complete calibration of its own, and the    *)
(* words kept with it are that device's, for any contents of the areas and  *)
(* however sessions changed during the eight uploads -- unless the device   *)
(* is gone and its successor has not been noticed.                          *)
THEOREM VerdictTrue == CalibrationSpec => VerdictIsTrue
<1> USE CalibrationFacts
<1>1. ASSUME CalInv, [CalibrationNext]_calibrationVars, pc = "check", pc' = "returned", ~RestartPending
      PROVE  /\ known = who
             /\ IsValid(verdict) <=> Calibrated(area[who], who)
             /\ verdict.words # Nothing =>
                  verdict.words = WordsOf(area[who])
  <2>1. ReturnVerdict
    BY <1>1
       DEF CalibrationNext, PowerOff, PowerOn, ReceiveBootUp, GoOffline, Identify,
           StartRead, ReadHighest, ReadWord, CallFails, CallDone, EndCall,
           EndWith, calibrationVars, callVars
  <2>2. token.epoch = epoch /\ token.device = known
    BY <2>1 DEF ReturnVerdict, SessionStillHolds, TokenMatches
  <2>3. token.device \in Devices /\ known \in {who, Nothing} /\ IsArea(area[who])
    BY <1>1 DEF CalInv, CallOK, KnownIsWho, CalTypes
  <2>4. known = who /\ token.device = who
    BY <2>2, <2>3 DEF CalibrationAssumptions
  <2>5. Says(verdict, area[who])
    BY <1>1, <2>2 DEF CalInv, ReadIsWho
  <2>6. AreWords(WordsOf(area[who]))
    BY <2>3, AreaHasWords
  <2>7. CASE verdict.words = Nothing /\ ~IsValid(verdict) /\ ~Complete(area[who])
    BY <2>4, <2>7, CalibratedIs
  <2>8. CASE /\ Complete(area[who])
             /\ verdict = DecodeFactoryWords(IdentityOf[token.device], WordsOf(area[who]))
    <3>1. /\ IsValid(verdict) <=> GoodWords(who, WordsOf(area[who]))
          /\ verdict.words = WordsOf(area[who])
      BY <2>4, <2>6, <2>8, DecodedIs
    <3> QED
      BY <2>4, <2>8, <3>1, CalibratedIs
  <2> QED
    BY <2>5, <2>7, <2>8 DEF Says
<1> QED
  BY <1>1, CalibrationInvariant, PTL DEF CalibrationSpec, VerdictIsTrue
-----------------------------------------------------------------------------
(* Whatever restarts go unnoticed, a verdict is one on words that the areas *)
(* gave, word by word and perhaps of several motors; the CRC then has to    *)
(* tell them from the device's own.                                         *)

(* The words of s are such.                                                 *)
GivenByAreas(s) ==
  \A i \in 1 .. Len(s) : \E e \in Devices : WordOk(area[e], i) /\ s[i] = area[e][i].data

OnSevenWords ==
  /\ pc \in {"check", "returned"} /\ Len(words) = 7
  /\ verdict = DecodeFactoryWords(IdentityOf[token.device], words)

MixInv ==
  /\ area \in Contents
  /\ GivenByAreas(words)
  /\ verdict = Nothing \/ (pc \in {"check", "returned"} /\ ~IsValid(verdict)) \/ OnSevenWords

(* The verdict of a read is on what the areas gave, and nothing changes the *)
(* areas.                                                                   *)
LEMMA MixStep ==
  ASSUME CalInv, MixInv, [CalibrationNext]_calibrationVars
  PROVE  MixInv'
<1>m. area \in Contents /\ GivenByAreas(words)
      /\ (verdict = Nothing \/ (pc \in {"check", "returned"} /\ ~IsValid(verdict)) \/ OnSevenWords)
  BY DEF MixInv
<1>a. area' = area
  BY DEF CalibrationNext, PowerOff, PowerOn, ReceiveBootUp, GoOffline, Identify, StartRead,
         ReadHighest, ReadWord, ReturnVerdict, CallFails, CallDone, deviceVars, calibrationVars
<1>e. ASSUME NEW reason, EndWith(reason), reason # <<"Valid">> PROVE MixInv'
  <2>1. pc' = "check" /\ ~IsValid(verdict') /\ words' = words
    BY <1>e DEF EndWith, Missing, IsValid
  <2> QED
    BY <1>m, <1>a, <2>1 DEF MixInv, GivenByAreas
<1>1. CASE \/ PowerOff \/ PowerOn \/ ReceiveBootUp \/ GoOffline \/ Identify
           \/ UNCHANGED calibrationVars
  <2>1. UNCHANGED callVars
    BY <1>1 DEF PowerOff, PowerOn, ReceiveBootUp, GoOffline, Identify, calibrationVars
  <2> QED
    BY <1>m, <1>a, <2>1 DEF callVars, MixInv, GivenByAreas, OnSevenWords
<1>2. CASE StartRead \/ CallFails \/ CallDone
  <2>1. words' = <<>> /\ verdict' = Nothing
    BY <1>2 DEF StartRead, CallFails, CallDone, EndCall
  <2>2. GivenByAreas(words)'
    BY <2>1 DEF GivenByAreas
  <2> QED
    BY <1>m, <1>a, <2>1, <2>2 DEF MixInv
<1>3. CASE ReturnVerdict
  <2>1. pc' = "returned" /\ UNCHANGED <<token, words, verdict>>
    BY <1>3 DEF ReturnVerdict
  <2> QED
    BY <1>m, <1>a, <2>1 DEF MixInv, GivenByAreas, OnSevenWords
<1>4. CASE ReadHighest
  <2>1. CASE UNCHANGED <<words, verdict>>
    <3>1. verdict = Nothing
      BY <1>m, <1>4 DEF ReadHighest, OnSevenWords
    <3> QED
      BY <1>m, <1>a, <2>1, <3>1 DEF MixInv, GivenByAreas
  <2>2. CASE EndWith(<<"ObjectAbsent">>) \/ EndWith(<<"WrongLength", 0>>)
             \/ EndWith(<<"TooFewSubIndices">>)
    BY <1>e, <2>2
  <2> QED
    BY <1>4, <2>1, <2>2 DEF ReadHighest
<1>5. CASE ReadWord
  <2> DEFINE n == Len(words) + 1
             a == area[who]
  <2>0. pc = "words" /\ WordCount = 7 /\ n \in 1 .. 7 /\ Len(words) = n - 1
        /\ words \in Seq(U32s) /\ who \in Devices
    BY <1>5, LenProperties DEF ReadWord, CalInv, CalTypes, CallOK, WordCount
  <2>1. CASE EndWith(<<"SubIndexAbsent", n>>) \/ EndWith(<<"WrongLength", n>>)
    BY <1>e, <2>1
  <2>2. CASE /\ a[n].found /\ a[n].len = 4
             /\ words' = Append(words, a[n].data)
             /\ IF n < WordCount THEN UNCHANGED <<pc, verdict>>
                ELSE /\ pc' = "check"
                     /\ verdict' = DecodeFactoryWords(IdentityOf[token.device], words')
    <3>1. IsArea(a) /\ a[n].data \in U32s
      BY <2>0, AreaHasWords DEF CalInv, CalTypes, U32s, IsU32
    <3>2. /\ Len(words') = n /\ words'[n] = a[n].data
          /\ \A i \in 1 .. n - 1 : words'[i] = words[i]
      BY <2>0, <2>2, <3>1, AppendProperties
    <3>3. GivenByAreas(words)'
      <4> SUFFICES ASSUME NEW i \in 1 .. n
                   PROVE  \E e \in Devices : WordOk(area[e], i) /\ words'[i] = area[e][i].data
        BY <1>a, <3>2 DEF GivenByAreas
      <4>1. CASE i = n
        BY <2>0, <2>2, <3>2, <4>1 DEF WordOk
      <4>2. CASE i # n
        BY <1>m, <2>0, <3>2, <4>2 DEF GivenByAreas
      <4> QED
        BY <4>1, <4>2
    <3>4. CASE n < WordCount
      <4>1. verdict' = Nothing
        BY <1>m, <2>0, <2>2, <3>4 DEF OnSevenWords
      <4> QED
        BY <1>m, <1>a, <3>3, <4>1 DEF MixInv
    <3>5. CASE ~(n < WordCount)
      <4>1. pc' = "check" /\ Len(words') = 7 /\ token' = token
            /\ verdict' = DecodeFactoryWords(IdentityOf[token.device], words')
        BY <1>5, <2>0, <2>2, <3>2, <3>5 DEF ReadWord
      <4> QED
        BY <1>m, <1>a, <3>3, <4>1 DEF MixInv, OnSevenWords
    <3> QED
      BY <3>4, <3>5
  <2> QED
    BY <1>5, <2>1, <2>2 DEF ReadWord, Answer
<1> QED
  BY <1>1, <1>2, <1>3, <1>4, <1>5 DEF CalibrationNext

(* Words that the areas gave are a mixture.                                 *)
LEMMA GivenIsMixture ==
  ASSUME area \in Contents, words \in Seq(U32s), Len(words) = 7, GivenByAreas(words)
  PROVE  words \in Mixtures
<1> DEFINE From(i, e) == WordOk(area[e], i) /\ words[i] = area[e][i].data
           turn == [i \in 1 .. WordCount |-> CHOOSE e \in Devices : From(i, e)]
<1>1. \A i \in 1 .. WordCount : \E e \in Devices : From(i, e)
  BY DEF GivenByAreas, WordCount
<1>2. \A i \in 1 .. WordCount : turn[i] \in Devices /\ From(i, turn[i])
  BY <1>1
<1>3. turn \in [1 .. WordCount -> Devices]
  BY <1>2
<1>4. words = [i \in 1 .. WordCount |-> area[turn[i]][i].data]
  <2>1. words = [i \in 1 .. 7 |-> words[i]]
    OBVIOUS
  <2> QED
    BY <1>2, <2>1, Zenon DEF WordCount
<1> HIDE DEF turn
<1> DEFINE mix == <<area, turn>>
<1>5. /\ mix \in Contents \X [1 .. WordCount -> Devices]
      /\ mix[1] = area /\ mix[2] = turn
  BY <1>3
<1> HIDE DEF mix
<1> QED
  BY <1>2, <1>4, <1>5, Zenon DEF Mixtures

(* A verdict Valid is only given on a mixture of what the motors hold that  *)
(* carries the CRC of the motor it is for, for any contents and any swaps   *)
(* during the read.                                                         *)
THEOREM VerdictOnMixture ==
  CalibrationSpec =>
    [](verdict # Nothing /\ IsValid(verdict) =>
         /\ token.device \in Devices
         /\ verdict.words \in Mixtures
         /\ GoodWords(token.device, verdict.words))
<1>1. CalibrationInit => MixInv
  BY DEF CalibrationInit, MixInv, GivenByAreas
<1>2. CalInv /\ MixInv /\ [CalibrationNext]_calibrationVars => MixInv'
  BY MixStep
<1>3. ASSUME CalInv, MixInv, verdict # Nothing, IsValid(verdict)
      PROVE  /\ token.device \in Devices
             /\ verdict.words \in Mixtures
             /\ GoodWords(token.device, verdict.words)
  <2>1. area \in Contents /\ GivenByAreas(words) /\ OnSevenWords
    BY <1>3 DEF MixInv
  <2>2. token.device \in Devices /\ words \in Seq(U32s) /\ Len(words) = 7
    BY <1>3, <2>1 DEF CalInv, CallOK, CalTypes, OnSevenWords
  <2>3. AreWords(words)
    <3>1. \A i \in 1 .. 7 : words[i] \in U32s
      BY <2>2, ElementOfSeq, Zenon
    <3> QED
      BY <3>1 DEF AreWords, U32s, IsU32
  <2>4. GoodWords(token.device, words) /\ verdict.words = words
    BY <1>3, <2>1, <2>3, DecodedIs DEF OnSevenWords
  <2> QED
    BY <2>1, <2>2, <2>4, GivenIsMixture
<1> QED
  BY <1>1, <1>2, <1>3, CalibrationInvariant, PTL DEF CalibrationSpec

(* A calibration that is accepted was issued for the motor it is reported   *)
(* for, even while a swap is still unnoticed, if the sixteen bits of the    *)
(* CRC tell the motors' own words from mixtures of them.                    *)
THEOREM ValidIssued ==
  ASSUME CodesTellApart
  PROVE  CalibrationSpec => []ValidIsIssued
<1>1. ASSUME NEW d \in Devices, NEW w \in Mixtures, GoodWords(d, w)
      PROVE  \E a \in Areas[d] : w = WordsOf(a) /\ Calibrated(a, d)
  <2>1. Lo(w[1]) = FactoryCrc16(IdentityOf[d], w)
    <3>1. w[1] = <<FactoryCrc16(IdentityOf[d], w), ManifestUpperV1>>
      BY <1>1, Zenon DEF GoodWords
    <3> QED
      BY <3>1 DEF Lo
  <2>2. PICK a \in Areas[d] : Complete(a) /\ w = WordsOf(a)
    BY <2>1, CodesTellApart, Zenon DEF CodesTellApart
  <2>3. Calibrated(a, d)
    BY <1>1, <2>2, CalibratedIs
  <2> QED
    BY <2>2, <2>3
<1>2. ASSUME verdict # Nothing /\ IsValid(verdict) =>
               /\ token.device \in Devices
               /\ verdict.words \in Mixtures
               /\ GoodWords(token.device, verdict.words)
      PROVE  ValidIsIssued
  BY <1>1, <1>2 DEF ValidIsIssued
<1> QED
  BY <1>2, VerdictOnMixture, PTL
=============================================================================
