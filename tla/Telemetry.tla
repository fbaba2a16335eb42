----------------------------- MODULE Telemetry ------------------------------
(***************************************************************************)
(* From a turning motor to the host's continuous position and velocity.    *)
(* The motor samples a wrapping position with a wrapping timestamp into    *)
(* TPDO1 frames, some frames are lost and some are handled late, and the   *)
(* manager the motor belongs to unwraps what arrives:                      *)
(*   - Meow (src/meow_motor/listener.rs, entry.rs) accumulates a wide      *)
(*     position in numbered segments and starts a new one after a gap;     *)
(*   - Cia402 (src/cia402/tpdo_listener.rs, velocity.rs) keeps a window of *)
(*     samples for a least-squares slope and restarts it after a gap.      *)
(* A new session and an initialization reset the telemetry while frames    *)
(* may still be under way, the Meow listener drops the entry's lock        *)
(* between accepting a frame and applying it, and the motor may restart    *)
(* without the host hearing of it.                                         *)
(*                                                                         *)
(* Of the lifecycle only the identity is kept, which the Meow listener     *)
(* looks at; initialize may begin whenever there is one.  Time is in       *)
(* ticks, position in units of the distance of one tick.                   *)
(***************************************************************************)
EXTENDS Integers, Sequences

CONSTANTS
  Circle,        \* the Meow position wraps at: 256 rev in Q8.24
  Turn,          \* the Cia402 position wraps at: one turn
  StampMod,      \* the Meow timestamp wraps at: 2^16 us
  ClockMod,      \* the Cia402 timestamp wraps at: 2^32 us
  GapLimit,      \* Meow frames further apart start anew: 50 ms
  Discontinuity, \* Cia402 frames further apart start anew: 0.5 s
  Window,        \* the velocity window
  Moves,         \* what the motor may move in a tick
  Homes,         \* where it may find itself when it boots
  BootTime,      \* ticks from its reset to its next frame, at least
  MaxDelay,      \* bound: ticks from sending a frame to handling it
  WireCapacity,  \* bound: frames under way
  MaxTime,       \* bound: ticks
  MaxInits,      \* bound: initializations
  MaxSessions,   \* bound: sessions ended
  MaxBoots,      \* bound: restarts of the motor
  None

\* A Meow motor takes longer than the gap limit to turn by half its range of
\* 256 turns (fixed.rs, Q8.24), and to boot and be started again.  A Cia402
\* motor has a range of one turn and no limit on its speed.
ASSUME SlowEnough == 2 * (GapLimit + MaxDelay) < Circle
ASSUME BootTakesLonger == BootTime > GapLimit + MaxDelay
ASSUME StampsWrap == StampMod > GapLimit /\ ClockMod > Discontinuity
ASSUME TelemetryBounds ==
  /\ {Circle, Turn, StampMod, ClockMod, GapLimit, Discontinuity, Window, BootTime,
      WireCapacity, MaxTime} \subseteq Nat \ {0}
  /\ {MaxDelay, MaxInits, MaxSessions, MaxBoots} \subseteq Nat
  /\ Moves \subseteq -1..1
  /\ Homes \subseteq Int
ASSUME NoneIsNoNumber == None \notin Int

VARIABLES
  \* the motor
  now,         \* ticks
  clock,       \* its own ticks since it booted, never wrapped
  shaft,       \* its position in its own frame, never wrapped
  operational, \* it sends PDOs
  ready,       \* from this tick on it has booted
  boots,       \* restarts
  sent,        \* the tick of its last frame
  \* the bus
  wire,        \* frames under way
  \* the host
  family,      \* "meow" or "cia402"
  identified,  \* the session has an identity, and the Meow settings
  sessions,    \* sessions ended
  inits,       \* initializations begun
  held,        \* a frame accepted and not yet applied
  meow,        \* MotorEntryInner: accumulation
  est,         \* VelocityEstimator
  \* history
  offsets      \* <<sessions, initializations, segment, accumulated - shaft>>,
               \* of the segment number last seen

motorVars == <<now, clock, shaft, operational, ready, boots, sent>>
hostVars == <<family, identified, sessions, inits, held, meow, est, offsets>>
telemetryVars == <<motorVars, wire, hostVars>>

-----------------------------------------------------------------------------
(* Wrapping arithmetic.                                                    *)

\* The representative of x in -range/2 .. range/2 - 1: what a position of
\* Q8.24, or of a single turn, holds.
Signed(x, range) == ((x + range \div 2) % range) - range \div 2

\* SignedQ8_24::wrapping_delta
WrappingDelta(a, b) == Signed(a - b, Circle)

\* VelocityEstimator::update: more than half a turn is taken for the complement.
TurnDelta(a, b) ==
  (a - b) + IF 2 * (a - b) > Turn THEN -Turn ELSE IF 2 * (a - b) < -Turn THEN Turn ELSE 0

\* u16::wrapping_sub and u32::wrapping_sub
StampDelta(a, b) == (a - b) % StampMod
ClockDelta(a, b) == (a - b) % ClockMod

-----------------------------------------------------------------------------
NoTelemetry ==
  [lastAt |-> None, lastRaw |-> None, lastStamp |-> None, baseline |-> FALSE,
   segment |-> 0, accumulated |-> None, valid |-> FALSE]

NoEstimate == [lastRaw |-> None, lastStamp |-> None, time |-> 0, position |-> 0, samples |-> <<>>]

TelemetryInit ==
  /\ now = 0 /\ clock = 0 /\ shaft = 0
  /\ operational = FALSE
  /\ ready = 0 /\ boots = 0
  /\ sent = None
  /\ wire = <<>>
  /\ family \in {"meow", "cia402"}
  /\ identified = FALSE
  /\ sessions = 0 /\ inits = 0
  /\ held = None
  /\ meow = NoTelemetry
  /\ est = NoEstimate
  /\ offsets = {}

-----------------------------------------------------------------------------
(* The motor and the bus (external).                                       *)

\* What the motor samples; its bytes hold the wrapped position and clock.
\* "sentAt" and "boot" are history.
Frame == [at |-> shaft, stamp |-> clock, sentAt |-> now, boot |-> boots]

\* A tick passes, the motor moves or rests, and no frame outlives MaxDelay.
Tick ==
  /\ now < MaxTime
  /\ \A i \in DOMAIN wire : now - wire[i].sentAt < MaxDelay
  /\ held # None => now - held.frame.sentAt < MaxDelay
  /\ now' = now + 1
  /\ clock' = clock + 1
  /\ \E move \in Moves : shaft' = shaft + move
  /\ UNCHANGED <<operational, ready, boots, sent, wire, hostVars>>

\* One frame at most per tick; a lost frame is one that was never sent.
SendTpdo1 ==
  /\ operational
  /\ Len(wire) < WireCapacity
  /\ sent # now
  /\ sent' = now
  /\ wire' = Append(wire, Frame)
  /\ UNCHANGED <<now, clock, shaft, operational, ready, boots, hostVars>>

\* A master of the bus starts the node or takes it back, or the node itself
\* leaves Operational.
SwitchNmt ==
  /\ now >= ready
  /\ operational' = ~operational
  /\ UNCHANGED <<now, clock, shaft, ready, boots, sent, wire, hostVars>>

\* Its clock starts again, and its position where it finds itself.
Reboot ==
  /\ boots < MaxBoots
  /\ boots' = boots + 1
  /\ operational' = FALSE
  /\ ready' = now + BootTime
  /\ clock' = 0
  /\ shaft' \in {shaft} \cup Homes
  /\ UNCHANGED <<now, sent, wire, hostVars>>

-----------------------------------------------------------------------------
(* Sessions and initialization.                                            *)

\* The host hears a Boot-Up, or nothing for too long; a Boot-Up that is lost
\* is a Reboot without this.
EndSession ==
  /\ sessions < MaxSessions
  /\ sessions' = sessions + 1
  /\ identified' = FALSE
  /\ meow' = NoTelemetry
  /\ est' = NoEstimate
  /\ UNCHANGED <<motorVars, wire, family, inits, held, offsets>>

\* The identity is all the Meow listener asks for before it accumulates.
IdentifyMotor ==
  /\ ~identified
  /\ identified' = TRUE
  /\ UNCHANGED <<motorVars, wire, family, sessions, inits, held, meow, est, offsets>>

BeginInitialize ==
  /\ identified
  /\ inits < MaxInits
  /\ inits' = inits + 1
  /\ meow' = NoTelemetry
  /\ est' = NoEstimate
  /\ UNCHANGED <<motorVars, wire, family, identified, sessions, held, offsets>>

-----------------------------------------------------------------------------
(* Meow: the listener and MotorEntryInner::apply_tpdo1.                    *)

\* The frame passes the kind and model check; the lock is dropped after it.
\* The host's clock is read here.
AcceptFrame ==
  /\ family = "meow"
  /\ identified
  /\ held = None
  /\ wire # <<>>
  /\ held' = [frame |-> Head(wire), at |-> now]
  /\ wire' = Tail(wire)
  /\ UNCHANGED <<motorVars, family, identified, sessions, inits, meow, est, offsets>>

\* Mutant: only the motor's own clock is looked at.
StampGapOnly(stamp, at) ==
  meow.lastRaw # None /\ StampDelta(stamp, meow.lastStamp) \notin 1..GapLimit

\* The frame is too far from the last one, by the host's or the motor's clock.
Invalidates(stamp, at) ==
  /\ meow.lastRaw # None
  /\ \/ meow.lastAt # None /\ at - meow.lastAt > GapLimit
     \/ StampDelta(stamp, meow.lastStamp) \notin 1..GapLimit

\* The gap ends the segment; the next frame starts from its own position.
NextSegment(frame) ==
  [segment |-> meow.segment + 1, accumulated |-> None, valid |-> FALSE, baseline |-> TRUE]

FromHere(frame) ==
  [segment |-> meow.segment, accumulated |-> Signed(frame.at, Circle),
   valid |-> TRUE, baseline |-> FALSE]

Accumulate(frame) ==
  [segment |-> meow.segment,
   accumulated |-> meow.accumulated + WrappingDelta(Signed(frame.at, Circle), meow.lastRaw),
   valid |-> TRUE, baseline |-> FALSE]

Accumulation(frame, at) ==
  IF Invalidates(frame.stamp, at) THEN NextSegment(frame)
  ELSE IF meow.baseline \/ meow.lastRaw = None \/ meow.accumulated = None THEN FromHere(frame)
  ELSE Accumulate(frame)

ApplyTpdo1 ==
  /\ held # None
  /\ LET frame == held.frame
         next == Accumulation(frame, held.at)
     IN /\ meow' = [lastAt |-> held.at, lastRaw |-> Signed(frame.at, Circle),
                    lastStamp |-> frame.stamp % StampMod,
                    baseline |-> next.baseline, segment |-> next.segment,
                    accumulated |-> next.accumulated, valid |-> next.valid]
        /\ offsets' = {o \in offsets : o[3] = next.segment} \cup
             IF next.valid
             THEN {<<sessions, inits, next.segment, next.accumulated - frame.at>>} ELSE {}
  /\ held' = None
  /\ UNCHANGED <<motorVars, wire, family, identified, sessions, inits, est>>

-----------------------------------------------------------------------------
(* Cia402: VelocityEstimator::update.                                      *)

\* A point of the fit.  "sentAt", "at" and "boot" are history: when and where
\* the motor really was.
Point(time, position, frame) ==
  [time |-> time, position |-> position,
   sentAt |-> frame.sentAt, at |-> frame.at, boot |-> frame.boot]

Baseline(time, position, samples, frame) ==
  [lastRaw |-> Signed(frame.at, Turn), lastStamp |-> frame.stamp % ClockMod,
   time |-> time, position |-> position, samples |-> samples]

\* Mutant: the window survives the reset.
KeepWindow(frame) == Baseline(0, 0, Append(est.samples, Point(0, 0, frame)), frame)

\* The frame is the new baseline.
ResetTo(frame) == Baseline(0, 0, <<Point(0, 0, frame)>>, frame)

\* Samples before the window go, but two stay.
InWindow(samples, time) ==
  LET first == CHOOSE i \in 1..Len(samples) :
                 /\ i = Len(samples) - 1 \/ samples[i].time >= time - Window
                 /\ \A j \in 1..(i - 1) : samples[j].time < time - Window
  IN IF Len(samples) <= 2 THEN samples ELSE SubSeq(samples, first, Len(samples))

Extend(frame) ==
  LET time == est.time + ClockDelta(frame.stamp, est.lastStamp)
      position == est.position + TurnDelta(Signed(frame.at, Turn), est.lastRaw)
      samples == Append(est.samples, Point(time, position, frame))
  IN Baseline(time, position, InWindow(samples, time), frame)

Update(frame) ==
  IF est.lastRaw # None /\ ClockDelta(frame.stamp, est.lastStamp) \in 1..Discontinuity
  THEN Extend(frame) ELSE ResetTo(frame)

\* The listener holds the lock from the update to the published state.
HandleTpdo1 ==
  /\ family = "cia402"
  /\ wire # <<>>
  /\ est' = Update(Head(wire))
  /\ wire' = Tail(wire)
  /\ UNCHANGED <<motorVars, family, identified, sessions, inits, held, meow, offsets>>

\* The bound on time is reached and nothing is left to handle.
Finished ==
  /\ now = MaxTime /\ wire = <<>> /\ held = None
  /\ UNCHANGED telemetryVars

TelemetryNext ==
  \/ Tick \/ SendTpdo1 \/ SwitchNmt \/ Reboot
  \/ EndSession \/ IdentifyMotor \/ BeginInitialize
  \/ AcceptFrame \/ ApplyTpdo1 \/ HandleTpdo1
  \/ Finished

TelemetrySpec == TelemetryInit /\ [][TelemetryNext]_telemetryVars

-----------------------------------------------------------------------------
(* Properties.                                                             *)

\* While a Meow consumer sees the same session, the same initialization and
\* the same segment, the accumulated position follows the motor exactly: it
\* differs from the motor's own position by one constant.  Lost frames, late
\* frames, aliased timestamps, a frame of the session before that is applied in
\* this one, and a restart the host did not hear of are included.
AccumulationIsTrue ==
  \A a, b \in offsets : a[1] = b[1] /\ a[2] = b[2] /\ a[3] = b[3] => a[4] = b[4]

\* What the field's documentation promises: the segment number changes with
\* every gap, so that a consumer who compares only it and the position never
\* joins two pieces that do not belong together.
SegmentTellsGap ==
  \A a, b \in offsets : a[3] = b[3] => a[4] = b[4]

\* What update takes for granted of two frames that follow each other: between
\* them the motor did not restart, its clock did not go round, and it turned
\* less than half a turn.
Tracked(a, b) ==
  /\ a.boot = b.boot
  /\ b.sentAt - a.sentAt < ClockMod
  /\ 2 * (b.at - a.at) < Turn /\ 2 * (a.at - b.at) < Turn

\* The points the Cia402 slope is fitted to advance in time and are where the
\* motor's shaft was up to whole turns, whatever was lost between them.  Between
\* two of them the times and the positions differ by exactly what the motor's
\* clock and shaft did, if every frame in between was tracked: a step that was
\* not is the only error, and it leaves the window with its frame.
VelocitySamplesTrue ==
  \A i, j \in DOMAIN est.samples :
    LET a == est.samples[i]
        b == est.samples[j]
    IN i < j =>
         /\ b.time > a.time
         /\ ((b.position - a.position) - (b.at - a.at)) % Turn = 0
         /\ (\A k \in i..(j - 1) : Tracked(est.samples[k], est.samples[k + 1])) =>
              /\ b.time - a.time = b.sentAt - a.sentAt
              /\ b.position - a.position = b.at - a.at
=============================================================================
