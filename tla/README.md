# TLA+ models of hex-motor

hex-motor is a Rust host library for CANopen motors. It has two halves that
share one CAN bus: `cia402` drives standard CiA402 servo drives, `meow_motor`
drives HexMeow motors with their own object dictionary. This directory holds
TLA+ specifications of it, the TLC configurations that check them, and TLAPS
proofs.

To check: `tlc -workers 2 -config <cfg> <module>` for each run of
`PROJECT.json`, and `tlapm` on each `*Proofs.tla`.

Contents: [1 Inventory](#1-inventory) · [2 Modules](#2-modules-and-the-code) ·
[3 Runs](#3-runs) · [4 Proofs](#4-proofs) ·
[5 Disagreements](#5-where-code-and-documentation-disagree) ·
[6 Not modelled](#6-what-is-not-modelled) · [7 Plan](#7-plan)

## 1 Inventory

Paths are relative to `src/src/`. The program is an async library on tokio:
background tasks are spawned by the manager, user calls are futures that the
caller may drop at any await. A critical section is the span between locking an
entry's `inner` mutex and the unlock; no lock is held across an await.

### Components of the CiA402 half

| component | code | state it keeps | operations |
|---|---|---|---|
| Motor entry | `cia402/motor_entry.rs` | `session_epoch`, `nmt_revision`, `bootup_revision`, `tpdo2_revision`, identity, CAN configuration, lifecycle, online, NMT state, logic, target mode, runtime constants, measurements; snapshot and subscribers | `publish`, `add_subscriber` |
| Discovery | `cia402/discovery.rs` 31–322 | none of its own | a heartbeat or Boot-Up frame updates the entry, may begin a new session, may start one background identification |
| Liveness monitor | `cia402/discovery.rs` 333–410 | none | takes a silent node offline, which begins a new session |
| TPDO listener | `cia402/tpdo_listener.rs` | warn limiter | decodes TPDO1 and TPDO2, derives `logic`, moves the TPDO2 fence |
| Identification | `cia402/device_can.rs`, `manager.rs` 1020–1087 | locals of the call | reads 0x1018, gates, caches under the session it began in, reads the CAN configuration |
| Initialization | `cia402/initialize.rs`, `manager.rs` 379–504 | locals, rollback guard | PDO recipe, constants, NMT start, clear-and-verify loop, one Reset Communication, commit |
| Revision gate | `cia402/known_devices.rs` | a table | `check_revision` |
| Mode control | `manager.rs` 546–627, 934–946, 1440–1480, 1611–1655, `sequences.rs`, `codec.rs` | `target_mode`, `inflight_ops` | `set_mode` with pre-enable guard, `set_target`, `disable`, `clear_error`, `set_max_torque` |
| Status distribution | `subscribe.rs`, `motor_entry.rs` 125–163, `manager.rs` 956–994 | snapshot, subscriber list, bounded channels | `publish`, `status`, `subscribe_status`, `recv`, drop |
| Events | `events.rs` | tokio broadcast channel | sent after unlock by every task |
| Device settings, node id change | `device_can.rs`, `manager.rs` 639–725 | session token, write plan | validated, session-checked write plans, collision probe, cached result |
| Position preset and read | `manager.rs` 741–860 | locals | preset only in Switch On Disabled |
| PDO profile | `pdo_profile.rs`, `manager.rs` 261–319 | frozen profile | freeze once, used by initialize and listener |
| Node table | `manager.rs` 729–734 | map of entries | create on first heartbeat, `forget_offline` |
| Compressed MIT | `compressed_mit.rs` | scaling | configuration, packing to 8 bytes |
| Velocity estimator | `velocity.rs` | window of samples | unwrap, regression |
| CANopen primitives | `canopen/*.rs` | none | COB ids, NMT frames, TPDO and RPDO write plans |

### Components of the Meow half

| component | code (`meow_motor/`) | state it keeps | operations |
|---|---|---|---|
| Motor entry | `entry.rs` | `session_epoch`, `identify_attempted`, generations of heartbeat, TPDO1 and TPDO2, identity and model, CAN settings, lifecycle, logic, constants, accumulated position | `invalidate_session`, `reset_telemetry`, `apply_tpdo1` |
| Discovery and monitor | `discovery.rs` | none | heartbeat handling, automatic identification that is retried, offline edge, stale telemetry |
| Listener | `listener.rs` | none | TPDO frames of exact motors with known settings |
| Session operations | `manager.rs` | `OperationRegistry`, identity tokens | `identify`, `initialize_with_options`, `apply_can_settings`, `read_can_settings` |
| Drive operations | `manager.rs`, `commands.rs` | locals | `set_mode`, `set_target`, limits, `disable`, `clear_error` |
| PDO recipes | `pdo.rs`, `manager.rs` | the motor's PDOs | match, write, read back |
| Factory calibration | `calibration.rs`, `manager.rs` | none | word-by-word read, CRC and half-precision checks |
| Conversions | `fixed.rs`, `codec.rs`, `settings.rs` | none | Q8.24, TPDO layout, 0x2001 layout |

The Meow half repeats the session idea with other fences: a token of session
and exact identity instead of a session epoch alone, a heartbeat generation
instead of a Boot-Up revision, `Notify` instead of polling, an identification
that is retried on the next heartbeat, an `initialize` without a rollback
guard, and a `NeedsRestart` lifecycle after CAN settings.

### How components interact

* Shared state: every task writes the entries under their mutex. Discovery,
  monitor and listener never wait; calls hold a node in `inflight_ops`
  (`InflightGuard`) so that at most one SDO operation runs per node. Background
  tasks do not respect that exclusion: they change the entry under a running
  call at every await.
* Fences: a call captures `session_epoch` and revisions before an await and
  compares them after it, because the entry may have moved on.
* Messages: SDO request and answer with the device, heartbeat and TPDO frames
  from it, status items and events to users.

### What is hard, and what makes each component correct

* Sessions. A reboot or an offline edge in the middle of any call, a device
  swapped for another one under the same node id, an answer that arrives for a
  session that is over. Correct: what the entry claims (identity, CAN
  configuration, constants, Initialized) is about the device that answers now.
* Identification. Automatic identification is neither repeated without need nor
  lost because the node was busy; Identified only after the configuration
  settled.
* Initialization. Rollback at every exit, also when the future is dropped;
  commit only with the session, connection and NMT state still as required;
  Reset Communication at most once and only when earned.
* Control. The cached mode and the mode of the drive agree; success belongs to
  the session of the call; a refused guard or a failed command leaves the drive
  off; a command object that acts on changes gets changes.
* Settings. Ok means stored, whatever an earlier attempt left half-done; no two
  devices on one node id; the position preset finds a stopped motor.
* PDOs. No enabled PDO is half of one recipe and half of another; "already
  matches" means the whole recipe.
* Status and telemetry. Publishers overtake each other after the unlock; a full
  channel may lose states, but must report each loss once, in its place. What is
  accumulated over wrapping clocks and positions is the real displacement.
* Node table. An entry that was forgotten is not the one that commits.

`PROJECT.json` lists every hazard at its line with the properties that cover it, or
a note that says why none does.

## 2 Modules and the code

| module | models | extends, instantiates |
|---|---|---|
| `NodeLifecycle` | the lifecycle of a node that both halves promise, as an abstract specification | |
| `Cia402Session` | one CiA402 node: discovery, monitor, listener, identify, initialize, recovery reset | implements `NodeLifecycle` |
| `MeowSession` | one Meow node: the same for the other half, and its settings calls | implements `NodeLifecycle` |
| `ModeControl` | CiA402 control calls against a drive | |
| `MeowDrive` | Meow control calls against a drive whose command object acts on changes | |
| `StatusStream` | publish, snapshot, bounded stream | |
| `DeviceSettings` | CAN settings, node id change, position preset | |
| `NodeTable` | the table of entries, the exclusion per node id, the frozen profile | |
| `Frames` | COB-IDs, NMT and heartbeat frames, which task takes a frame | |
| `PdoRecipes` | PDO recipes, the writes they compile to, the objects a match reads | `Frames` |
| `PdoConfig` | recipes and compressed MIT written into one motor by both halves | `PdoRecipes` |
| `Telemetry` | accumulation and velocity window over wrapping samples | |
| `FactoryCalibration` | the read of the factory area and its decoder | |

`MC*` modules instantiate them for TLC; `*Proofs` hold theorems (`ReadingsProofs`
those about `StatusStream`, `Telemetry` and `FactoryCalibration`, of which the
last two name their specifications `TelemetrySpec` and `CalibrationSpec`). The modules
are separate where one state space would be out of TLC's reach. Each takes from
the others only what its own header says: for instance `PdoConfig` lets a
session be ready for initialization as soon as a reboot is noticed, and
`ModeControl` lets the lifecycle move as `Cia402Session` allows.

Within each module operators that only mutations use stand next to the
definition they would replace and are commented "Mutant".

### NodeLifecycle

Session number, stage, identity, and the identity that the attempt under way
was begun for. A new session forgets everything; `Learn` identifies; only
`Begin` and `Finish` of one attempt, in one session and with one identity, lead
to Initialized; `Fail` takes a stage back, `Abandon` leaves it behind (the Meow
half, whose dropped future undoes nothing), `Leave` and `Retire` end service.
The refinement mapping takes `session_epoch`, `lifecycle` and `identity` as they
are; the attempt is `runIdentity` in `Cia402Session` and `AttemptedIdentity` in
`MeowSession`.

### Cia402Session

One entry, the three background tasks, the exclusive SDO operations `identify`
and `initialize`, the device, and the heartbeat frames on their way. Every
critical section is an action, and what follows the unlock is another one, so
that all other tasks and the device interleave exactly where they can in the
code:

| code | actions |
|---|---|
| `handle_inbound_hb`: critical section / `spawn_identify_if_idle` / mark after spawn | `ReceiveHeartbeat` / `SpawnIdentify`, `NodeBusy` / `MarkAttempted` |
| `run_liveness_monitor` | `GoOffline` |
| `handle_frame` of the listener | `ReceiveTpdo1`, `ReceiveTpdo2` |
| `identify` and the background identification | `CallIdentify`, `ReadIdentity`, `BeginConfigRead`, `FinishConfigRead`, `AnnounceIdentified`, `AutoIdentifyFails`, `AutoIdentifyDiscarded` |
| `run_initialize` | `CallInitialize`, `StartRun`, `WaitPreOp`, `ConfigureTpdo1`, `ConfigureTpdo2`, `ReadConstant`, `StoreConstant`, `SendStart`, `WaitOperational`, `Disarm`, the clear-and-verify loop with `Verify`, `ConfirmTpdo2`, `Escalate`, `Commit` |
| recovery in `Cia402Manager::initialize` | `PrepareReset`, `SendReset`, `AwaitBootUp`, then re-identification and a second run |
| error returns, deadlines, a dropped future | `CallAborts`, with the rollback of `LifecycleRollback` |

The device boots, is powered off and swapped (`PowerOn` picks any device),
changes NMT state on its own, emits heartbeats; with `Lossy` frames vanish.
`missed` is history: a Boot-Up was lost since the host's session began. A
physical device is a model value, and what was read from it *is* that value, so
"the identity is that of the device on the bus" is `identity = who`.

Abstractions: a revision counter is only ever compared with the value one
waiter captured, so the model keeps whether it has moved (`nmtMoved`,
`bootMoved`, `cleanTpdo2`). `configured` is the set of setup parts the device
holds since its last boot. Deadlines are nondeterministic: every wait may fail
at any moment.

### StatusStream

`publish` from several tasks, `status()`'s snapshot and one subscriber. A
LiveState is the number of the change it was built from. Publishing is a step
to replace the snapshot and one or two inside the locked list (`FanOutLagged`,
`FanOutSample`): the two `try_send`s of one `push` are separate steps, the user
may receive or drop the stream between them. Items carry the range of pushes
they stand for, which the properties use and the code does not see.

### ModeControl

`set_mode`, `set_target`, `disable`, `clear_error` and what `initialize` does
to the state they use. `set_mode` is the fault check, the caching of
`target_mode` under another lock, the write sequence of
`build_set_mode_writes` write by write with the guard before the last one, and
`wait_for_mode`. Frames of TPDO2 are decoded with the mode cached when they
arrive. The drive samples the *latest* control word at its own pace
(`initialize.rs` explains that with FAULT_RESET_SETTLE), may fault with the
error code showing before the state, and may reboot. The drive is not under
`src/` and marked external in the map.

The module is separate from `Cia402Session` to keep both within TLC's reach. It
takes from it only that the lifecycle moves between its values as its actions
`Identify`, `StartInitialize`, `FinishInitialize`, `LeaveOperational`,
`ReceiveBootUp`, `GoOffline` say. Decoding of status words distinguishes Fault,
Operation Enabled and the rest, as `status_word_to_logic` does.

### MeowSession

| code | actions |
|---|---|
| `handle_heartbeat`, spawn or busy | `ReceiveHeartbeat`, `SpawnIdentify`, `NodeBusy` |
| `run_liveness_monitor` | `GoOffline`, `TelemetryStale` |
| `handle_frame` of the listener | `ReceiveTpdo1`, `ReceiveTpdo2` |
| `identify_and_cache`, background identification | `CallIdentify`, `ReadIdentity`, `CacheIdentity`, `CacheSettings`, `AutoIdentifyFails`, `AutoIdentifyEnds` |
| `initialize_with_options`, `run_initialize` | `CallInitialize`, `StartInitialize`, `VerifyOnWire`, `SendPreOp`, `PreOpConfirmed`, `StopMotor`, `ConfigureTpdo1` … `ConfigureConsumer`, `ReadConstant`, `CheckConstant`, `StoreConstant`, `SendStart`, `OperationalConfirmed`, `FeedbackArrived`, `Commit`, `InitializeFails` |
| `apply_can_settings`, `read_can_settings` | `CallSettings`, `ProbeAndVerify` … `StoreSettings`; `CallRead` … `StoreRead` |
| an error of another call, a dropped future | `CallEnds` |

A token check and the store that follows it are separate actions where the code
takes the lock twice (`CheckConstant`/`StoreConstant`, `CheckSaved`/
`StoreSettings`), and one where it takes it once.

A Boot-Up may be lost when the motor comes up (`PowerOn`, with `missed` as in
`Cia402Session`). Losing another heartbeat would only mean that discovery takes
the next one, so the model has no step for it.

`Options` names the optional parts of `MeowInitializeOptions`
(`shared_host_pdo`, `configure_consumer_heartbeat`). The code takes them per
call; the model fixes them for a behaviour. The run has neither, which keeps its
liveness check small, and passes their two steps over; the proofs hold for every
choice, also of the consumer heartbeat, which is written without a look at the
token.

### MeowDrive

`set_mode`, `set_target`, the limit setters, `disable`, `clear_error` and the
drive part of initialize, object by object. 0x4401 (`reg`) is obeyed only when
its value changes (`Obey`), so that a retry has to write something else first
(`NeedsRearm`, `Rearm`, `Pulse`). A write may fail after the motor obeyed it.
Confirmation comes from a queue of TPDO2 frames or by polling 0x4402. `torn` is
history: the modes whose half-written target the host could not stop.

### DeviceSettings

`apply_device_settings`, `change_node_id` and `set_position_preset_for` as their
steps between awaits: verify identity, read, probe the wanted id, build the
plan of the dialect, write field by field with the session check, cache; or
disable, poll, command. 0x2001 motors keep fields in RAM until 0x1010, 0x2100
boxes write through a little later (`PersistLater`). The device loses power
anywhere and comes back with what it stored, or another one does, and its Boot-Up
reaches the host or is lost (`BootUpSent`, with `missed` as in `Cia402Session`); a
second device owns the other node id, comes up at any time and may not answer.

### NodeTable

Entries are numbered per node id; the table lists one or none. The heartbeat
handler, the monitor and calls hold an entry over an await while
`forget_offline` unlists it and a heartbeat makes another. The exclusion
(`inflight`) is by node id. `freeze_pdo_profile` is its three steps `Freeze…`,
under the contract its documentation states: no initialize at work.

### PdoRecipes and PdoConfig

A recipe is a value; `WritesOf` is the ordered list of SDO writes the builders
compile it to (disable, communication, mapping count zero, entries, count,
enable), `ReadsOf` the objects a match reads. `PdoConfig` runs the Meow
initialize (match, write, read back), the CiA402 initialize (write only) and
`compressed_mit::configure` against a motor that may fail, answer late, or
reboot between any two objects. `MaxEntries` is how many mapping entries the
model of a PDO has; the assumptions say that every recipe asked for fits.

### Telemetry

A motor moves at most one unit per tick, sends its position and timestamp, which
wrap on the wire, and may restart with its clock at zero and its position
elsewhere; frames are lost and delayed. `Accumulation` is `apply_tpdo1` with its
gap rule; `Update` is the velocity estimator with its 32-bit clock and half-turn
correction. Both start over at `EndSession` (`invalidate_session` and
`invalidate_for_new_device_session`, on a Boot-Up or at the offline edge; a
`Reboot` without it is one the host does not hear of) and at `BeginInitialize`.
After a session change the Meow listener takes frames again as soon as the motor
is identified. Of the rest of the lifecycle the model keeps nothing:
initialization may begin at any time and NMT changes come from anywhere, which is
more than the code does. `offsets` records, for each session, initialization and
segment, accumulated position minus the motor's own.

### FactoryCalibration

The read of 0x4001 subindex by subindex under a session token, and the decoder
in full: CRC16 over identity and words, manifest, E4M11 halves as integers,
torque and friction groups, in the order of the code's checks. The CRC table and
the frozen values of the tests of `calibration.rs` are checked as assumptions of
`MCFactoryCalibration`.

### Frames

`CobId` and `ParseCobId`, the NMT and heartbeat codecs, and which of the
background tasks takes a received frame. No state; everything it promises is
proved.

## 3 Runs

| run | result | what it shows |
|---|---|---|
| `session_swap` | pass | A supported and an unsupported device swapped, rebooted and reset under one id, heartbeats and Boot-Ups lost at will, while identification and initialization run. Initialized means configured since the last boot; constants and identity are those of the device on the bus; the unsupported one stays at Identified; Identified is announced only when settled; reset at most once and earned; `NodeLifecycle` is implemented |
| `session_lossy` | pass | With heartbeat and Boot-Up frames lost at will: Initialized implies online, Operational and identified; an unknown node left alone gets an outcome |
| `mode_ramp` | pass | Cached mode and drive agree, success in one session, a refused guard leaves the drive off |
| `stream_flow` | pass | Every push delivered or reported lost once and in its place; a drained stream resumes with a state |
| `settings_apply` | pass | A settings call that returned Ok has stored its whole target; no two devices on one node id; the preset reaches a stopped motor; Boot-Ups lost at will |
| `meow_session` | pass | The same questions as the first two runs for the Meow half, a motor and a foreign device under one id, Boot-Ups lost at will, with a retried identification, and `NodeLifecycle` implemented |
| `meow_drive` | pass | No half-written target under an enabled drive; a failed command leaves it off; every clear retry is an edge |
| `node_table` | pass | One operation per node, Initialized only on a listed entry, one rate on the bus across a freeze |
| `pdo_config` | pass | What is enabled is one whole recipe; an initialized motor is configured as asked |
| `telemetry` | pass | Accumulated positions are true to the motor within a session, initialization and segment; velocity samples up to whole turns, and exactly while each step is below half a turn; over lost and late frames, new sessions and restarts |
| `calibration` | pass | A verdict is the truth about the session's device, and a valid calibration was issued for it; the motors of the run meet `CodesTellApart` |
| `telemetry_segment` | violation | see section 5 |

Several properties are weakened by `RestartPending`: the device is off, its
Boot-Up frame is still in flight, or the frame was lost and no session has begun
since. No host can know of a reboot it has not heard of. The window closes when
the Boot-Up is processed or when silence has been noticed, and the properties
hold again from there (`PendingEndsInSession`), so that they are worth checking
with loss as well as without. In the open window they do fail: with the Boot-Up
lost in the middle of `apply_device_settings` the remaining writes and the store
reach the restarted device, the writes before are gone, and the call returns Ok;
with it lost while `set_position_preset_for` polls, the preset may reach a drive
that was enabled again. Nothing these calls read would tell.

### Bounds

* Devices: two under one id are enough to mix up, every property relates the
  entry to at most two; in `meow_session` the second is a foreign one, the theorems
  hold for any number of either; three in `settings_apply`, one of each kind. One
  in `session_lossy`, whose two properties speak of the entry and of no
  particular device.
* `MaxEpoch` 2: a call and one session change in its middle, in `session_swap` the
  one of the recovery reset. Further swaps inside a session need no session of
  their own where Boot-Ups get lost.
* `HbCapacity` 1: one frame older than the device's state. The proofs hold for
  every capacity.
* `MaxAttempts`: 2 in `session_swap`, a remembered sticky observation with a
  failed one after it; 2 in `meow_drive`, a first try and a retry that finds the
  object as the first left it. `RetriesAreEdges` is proved for any number.
* `MaxSessions` 1 in `mode_ramp`: a call, one reboot or offline edge in its
  middle, calls after it; `TpdoCapacity` 1: one frame that was sent in a state
  the drive has left. Two modes, one with a sequence as its target.
* `meow_drive`: a mode of two objects and one of one; two power-ups.
* Stream: capacity 2, eight pushes: fill, overflow, repay, overflow again,
  drain. Two publishers suffice to overtake.
* `settings_apply`: settings with and without CAN FD, a wrong nominal rate, a
  new node id with new rates; one device of each dialect and shape.
* `node_table`: nodes are independent but for the profile, so one node; two
  callers, three entries (held, forgotten, made anew twice), two rates.
* `pdo_config`: two timers, two slots of two, ranges 1 and 2, and a slot that
  does not exist; three calls, two of them initializations, one reboot;
  `MaxEntries` 6 mapping entries of a PDO, enough for every recipe of two slots.
* `telemetry`: a Meow range and a boot just above what `SlowEnough` and
  `BootTakesLonger` need, so that positions and stamps wrap several times and a
  boot that is one tick shorter already gives a counterexample; a turn of three
  units and a gap limit of three ticks for Cia402, so that steps of more than half
  a turn and round the clock happen inside the limit. One session change, one
  initialization and one restart, in any order. `telemetry_segment` needs none
  but initializations.
* `calibration`: for one device eighteen areas, one for each way the decoder can
  judge; the other holds its own or, copied, the first one's.

Runs with bounded pushes or device sessions stop when these are used up, and so
a run that says `CHECK_DEADLOCK FALSE` does (`stream_flow`, `settings_apply`,
`meow_session`). Everywhere else deadlock is checked.

### Fairness

`Cia402Session!FairSpec` assumes weak fairness of three things: a powered device
emits heartbeats; the discovery task takes frames and finishes its handling (it
never waits on anything but its channel); a *background* identification makes
progress, because each of its SDO transfers ends in a timeout at the latest.
Nothing is assumed of callers, power or NMT changes. `AutoIdentifyHappens`
therefore has the premise that callers eventually leave the node alone.

`MeowSession!FairSpec` assumes the same (a heartbeat that gets lost changes
nothing, so that weak fairness says not all of them do), and strong fairness of
the identity read of a background identification: its code retries for ever, and
if every attempt failed nothing could be concluded. What comes after that read
fails only when the session changed. `AutoIdentified` is about the retry: an
attempt that is not taken back would leave fairness of a read that is never tried
again.

## 4 Proofs

All proofs hold for any value of the constants that meets the named assumptions
of the module, and use nothing else.

| theorem | statement | module |
|---|---|---|
| `TypeCorrect` | `Spec => []TypeOK` | `Cia402SessionProofs` |
| `Inductive` | `Spec => []IInv` | |
| `InitializedLive` | `Spec => []InitializedIsLive` | |
| `NeverOrphaned` | `Spec => []NoOrphanedInitializing` | |
| `ConfigIdentified` | `Spec => []ConfigHasIdentity` | |
| `OneAutoIdentify` | `Spec => []AutoIdentifyOncePerSession` | |
| `IdentifiedSettled` | `Spec => IdentifiedIsSettled` | |
| `InitializedAsCalled` | `Spec => InitializeKeepsDevice` | |
| `ResetOnlyJustified` | `Spec => ResetJustified` | |
| `ImplementsAbstract` | `Spec => ImplementsLifecycle` | `Cia402SessionProofs` |
| `DeviceKnown` | `Spec => []DeviceInv` | |
| `IdentityCurrent`, `InitializedConfigured`, `ConstantsOfDevice`, `GateHolds` | `Spec => []…` for the four device properties, whether frames get lost or not | |
| `StreamTypes`, `StreamInductive`, `EveryLossAccounted`, `DrainedResumes` | see below | `ReadingsProofs` |
| `TelemetryInvariant`, `AccumulationTrue`, `SamplesTrue` | of `Telemetry`: `TelemetrySpec => []TelemetryInv`, `[]AccumulationIsTrue`, `[]VelocitySamplesTrue` | |
| `CalibrationInvariant`, `VerdictTrue` | of `FactoryCalibration`: `CalibrationSpec => []CalInv`, `VerdictIsTrue` | |
| `VerdictOnMixture`, `ValidIssued` | what a Valid verdict is on; `CodesTellApart` implies `CalibrationSpec => []ValidIsIssued` | |
| `ModeTypeCorrect`, `ModeInductive`, `ModesAgree`, `SuccessInOneSession`, `RefusedStaysOff` | see below | `ModeControlProofs` |
| `TypeCorrect`, `EntryInvariant`, `ReadyLive` | `Spec => []TypeOK`, `[]EntryInv`, `[]ReadyIsLive` | `MeowSessionProofs` |
| `ImplementsAbstract` | `Spec => ImplementsLifecycle` | |
| `DeviceKnown`, `ReadyConfigured`, `ConstantsReady` | `Spec => []DeviceInv`, `[]ReadyIsConfigured`, `[]ConstantsOfReady` | |
| `DriveTypes`, `DriveInvariant`, `TargetsNotMixed`, `FailedOff`, `RetriesAreEdges` | the properties of `MeowDrive` | `MeowDriveProofs` |
| `SettingsInvariant`, `NoIdGivenTwice`, `PresetOnlyDisabled` | `[]SettingsInv`, `[]NoDuplicateId`, `[]PresetOnDisabledDrive` | `DeviceSettingsProofs` |
| `TypesHold`, `TypeCorrect`, `TransactionInvariant`, `OkMeansStored` | `[]TypeInv`, `[]TypeOK`, `[]AllInv`, `[]AppliedMeansStored` | |
| `TableInvariant`, `OneAtATime`, `OrphansNeverCommit`, `BusHasOneRate` | `[]TableInv`, `[]OneOperationPerNode`, `[]NoCommitOnOrphan`, `[]OneRatePerBus` | `NodeTableProofs` |
| `ConfigInvariant`, `EnabledWhole`, `AsAsked` | `[]ConfigInv`, `[]EnabledIsWhole`, `[]InitializedAsAsked` | `PdoConfigProofs` |
| `CobIdRoundTrip`, `CobIdsAreDistinct`, `CobIdsAreReserved`, `HeartbeatRoundTrip`, `OneTaskPerFrame`, `OwnFramesAreNotTaken` | for all objects, ids and frames of `Frames` | |

### CiA402 sessions

The argument. None of the invariants is inductive alone; `IInv` adds what they
lean on:

* `UnknownHasNoIdentity`: Unknown and "no identity" coincide, also after a
  rollback. With it a rollback to Identified cannot claim an identity that a
  new session dropped, and Initialized implies an identity.
* `CapturedEpochsPast`: a captured session is never from the future, so a new
  session makes every comparison with a captured one fail, for good.
* `HolderAtItsPcs`: who holds the node determines where in its call it can be;
  the rollback of an aborted call is decided by its place.
* `ReadIsCached`: an identification still in its session has cached what it
  read, so that settling the configuration needs no second check of identity.
* `StartIsRemembered`: an attempt that has started is recorded as Attempted,
  has succeeded, or is recorded by the very next step of discovery. This is
  what rules out a second automatic identification between spawn and mark.
* `TargetKept`, `ResetIsEarned`: the call stays with its device, and only a
  sticky heartbeat error seen by the latest verification leads to the reset.

TLC finds `IInv` and `DeviceInv` to hold in the instances of the runs. The
proof that a step preserves `IInv` has one step per action; `TypeOK` is split
into Boolean flags and the rest, because the provers treat the two differently.

**The refinement.** `LifecycleStep` takes `IInv` and one step of the session to
a step of `NodeLifecycle` or a stutter, action by action. The interesting cases
are the ones in which the code does *not* look: a rollback is a `Fail` only
because `NoOrphanedInitializing` says whose stage it takes back, and a
`Commit` finishes the attempt of its own identity only because `TargetKept` and
the equality of sessions rule out another one.

**The device, also with loss.** `DeviceInv` says: a restart is pending, or the
entry and the call know the device. "Know" is `KnowsDevice`: identity,
constants and what has just been read are of `who`, the parts of the setup that
the place in the sequence implies are in `configured` (`SetupSoFar`), and an
unsupported device got no further than Identified. It is a disjunction because
after a power cut every one of these is false until the host hears of it.
`PendingEndsInSession` proves that the disjunction is left only by a step that
begins a new session, the Boot-Up frame or the silence of the device, and there
everything is forgotten (`FreshSessionKnowsDevice`). A lost Boot-Up would break
this lemma if the model forgot it with the frame: the session goes on, and the
host takes another device's heartbeats for its own. The history variable `missed`
remembers it until the next session, as far as the claims reach.

### Status stream

The first part of `ReadingsProofs` holds for any set of publishers, any capacity of
at least one, and any bounds.

| theorem | statement |
|---|---|
| `StreamTypes` | `Spec => []TypeOK` |
| `StreamInductive` | `Spec => []StreamInv` |
| `EveryLossAccounted` | `Spec => []LossAccounted` |
| `DrainedResumes` | `Capacity >= 2` implies `Spec => DrainedStreamResumes` |

`LossAccounted` says that the items of the channel follow each other without a
gap from what the user knows to what has been pushed, less what is owed. It
alone is not inductive: a sample queued while a loss is owed would leave a gap.
`StreamInv` adds why that does not happen: a sample goes out only when nothing is
owed or there is no room, and between the two sends of a push the lock of the
list keeps every other publisher from adding to the debt (`OnePaid`,
`PaidOwesNothing`). The lemmas `ContiguousAppend` and `ContiguousTail` say what
the two ends of a channel do to contiguity.

### Control

`ModeControlProofs` holds for any modes, device sessions and frames under way.

| theorem | statement |
|---|---|
| `ModeTypeCorrect` | `Spec => []TypeOK` |
| `ModeInductive` | `Spec => []ModeInv` |
| `ModesAgree` | `Spec => []ModeAgreement` |
| `SuccessInOneSession` | `Spec => OkInOneSession` |
| `RefusedStaysOff` | `Spec => RejectedStaysDisabled` |

`ModeInv` follows a `set_mode` write by write: what is left to write is the end
of its sequence (`RampInOrder`); in its session the mode is cached, and in the
drive once 0x6060 is written, while a ramp that outlived its session finds no
cached mode and therefore no logic that confirms it (`RampKeepsMode`); until
the write that the guard precedes, the control word does not enable
(`RampIsOff`). The last is why a refused guard is safe however late the drive
samples.

### Meow sessions

`EntryInv` is the part that does not speak of the device. `TokenKept` is its
core: a call that began with an identity finds the same one as long as its
session lasts, an `initialize` whose session is over finds the stage Unknown,
and one in its session finds it Initializing. With it the refinement is
checked action by action (`LifecycleStep`); `StartInitialize`, which does not
look at its token, is a `Begin` for the right identity because a session in
which nobody could identify is Unknown. Middle steps of all calls share one lemma
(`MidCallStep`).

`DeviceInv` is again "a restart is pending, or the running call and an
initialized entry know the device", with Boot-Ups in flight and lost ones among
the pending restarts, and `PendingEndsInSession` is proved for
any capacity of the bus. `StoreConstant`, which stores after the lock was
released, is harmless because `EntryKnowsDevice` speaks of initialized entries
only, and the call that stores is the one that will commit, or will not.

### Meow drive

`DriveInv` follows a command write by write: the prefix of a target that is
written holds the call's value unless the motor rebooted (`PrefixWritten`); a
motor that runs was commanded to (`OnIsCommanded`), which is why the Disable
after a failure is a change that the motor sees; every attempt but the first of
a clear command has changed the object (`EdgesSoFar`).

### Settings

`SettingsInv` follows the other node id from the probe to the boot that makes it
effective (`OtherIsFree`): it may be in the target, in RAM, stored, or in use,
and in all of them its owner was not there to be found. `CallInOrder` ties a
preset to its product and its steps, and with it nothing enables the drive while
the preset holds the node. `RestartStays` is the lemma about frames in flight:
a restart stays pending until its Boot-Up is handled, or for the rest of the
session if that is lost, and then the call's session has moved.

What an Ok promises is `AppliedMeansStored`: the settings the host caches after a
transaction are the device's, and survive a power cut. `AllInv` follows the
transaction to it: from the read on, either the call can no longer return Ok (a
restart is pending, or its session is over), or `Transaction` holds: every
field that differs from the target is still in the plan, and a plan for a motor
that keeps settings in RAM ends with the store (`EndsInStore`), after which flash
and RAM agree. What a plan contains and what taking its head leaves are the
lemmas `PlanOf2001`, `PlanOf2100` and `PlanShrinks`. The plans are written as
concatenations of one-write-or-nothing parts (`Write`), as the code appends
them, because the provers cannot see through a filtered sequence.

### Node table

`TableInv` holds for any node ids, callers, profiles and number of entries. Two
arguments meet in it.

* *Orphans.* `Commit` asks for two heartbeats and an online entry, not whether
  the entry is still listed. What saves it is a count: `forget_offline` takes
  only offline entries off, a call hears nothing of an offline entry that it
  would count in its session, and once off the table an entry can get one more
  heartbeat at most, the one that had looked it up before (`HeardWhileOnline`).
  One is too few. `InitializedIsOnline` says that what is removed is not in use.
* *One rate.* An initialization reads the profile and writes it to the motor
  much later. `RateRead` says that what it has read is the profile still,
  because a freeze and an initialization exclude each other (`FreezeAlone`: the
  documented contract of `freeze_pdo_profile`, which the model takes as the
  guard of both). From the check of a freeze to its end no motor is in use
  (`RateInUse`), hence none can be left at the old rate.

`OneOperationPerNode` is the part of `TableInv` that the `inflight` set of node
ids maintains, although two callers may hold different entries of one id.

### PDO configuration

`ConfigInv` holds for any set of requests that fit a PDO, any timers, target
ranges, calls and power-ups. It goes from one object to a whole plan:

* *One recipe.* Each write changes one field or one mapping entry (`Target`). After
  n writes the motor shows, of the first n, the last to each target (`Showing`,
  `OneMoreShows`). The first write disables the PDO and only the last enables it,
  so a PDO that is enabled shows all of them, and then it is the recipe
  (`TpdoShows`, `RpdoShows`, `Whole`). A motor that is matched instead of written
  is whole for the same reason (`MatchIsWhole`).
* *Reboots.* A reboot in the middle leaves a PDO partly written and partly at its
  power-up values, and disabled; if the recipe had been disabled before, later
  writes might enable the mixture. `Underway` therefore compares the power-up in
  which the recipe began (`began`) with the motor's, `PdosAreWhole` speaks of the
  PDOs that no write of another power-up went into (`mixed`), and
  `InitializedAsAsked` of motors whose last reboot the host has heard of.
* *A plan.* The steps of a plan go to different PDOs and fields (`PlanApart`), so
  what a step has left stays until the end (`StepsHold`), and is there when the
  initialization commits (`AskedInPlace`), or when the control word enables the
  compressed-MIT drive (`DrivenInPlace`).
* *Lanes.* A shared frame carries one lane per slot. `EightByteLane` and
  `OneByteLane` show, for any slot and any number of slots, that the motor's own
  objects begin at the byte of its slot and fillers take up the rest.

### Frames

Statements over all COB-IDs and frames, from arithmetic on function codes alone
(`CodeAndNode`, `Codes`): parsing undoes building, no two objects of two nodes
share an identifier, no frame is taken by two tasks, and none of the host's own
commands is taken for a frame of a node.

### Telemetry

The second part of `ReadingsProofs` is about `Telemetry`, for any number of frames
under way, of sessions, initializations, restarts and ticks. Two assumptions are
about Meow motors only. `SlowEnough`, `2 * (GapLimit + MaxDelay) < Circle`: between
two frames that are no gap to the host such a motor turns by less than 128 turns
(`fixed.rs:74` asks it of the caller; in 50 ms that is a speed of 2500 turns per
second). `BootTakesLonger`: it takes longer than the gap limit and the delay from a
reset to the first frame after it, since a node boots into Pre-operational and has
to be started. Of Cia402 motors nothing is assumed, neither speed nor boot time.
What the proofs use of the assumptions is `TelemetryAssumptions`.

* `BusInv` is about what is in the air: frames on the wire, and the one a
  listener accepted and has not yet applied, were sent in this order (`Follows`).
  Two of one power-up are no further apart in units than in ticks, and their
  clocks agree with real time; between two of different power-ups lies a boot.
* `DeltaIsDistance`, `TurnDeltaIs` and `ClockDeltaIs` are the lemmas about
  wrapping: what a difference of two wrapped readings says of the real one. They
  rest on lemmas about remainders that hold for any modulus.
* `MeowInv` says that the last raw position is the wrapped reading of a frame
  that precedes everything in the air (`LastOK`), that what was seen since the
  last reset is of the present segment (`OffsetsOK`), and that within one
  session, initialization and segment accumulated less the motor's position is one
  constant (`AccumulationIsTrue`). The host's own clock carries it: the gap test
  on the arrival times alone bounds the motion and leaves no room for a restart,
  and the proof does not use the motor's 16-bit stamp. That stamp may alias
  without harm to this property.
* `EstInv` says of any two samples of the estimator that the later one is later,
  and right up to whole turns; and exactly right if every step between them was
  `Tracked`, which is what `velocity.rs:51` takes for granted of one step. A gap
  of up to 0.5 s counts as one step, and so a fast motor whose frames are lost
  for a while (20 turns per second, 25 ms) makes an untracked one: the property
  says how far the error goes. `WindowIsEnd` shows that the window keeps an end of
  the samples, and an end of a trajectory is one (`EndOnTrajectory`).

### Factory calibration

The third part of `ReadingsProofs` is about `FactoryCalibration`, for any
devices, any areas made of 32-bit words, and any bound on sessions
(`CalibrationAssumptions`). It uses nothing of the CRC but that it is an operator.

* *The decoder.* Check by check, what the code tests of manifest, torque and
  friction halves is what `Calibrated` states of them declaratively
  (`TorqueChecksAre`, `FrictionChecksAre`, `ChecksAre`, `CalibratedIs`): the
  verdict is Valid for exactly the areas it should be. The one arithmetic step is
  `PositiveIs`, that a decoded E4M11 half is positive exactly when its sign bit
  is clear and it is not a zero.
* *The session.* `CalInv` says that, unless a restart has gone unnoticed, the
  identity the entry knows is that of the device which is there (`KnownIsWho`),
  and everything a read in its session has collected comes from that device's
  area (`ReadIsWho`). A read that outlived its session fails its check, so that
  no verdict is made of two devices' words (`VerdictTrue`).
* *Swaps nobody noticed.* Then the words may be of several motors. `MixInv` says
  that a verdict is on words that areas gave one by one, and so a Valid one is on
  a mixture (`Mixtures`) that meets every condition of a calibration, the CRC of
  the motor it is reported for included (`VerdictOnMixture`, which assumes
  nothing of the data). That such a mixture is that motor's own area is the
  business of a code of sixteen bits, for which collisions exist: it is the
  hypothesis `CodesTellApart` of `ValidIssued`, about the data of the motors and
  nothing of a run. `MCFactoryCalibration` has TLC evaluate it, as an assumption,
  for the two motors and eighteen kinds of areas of the run.

### Only model-checked

* Liveness: `AutoIdentifyHappens`, `AutoIdentified` (out of the prover's reach).
* The counterexample of `telemetry_segment`, section 5.

Everything else that a run checks, every invariant and action property and both
refinements of `NodeLifecycle`, is proved as well.

## 5 Where code and documentation disagree

With a run that gives the counterexample:

* `telemetry_segment`: `meow_motor/types.rs:57` says of
  `position_accumulation_segment` that every gap increments it and that a caller
  who misses the short invalid frame can still notice the break
  (每次 gap 使该代数递增；即使调用方错过短暂的 invalid 帧也能发现断段);
  `reset_telemetry` (`meow_motor/entry.rs:163-171`) sets it back to 0 at every
  initialize, and `invalidate_session` (142-161) at every new session, so two
  pieces with a gap between them carry the same number. The run `telemetry` shows
  what does hold: session, initialization and segment together tell the gap.
  In the run there is no new session, only a second initialization.

Without a run, because the model states what the code does in a single action:

* `cia402/events.rs:34-35` says of `IdentifyFailed` that the next heartbeat
  tries again; `discovery.rs:154` starts one identification per session.
* `cia402/types.rs:46` says `Enabled(mode)` means the mode display shows the
  mode; it is the mode cached at `manager.rs:587`, before the first write, which
  may have failed.
* `README.md:30-32` says `set_mode` returns only after TPDO feedback confirmed
  Operation Enabled; `manager.rs:1621` has no fence and accepts a logic value
  from before the call's enable write.
* `README.md:157` makes Initialized a condition of control; `manager.rs:1466`
  checks it when a call begins, and a reboot in the middle does not stop the
  ramp.
* `motor_entry.rs:37` and `manager.rs:949` speak of the latest snapshot;
  `publish` (`motor_entry.rs:125`) runs after the unlock, and two tasks can
  store theirs in the reverse order.

Noticed while reading:

* `change_node_id` (`manager.rs:715`) reads the settings in RAM and stores all of
  them: fields that an earlier transaction wrote before it failed become
  permanent with the node id.
* `apply_can_settings` of the Meow half checks its token and then locks again to
  set NeedsRestart (`meow_motor/manager.rs:900`): a Boot-Up in between starts a
  session that is put out of service although it began with a restart.
  `NodeLifecycle` allows it (`Retire`).
* A position target written after `disable()` enables the drive, because both
  its control words carry Enable Operation (`SetTargetWrites`);
  `sequences.rs` says of the first that it *keeps* enable.
* A loss on a status stream is reported behind what is queued, by a later push
  (`FanOutLagged`); `subscribe.rs` speaks of the user's next `recv`.
* `subscribe_status` (`manager.rs:974-996`) pushes the snapshot before it adds the
  subscriber to the list: a state published in between reaches the stream neither
  as a state nor as a loss, until the next one is published (`Load`, `Attach`).
* The estimator's gap limit of 0.5 s (`velocity.rs:18`) and its assumption of less
  than half a turn between two frames (`velocity.rs:51`) agree only below one turn
  per second; above that lost frames can make a wrong velocity for the length of
  the window without a reset (`Tracked`).
* Event timers of 51 to 100 ms are legal for a PDO profile, while the Meow
  accumulation takes any gap over 50 ms for a discontinuity.
* The README's table of control modes lists the target value 0x607A before
  control word 0x2F; `build_pp_position_writes` writes 0x2F, 0x607A, 0x3F. The
  README gives 0x6076 in mNm; the code takes it as Nm.

## 6 What is not modelled

* Values that no property tells apart: torques, limits, the quantisation of a
  compressed MIT target, the layout of 0x2001 values. The velocity regression
  is floating point and out of TLC's reach; its window is modelled.
* Wall-clock time: deadlines are nondeterministic, thresholds are not compared,
  except the gaps of `Telemetry`, in ticks.
* The SDO protocol, which is an external crate; a transfer succeeds once or
  fails. That a late SDO answer could be taken for a later request's is
  therefore outside the models, except in the probe of `DeviceSettings`.
* Panics and poisoned locks; counters that overflow after 2^64 sessions.
* The Meow listener drops the lock between accepting and applying a frame;
  `Telemetry` models that, `MeowSession` takes both as one step.
* The broadcast channel of events, whose order against states no component
  depends on.
* Value types and error types (plain data) and the examples (no core logic);
  `PROJECT.json` has every component with its status and reason.

## 7 Plan

Done: all modules of section 2, the refinements of `NodeLifecycle` and the
theorems of section 4. What would come next:

1. A refinement for `NodeTable`: that an entry of the table behaves as
   `NodeLifecycle` promises for a session, across `forget_offline` and a new entry
   for the same node id.
2. Sharper assumptions: `SlowEnough` and `BootTakesLonger` name the delay of a
   frame, which the code does not bound; which part of `AccumulationIsTrue`
   survives without it.
3. The hazards that `PROJECT.json` lists without a property: snapshots stored in
   the reverse order, event timers between 51 and 100 ms, the mode left behind by
   a failed `set_mode`, and a session retired right after it began. That only one
   automatic identification starts is proved and in no run.
4. The remaining control calls of the CiA402 half (`set_max_torque`, position
   read) and events against states.
