# Steering driver: TLA+ models, checks and proofs

The program is a ros2_control `SystemInterface` plugin that steers a column
through a DZCANTE-020L080 drive (CANopen, CiA 402 profile position mode) over
SocketCAN. Paths below are relative to the repository (`src/src/...` is
`src/*.cpp` of the package); `canopen_driver.cpp:41` and the like name lines in
`src/src/`.

## 1. Inventory

| component | state | operations | interacts with |
|---|---|---|---|
| `SocketCANInterface` (`socket_can_interface.cpp`) | socket and epoll descriptors, `initialized_` | `init`, `close`, `reset`, `read` (drain until EAGAIN), `write` | kernel; called by the drivers |
| `CANopenDriver` (`canopen_driver.cpp`) | `nmt_state_`, `nodeguard_elapsed_`, `watchdog_elapsed_` | `update(dt)`, `process_nmt_heartbeat`, `reset_watchdog`, `send_*` | base class of both node drivers |
| `MotorDriver` (`motor_driver.cpp`) | `drive_state_`, `desired_state_`, `actual_position_`, `ds402_interval_`, `analog_inputs_mv_`, `analog_input_valid_` | `configure` (blocking), `update`, `tick_ds402`, `process_frame`, `set_target_position`, `poll_analog_input`, `shutdown` | drive over the bus |
| `EncoderDriver` (`encoder_driver.cpp`) | `raw_position_`, `valid_`, own watchdog | `configure`, `process_frame` | absolute encoder over the bus |
| `SteeringController` (`steering_controller.cpp`) | `target_position_`, feedback source | `init`, `cycle_read`, `cycle_write`, `shutdown`, `is_ready`, `has_fault` | owns socket, motor and encoder |
| `SystemSteeringHardware` (`system_steering_hardware.cpp`) | `steering_controller_`, `read_counter_`, `write_counter_`, `hw_commands_`, `hw_states_`, `motor_count_offset_`, calibration | `on_init`, `on_configure`, `on_activate`, `on_deactivate`, `on_error`, `read`, `write` | called by the controller manager |
| controller manager (external) | lifecycle state | calls one callback at a time | `hw_commands_`, `hw_states_` |
| drive, column, sensor (external) | NMT state, CiA 402 state, setpoint, angle, encoder origin | answer SYNC, NodeGuard RTRs and SDOs | bus |
| `test/`, `launch`, `scripts`, URDF | none of their own | bench tools and configuration, no assertions | - |

There are no threads in the package: the program is driven by callbacks. What
is hard about it is the other side. Frames are lost, late, or from a time when
the drive was in another state; the drive faults or restarts between any two
calls; `on_activate()` runs the same cycle as `read()` and may be called over
whatever an earlier callback left behind; `read()` and `write()` also run in
INACTIVE; and what the program *believes* (`nmt_state_`, `drive_state_`,
`actual_position_`, `motor_count_offset_`) survives the events that made it
false.

What makes each component correct:

- node drivers: a dead node is noticed in time, a live one is never declared dead;
- motor driver: the control words bring the drive to OPERATION_ENABLED and never
  re-enable one that was shut down;
- controller: what was drained is what is judged, a fault is visible to `read()`;
- hardware component: no callback meets a missing controller, targets mean the
  angle that was commanded, a link that is gone ends in UNCONFIGURED.

The hazards, each at its line, are in `PROJECT.json`.

## 2. Modules

| module | models | by |
|---|---|---|
| `CANopenDriver` | base class, no specification of its own | `Update(dt)`, `ProcessNmtHeartbeat(byte)`, `StartOptimistic` as operators over three variables |
| `NodeMonitor` | abstract: a failure detector | suspicion after PATIENCE checks of a node that is down, withdrawn when it is heard of |
| `NodeSupervision` | one node, its driver and a lossy bus | `Drain` takes the head of the socket, `DrainEnds` finds it empty, `Cycle` is the `update()` after that, whatever has come in in between; the node stops, boots and answers at any time. Implements `NodeMonitor` |
| `HealthyLink` | one live node behind a bus with bounded losses and latency | `GuardCycle`, `QuietCycle`, `LoseExchange`, `AnswerDrained` |
| `SampledSupervision` | the same driver when `read()` acts in every n-th call | `ReadSkips`, `ReadDrains`, `ReadUpdates`; the histories count every call, the driver the acting ones |
| `Bus` | socket, drive, column, sensor (mostly external) | slots, `WriteRpdo1` and the other writes, `BusNext` |
| `MotorDriver` | `motor_driver.cpp` | extends `CANopenDriver` and `Bus` as the class uses them |
| `SteeringController` | `steering_controller.cpp` | `Receive` and `UpdateDrivers` are the two halves of `cycle_read()` |
| `DriveEnabling` | the loop of `on_activate()` over a drive in any state | extends `SteeringController`; the deadline is left out |
| `SteeringLifecycle` | abstract: phase, link, torque and target of the component | what may happen with the link closed and open |
| `SystemSteeringHardware` | `system_steering_hardware.cpp` and the composition | one action per callback or per step of a callback at which frames may arrive; `pc` says where the callback under way is. Implements `SteeringLifecycle` |
| `LinkTeardown` | `SystemSteeringHardware` with a history of the acting reads that were completed over a dead link | `Next` with `CountReads` |
| `CycleSchedule` | `on_init()` for the timing parameters, the counters of `read()` and `write()` | one action per call, skipping and acting |
| `SteeringCalibration` | `on_init()` for the calibration, `feedback_to_rad()`, `rad_to_motor_counts()`, the offset, the clamp, the analog input | `OnActivate`, `Read`, `Command`, `Write` |
| `NodeNetwork` | `configure()` and `process_frame()` of both drivers, the constants header | `Script` is the sequence of frames of both configurations; the nodes keep an object dictionary and report under the COB-IDs it holds; `RemoteFrame` is what another master may ask for |
| `EncoderFeedback` | `EncoderDriver` in the cycle | extends `NodeSupervision`, whose node is the encoder, by its position reports: `SendSync`, `DrainReport`, `DrainLeavesNothing`, `UpdateEncoder`, with the age of the position as history |
| `CanChannel` | abstract: an inbox that keeps order | `Arrive`, `Lose`, `Deliver` |
| `SocketCAN` | `socket_can_interface.cpp`, system call by system call | `pc` is the call that comes next, `owner` what each descriptor of the process is. Implements `CanChannel` |
| `MC...` | definitions a cfg cannot write | - |
| `...Proofs` | theorems | - |

State variables carry the names of the members without the trailing
underscore. `sock` is `initialized_`; `steering_controller` says whether the
pointer is set.

The program is too large for one state space, so each of its four layers has a
module in which that layer is concrete: system calls in `SocketCAN`, bytes in
`NodeNetwork`, call counters and numbers in `CycleSchedule` and
`SteeringCalibration`, and everything that depends on the order of callbacks and
frames in `SystemSteeringHardware`. The last one uses the drivers of
`SteeringController`, `MotorDriver` and `CANopenDriver` unchanged, as do
`DriveEnabling`, `NodeSupervision`, `SampledSupervision` and `EncoderFeedback`.

Abstractions, and why they lose nothing the properties look at:

- **Slots.** `cycle_read()` drains the socket to the end in one loop before it
  judges anything, and of every COB-ID the last frame wins, so in
  `SystemSteeringHardware` and `DriveEnabling` a queue is one optional payload
  per kind of frame. The order inside the queue does matter to the watchdog, and
  `NodeSupervision` therefore keeps a real queue; in `EncoderFeedback` the guard
  answers and the position reports have one each, since no order between the two
  kinds makes a difference to what either sets. A frame
  that is lost is one that is never reported or a write that changes nothing.
- **Time** is counted in ticks of one cycle; the watchdog counter saturates at
  the value it is compared with. The 5 s of `on_activate()` are wall-clock time,
  so the loop may end after any number of iterations but at least one.
- **Numbers.** In `SystemSteeringHardware` angles, counts and sensor values are
  integers with an exact calibration of either sign. `SteeringCalibration` has
  the roundings, the clamp and the `int16_t`; an angle there is counted in units
  of the range over the span of the feedback, in which the conversions of the
  code are exact up to their rounding. What double arithmetic may add at a tie
  is left out, and so is `int32_t`.
- **Bytes.** In `NodeNetwork` the numbers in PDOs, in guard answers and in the
  answers about an analog input are sequences of bytes and the masks arithmetic;
  what an SDO says of an object (index, subindex, value, size) is a record. A node takes a value for an object only in the size the object
  has, its answers may be short, and it reports under the standard COB-IDs where a write has been lost. A
  write that fails visibly ends `configure()`, and `SystemSteeringHardware` has
  that (`ConfigureFails`).
- **One joint.** `hw_commands_` has one element; `hw_states_` is exported only,
  and a variable in `SteeringCalibration` alone.
- `desired_state_` is a constant, since nothing calls `request_state()`.
  `is_valid()` and `is_ready()` are asked by the bench tools only;
  `valid` is a variable of `NodeNetwork` and `EncoderFeedback`.
- A write to the bus may fail or be lost at every step. In the cyclic part
  nobody looks at the result. In `on_configure()` a write whose result is
  looked at may also fail visibly, at every stage at which the code returns
  false.
- STOPPED is a state of the node in `NodeSupervision` only: no program of the
  composition sends NMT STOP.

The **manager** calls one callback at a time, `read()` and `write()` in
INACTIVE and ACTIVE in any order, and `on_error()` as soon as a callback
returned ERROR, after which the component is UNCONFIGURED. `on_shutdown()` and
the destructor are not modelled.

The **bus** is as bad as it may be: the drive reports a status, a position or a
guard answer at any later time or never, and what is in a slot stays there when
the drive has moved on. `Mishaps` names what else happens in a run: the drive
faults, it loses power and boots with its encoder at 0, the configuration fails.
An enabled drive turns the column to its setpoint or gets stuck on the way. The
column is not turned by hand, but between two activations in
`SteeringCalibration`.

The **process** around `SocketCAN` opens and closes descriptors of its own
between any two system calls, and the kernel hands out the lowest free one, so a
descriptor that was closed twice or kept too long is somebody else's.

## 3. Runs

| run | bounds | shows |
|---|---|---|
| `node_supervision` | timeout 4, RTR period 2, 2 frames in the socket | `OutageDetected`: whatever a dead or stopped node still answers, and whatever it answered before it died, `has_fault()` sees FAULT at the latest at update NMT_TIMEOUT + 1 of its outage (the bound is reached: one less is refuted by an OPERATIONAL answer that came in between the drain and `update()`). `ImplementsMonitor`: the driver is the failure detector it is used as, with that patience |
| `healthy_link` | the real 2 s and 0.2 s in ticks of 2 ms (500 Hz); 8 losses in a row, 99 cycles of latency | `NoFalseFault`: a live node is never in FAULT. 8 and 99 are the largest numbers the real constants allow |
| `sampled_supervision` | the real constants, every 10th call | `SilenceDetected`, `GuardsOnTime`: timeouts and RTR periods are stretched by the multiplicity and by no more, which the life time of the drive (15 periods) must outlast |
| `lifecycle` | timeout 3, multiplicities 2, every mishap, one angle, fairness | `ControllerPresent`, `StaysStopped`, `ImplementsLifecycle`; `ClosedLinkTornDown`, `DeadDriveTornDown`, `FaultEndsActive`: nothing keeps a component over a closed link, or with a dead drive, out of UNCONFIGURED, or one with a drive in FAULT in ACTIVE |
| `calibration` | timeout 2, two angles, a command outside the range, a sensor that counts backwards, drive restarts | `AimsAtCommand`: targets mean the commanded, clamped angle, also across restarts of the drive and with stale readings in the socket. `DeadLinkNoticed`, the number behind `ClosedLinkTornDown` and `DeadDriveTornDown`: over a closed link, or with a drive that has restarted, at most NMT_TIMEOUT acting reads return OK (the bound is reached: one less is refuted by an OPERATIONAL answer that came in behind the last drain before the drive went) |
| `drive_enabling` | timeout 4, RTR period 2, control words every 2 ticks, fairness of drive and bus | `DriveIsEnabled`: a drive that stops faulting is enabled, wherever the startup left it, FAULT_REACTION included, which no mask matches. `FaultIsSeen` |
| `socket_can` | 3 descriptors, a buffer of 2, 4 frames | `DescriptorsAccounted`, `ReadyToRead`, `ImplementsChannel`, with every system call failing at any time |
| `cycle_schedule` | ratios 1/2, 3/2, 2 and refused ones, multiplicities to 3, offsets -1 to 4, 9 calls | `ActsOnSchedule`, `Staggered`: in which calls `read()` and `write()` act after every activation |
| `steering_calibration` | encoders and actuators of either sign, zero half way or not, the potentiometer of the URDF, `feedback_mode` 2, raw values up to the wrap | `TargetsWithinActuator`, `HoldsPosition`, `TargetTracksSensor`, `ReadingFollowsVoltage` |
| `node_network` | node ids 1 and 127, encoder and potentiometer, a pin that is not there, one frame in the socket, one frame lost | `HeardAsSent`, `DriveTakesWhatIsSent`: once the configuration went through, both sides mean the same by every frame. `EachFrameItsOwner`: whichever frame of it was lost, no driver takes the other node's frame for its own, and exactly the remote frames for a position are taken for data |
| `encoder_feedback` | timeout 4, RTR period 2, 2 frames of each kind in the socket, 1 loss in a row | `StalePositionIsKnown`: a position older than the losses explain is one of an encoder in FAULT |
| `stale_offset` | as `calibration` | a violation, see below |

Why the bounds are enough: a timeout of 3 leaves a tick before, at and after an
RTR period of 1; the multiplicities of 2 make both counters skip; the DS402
interval of 2 in `drive_enabling` separates ticks that send from ticks that do
not, and the interval of 1 in `lifecycle` lets the drive be sent a control word
in every cycle, the worst case for `StaysStopped`. Two angles and an origin that
is reset to minus the counts of the current one suffice to tell the right offset
from any other. The column is at -1 or 0, the command is -2 and the range 1, so
every target passes the clamp. Three descriptors are the socket, the epoll and
one of another thread. Nine calls are more than twice the longest period with
the largest offset. The calibrations have odd sums and spans that do not divide,
so that both roundings happen. The position and target of `node_network` is one
number of four different bytes whose highest bit is set: that a byte is dropped,
swapped or extended shows with it; the flags of its StatusWords are those that
the masks must ignore. The theorems remove the bounds from everything but the
liveness properties.

`HeardAsSent` compares the millivolts of an analog input only where they fit the
`int16_t` they are stored in (`Representable`, up to 32.7 V either way); beyond
it `process_frame()` cuts off the upper bytes, and so does the model.

`anchored` in `AimsAtCommand` is a history variable: it says that the feedback
and the motor position `on_activate()` used were those of the moment. They need
not be (the loop leaves at the first status that says OPERATION_ENABLED, before
any feedback if it comes first), so the property promises something only where
the readings were true, but then for the whole activation.

Fairness:

- `SystemSteeringHardware!FairSpec`: the manager's loop goes on calling `read()`
  between lifecycle calls (`SF` on starting a read, since lifecycle calls may
  come in between), callbacks that have started go on (`WF`), and the clock
  reaches the deadline of `on_activate()` (`SF(ActivateFails)`, enabled again
  and again while the loop runs). Nothing is assumed of the drive or of the bus;
  only `FaultEndsActive` says, as its premise, that of the StatusWords a drive
  sends again and again one arrives.
- `DriveEnabling!Spec`: the loop goes on, and a StatusWord, guard answer or
  control word that is sent again and again arrives in the end. That is the
  least under which a drive can be enabled over a lossy bus at all.

Deadlock is checked in every run.

### Disagreements between the code and what the repository says

`stale_offset` is expected to end in a violation, and `PROJECT.json` quotes the
line: offset and command survive an error and a new configuration, and `write()`
runs in INACTIVE, so an enabled drive takes a target built with the offset of an
earlier activation before `on_activate()` has run.

Others that were met while modelling. The modules have the code's behaviour,
and the properties are stated for it:

- `README.md:96-99` says every NodeGuard response restarts the watchdog. Only
  OPERATIONAL ones do (`canopen_driver.cpp:189`), as `TASKS.md:168` has it; so a
  node that answers every RTR with PRE_OPERATIONAL is in FAULT after 2 s.
- `README.md:96` has a watchdog of 2 s. `read()` passes the period of one cycle
  although it acts in every n-th call (`system_steering_hardware.cpp:328`), so
  it is n times as long; `SilenceDetected` is the bound that does hold.
- `TASKS.md:51` asks for `is_ready()`; `on_activate()` asks for
  `is_motor_enabled()`, and may anchor the commands to a feedback of 0 that was
  never received.
- After `on_deactivate()` the next `on_activate()` finds the `drive_state_` of
  before and succeeds over the closed socket (`system_steering_hardware.cpp:
  248`). `ClosedLinkTornDown` says that the watchdog then ends it.
- `system_steering_hardware.cpp:307` announces a safe shutdown of the drive. A
  configuration that fails after ENABLE_OP has closed the socket without
  QUICK_STOP and dropped the controller, so nothing is sent.
- `README.md:194` rounds the ratio of the frequencies up; the cast of
  `system_steering_hardware.cpp:158` cuts it off: 500 Hz over 300 Hz is 1.
- The offsets are to stagger reads and writes (`system_steering_hardware.cpp:
  263`). A counter is counted before it is compared, so the defaults 0 and 1
  act in the same call; `Staggered` is stated for offsets of 1 and more.
- `system_steering_hardware.cpp:111` has the right end of the encoder at minus
  the range. The zero is a parameter of its own, and with the defaults 880, 4520
  and 2650 the right end is at -1.027 times the range: the clamp then makes the
  first target of a component told to stay there a step. `HoldsPosition` is
  stated for positions within the range.
- `process_frame()` of both drivers strips the RTR flag "for the comparison of
  COB-IDs" (`motor_driver.cpp:274`, `encoder_driver.cpp:107`) and looks at it
  again for NodeGuard alone. So a remote frame of another master for a TPDO with
  a position is taken for a report of position 0, and makes an encoder valid
  that has never reported. No document says what should happen to it;
  `EachFrameItsOwner` says that this is all that a remote frame does.
- A `feedback_mode` other than 0 and 1 is calibrated as the encoder (`:110`) and
  run as the potentiometer (`:190`).

## 4. Proofs

All proofs are checked by tlapm down to the leaves, for every value of the
constants that satisfies the named assumptions of the modules.

| theorem | argument |
|---|---|
| `NodeSupervisionProofs!DeadNodeIsDetected` | `OutageDetected` alone is not inductive, since an OPERATIONAL answer in the socket may restart the watchdog. `IInv` adds that such answers are there only until the drain that follows the first update of an outage (`NoStaleAnswers`: what waits then came in behind the drain before it), hence the watchdog covers the outage but for that update (`WatchdogCoversOutage`), and an expired watchdog leaves FAULT behind (`ExpiryReported`) |
| `...!SupervisionImplementsMonitor` | every step is a step of `NodeMonitor` or a stutter, from the same invariant; the patience is NMT_TIMEOUT + 1 |
| `HealthyLinkProofs!LiveNodeNeverFaults` | from `SizingAssumption` (LOSSES+1 periods plus LATENCY are less than the timeout), the age of the watchdog is bounded by the losses so far and the phase of the RTR timer |
| `SampledSupervisionProofs!SilentNodeIsDetected`, `GuardsComeOnTime` | silence is at most the watchdog times the multiplicity plus the phase of the counter (`WatchdogCoversSilence`); likewise the RTR timer (`TimerCoversGap`); a check happens at phase 0 only (`CheckedAtZero`) |
| `SystemSteeringHardwareProofs!ControllerIsPresent` | inductive with the fact that a configuration runs while UNCONFIGURED (`ConfiguresUnconfigured`) |
| `...!StoppedDriveStaysStopped` | the program stops a drive only by also closing the socket (`HaltedDisconnected`); over a closed socket no control word reaches it (`ClosedSocketIsSilent`), and no drive goes to OPERATION_ENABLED by itself (`BusStaysStopped`) |
| `...!DriveAimsAtCommand` | `OffsetIsBias`: while ACTIVE, anchored and with an OPERATIONAL drive the offset is the true origin of the motor encoder. The origin changes only when the drive boots, which takes it out of OPERATIONAL, and only a configuration brings it back; `FeedbackUndoesSensor` and `ActivationOffset` establish it, `SetpointMoves` uses it |
| `...!SystemImplementsLifecycle` | step simulation, action by action, with `PhaseInv`, which ties `pc` to the lifecycle state |
| `...!DeadLinkIsNoticed` | `TeardownInv`: the watchdog covers all dead reads but one (`WatchdogCoversReads`), since only the first drain after the death can find an OPERATIONAL answer (`StaleAnswerIsOld`), and nothing but a configuration brings a link back (`CountsDeadLink`) |
| `SocketCANProofs!NoDescriptorLeaks`, `ReadNeverBlocks` | `StageInv` says what is open at each system call, `OwnerInv` that a descriptor is ours exactly if a member names it, `SocketInv` what a socket is while it is bound |
| `...!InterfaceImplementsChannel` | step simulation, with `frames \o queue` as the inbox; `MoveKeepsOrder`, `ShortLosesOne` and `ReturnDelivers` are the facts about sequences |
| `CycleScheduleProofs!CallsActOnSchedule`, `OffsetsKeepApart` | the counter is a function of the calls since the last one that acted (`InPhase`); with a common period, `Alternates` and `KeepsDistance` keep the difference of the first two |
| `SteeringCalibrationProofs!TargetsStayWithinActuator` | a clamped angle is between minus and plus the range, the division between the ends, and rounding does not leave an interval with integer ends (`CountsBetween`, `RoundedBetween`) |
| `...!ActivationHoldsPosition`, `TargetFollowsSensor` | the offset is the anchor's counts less its rounded angle (`Anchored`), so two roundings of half a count each make at most one (`CountsFollowFeedback`) |
| `...!ReadingRisesWithVoltage` | division towards 0 is monotone and its results fit `int16_t` within 20 V |
| `NodeSupervisionProofs!StalePositionIsNoticed` | the age of a position is bounded by the losses in a row while the encoder is OPERATIONAL (`AgeOfLive`), and by the losses and the watchdog when it is not (`AgeOfDead`). A drained report or OPERATIONAL answer cannot break the second bound, since the age is still within the first while one waits (`AgeOfReported`, `AgeOfAnswered`; `ToBeDrained` counts the drain that is to come). Whoever exceeds the bounds has an expired watchdog, and `IInv` of `DeadNodeIsDetected` makes that FAULT |
| `NodeNetworkProofs!OrdersAreTaken` | `NetInv`: the drive's COB-IDs are always the standard ones or the configured ones (`DictionaryInv`), and what of `Script` was sent and not lost is in force (`InForceInv`). So when nothing was lost, all of it is |
| `...!FramesAreHeardAsSent` | `SocketInv`: while nothing was lost, all in the socket was sent under the configured COB-IDs. One lemma per kind of frame: bytes and back are the identity on `int16_t` and `int32_t` (`Int16OfBytes`, `Int32OfBytes`), the masks separate the CiA 402 state from the other bits (`Masks`, `StateDecoded`), the division by 16384 is off by less than a millivolt (`MillivoltsAre`) |
| `...!FramesChangeTheirOwnersOnly` | whatever was lost, a COB-ID is a base plus an id below 128, and the bases in use are far enough apart: two frames have the same COB-ID only with the same base and the same id, so none of one node is taken for one of the other in `process_frame()` (`CobsDiffer`). A remote frame carries no data, so its bytes are 0: a StatusWord that no mask matches, a position of 0, no SDO answer at all |
| `...!NetworkInvariant` | `NetInv`, one lemma per action: a write of the script, a lost write, a report of each node, a frame handled |
| `TypeCorrect` of the modules with proofs, but `NodeNetwork`, where `NetInv` has the types it needs | one step per action |

What is only model-checked: the liveness properties (`ClosedLinkTornDown`,
`DeadDriveTornDown`, `FaultEndsActive`, `DriveIsEnabled`, `FaultIsSeen`), since
tlapm has no backend for fairness and `ENABLED`. Every safety invariant and action
property of the runs that pass is a theorem.

What the theorems assume of the outside is the `Bus` module itself: a drive that
obeys the control words of CiA 402 as `AfterControlWord` has them, takes RPDOs
only in OPERATIONAL and becomes OPERATIONAL only by an NMT START. A second
master on the bus that starts the drive is considered in `NodeSupervision` only.
Of the nodes of `NodeNetwork` it is that they boot with the COB-IDs of CiA 301
(the encoder with those of its data sheet), keep an object in its own size, and
answer under their own ids; of its ids only that the two differ.

## 5. Not modelled, and the plan

Not modelled: the hardware tools under `test/`, launch files, scripts and the
URDF (no state, no assertions); logging and the sleeps of the startup; whether a
drive wants a rising edge of FAULT_RESET, and its life guarding, which are
inside the drive; remote frames of other masters outside `NodeNetwork`; drains
that fail part of the way outside `SocketCAN` (the status of `read()` is ignored
at `steering_controller.cpp:147`, and a frame left behind may restart the
watchdog a cycle later, so the exact bounds of `OutageDetected`,
`DeadLinkNoticed` and `StalePositionIsKnown` are those of drains that end with
an empty socket); ties of double arithmetic and the
overflow of `int32_t`, which the documented ranges of counts do not come near;
`on_shutdown()` and the destructor; `receive_frames()` of `CANopenDriver`, which
the controller's drain replaces.

Next: `SystemSteeringHardware` over the inbox of `CanChannel` in place of slots,
with the two shown to be the same to the controller.
