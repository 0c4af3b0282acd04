# A formal model of the D1 + Piper control software

This directory models, model-checks and proves properties of the control
software of a D1 wheel-legged base (can0) carrying a Piper arm (can1): the
Python deployment in `loco_mani_rl_controller/scripts`, the MuJoCo runner it is
compared with, and the C++ ros2_control controller in `controller`. Paths below
are relative to the repository's root, and `scripts/` stands for
`loco_mani_rl_controller/scripts/`.

`PROJECT.json` lists, for every definition, the source lines it models, every
run with its question, every hazard with the property that would catch it, and
one mutated definition per checked property that makes it fail.

Contents: 1 the system, 2 the modules and how they correspond to the code, 3 the
runs, their bounds and fairness, 4 the proofs, 5 where the code and what is said
of it differ, 6 what is left, 7 what is not modelled.

## 1. The system

### Components

| Component | State it keeps | Operations | What must hold |
|---|---|---|---|
| Hardware runtime, `scripts/loco_mani_runtime.py` | stop event, two `_SnapshotBox`es, last policy command and its times, `RuntimeStats`, `StartupManager.phase` | launch gates, connect, feedback gate, enable, the 50 Hz policy tick and 500 Hz command tick, safe teardown | no motion without every opt-in; a fault stops both buses for good; a stop is bounded; an energised arm is never abandoned; buses are released once; faults reach the exit status |
| Backends and supervisor, `scripts/d1_piper_hardware.py` | per bus: `connected`, vendor handle, `_io_lock`, `enabled`, the stamps seen last; the `SafetySupervisor` latch | connect, read, send, enable, emergency stop, disconnect; `check_state`, `limit_command`; the policy `step` | one owner of each bus; the latch never clears; old feedback is noticed, regular feedback never trips |
| Vendor adapters, `scripts/d1_tita_adapter.py`, `hardware/d1_vendor_adapter` | cached feedback with one time stamp | read, send, mode requests under one mutex | stale feedback is not passed off as new |
| ROS 2 policy node, `scripts/d1_piper_l_ros2_node.py` | last state and command with one stamp each, last policy command | state and command callbacks, 500 Hz tick, five publications, close | silence, failure and exit end in zero; a command reaches every controller whole; a node that recovers moves again |
| Command file, `scripts/command_file.py` | last good command and its stamp | `read()` | a writer that stops writing stops the base |
| Terminal keyboard, `scripts/loco_mani_keyboard.py` | velocity, arm target, escape-sequence buffer, closed flag | timer, keys, publish to topics and file, close | what the operator asked for last is what is used; leaving stops the base |
| Command bridge, `scripts/loco_mani_command_bridge.py` | last twist and pose | callbacks, heartbeat, close | the same |
| MuJoCo runner, `scripts/d1_piper_l_mujoco.py` | simulated robot, observation buffers, delay line, traces | launch, dump, policy update, physics step | the same observations, delays and torques as in training and on the robot |
| Configuration, preflight, inspector: `scripts/loco_mani_config.py`, `..._preflight.py`, `..._hardware_inspect.py` | none | load, validate, look | only a complete calibration may send |
| RL controller, `controller/rl_controller` | FSM state and mode, shared control data | `update`, FSM transitions, requests | one state active; ramps are continuous and complete; the robot can be brought down |
| RL inference thread, `FSMState_RL.cpp` | action and observation vectors, running flags | enter, run, exit, thread loop | an action of an earlier visit is not acted on for ever |
| Hardware bridge, `hardware/hardware_bridge` | joint state and command vectors | read, write, mode switch | commands only in the mode they belong to |
| Teleop, `interaction/teleop_command` | serial buffer, stick values, switches | parse, publish | a lost link is acted on |
| Joystick and keyboard controllers, `interaction/*_controller` | last twist, publishing thread | callback, publish loop | the thread ends; a release stops the robot |
| Simulators, launch files, URDF, offline tools | - | - | not modelled, see section 7 |

### Interactions and what is hard about them

* The runtime has three threads: main and one reader per bus. They share the
  snapshot boxes (each with a lock), the stop event and each backend's
  `_io_lock`, which a vendor call holds while it runs. A signal handler sets the
  stop event between any two steps.
* Any vendor call may return true, return false, raise, reach some of the motors
  and then raise, or never return. Teardown goes on past each failure.
* Feedback passes through four hands before it is acted on - sample stream,
  vendor cache, reader, snapshot box - each with a stamp and a timeout of its
  own. What is compared is when a change was noticed, not when the robot moved.
* Two rates are served by one loop, so a policy command may be sent many times,
  and feedback is judged later than it was read.
* Keyboard, bridge and policy are separate processes. They share a file that is
  replaced atomically, and topics; either writer can be killed between the two,
  or lose its disk. Nothing but time stamps tells a reader that a writer is gone.
* The ROS node's command goes out as five messages on five queues, and the
  context may be invalidated between any two of them.
* The MuJoCo runner evaluates the policy from two places, the dump and the loop,
  and history, delay line and traces must not count an update twice.
* The C++ inference thread shares its vectors with the update loop, without a
  lock, across enter and exit of its state; requests arrive at any time.

## 2. The modules

| Module | Contents |
|---|---|
| `ActuatorContract` | abstract: what the runtime promises the robot - closed, live, stopping, released, never back; only a live run moves or powers anything |
| `HardwareRuntime` | the runtime's main thread, readers, signals, backends and supervisor; its properties, its inductive invariant and the refinement mapping |
| `HardwareRuntimeProofs`, `HardwareRuntimeSafety` | proofs of the type invariant and of what a stop and a launch lead to; of the inductive invariant, the safety and action properties, the refinement, and that a stop is carried out |
| `MotorCommand` | what a command becomes on its way to a motor: the preparation's target, the supervisor's limits, the joint calibration and the checks of Piper's `send`, as operators on integers |
| `MotorCommandProofs` | proofs that the torque a motor makes is within its limits, that the calibration is transparent, which limited commands the arm takes, and how the preparation moves |
| `Feedback` | dates: the sample streams, vendor caches, reads that hold the bus, boxes, the staleness check and the command watchdog |
| `FeedbackProofs` | proofs of its age invariant, its three bounds, and that regular feedback runs |
| `CommandPath` | keyboard or bridge, command file, `CommandFileReader`, and three kinds of consumer |
| `CommandPathProofs` | proofs of its two inductive invariants, `DeadWriterStops` and `VelocityFollows` |
| `PolicyNode` | the ROS 2 policy node between its sources and the five controllers |
| `PolicyNodeProofs` | proofs of its inductive invariant, all its safety properties, and of what can move a silenced robot |
| `MujocoRollout` | the MuJoCo runner's launch, dump, update and physics loop, and the torque envelope |
| `MujocoRolloutProofs` | proofs of its inductive invariant, its properties, and of the torque envelope |
| `RlController` | the C++ state machine, its two ramps, and the policies' inference threads |
| `RlControllerProofs` | proofs of its inductive invariant, `StoodBeforeLeave`, `SmoothSetpoint`, `NearsIdle` and `Resumes` |
| `MCHardwareRuntime`, `MCFeedback`, `MCCommandPath`, `MCPolicyNode`, `MCMujocoRollout`, `MCRlController` | the instances TLC explores |

The modules meet where their state does. `HardwareRuntime` refines
`ActuatorContract`, and takes stale feedback as a free choice at every check;
`Feedback` puts clocks on that choice. `MotorCommand` is the arithmetic between
the command `HardwareRuntime` decides on and the frame it sends; it has no state
of its own but the torque of the tick before, which it is given. `CommandPath` composes the writers of
commands with the file and its readers, one of which is the node; `PolicyNode`
takes any velocity at any time and follows it to the controllers. `RlController`
is the other stack, with its operators' requests.

### `HardwareRuntime` against the code

`pc` is the main thread's place in `main`, `run` and `stop_and_disconnect`; one
value stands between two points where another thread or a signal can matter.

| Code | Action |
|---|---|
| `main` 562-642, `__init__` 226-262 | `Launch`, `Refuse` |
| `start` 289-309 | `StartD1`, `StartPiper`, `UndoD1`, `UndoPiper`, `StartReaders` |
| `_Reader.run` 104-117 | `ReaderCheck`, `ReaderAcquire` (lock taken), `ReaderReturn` (sample stored) |
| `_wait_for_initial_state` | `WaitPoll`, `WaitCheck`, `WaitExpire` |
| `set_force_direct`, `enable` | `ForceDirect`, `EnablePiper` |
| `run` 390-462 | `LoopTurn`, `LoopExit`, `PolicyRead`, `PolicyCheck`, `CommandRead`, `CommandCheck`, `SendD1`, `SendPiper` |
| `stop_and_disconnect`, `_safe_send` | `SetStop`, `Join`, `SafeD1`, `SafePiper`, `EstopPiper`, `EstopD1`, `CloseD1`, `ClosePiper` |
| signal handlers | `Signal` |

`frame`, `power` and `handle` are the robot and the vendor drivers, external to
the code; `qualified`, `attempts` and `late` are history variables. A snapshot
is reduced to what the checks tell apart: `empty`, `bad`, `ok`, `limit` (a joint
out of range) and `tilt`. A command is `zero`, `prep` or `act`. Time is not
counted: a snapshot may be found stale at any check, a watchdog may be found
expired at any reading, the gate's deadline may pass at any poll. That covers
every timing the code can meet, at the price of not showing that a timing is
met, which is what `Feedback` is for.

A main-thread vendor call takes the bus lock, so it waits for a reader in a
vendor call (`Free`), and is then one step.

### `MotorCommand` against the code

| Code | Definition |
|---|---|
| `StartupManager.update` 177-210: the phase, the ramp and the hold | `FirstPhase`, `Divisor`, `Ramped`, `Held`, `Prepares` |
| `limit_command` 1491-1493: the clips of position, velocity and torque | `Within`, `LimitedTo` |
| `limit_command` 1493-1520: the torque's window and the target in it | `RateLower`, `RateUpper`, `FeedForward`, `Target` |
| 1521-1534: the gains' scale and the torque the motor will see | `Reach`, `Counts`, `Scales`, `ScaledPD`, `Effective` |
| 1540: `_last_tau` | `LastTau` |
| `JointCalibration.complete`, `_indices` | `Complete`, `JointOf` |
| `JointCalibration.command`, `feedback` | `Mirrored`, `Calibrated`, `Position`, `Velocity` |
| `D1Backend.send` 823-846: a motor's record, and the torque its actuator makes of it | `MotorTorque` |
| `PiperBackend.send` 1252-1340: what it refuses; `JointCommand()` | `Takes`, `Nothing` |

One motor is limited at a time, since numpy's arrays are limited element by
element. A quotient is not computed: what is left of the PD term is the scale
times the term, which is the `Reach` it was divided from. The D1 actuator's own
impedance expression is the vendor's; the model takes it from the comment at
1504-1505 and from the line 1518 that computes it for every joint. Numbers are
integers in one unit, so rounding is left out, with one exception: the
supervisor keeps its position limits as float32 (1384-1398) while `send` compares
with the configuration's, so `LimitedTo` and `Takes` are given limits of their
own. The ramp is not divided but multiplied out: a target is in units of the
divisor, and a time in units of 1e-9 s, the least time the code divides by.

### `Feedback` against the code

| Code | Definition |
|---|---|
| the buses' frames (external) | `Arrive` |
| `D1Backend.read`, `loco_mani_d1_read`, the timeout queries of `d1_tita_adapter.py` | `Begin`, `VendorTimesOut`, `ReadFails`, `ReadD1` |
| `PiperBackend._read_locked` | `Begin`, `Changed`, `Compare`, `ReadFails`, `ReadPiper` |
| `_Reader.run`, `_SnapshotBox`, `merge_snapshots` | `Finish`, `Put`, `MergedValid`, `MergedStamp` |
| `check_state` at the gate, before a policy step and before a command | `Stale`, `GateCheck`, `PolicyCheck`, `CommandCheck` |
| `limit_command`'s watchdog | `Late` |
| a `send` that waits for `_io_lock`, a slow vendor call | `Advance`, which may come between any two steps |

Every stamp is an age that stops counting one past the limit it is compared
with. A box keeps, beside the stamp the code sees, the ages of the data behind
it, which the code does not: the properties relate the two. A read is two steps,
the data being fetched in the first and put into the box in the second, and it
may last: main's `send` then waits for the bus, and so nothing makes the loop
punctual. What bounds the time between two of its checks is `limit_command`'s
watchdog, which finds, at the second, that the first was too long ago. Either
library may stamp its samples or not (`stamped`; the lightweight bindings of
`d1_piper_hardware.py:1167-1172` do not), and D1's stamp is the IMU's, for the
motors too. What is not in `irregular` - a stream, a reader, the loop - is on
time in every instant. The policy watchdog and every other fault only end the
loop earlier.

### `CommandPath` against the code

| Code | Definition |
|---|---|
| `CommandFileReader.read` | `Read`, `Safe`, `Fresh` |
| `_read_command_file` without a file, with one; `run` 392-395 | `TopicTick`, `FileTick`, `RuntimeTick` |
| `_twist_cb`, `_pose_cb` of the node | `TakeTopics` |
| `_write_command`, second half of `_publish` | `WriteFile` |
| keyboard `_tick`, `_poll_keyboard`, `_handle_key`, `_publish`, `close` | `KeyboardTick`, `PollKey`, `PollEnd`, `HandleKey`, `Publish`, `Write`, `Interrupt`, `Kill` |
| bridge callbacks, heartbeat, `close` | `BridgeTwist`, `BridgePose`, `BridgeTick`, `BridgeClose`, `BridgeKill` |

A velocity is `zero` or `move`; the arm target is left out. Time advances when
the consumer has ticked and no writer's callback is running or due: the
consumer's 2 ms and the callbacks' durations are far below the timeouts. A
publication reaches the topics and the file in two steps, between which the
keyboard may be killed or interrupted. Topic messages arrive when they are sent;
their delay and loss are not modelled. A file an earlier session left is expired
when the model starts. One clock stands for the wall clock of the writers and
the reader; clock steps are not modelled. The disk may fail in every setup. A write that
raises is logged and the old file stays; `read()` returns none as long as it has
never held a command, and then the consumer keeps the velocity it has.

The keyboard's parser (`Collects`, `Key`) shows one more thing that no property
states, because a terminal cannot do better without a timer: after a lone ESC
the next key is taken for the end of a sequence and lost, the stop key included.

### `PolicyNode` against the code

| Code | Definition |
|---|---|
| `_joint_state_cb`, `_imu_cb` | `Sample`, `Receive` |
| `_twist_cb`, `_pose_cb` | `Twist`, `Pose` |
| `_tick` with `_read_command_file` | `Tick`, `Watched`, `Stale`, `Decide` |
| `HardwarePolicyRuntime.step`, `sanitize_commands`, `frame`, `append` | `Attempt`, `Sanitized`, `Observed`, `AppendFrame` |
| `_publish_command` | `PublishTopic`, `Enqueue` |
| `close`, `main` | `LoseContext`, `Interrupt`, `CloseTopic`, `CloseFails` |

One thread runs all callbacks, so a callback is one step but for the
publications, between which the context can be lost. A sample is finite or not;
a frame that is not finite makes `frame()` raise before the history is touched,
an inference that raises does so after. `wire` holds the messages in flight,
`held` what the controllers have (external); `heard`, `actAge` and `frameAge` are
history. `world` turns once from `any` to `healthy` or `silent`, so that the
liveness properties can speak of what happens from then on.

### `MujocoRollout` against the code

| Code | Definition |
|---|---|
| `main` 796-949: options, YAML, traces | `Setting`, `Delay`, `Decimation`, `Rate`, `Accepted`, `Launch` |
| `_load_action_replay`, `_load_command_replay` | `LoadsActions`, `LoadsCommands` |
| `main` 951-987: the observation dump | `Dump` |
| the loop's update, `frame`, `policy_step` | `Update`, `NewCommand`, `NewAction`, `LastAction`, `Shift`, `PolicyStep` |
| `advance_actuator_delay` | `Advance`, `Push` |
| `update_torque` | `Torque`, `Speed`, `MaxEffort`, `MinEffort` |
| the policy trace, `mj_step`, a fall or a closed viewer | `Actuate`, `Updated`, `Integrate`, `Finish` |

An action stands for the update that computed it or the trace row it replays, a
command for its row, a state for the physics step it was sampled at: what is
checked is which of them meet. Of the numbers only the torque envelope is
modelled, in integers scaled by the no-load speed, with the code's clip of the
speed to the corner speed. A trace's rate is a fraction, rows per physics step,
and the row in force is its floor (`Row`); the code's 1e-9, which is there for
rounding, is left out.

### `RlController` against the code

| Code | Definition |
|---|---|
| `RlController::update`, `FSM::run` | `Tick`, `Stay`, `Change`, `Run` |
| `fsm_goal_cb` | `Request` |
| `FSMState_TransformUp` | `UpEntered`, `UpRun`, `Folded`, `UpCommand`, `UpDone`, `UpAdmits` |
| `FSMState_TransformDown` | `DownEntered`, `DownRun`, `DownCommand`, `NextName` |
| `_SetJPosInterPts` | `Setpoint` |
| `FSMState_Passive`, `FSMState_JointPD`, `FSMState_RL` | `Damp`, `Hold`, `PolicyCommand`, `EnterPolicy`, `Stopped` and their `...Admits` |
| `update_forward` (`FSMState_RL`, `FSMState_RLPPO`) | `Begin`, `Infer`, `Store` |

A setpoint is how far its ramp has come. An action is told apart by the visit of
its state in which it was observed; an `update()` that reads it while the thread
writes it gets `torn`. A ramp of no length divides zero by zero in its first
tick, which is the command `undefined`. How long the fold takes depends on the
posture at entry and is chosen from `FoldRamps`. A change of parameters while
the states keep pointers into the old ones is not modelled, nor is a request whose
number `stoi` finds out of range (section 7).

## 3. The runs

| Run | Question | Instance |
|---|---|---|
| `send` | do all safety properties and the refinement hold, for every `--send` command line and the dry and shadow ones? | all of them, all readings |
| `live` | does a stop always end in released buses, and a launch in a decision, and does nothing but a lock hold a thread up? | the fully armed command line |
| `command_path` | does a dead writer stop the base, and is a live writer's wish what is used? | each writer with its consumers, with every disk; 2.4 million states |
| `policy_node` | do silence, failure and exit end in zero, is a command whole, does the node recover? | one group of joints and the IMU |
| `feedback` | how old is the data the loop acts on, and does regular feedback ever trip it? | one irregular bus at a time, with an irregular loop; 4.5 million states |
| `rollout` | which action, command and observation meet? | traces at two policy rates and three of their own; 51,432 states |
| `rl_controller` | are the ramps complete and continuous, can the robot be brought down and does every update towards it count, does a policy resume? | two policies |
| `held_velocity`, `hung_can0`, `lost_publisher`, `dead_source`, `stale_stream` | what five statements of the repository say | see section 5 |

**`HardwareRuntime`.** There are two buses, as in the code. `send` takes all 512
command lines with `--send` and the dry and shadow ones, and every reading
(`ok`, `limit`, `tilt`, `bad`). `late` stops counting at 2, one above what
`BoundedAfterStop` allows. No loop is bounded: the loop of `run` and the readers'
loops return to states already seen, so the run covers executions of any length.

`MCHardwareRuntime` also compares `MotorCommand` with its reference, as
assumptions TLC evaluates on small integers: the limiter returns the value of
its window nearest to what was asked, and every calibration of two motors is
inverted by `feedback` and gives a motor its joint's torque; the preparation's ramp
is straight from the measured pose to the default; the arm refuses a limited
command exactly where a position limit was rounded outwards.

**`Feedback`.** `FeedbackTimeout = 1`, `StateTimeout = 2`, `CommandTimeout = 2` and
`VendorTimeout = 5` are met from both sides: with them the bounds are 11 for Piper and
for D1's motors and 10 for the IMU. `OneBus`
has everything regular, with stamps and without, and then one bus irregular at a
time, streams, reader and loop, since the check treats the two buses alike; the
proofs need no such restriction. `stale_stream` has two of Piper's streams, which
is what one live stream hiding a dead one needs.

**`CommandPath`.** Timeouts 6 and 1 and heartbeat 2 keep the order of the shipped
500, 40 and 50 ms: the topics' timeout is shorter than a heartbeat, so a held
velocity is dropped between two, and the file's outlasts both. `AllSetups` is
every writer with every consumer it is meant for, and a disk that may fail in each.
`MaxKeys = 2` lets two keys wait while more are typed as they are read, which is
what an escape sequence and a key behind `x` need.

**`PolicyNode`.** One group of joints, whose samples may be NaN, and the IMU are
the two kinds of source; two topics are enough for a command to be cut in two,
and `Depth = 1` for a full queue to drop one of its messages. `Period = 1` and
`Timeout = 2` let a policy command expire within a fresh state and a state within
a period.

**`MujocoRollout`.** `HistoryLen = 3` and `MaxDelay = 4` are the code's values; ten
steps with decimations 2, 3 and 4 fill the buffers and the delay line and pass
the end of traces. The rates are one row in two steps and three in four, and of a
command trace with a rate of its own one in three and two in five: slower and
faster than the policy, and not dividing it.

**`RlController`.** Folds of length 0 and 1, a stand of 1 and `Settle = 2` (100 in
the code; the assumption is `Settle > 1`) give every branch of both ramps.

**Deadlock** is checked in every run but `hung_can0`, where a thread waiting for
a lock that never comes free is the subject. Processes that end have a
stuttering action of their own (`Exited`, `Gone`, `Ended`, `Halted`).

**Fairness.**

* `HardwareRuntime!Fairness`: the interpreter gives every thread its turn (weak
  fairness of `Main` and of each reader's steps); a vendor call returns (weak
  fairness of `ReaderReturn`) unless its bus is in `Hanging`; and the feedback
  gate's deadline, which real time always reaches, is strongly fair because
  polling disables it in between.
* `CommandPath!FairSpec`: the consumer, the keyboard process and the bridge's
  timer keep running, and time passes (strong, since a callback may be running
  at any given moment). The operator, signals, deaths and teleop are never
  assumed to act.
* `PolicyNode!FairSpec`: the executor serves the timer and finishes its callback,
  controllers take their messages; a source that is healthy publishes and time
  passes (strong, because other callbacks run in between). Nothing makes a
  source healthy: `Recovers` and `SilenceReachesRobot` assume it in the property.
* `RlController!FairSpec`: the controller manager calls `update()` for ever, and
  the operating system schedules each inference thread. `LiesDown` assumes an
  operator who keeps asking.

## 4. What is proved

The proofs hold for every value of the constants: every set of command lines,
readings and hanging buses; every timeout, period, depth and heartbeat; any
streams, sources, topics and policies; any length of history, delay and ramp.
The assumptions on the constants in the modules give only their types, with
`Settle > 1` and `HistoryLen > 0` as the exceptions. One theorem
(`RegularFeedbackRuns`) has a hypothesis on the timeouts, and six about progress
name a fact TLC checks; all are named below. The inductive invariants `NodeInv` and `RolloutInv`
and the types of `HardwareRuntime` are proved and part of no run, where the
properties that follow from them are.

**`HardwareRuntimeProofs`.** `TypeCorrect`: `Spec => []TypeOK`. The other three
are about progress, under `FairSpec`:

* `StopCompletes` - if no bus hangs, a stop request ends in released buses and a
  process that has exited. The measure is `StepsLeft`, which every step of main
  lowers and no other step raises once the stop event is set. Main waits
  only for a lock, the lock's reader returns it, and a reader that sees the stop
  event never takes it again.
* `LaunchIsDecided` - if no bus hangs, a launch passes the gate or exits; polling
  cannot outlast the gate's deadline.
* `PiperCannotKeepD1Moving` - once teardown has begun D1 is given its zero
  command, as long as D1's own calls return, even if Piper's never do
  (`StopZeroesD1`). `hung_can0` shows that the converse is false.

`Hanging = {}` and `"d1" \notin Hanging` are what is assumed of the buses, not of
the program: with a bus that hangs the stop is not carried out (section 5).
Fairness promises steps that are enabled, and ENABLED is beyond the prover, so
each of these theorems, and two of the next module, has the hypothesis
`[]OnlyLocksBlock`: main is held up by nothing
but a lock that is not free, and a reader's next step can be taken. TLC checks
it in `live`; which step that is, whether the lock comes free and that the steps
lead anywhere is what is proved.

**`HardwareRuntimeSafety`.** The properties are not inductive by themselves:
that teardown zeroes and stops a powered arm, say, needs to know that `pc`
cannot be past a step without its attempt being recorded. `IInv` adds what the
main thread's position says:

* `ControlInv` - which gates have been passed at each `pc`, and that no latch is
  set anywhere a frame can be sent;
* `OwnershipInv` - which drivers are open at each `pc`, and never closed twice;
* `TeardownInv` - which stop commands were issued by each teardown step;
* `LateInv` - an active frame after the stop event belongs to the turn the event
  interrupted, and that turn has not sent yet;
* `ReportInv` - from teardown on, a fault or a powered arm has been reported;
* `PreparedInv` - until both buses had a preparation command, the startup
  manager cannot have reached its policy phase with a command to send.

`Inductive` proves `Spec => []IInv`, one lemma per conjunct and one step per
action; `ActuationIsGated`, `StopIsBounded`, `ArmIsDisarmed`,
`DriversAreClosedOnce` and `FaultsAreReported` follow. `LatchIsFinal` and
`PolicyIsPrepared` prove the action properties from the same invariant.
`Refinement` proves `Spec => ContractSpec`: under the mapping `phase` every step
of the runtime is a step of `ActuatorContract` or leaves its variables alone.

The contract also says that a stop ends (`StopEnds`). `StopIsCarriedOut` proves
it of the runtime, without the operator's help, if no bus hangs: `StopCompletes`
starts from the stop event, and this one from the latch, which is set
before the event. The new part is that a latched fault leads there. `StoppingInv`
says where the main thread can be then: with the latch set it is at the gate,
between a check and the end of its turn, or in teardown, and no fault is
reported before the loop is left.

Two of the comments that section 5 refutes are made precise. `PiperIsStopped`
proves `PiperStopIndependent` under `Hanging = {}`, so the vendor call that does
not return is the only way to lose Piper's stop. `FaultsAreKept` proves, with no
hypothesis, that no step but `SafeD1` ever replaces a reported fault, so the one
assignment of `loco_mani_runtime.py:280` is all there is to it (`FirstFaultKept`,
which `send` checks too).

**`FeedbackProofs`.** `AgesInductive` proves `Spec => []FeedbackInv`. A stamp says
when a change was noticed, and the data behind it may be older; how much older is
a matter of how long the loop can have gone without a new snapshot, because that
is all that ends a read that lasts too long. A live loop has passed a check at
most a command watchdog ago, and what it passed was at most a state timeout old:
that is the `Gap`, the longest a snapshot stays in its box unreplaced. The
invariant counts the gaps along the way of a sample. `LegsInv`: D1's data was fetched
within the library's own timeout, by a read that began after the snapshot before
it was put into the box. `ImuInv`: a new stamp waits at most one gap to be noticed, and the
data fetched before that is at most another older. `PiperInv`: Piper's stamps are
fetched with the data, when the read begins, so a new one waits for up to two.
`PiperSilenceIsNoticed`, `ImuSilenceIsNoticed` and `D1DataOutlivesNoTimeout` read the
bounds off it, once the loop has run for as long as its stamps look back:

| data | bound | holds |
|---|---|---|
| Piper's youngest stream | feedback timeout + 3 state timeouts + 2 command watchdogs | if the library stamps its samples |
| D1's IMU | 3 state timeouts + 2 command watchdogs | if the library stamps its samples |
| D1's motors and IMU | the library's timeout + 2 state timeouts + command watchdog | always |

They are worst cases, of reads that hold the bus for as long as the watchdog lets
them. Without stamps no bound on Piper's data exists: every poll makes the
snapshot new. Piper's bound speaks of its youngest stream only, and `stale_stream`
shows why it cannot speak of all.
`RegularFeedbackRuns` proves the converse, that streams and readers that are on
time, and a loop within its watchdog, never trip the check, from `TimeoutsTolerate`
(`FeedbackTimeout >= 1`, `StateTimeout >= 2`, `VendorTimeout >= 1`: room for the
instant by which a sample and the two by which a snapshot may be old), through the
invariant `RegularInv`.

**`CommandPathProofs`.** `StampsBoundSilence` proves `Spec => []SilenceInv` and
`SilenceIsBounded` proves `Spec => []DeadWriterStops`, without a hypothesis on
timeouts, heartbeat or disk. `DeadWriterStops` names its one exception, `Orphaned`: a
node with both channels whose reader has never held a command, with a disk that
may fail or a file timeout that does not outlast the topics' by a heartbeat and an
instant. There is nothing that could expire: `read()` returns none, and the node
keeps its last velocity for good, as `lost_publisher` shows. With the shipped values
(500, 40 and 50 ms) a failing disk is the one way into it. The argument has three
parts:

* `StampsInv` - no stamp is younger than the last command that got out, so a
  consumer that finds its stamp fresh has heard from its writer recently;
* `ExpiryInv` - whoever moves the base holds a command that can expire, or is
  about to read a file that is still fresh, or is that node;
* `KeyboardInv` - why that file is fresh: while the keyboard runs and its disk
  works, its file is at most one heartbeat old.

`FollowInductive` and `OperatorIsFollowed` prove `VelocityFollows` for every timeout
and heartbeat: at its next tick a consumer uses what its writer at rest wants, or
zero while every channel's newest command has expired (`Expired`). With the shipped
40 ms topic timeout (`d1_piper_l_ros2_node.py:253`, `config/d1_piper_l.yaml:196`) and
the 50 ms heartbeat the second case is ordinary: a held velocity drops to zero
between two heartbeats (`held_velocity`). What remains is asked of channels that are
written (`Written`): a consumer that reads the file has a disk that works. The
invariant `FollowInv` says that a writer at rest has its velocity out on every
channel its consumer reads (`RestInv`, `BridgeInv`), and that a keyboard that is
closing never rests again.

**`PolicyNodeProofs`.** `NodeInductive` proves `Spec => []NodeInv`: the one state
stamp is the age of some source (`StampInv`), which also ties a command's age to
the policy's stamp, and a topic already published ends with the command
(`PublicationInv`), whatever its queue dropped. `StarvationStops`, `ActIsFresh`,
`CommandsAreWhole`, `ClosesAtZero` and `HistoryIsPaced` follow. `OnlySamplesMove`
is the other half of `SilenceReachesRobot`, which says that silence reaches the
controllers: once it has, every step keeps the robot `Silenced` but a new sample.
No velocity, no queue and no way of ending the node moves it.

**`RlControllerProofs`.** `RampsInductive` proves `Spec => []IInv`: `UpInv` and
`DownInv` relate a transform's counters to the setpoint commanded a tick ago,
`ControlInv` the mode to the state, and `AwakeInv` the state to its policy's
thread: it was started, and its flag is clear. `StandsBeforeLeaving`,
`SetpointsAreSmooth` and `ThreadsAreReady` follow. The first is about leaving
`transform_up` only: a policy may be entered through `joint_pd`
(`FSMState_Passive.cpp:53-55`, `FSMState_JointPD.cpp:70-78`) by a robot that never
stood, and nothing is said of it. `EveryUpdateNearsIdle` proves
`Spec => NearsIdle`: while `transform_down` is asked for, an update lowers the
changes of state left on the way to `idle` (`ChangesLeft`), or leaves them and
lowers the updates left in the ramp (`TicksLeft`), or finds the robot lying
there. `PoliciesResume` proves `FairSpec => Resumes` from `[]ThreadAwake`, the
form with ENABLED of the proved `AwakeInv`, which TLC checks: the thread of a
policy that was entered again finishes the inference it had begun before, and
the next one it begins is of this visit.

The transform is left on a counter of the total of both ramps while the second
starts a tick after the first ends, which is why `Settle > 1` is needed.

**`MotorCommandProofs`.** For all integers and every complete calibration of any
set of joints. `EffectiveTorqueBounded`: the torque a motor makes of a limited
command, PD term included, is within the effort limit and within one tick's
change of the torque before, and the limiter's own state stays within the
limit, so that it can be applied again. A PD term of at most `tiny` (1e-6 in the
code), which is not scaled, may come on top. `ProjectionIsOnTheRay`: the target
never lies on the other side of the feed-forward torque, because that was put
into the same window first; but for rounding, the branch for it (1526-1531) is
never taken.
`AdmissibleCommandIsKept`: what is within the limits is sent unchanged.
`CalibrationRoundTrip`, `MotorMakesJointTorque` and `MotorTorqueLimited` carry the
bound from the joint the supervisor limits to the motor that is sent the
record, in another order, direction and zero. The bound is on the feedback the
limiter used: a motor that moves before the next command makes another torque,
since its PD term does.

Piper's `send` refuses what the vendor's library would clamp in silence, and a
refusal stops the run. `ArmTakesLimited`: it refuses nothing the limiter let
through, provided the limiter's limits lie within those `send` compares with
(`LimitsAgree`). `RoundedOutwardsIsRefused` shows that this cannot be dropped: where
a position limit was rounded outwards, whatever is clipped to it is refused. The
shipped limits do not satisfy `LimitsAgree` (section 5). `ArmTakesZero`: teardown's
zero command, which no limiter sees, is taken exactly if the range holds zero and
the encoder's zero fits the frame; joints 2 and 3 have zero at the end of
their range. `PreparationStartsAtPose`, `RampEndsWhereHeld`, `RampStaysWithin` and
`RampIsGentle`: the preparation starts where the robot is, has no step at
the change of phase, leaves no limit, and moves no faster than its speed even
when an update is late - unless `mode` is `ramp_default` and `ramp_s` is 0, which
commands the default pose at once.

**`MujocoRolloutProofs`.** `RolloutInductive` proves `Spec => []RolloutInv`:
`PhaseInv` (what each phase of `main` finds), `QueueInv` (the delay line against
what was issued), `BuffersInv` (the buffers are filled together), `ClockInv` (one
trace row for each `Decimation` steps, and none for the dump's update before the
loop's first step). `ArmIsDelayedExactly`, `HistoriesAreAligned`,
`LastActionIsChained`, `ReplayIsInOrder`, `TraceIsAligned` and `OnlyTheDumpIsRaw`
read the properties off it. `ReplayIsInOrder` is for traces of any rate and any
decimation: an update uses the row in force at its physics step (`InForce`), which
follows from the floor of `Row`. `TorqueBounded` and `BeyondCornerSpeedBrakes` are about
`Torque` alone, for all integers: the torque never exceeds the effort limit, and
past the corner speed it opposes the motion with all of it.

**Only model-checked.** `OnlyLocksBlock` and `ThreadAwake`, because ENABLED is
beyond the prover; the guard that `ThreadAwake` comes to is proved
(`ThreadsAreReady`). `Recovers`, `SilenceReachesRobot` and `LiesDown`, because they
need an induction over a number of steps that the constants do not bound, and
the library's induction theorems cannot be applied to a temporal formula; each
step of the induction for `LiesDown` is `NearsIdle`, which is proved. That numpy's
quotient and product return the `Reach` is taken for exact. The violations are
found by TLC.

## 5. Where the code and what is said of it differ

| Run | Statement | What the model shows |
|---|---|---|
| `hung_can0` | "Piper must still receive its zero/stop attempt" (`loco_mani_runtime.py:274-275`) | a D1 reader that hangs in a vendor call keeps `_io_lock`; the D1 zero command waits for it for ever, before Piper's turn |
| `lost_publisher` | "Do not retain a stale base velocity indefinitely" (`d1_piper_l_ros2_node.py:246-248`) | the bridge's heartbeat stamps a velocity anew after its publisher is gone |
| `lost_publisher` | "a dead keyboard must never leave a locomotion velocity command running indefinitely" (`command_file.py:38-39`) | a node with a command file whose disk fails is moved by topics; the keyboard, which only logs the `OSError` (`loco_mani_keyboard.py:303-304`), dies; `read()` has no command and returns none, and the velocity stays (`d1_piper_l_ros2_node.py:260-265`) |
| `held_velocity` | letting a key go does not slow the base down (`loco_mani_bringup/README.md:82-83`) | the 40 ms topic timeout is shorter than the 50 ms heartbeat, and a held velocity drops to zero between two |
| `dead_source` | a missing or old state means zero commands (`docs/loco_mani_sim2sim_architecture.md:326-327`) | either state callback renews the one stamp, so a live source hides a dead one and the policy goes on with its last sample |
| `stale_stream` | a receive stamp older than 20 ms stops the policy (`docs/hardware_deployment.md:99`) | Piper's stamps are compared as one tuple, so a live stream hides a motor whose stream has stopped |

Each of the two setups of `lost_publisher` violates its property alone.

Met while modelling, and not the subject of a run:

* a D1 zero command that raises during teardown replaces the fault that ended the
  run (`loco_mani_runtime.py:280`, against "never hide the original fault" at 271);
  the Piper half tests for an earlier fault first (286). `FirstFaultKept` shows that
  nothing else does;
* a node with a command file and topics, and a disk that fails after a moving
  velocity was written: after a stop the topics are fresh for 40 of every 50 ms, and
  between two heartbeats the node takes the old moving velocity from the file,
  until that is 500 ms old (`d1_piper_l_ros2_node.py:258-260`; why `Written` is a
  condition of `VelocityFollows`);
* a clean exit may end with a final D1 zero that was refused with `False`, which
  nothing reads, and status 0 (`loco_mani_runtime.py:277`, against
  `docs/hardware_deployment.md:28-29`);
* a rejected D1 frame does not keep the Piper command of the same tick from being
  sent (`loco_mani_runtime.py:444-446`; in the model `send_piper_rejected`);
* a target beyond a limit of Piper's joint 1 or joint 5 ends the run instead of
  being clipped. The supervisor clips to limits it keeps as float32
  (`d1_piper_hardware.py:1384-1398`, 1491), `send` compares with the
  configuration's doubles and, unlike for velocity and torque, without a
  tolerance (1319). As float32, 2.618 is 3.1e-8 larger and 1.56207 1.2e-8 larger,
  so the clipped target is refused: the `ValueError` becomes the fault
  `command send failed`, after D1 was sent its half of the tick. The comment at
  1488-1490 has the limits applied "before they reach either vendor backend"
  (`RoundedOutwardsIsRefused`; the other arm limits are exact or round inwards);
* with `startup.mode: ramp_default` and `ramp_s: 0`, which the validation accepts
  (`loco_mani_runtime.py:152`), the default pose is commanded in one step
  (`PreparationStartsAtPose`);
* keys typed behind `x` are still handled and published
  (`loco_mani_keyboard.py:319`), the base being stopped by the timeouts then;
* the first row of a command trace is not sanitised when it is dumped
  (`d1_piper_l_mujoco.py:955`; `RawOnlyInDump` states the exception), and it stays in
  the term history from which the first action is computed;
* a request whose number is out of `int`'s range makes `stoi` throw an exception
  that `transform_up` does not catch (`FSMState_TransformUp.cpp:248`);
* `FSM::run` computes a clamped torque and throws it away (`FSM.cpp:95-98`);
* a reconfiguration leaves the states with dangling pointers
  (`rl_controller_node.cpp:371`).

## 6. What is left

In the order in which it would add most:

1. Teleop: the reader thread's lost wake-up, the frames of a serial buffer, the
   goal that is published only when it changes, composed with `RlController`.
2. The joystick and keyboard controllers with their publishing threads.
3. Topic messages that are delayed or lost, and two writers at once, in
   `CommandPath`; lifecycle callbacks and reconfiguration in `RlController`.
4. The dates of `StartupManager`'s phases, on the clock of `Feedback`; its
   targets are in `MotorCommand`.
5. Rounding in `limit_command` beyond that of the position limits.

## 7. What is not modelled

* Numbers, but for the simulator's torque envelope and what `MotorCommand` holds:
  policy inference, observations, units, and in `HardwareRuntime` joint limits
  beyond "inside or outside". They are arithmetic on single values, which unit
  tests reach.
* Teleop, joystick and keyboard controllers: modelled only by what they send -
  any request at any time in `RlController`, any twist in `PolicyNode`.
* The hardware bridge: it copies between ros2_control's vectors and a vendor
  interface whose headers and library are not in the repository, so its modes
  and failures could only be guessed.
* In `RlController`, a request for which `std::stoi` throws `out_of_range`: the
  exception leaves `update()`, and what the controller manager does with it is not
  in the repository.
* Vendored and generated code, MuJoCo's user interface (`simulate.cc`), ONNX and
  TensorRT engines: libraries with no control of this repository's in them. The
  MuJoCo ros2_control system and the Webots bridge copy sensors and commands
  around them.
* The read-only inspector, launch files, URDF and meshes, offline scripts:
  declarations and data, or programs that run to completion alone.
