----------------------------- MODULE PolicyNode -----------------------------
(***************************************************************************)
(* The ROS 2 policy node (d1_piper_l_ros2_node.py) between the state and   *)
(* command topics it subscribes to and the five ros2_control controllers   *)
(* it commands: its state callbacks, the tick that runs the policy         *)
(* (HardwarePolicyRuntime.step in d1_piper_hardware.py) or falls back to   *)
(* the zero command, the five publications of a command, and close().      *)
(*                                                                         *)
(* One thread runs every callback.  A sample, a velocity or a command is   *)
(* reduced to what the node's decisions tell apart.  Time is discrete and  *)
(* a stamp is kept as an age, as in CommandPath; the node ticks at every   *)
(* instant, its 2 ms being far below the timeout.                          *)
(***************************************************************************)
EXTENDS Naturals, Sequences

CONSTANTS
  Groups,     \* the sets of joints that arrive in one JointState message
  Faulty,     \* the sources whose samples may hold a number that is not finite
  Period,     \* policy_period
  Timeout,    \* command_timeout
  NumTopics,  \* the topics of a command, numbered as they are published
  Depth       \* the depth of a topic's queue

Sources == Groups \cup {"imu"}
Topics == 1 .. NumTopics
Command == {"zero", "act"}
Velocity == {"finite", "nan"}

ASSUME SourcesAssumption == "imu" \notin Groups /\ Faulty \subseteq Sources
ASSUME TimesAssumption == Period \in Nat \ {0} /\ Timeout \in Nat \ {0}
ASSUME TopicsAssumption == NumTopics \in Nat \ {0} /\ Depth \in Nat \ {0}

VARIABLES
  seen,       \* _joint_seen, by groups, and _imu_seen
  broken,     \* the sources whose last sample is not finite
  stateAge,   \* age of _last_state
  vel,        \* command_velocity
  rosAge,     \* age of _last_ros_command
  rosSeen,    \* _ros_command_seen
  policyAge,  \* age of _last_policy
  cmd,        \* _last_command
  ticked,     \* has the node ticked since the clock, a sample or a command
              \* last changed?
  pc,         \* what its thread is doing
  next,       \* the next topic of the command being published
  context,    \* is the rclpy context valid?
  wire,       \* each topic's messages in flight
  held,       \* each controller's command
  world,      \* how the processes around the node behave (external)
  heard,      \* history: time since each source's last sample
  actAge,     \* history: time since the policy last gave a command
  frameAge    \* history: time since a frame was appended to its history

stateVars == <<seen, broken, stateAge>>
velVars == <<vel, rosAge, rosSeen>>
policyVars == <<policyAge, cmd, actAge, frameAge>>
robotVars == <<wire, held>>
vars == <<stateVars, velVars, policyVars, ticked, pc, next, context, robotVars,
          world, heard>>

Age(limit) == 0 .. limit + 1
Older(age, limit) == IF age > limit THEN age ELSE age + 1

\* Ages that are compared with Period by >= need not count past it.
PolicyAge == 0 .. Period
OlderPolicy(age) == IF age = Period THEN age ELSE age + 1

TypeOK ==
  /\ seen \subseteq Sources /\ broken \subseteq seen
  /\ stateAge \in Age(Timeout)
  /\ vel \in Velocity /\ rosAge \in Age(Timeout) /\ rosSeen \in BOOLEAN
  /\ policyAge \in PolicyAge /\ cmd \in Command
  /\ ticked \in BOOLEAN
  /\ pc \in {"idle", "publish", "closing", "gone"}
  /\ next \in Topics /\ context \in BOOLEAN
  /\ wire \in [Topics -> Seq(Command)]
  /\ held \in [Topics -> Command]
  /\ world \in {"any", "healthy", "silent"}
  /\ heard \in [Sources -> Age(Timeout)]
  /\ actAge \in PolicyAge /\ frameAge \in PolicyAge

\* The stamps are 0.0 on a clock that counts from the machine's start: long ago.
Init ==
  /\ seen = {} /\ broken = {} /\ stateAge = Timeout + 1
  /\ vel = "finite" /\ rosAge = Timeout + 1 /\ rosSeen = FALSE
  /\ policyAge = Period /\ cmd = "zero"
  /\ ticked = FALSE
  /\ pc = "idle" /\ next = 1 /\ context = TRUE
  /\ wire = [t \in Topics |-> <<>>] /\ held = [t \in Topics |-> "zero"]
  /\ world = "any"
  /\ heard = [s \in Sources |-> Timeout + 1]
  /\ actAge = Period /\ frameAge = Period

-----------------------------------------------------------------------------
(* Subscriptions *)

\* _joint_state_cb, _imu_cb: either refreshes the one state stamp, and what
\* has been seen once stays seen.
Receive(s) ==
  /\ seen' = seen \cup {s}
  /\ stateAge' = 0

\* The state the next tick copies is valid.
Valid == Groups \subseteq seen /\ "imu" \in seen

Sample(s, bad) ==
  /\ pc = "idle" /\ context /\ world # "silent"
  /\ bad => s \in Faulty /\ world = "any"
  /\ Receive(s)
  /\ broken' = IF bad THEN broken \cup {s} ELSE broken \ {s}
  /\ heard' = [heard EXCEPT ![s] = 0]
  /\ ticked' = FALSE
  /\ UNCHANGED <<velVars, policyVars, pc, next, context, robotVars, world>>

\* _twist_cb takes any number.
Twist(v) ==
  /\ pc = "idle" /\ context /\ world = "any"
  /\ vel' = v /\ rosAge' = 0 /\ rosSeen' = TRUE
  /\ ticked' = FALSE
  /\ UNCHANGED <<stateVars, policyVars, pc, next, context, robotVars, world,
                 heard>>

\* _pose_cb: a pose it accepts refreshes the same stamp; the others it ignores.
Pose ==
  /\ pc = "idle" /\ context /\ world = "any"
  /\ rosAge' = 0 /\ rosSeen' = TRUE
  /\ ticked' = FALSE
  /\ UNCHANGED <<stateVars, vel, policyVars, pc, next, context, robotVars,
                 world, heard>>

-----------------------------------------------------------------------------
(* The tick *)

WatchedNever == vel
\* _read_command_file() without a file: the watchdog of the velocity.
Watched == IF rosSeen /\ rosAge > Timeout THEN "finite" ELSE vel

\* sanitize_commands() refuses a velocity that is not finite,
Sanitized == Watched # "nan"
\* and frame() an observation that is not.
Observed == broken = {}
Framed == Sanitized /\ Observed
\* append() then stores the frame,
AppendFrame == frameAge' = IF Framed THEN 0 ELSE frameAge
\* and only after that can the inference raise.
EngineFails == world = "any"

AttemptLateStamp(succeeds) ==
  /\ cmd' = IF succeeds THEN "act" ELSE "zero"
  /\ policyAge' = IF succeeds THEN 0 ELSE policyAge
  /\ actAge' = IF succeeds THEN 0 ELSE actAge
  /\ AppendFrame
AttemptKeepsCommand(succeeds) ==
  /\ cmd' = IF succeeds THEN "act" ELSE cmd
  /\ policyAge' = 0
  /\ actAge' = IF succeeds THEN 0 ELSE actAge
  /\ AppendFrame
Attempt(succeeds) ==
  /\ cmd' = IF succeeds THEN "act" ELSE "zero"
  /\ policyAge' = 0
  /\ actAge' = IF succeeds THEN 0 ELSE actAge
  /\ AppendFrame

\* HardwarePolicyRuntime.step().  Whether it succeeds or raises, the next attempt
\* is a period away.
Step == \/ Attempt(Framed)
        \/ EngineFails /\ Attempt(FALSE)

StaleIgnoresAge == ~Valid
Stale == ~Valid \/ stateAge > Timeout

Decide ==
  CASE Stale -> cmd' = "zero" /\ UNCHANGED <<policyAge, actAge, frameAge>>
    [] ~Stale /\ policyAge = Period -> Step
    [] OTHER -> UNCHANGED policyVars

Tick ==
  /\ pc = "idle" /\ context /\ ~ticked /\ ticked' = TRUE
  /\ vel' = Watched
  /\ Decide
  /\ pc' = "publish" /\ next' = 1
  /\ UNCHANGED <<stateVars, rosAge, rosSeen, context, robotVars, world, heard>>

-----------------------------------------------------------------------------
(* Publications *)

EnqueueKeepsOld(q, c) == IF Len(q) = Depth THEN q ELSE Append(q, c)
\* A full queue loses its oldest message.
Enqueue(q, c) ==
  LET longer == Append(q, c)
  IN IF Len(longer) > Depth THEN Tail(longer) ELSE longer

\* _publish_command(): one topic after another.
PublishTopic ==
  /\ pc = "publish" /\ context
  /\ wire' = [wire EXCEPT ![next] = Enqueue(@, cmd)]
  /\ IF next = NumTopics THEN pc' = "idle" /\ UNCHANGED next
     ELSE next' = next + 1 /\ UNCHANGED pc
  /\ UNCHANGED <<stateVars, velVars, policyVars, ticked, context, held, world,
                 heard>>

\* A controller takes the next message of its topic.
Deliver(t) ==
  /\ wire[t] # <<>>
  /\ held' = [held EXCEPT ![t] = Head(wire[t])]
  /\ wire' = [wire EXCEPT ![t] = Tail(@)]
  /\ UNCHANGED <<stateVars, velVars, policyVars, ticked, pc, next, context,
                 world, heard>>

-----------------------------------------------------------------------------
(* The end *)

\* SIGINT: rclpy's handler invalidates the context, so spin() calls back no
\* more ...
LoseContext ==
  /\ context /\ pc # "gone" /\ context' = FALSE
  /\ UNCHANGED <<stateVars, velVars, policyVars, ticked, pc, next, robotVars,
                 world, heard>>

\* ... and it, or a publication, raises, perhaps before the handler has run;
\* main() then calls close().
Interrupt ==
  /\ pc \in {"idle", "publish"} /\ pc' = "closing" /\ next' = 1
  /\ UNCHANGED <<stateVars, velVars, policyVars, ticked, context, robotVars,
                 world, heard>>

FinalRepeatsLast == cmd
FinalCommand == "zero"

\* close() publishes one zero command, as far as the context allows.
CloseTopic ==
  /\ pc = "closing" /\ context
  /\ wire' = [wire EXCEPT ![next] = Enqueue(@, FinalCommand)]
  /\ IF next = NumTopics THEN pc' = "gone" /\ UNCHANGED next
     ELSE next' = next + 1 /\ UNCHANGED pc
  /\ UNCHANGED <<stateVars, velVars, policyVars, ticked, context, held, world,
                 heard>>

CloseFails ==
  /\ pc = "closing" /\ ~context
  /\ pc' = "gone"
  /\ UNCHANGED <<stateVars, velVars, policyVars, ticked, next, context,
                 robotVars, world, heard>>

-----------------------------------------------------------------------------
(* The world *)

\* From some time on sources and inference may work and the operator be quiet,
\* or every source be silent.
Settle(w) ==
  /\ pc = "idle" /\ context /\ world = "any" /\ world' = w
  /\ UNCHANGED <<stateVars, velVars, policyVars, ticked, pc, next, context,
                 robotVars, heard>>

\* A healthy source is heard at every instant.
Advance ==
  /\ pc = "idle" /\ context /\ ticked
  /\ world = "healthy" => \A s \in Sources : heard[s] = 0
  /\ ticked' = FALSE
  /\ stateAge' = Older(stateAge, Timeout) /\ rosAge' = Older(rosAge, Timeout)
  /\ heard' = [s \in Sources |-> Older(heard[s], Timeout)]
  /\ policyAge' = OlderPolicy(policyAge)
  /\ actAge' = OlderPolicy(actAge) /\ frameAge' = OlderPolicy(frameAge)
  /\ UNCHANGED <<seen, broken, vel, rosSeen, cmd, pc, next, context, robotVars,
                 world>>

Gone == pc = "gone" /\ UNCHANGED vars

Sampling == \E s \in Sources, bad \in BOOLEAN : Sample(s, bad)
Teleop == Pose \/ \E v \in Velocity : Twist(v)
Close == CloseTopic \/ CloseFails
Next ==
  \/ Sampling \/ Teleop \/ Tick \/ PublishTopic
  \/ (\E t \in Topics : Deliver(t))
  \/ LoseContext \/ Interrupt \/ Close \/ (\E w \in {"healthy", "silent"} : Settle(w))
  \/ Advance \/ Gone

Spec == Init /\ [][Next]_vars

\* The executor serves what waits, controllers take their messages, a healthy
\* source publishes on time, and time passes.
HealthySample ==
  world = "healthy" /\ \E s \in Sources : heard[s] > 0 /\ Sample(s, FALSE)
FairSpec ==
  /\ Spec
  /\ WF_vars(Tick) /\ WF_vars(PublishTopic)
  /\ \A t \in Topics : WF_vars(Deliver(t))
  /\ SF_vars(HealthySample) /\ SF_vars(Advance)

-----------------------------------------------------------------------------
(* Properties *)

\* The newest message of a topic: what its controller has or will have.
Newest(t) == IF wire[t] = <<>> THEN held[t] ELSE wire[t][Len(wire[t])]

\* Silence stops the robot: once no source was heard for command_timeout, a
\* node that has ticked commands zero, whatever it commanded before (_tick).
StarvedStops ==
  ticked /\ (\A s \in Sources : heard[s] > Timeout) => cmd = "zero"

\* A policy command is held for less than a period, it was computed from every
\* source, and it does not outlive a failed step, so an old command is never
\* repeated at the command rate (the two branches of _tick).
FreshAct ==
  cmd = "act" => /\ seen = Sources
                 /\ ticked => actAge < Period

\* Between two ticks all five topics end with the same command, however full
\* their queues were: positions of one command meet gains of another only
\* while messages are in flight (_publish_command).
CommandWhole == pc = "idle" => \A t \in Topics : Newest(t) = cmd

\* A node that closes with a valid context leaves every controller a zero, even
\* when it was interrupted between two topics (close).  A context that is lost
\* first leaves them with the last command.
FinalZero == pc = "gone" /\ context => \A t \in Topics : Newest(t) = "zero"

\* The history the policy sees is sampled at the policy rate: when a step is
\* due, no frame was added in the last period, failed steps and outages
\* included.
PacedHistory == ~Stale /\ policyAge = Period => frameAge = Period

\* What each step of the publication has reached.
PublicationInv ==
  /\ pc = "publish" => \A t \in Topics : t < next => Newest(t) = cmd
  /\ pc = "closing" => \A t \in Topics : t < next => Newest(t) = "zero"

\* The stamps against what was heard: no state is younger than its source.
StampInv ==
  /\ stateAge <= Timeout => \E s \in Sources : heard[s] <= stateAge
  /\ cmd = "act" => seen = Sources /\ actAge = policyAge
  /\ cmd = "act" /\ ticked => policyAge < Period /\ stateAge <= Timeout
  /\ policyAge <= frameAge

\* It is inductive.
NodeInv == TypeOK /\ StampInv /\ PublicationInv /\ CommandWhole /\ FinalZero

Ended == pc \in {"closing", "gone"} \/ ~context

\* Nothing the node has been through keeps it at zero: with sources, inference
\* and operator back to normal, the policy's commands reach every controller
\* and stay, a NaN velocity left behind included (_read_command_file, _tick).
Recovers ==
  <>(world = "healthy") => <>[](Ended \/ \A t \in Topics : held[t] = "act")

\* Silent sources end in a zero command at every controller.
SilenceReachesRobot ==
  world = "silent" ~> (Ended \/ \A t \in Topics : held[t] = "zero")

\* docs/loco_mani_sim2sim_architecture.md: a state that is missing or older
\* than command_timeout puts the node into zero-command mode.
DeadSourceStops ==
  ticked /\ (\E s \in Sources : heard[s] > Timeout) => cmd = "zero"
=============================================================================
