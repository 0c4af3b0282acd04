---------------------------- MODULE MotorCommand ----------------------------
(***************************************************************************)
(* What a joint's command becomes on its way to a motor: the target that   *)
(* StartupManager prepares the pose with, the limits of                    *)
(* SafetySupervisor.limit_command(), JointCalibration, which turns a bus's *)
(* joints into its motors and back, and the checks PiperBackend.send()     *)
(* makes before it gives the arm a command.                                *)
(*                                                                         *)
(* The vendor's actuator adds a PD term to the torque it is sent, so it is *)
(* the sum that is limited, by scaling the gains.  Numbers are integers in *)
(* one unit; the rounding of floats is left out.                           *)
(***************************************************************************)
EXTENDS Integers

Lesser(a, b) == IF a < b THEN a ELSE b
Greater(a, b) == IF a > b THEN a ELSE b
Within(x, low, high) == Lesser(Greater(x, low), high)

-----------------------------------------------------------------------------
(* The preparation, for one joint that is no wheel.  ramp is ramp_s and       *)
(* elapsed the time in the phase, in units of 1e-9 s, the least time divided  *)
(* by; from is the measured pose, to the policy's default.  A target is given *)
(* in units of 1/Divisor(ramp).                                               *)

\* The phase the first update enters.
FirstPhase(mode, ramp) == IF mode = "hold" \/ ramp = 0 THEN "hold" ELSE "ramp_default"

Divisor(ramp) == Greater(ramp, 1)
Ramped(ramp, elapsed, from, to) ==
  Divisor(ramp) * from + Lesser(elapsed, Divisor(ramp)) * (to - from)
Held(mode, ramp, from, to) ==
  Divisor(ramp) * (IF mode = "ramp_default" THEN to ELSE from)

Prepares(phase, mode, ramp, elapsed, from, to) ==
  IF phase = "ramp_default" THEN Ramped(ramp, elapsed, from, to)
                            ELSE Held(mode, ramp, from, to)

-----------------------------------------------------------------------------
(* The limiter.  limit is the motor's effort limit, step what the torque may *)
(* change in a tick (max_delta), last the sum of the tick before (_last_tau), *)
(* torque the feed-forward part asked for, pd the PD term at the measured    *)
(* state, and tiny the PD term no ratio is computed for (1e-6).  Both gains  *)
(* are scaled alike, and so the PD term is.                                  *)

RateLower(limit, step, last) == Greater(-limit, last - step)
RateUpper(limit, step, last) == Lesser(limit, last + step)

\* The part of the sum that is sent as torque,
FeedForward(limit, step, last, torque) ==
  Within(Within(torque, -limit, limit),
         RateLower(limit, step, last), RateUpper(limit, step, last))

\* what the sum is to be, and how far the PD term may take it.
Target(limit, step, last, torque, pd) ==
  Within(FeedForward(limit, step, last, torque) + pd,
         RateLower(limit, step, last), RateUpper(limit, step, last))
Reach(limit, step, last, torque, pd) ==
  Target(limit, step, last, torque, pd) - FeedForward(limit, step, last, torque)

\* Is the quotient of the two a scale, that is between 0 and 1?
Scales(reach, pd) ==
  \/ 0 <= reach /\ reach <= pd
  \/ pd <= reach /\ reach <= 0

Counts(pd, tiny) == pd > tiny \/ pd < -tiny

\* What is left of the PD term, and the torque the motor will see.
ScaledPD(limit, step, last, torque, pd, tiny) ==
  CASE ~Counts(pd, tiny) -> pd
    [] Counts(pd, tiny) /\ Scales(Reach(limit, step, last, torque, pd), pd)
         -> Reach(limit, step, last, torque, pd)
    [] OTHER -> 0
Effective(limit, step, last, torque, pd, tiny) ==
  FeedForward(limit, step, last, torque)
    + ScaledPD(limit, step, last, torque, pd, tiny)

LastTau(limit, step, last, torque, pd, tiny) ==
  Within(Effective(limit, step, last, torque, pd, tiny), -limit, limit)

-----------------------------------------------------------------------------
(* The calibration of a bus: which motor a joint is, which way it turns, and *)
(* where its encoder's zero is.  A command c and feedback f hold a function  *)
(* for each quantity, c of joints and f of motors.                           *)

Complete(cal, Joint) ==
  /\ cal.index \in [Joint -> Joint]
  /\ \A j, k \in Joint : cal.index[j] = cal.index[k] => j = k
  /\ cal.direction \in [Joint -> {-1, 1}]
  /\ cal.offset \in [Joint -> Int]

\* _indices(): the joint that is the i-th motor of its bus.
JointOf(cal, i) == CHOOSE j \in DOMAIN cal.index : cal.index[j] = i

\* command() and feedback()
Mirrored(cal, value, i) == cal.direction[JointOf(cal, i)] * value[JointOf(cal, i)]
Calibrated(cal, position, i) ==
  Mirrored(cal, position, i) + cal.offset[JointOf(cal, i)]
Position(cal, f, j) == cal.direction[j] * (f.q[cal.index[j]] - cal.offset[j])
Velocity(cal, f, j) == cal.direction[j] * f.dq[cal.index[j]]

\* The impedance expression, for a joint as limit_command() computes it,
JointTorque(cal, c, f, j) ==
  c.torque[j] + (c.kp[j] * (c.position[j] - Position(cal, f, j))
                 + c.kd[j] * (c.velocity[j] - Velocity(cal, f, j)))

\* and for a motor as its actuator does, from the record send() builds.
MotorTorque(cal, c, f, i) ==
  Mirrored(cal, c.torque, i)
    + (c.kp[JointOf(cal, i)] * (Calibrated(cal, c.position, i) - f.q[i])
       + c.kd[JointOf(cal, i)] * (Mirrored(cal, c.velocity, i) - f.dq[i]))

-----------------------------------------------------------------------------
(* The arm's own checks.  lim are the supervisor's limits, rounded to         *)
(* float32, and cfg the configuration's, which send() compares with; sdk is   *)
(* the envelope of the vendor's MIT frame, and slack what send() allows for   *)
(* rounding (1e-6).                                                           *)

Size(x) == Greater(x, -x)

\* out is what limit_command() makes of asked: both gains scaled by one factor
\* between 0 and 1.
LimitedTo(lim, step, last, asked, out) ==
  /\ out.position = Within(asked.position, lim.low, lim.high)
  /\ out.velocity = Within(asked.velocity, -lim.velocity, lim.velocity)
  /\ out.torque = FeedForward(lim.torque, step, last, asked.torque)
  /\ Scales(out.kp, asked.kp) /\ Scales(out.kd, asked.kd)

\* Does send() take command c for the motor that turns in direction d, with its
\* zero at offset?
Takes(cfg, sdk, slack, d, offset, c) ==
  /\ cfg.low <= c.position /\ c.position <= cfg.high
  /\ Size(d * c.position + offset) <= sdk.position
  /\ Size(c.velocity) <= Lesser(sdk.velocity, cfg.velocity) + slack
  /\ 0 <= c.kp /\ c.kp <= sdk.kp
  /\ Size(c.kd) <= sdk.kd
  /\ Size(d * c.torque) <= Lesser(sdk.torque, cfg.torque) + slack

\* JointCommand(), which teardown sends.
Nothing == [position |-> 0, velocity |-> 0, kp |-> 0, kd |-> 0, torque |-> 0]
=============================================================================
