------------------------- MODULE MotorCommandProofs -------------------------
(***************************************************************************)
(* What the limiter and the calibration make of a command, for every       *)
(* torque, PD term, limit and rate, and every complete calibration.        *)
(***************************************************************************)
EXTENDS MotorCommand, TLAPS

\* The supervisor's state before a tick: the last torque is within the limit.
Limited(limit, last) == limit \in Nat /\ last \in -limit .. limit

\* The window a tick may choose from is never empty and holds the last torque,
\* so the clips have one meaning (rate_lower, rate_upper).
LEMMA WindowHoldsLast ==
  ASSUME NEW limit, NEW last, Limited(limit, last), NEW step \in Nat
  PROVE  /\ limit \in Nat /\ last \in Int
         /\ RateLower(limit, step, last) \in Int
         /\ RateUpper(limit, step, last) \in Int
         /\ RateLower(limit, step, last) \in -limit .. last
         /\ RateUpper(limit, step, last) \in last .. limit
         /\ RateLower(limit, step, last) >= last - step
         /\ RateUpper(limit, step, last) <= last + step
BY DEF Limited, RateLower, RateUpper, Lesser, Greater

\* A clip returns a value of its window, and what already is one unchanged.
LEMMA WithinWindow ==
  ASSUME NEW x \in Int, NEW low \in Int, NEW high \in Int, low <= high
  PROVE  /\ Within(x, low, high) \in Int
         /\ Within(x, low, high) \in low .. high
         /\ x \in low .. high => Within(x, low, high) = x
         /\ x <= low => Within(x, low, high) = low
         /\ x >= high => Within(x, low, high) = high
BY DEF Within, Lesser, Greater

\* Feed-forward part and target are both in the window, and the target lies
\* between the feed-forward part and what was asked for.
LEMMA TargetInWindow ==
  ASSUME NEW limit, NEW last, Limited(limit, last), NEW step \in Nat,
         NEW torque \in Int, NEW pd \in Int
  PROVE  LET low == RateLower(limit, step, last)
             high == RateUpper(limit, step, last)
             sent == FeedForward(limit, step, last, torque)
             target == Target(limit, step, last, torque, pd)
         IN  /\ sent \in low .. high /\ target \in low .. high
             /\ sent + pd \in low .. high => target = sent + pd
             /\ Scales(target - sent, pd)
<1> DEFINE low == RateLower(limit, step, last)
           high == RateUpper(limit, step, last)
           sent == FeedForward(limit, step, last, torque)
           target == Target(limit, step, last, torque, pd)
<1>1. low \in Int /\ high \in Int /\ low <= high
  BY WindowHoldsLast
<1>2. sent \in low .. high
  <2>1. Within(torque, -limit, limit) \in Int
    BY WithinWindow DEF Limited
  <2> QED
    BY <1>1, <2>1, WithinWindow DEF FeedForward
<1>3. /\ target \in low .. high
      /\ sent + pd \in low .. high => target = sent + pd
      /\ sent + pd <= low => target = low
      /\ sent + pd >= high => target = high
  <2>1. target = Within(sent + pd, low, high)
    BY DEF Target
  <2>2. sent + pd \in Int
    BY <1>1, <1>2
  <2> HIDE DEF low, high, sent, target
  <2> QED
    BY <1>1, <2>1, <2>2, WithinWindow
<1> HIDE DEF low, high, sent, target
<1>4. Scales(target - sent, pd)
  BY <1>1, <1>2, <1>3 DEF Scales
<1> QED
  BY <1>2, <1>3, <1>4 DEF low, high, sent, target

\* The branch for a projection on the opposite ray is never taken: the target
\* always lies between the torque that is sent and what was asked for, so the
\* ratio is a scale and the PD term is never thrown away (limit_command).
THEOREM ProjectionIsOnTheRay ==
  ASSUME NEW limit, NEW last, Limited(limit, last), NEW step \in Nat,
         NEW torque \in Int, NEW pd \in Int
  PROVE  Scales(Reach(limit, step, last, torque, pd), pd)
BY TargetInWindow DEF Reach

\* The torque the motor will see is within its effort limit and within what it
\* may change in a tick, whatever the policy asks for and however far the joint
\* is from its target; only a PD term too small to be divided by comes on top.
\* And the supervisor is ready for the next tick (limit_command).
THEOREM EffectiveTorqueBounded ==
  ASSUME NEW limit, NEW last, Limited(limit, last), NEW step \in Nat,
         NEW torque \in Int, NEW pd \in Int, NEW tiny \in Nat
  PROVE  LET seen == Effective(limit, step, last, torque, pd, tiny)
         IN  /\ seen \in -(limit + tiny) .. limit + tiny
             /\ seen - last \in -(step + tiny) .. step + tiny
             /\ Limited(limit, LastTau(limit, step, last, torque, pd, tiny))
<1> DEFINE low == RateLower(limit, step, last)
           high == RateUpper(limit, step, last)
           sent == FeedForward(limit, step, last, torque)
           target == Target(limit, step, last, torque, pd)
           scaled == ScaledPD(limit, step, last, torque, pd, tiny)
<1>1. /\ low \in -limit .. last /\ high \in last .. limit
      /\ low >= last - step /\ high <= last + step
  BY WindowHoldsLast
<1>2. sent \in low .. high /\ target \in low .. high
  BY TargetInWindow
<1>3. scaled = IF Counts(pd, tiny) THEN target - sent ELSE pd
  BY ProjectionIsOnTheRay DEF ScaledPD, Reach
<1>4. limit \in Nat /\ last \in Int /\ low \in Int /\ high \in Int
  BY WindowHoldsLast
<1> HIDE DEF low, high, sent, target, scaled
<1>5. /\ sent + scaled \in -(limit + tiny) .. limit + tiny
      /\ sent + scaled - last \in -(step + tiny) .. step + tiny
  BY <1>1, <1>2, <1>3, <1>4 DEF Counts
<1>6. Effective(limit, step, last, torque, pd, tiny) = sent + scaled
  BY DEF Effective, sent, scaled
<1>7. Limited(limit, LastTau(limit, step, last, torque, pd, tiny))
  <2>1. sent + scaled \in Int /\ -limit \in Int /\ -limit <= limit
    BY <1>4, <1>5
  <2>2. Within(sent + scaled, -limit, limit) \in -limit .. limit
    BY <1>4, <2>1, WithinWindow
  <2> QED
    BY <1>4, <1>6, <2>2 DEF LastTau, Limited
<1> DEFINE seen == Effective(limit, step, last, torque, pd, tiny)
<1> HIDE DEF seen
<1>8. /\ seen \in -(limit + tiny) .. limit + tiny
      /\ seen - last \in -(step + tiny) .. step + tiny
  <2>1. seen = sent + scaled
    BY <1>6 DEF seen
  <2>2. sent \in Int /\ scaled \in Int
    BY <1>2, <1>3, <1>4
  <2> QED
    BY <1>4, <1>5, <2>1, <2>2
<1> QED
  BY <1>7, <1>8 DEF seen

\* A command whose torque is within the window as it is asked for is passed on
\* unchanged, gains and all (limit_command).
THEOREM AdmissibleCommandIsKept ==
  ASSUME NEW limit, NEW last, Limited(limit, last), NEW step \in Nat,
         NEW torque \in Int, NEW pd \in Int, NEW tiny \in Nat,
         torque \in RateLower(limit, step, last) .. RateUpper(limit, step, last),
         torque + pd \in RateLower(limit, step, last) .. RateUpper(limit, step, last)
  PROVE  /\ FeedForward(limit, step, last, torque) = torque
         /\ ScaledPD(limit, step, last, torque, pd, tiny) = pd
<1> DEFINE low == RateLower(limit, step, last)
           high == RateUpper(limit, step, last)
<1>1. limit \in Nat /\ last \in Int /\ low \in -limit .. last /\ high \in last .. limit
  BY WindowHoldsLast
<1>2. FeedForward(limit, step, last, torque) = torque
  <2>1. torque \in low .. high
    OBVIOUS
  <2> HIDE DEF low, high
  <2>2. low \in Int /\ high \in Int /\ low <= high /\ -limit \in Int
        /\ -limit <= limit /\ torque \in -limit .. limit
    BY <1>1, <2>1
  <2>3. Within(torque, -limit, limit) = torque
    BY <1>1, <2>2, WithinWindow
  <2>4. Within(torque, low, high) = torque
    BY <2>1, <2>2, WithinWindow
  <2> QED
    BY <2>3, <2>4 DEF FeedForward, low, high
<1>3. Target(limit, step, last, torque, pd) = torque + pd
  BY <1>2, TargetInWindow
<1>4. Reach(limit, step, last, torque, pd) = pd
  BY <1>2, <1>3 DEF Reach
<1> QED
  BY <1>2, <1>4, ProjectionIsOnTheRay DEF ScaledPD

-----------------------------------------------------------------------------
(* The calibration *)

Commands(Joint) ==
  [position: [Joint -> Int], velocity: [Joint -> Int], kp: [Joint -> Int],
   kd: [Joint -> Int], torque: [Joint -> Int]]
Readings(Joint) == [q: [Joint -> Int], dq: [Joint -> Int]]

\* The joint that is joint j's motor is j (_indices).
LEMMA JointOfMotor ==
  ASSUME NEW Joint, NEW cal, Complete(cal, Joint), NEW j \in Joint
  PROVE  JointOf(cal, cal.index[j]) = j
BY DEF Complete, JointOf

\* A sign factors out of an impedance.
LEMMA SignFactors ==
  ASSUME NEW d \in {-1, 1}, NEW k \in Int, NEW x \in Int
  PROVE  k * (d * x) = d * (k * x) /\ d * (d * x) = x
<1>1. CASE d = 1
  BY <1>1
<1>2. CASE d = -1
  BY <1>2
<1> QED
  BY <1>1, <1>2

\* What is commanded in position is what feedback reports once the motor is
\* there, whatever the order, signs and encoder zeros (command, feedback).
THEOREM CalibrationRoundTrip ==
  ASSUME NEW Joint, NEW cal, Complete(cal, Joint), NEW j \in Joint,
         NEW position \in [Joint -> Int], NEW f,
         f.q[cal.index[j]] = Calibrated(cal, position, cal.index[j])
  PROVE  Position(cal, f, j) = position[j]
<1>1. /\ cal.direction[j] \in {-1, 1} /\ cal.offset[j] \in Int
      /\ position[j] \in Int
  BY DEF Complete
<1>2. f.q[cal.index[j]] = cal.direction[j] * position[j] + cal.offset[j]
  BY JointOfMotor DEF Calibrated, Mirrored
<1>3. Position(cal, f, j) = cal.direction[j] * (cal.direction[j] * position[j])
  BY <1>1, <1>2 DEF Position
<1> QED
  BY <1>1, <1>3, SignFactors

\* A motor makes exactly the torque its joint's limiter computed, in the motor's
\* own direction: positions, velocities, torques and gains all reach the same
\* motor, and the encoder's zero cancels (limit_command, command, send).
THEOREM MotorMakesJointTorque ==
  ASSUME NEW Joint, NEW cal, Complete(cal, Joint), NEW j \in Joint,
         NEW c \in Commands(Joint), NEW f \in Readings(Joint)
  PROVE  MotorTorque(cal, c, f, cal.index[j])
           = cal.direction[j] * JointTorque(cal, c, f, j)
<1> DEFINE d == cal.direction[j]  i == cal.index[j]
           x == c.position[j] - Position(cal, f, j)
           y == c.velocity[j] - Velocity(cal, f, j)
           kp == c.kp[j]  kd == c.kd[j]  t == c.torque[j]
<1>1. /\ d \in {-1, 1} /\ i \in Joint /\ cal.offset[j] \in Int
      /\ c.position[j] \in Int /\ c.velocity[j] \in Int
      /\ kp \in Int /\ kd \in Int /\ t \in Int
      /\ f.q[i] \in Int /\ f.dq[i] \in Int
  BY DEF Complete, Commands, Readings
<1>2. JointOf(cal, i) = j
  BY JointOfMotor
<1>3. x \in Int /\ Calibrated(cal, c.position, i) - f.q[i] = d * x
  <2>1. Calibrated(cal, c.position, i) = d * c.position[j] + cal.offset[j]
    BY <1>2 DEF Calibrated, Mirrored
  <2>2. Position(cal, f, j) = d * (f.q[i] - cal.offset[j])
    BY DEF Position
  <2> QED
    BY <1>1, <2>1, <2>2
<1>4. y \in Int /\ Mirrored(cal, c.velocity, i) - f.dq[i] = d * y
  <2>1. Mirrored(cal, c.velocity, i) = d * c.velocity[j]
    BY <1>2 DEF Mirrored
  <2>2. Velocity(cal, f, j) = d * f.dq[i]
    BY DEF Velocity
  <2> QED
    BY <1>1, <2>1, <2>2
<1>5. MotorTorque(cal, c, f, i) = d * t + (kp * (d * x) + kd * (d * y))
  BY <1>2, <1>3, <1>4 DEF MotorTorque, Mirrored
<1>6. JointTorque(cal, c, f, j) = t + (kp * x + kd * y)
  BY DEF JointTorque
<1> HIDE DEF d, i, x, y, kp, kd, t
<1>7. d * t + (d * (kp * x) + d * (kd * y)) = d * (t + (kp * x + kd * y))
  <2>1. kp * x \in Int /\ kd * y \in Int
    BY <1>1, <1>3, <1>4
  <2> QED
    BY <1>1, <2>1
<1>8. MotorTorque(cal, c, f, i) = d * JointTorque(cal, c, f, j)
  BY <1>1, <1>3, <1>4, <1>5, <1>6, <1>7, SignFactors
<1> QED
  BY <1>8 DEF d, i

\* So the limiter's bounds are the motor's: a command whose joint torque the
\* limiter computed, at the feedback it was computed with, exceeds neither the
\* motor's effort limit nor its rate, whatever the calibration.
THEOREM MotorTorqueLimited ==
  ASSUME NEW Joint, NEW cal, Complete(cal, Joint), NEW j \in Joint,
         NEW c \in Commands(Joint), NEW f \in Readings(Joint),
         NEW limit, NEW last, Limited(limit, last), NEW step \in Nat,
         NEW torque \in Int, NEW pd \in Int, NEW tiny \in Nat,
         JointTorque(cal, c, f, j) = Effective(limit, step, last, torque, pd, tiny)
  PROVE  LET made == MotorTorque(cal, c, f, cal.index[j])
         IN  /\ made \in -(limit + tiny) .. limit + tiny
             /\ made - cal.direction[j] * last \in -(step + tiny) .. step + tiny
<1> DEFINE made == MotorTorque(cal, c, f, cal.index[j])  d == cal.direction[j]
           seen == Effective(limit, step, last, torque, pd, tiny)
<1>1. made = d * seen /\ d \in {-1, 1}
  <2>1. made = d * JointTorque(cal, c, f, j)
    BY MotorMakesJointTorque
  <2>2. d \in {-1, 1}
    BY DEF Complete
  <2> QED
    BY <2>1, <2>2
<1>2. /\ seen \in -(limit + tiny) .. limit + tiny
      /\ seen - last \in -(step + tiny) .. step + tiny
  BY EffectiveTorqueBounded
<1>3. limit \in Nat /\ last \in Int /\ seen \in Int
  BY <1>2, WindowHoldsLast
<1> HIDE DEF made, d, seen
<1>4. /\ made \in -(limit + tiny) .. limit + tiny
      /\ made - d * last \in -(step + tiny) .. step + tiny
  BY <1>1, <1>2, <1>3
<1> QED
  BY <1>4 DEF made, d

-----------------------------------------------------------------------------
(* The arm's own checks *)

\* What one joint may be asked for.
Asked == [position: Int, velocity: Int, kp: Int, kd: Int, torque: Int]
Limits == {l \in [low: Int, high: Int, velocity: Nat, torque: Nat] : l.low <= l.high}
Envelopes == [position: Nat, velocity: Nat, kp: Nat, kd: Nat, torque: Nat]

\* The supervisor's limits lie within the configuration's and the vendor's: they
\* are rounded inwards, and the calibrated range fits into the frame.
LimitsAgree(lim, cfg, sdk, slack, d, offset) ==
  /\ cfg.low <= lim.low /\ lim.high <= cfg.high
  /\ Size(d * lim.low + offset) <= sdk.position
  /\ Size(d * lim.high + offset) <= sdk.position
  /\ lim.velocity <= Lesser(sdk.velocity, cfg.velocity) + slack
  /\ lim.torque <= Lesser(sdk.torque, cfg.torque) + slack

\* The arm takes every command the limiter lets through, however far the policy's
\* was out of its limits, if those limits agree: send() has no reason of its own
\* to fail the run (limit_command, send).
THEOREM ArmTakesLimited ==
  ASSUME NEW lim \in Limits, NEW cfg \in Limits, NEW sdk \in Envelopes,
         NEW slack \in Nat, NEW d \in {-1, 1}, NEW offset \in Int,
         LimitsAgree(lim, cfg, sdk, slack, d, offset),
         NEW last, Limited(lim.torque, last), NEW step \in Nat,
         NEW asked \in Asked, asked.kp \in 0 .. sdk.kp,
         asked.kd \in -sdk.kd .. sdk.kd,
         NEW out \in Asked, LimitedTo(lim, step, last, asked, out)
  PROVE  Takes(cfg, sdk, slack, d, offset, out)
<1> DEFINE p == out.position  v == out.velocity  t == out.torque
<1>1. /\ lim.low \in Int /\ lim.high \in Int /\ lim.low <= lim.high
      /\ lim.velocity \in Nat /\ lim.torque \in Nat
      /\ cfg.low \in Int /\ cfg.high \in Int
      /\ asked.position \in Int /\ asked.velocity \in Int /\ asked.torque \in Int
  BY DEF Limits, Asked
<1>2. p \in lim.low .. lim.high
  <2>1. p = Within(asked.position, lim.low, lim.high)
    BY DEF LimitedTo
  <2>2. Within(asked.position, lim.low, lim.high) \in lim.low .. lim.high
    BY <1>1, WithinWindow
  <2> QED
    BY <2>1, <2>2
<1>3. v \in -lim.velocity .. lim.velocity
  <2> DEFINE low == -lim.velocity
  <2>1. v = Within(asked.velocity, low, lim.velocity)
    BY DEF LimitedTo
  <2>2. low \in Int /\ lim.velocity \in Int /\ low <= lim.velocity
        /\ asked.velocity \in Int
    BY <1>1
  <2> HIDE DEF low
  <2>3. Within(asked.velocity, low, lim.velocity) \in low .. lim.velocity
    BY <2>2, WithinWindow
  <2> QED
    BY <2>1, <2>3 DEF low
<1>4. t \in -lim.torque .. lim.torque
  <2> DEFINE low == RateLower(lim.torque, step, last)
             high == RateUpper(lim.torque, step, last)
  <2>1. low \in -lim.torque .. last /\ high \in last .. lim.torque /\ last \in Int
    BY WindowHoldsLast
  <2>2. t \in low .. high
    BY <1>1, TargetInWindow DEF LimitedTo
  <2> HIDE DEF low, high, t
  <2> QED
    BY <1>1, <2>1, <2>2
<1>5. cfg.low <= p /\ p <= cfg.high
  BY <1>1, <1>2 DEF LimitsAgree
<1>6. Size(d * p + offset) <= sdk.position
  <2>1. /\ sdk.position \in Nat
        /\ Size(d * lim.low + offset) <= sdk.position
        /\ Size(d * lim.high + offset) <= sdk.position
    BY DEF LimitsAgree, Envelopes
  <2> HIDE DEF p
  <2>2. CASE d = 1
    BY <1>1, <1>2, <2>1, <2>2 DEF Size, Greater
  <2>3. CASE d = -1
    BY <1>1, <1>2, <2>1, <2>3 DEF Size, Greater
  <2> QED
    BY <2>2, <2>3
<1>7. Size(v) <= Lesser(sdk.velocity, cfg.velocity) + slack
  <2> DEFINE most == Lesser(sdk.velocity, cfg.velocity) + slack
  <2>1. lim.velocity <= most /\ most \in Int
    BY DEF LimitsAgree, Envelopes, Limits, Lesser
  <2> HIDE DEF most, v
  <2>2. Size(v) <= most
    BY <1>1, <1>3, <2>1 DEF Size, Greater
  <2> QED
    BY <2>2 DEF most
<1>8. Size(d * t) <= Lesser(sdk.torque, cfg.torque) + slack
  <2> DEFINE most == Lesser(sdk.torque, cfg.torque) + slack
  <2>1. lim.torque <= most /\ most \in Int
    BY DEF LimitsAgree, Envelopes, Limits, Lesser
  <2> HIDE DEF most, t
  <2>2. d * t \in {t, -t}
    BY <1>1, <1>4
  <2>3. Size(d * t) <= most
    BY <1>1, <1>4, <2>1, <2>2 DEF Size, Greater
  <2> QED
    BY <2>3 DEF most
<1>9. 0 <= out.kp /\ out.kp <= sdk.kp /\ Size(out.kd) <= sdk.kd
  <2>1. /\ Scales(out.kp, asked.kp) /\ Scales(out.kd, asked.kd)
        /\ out.kp \in Int /\ out.kd \in Int /\ sdk.kp \in Nat /\ sdk.kd \in Nat
    BY DEF LimitedTo, Asked, Envelopes
  <2> QED
    BY <2>1 DEF Scales, Size, Greater
<1> QED
  BY <1>5, <1>6, <1>7, <1>8, <1>9 DEF Takes

\* And the rounding matters: where a limit is rounded outwards, a target asked
\* for beyond it is clipped to a position the arm refuses, which ends the run
\* (SafetySupervisor's float32 limits, send's exact comparison).
THEOREM RoundedOutwardsIsRefused ==
  ASSUME NEW lim \in Limits, NEW cfg \in Limits, NEW sdk, NEW slack, NEW d,
         NEW offset, NEW last, NEW step, NEW asked \in Asked,
         NEW out, LimitedTo(lim, step, last, asked, out),
         \/ lim.high > cfg.high /\ asked.position >= lim.high
         \/ lim.low < cfg.low /\ asked.position <= lim.low
  PROVE  ~Takes(cfg, sdk, slack, d, offset, out)
<1>1. /\ lim.low \in Int /\ lim.high \in Int /\ lim.low <= lim.high
      /\ cfg.low \in Int /\ cfg.high \in Int /\ asked.position \in Int
  BY DEF Limits, Asked
<1>2. /\ asked.position >= lim.high => out.position = lim.high
      /\ asked.position <= lim.low => out.position = lim.low
  <2>1. out.position = Within(asked.position, lim.low, lim.high)
    BY DEF LimitedTo
  <2> QED
    BY <1>1, <2>1, WithinWindow
<1> QED
  BY <1>1, <1>2 DEF Takes

\* Teardown's zero command is one the arm takes exactly where the joint's range
\* holds zero and its encoder's zero fits into the frame: unlike a policy's
\* command it passes no limiter (_safe_send, send).
THEOREM ArmTakesZero ==
  ASSUME NEW cfg \in Limits, NEW sdk \in Envelopes, NEW slack \in Nat,
         NEW d \in {-1, 1}, NEW offset \in Int
  PROVE  Takes(cfg, sdk, slack, d, offset, Nothing)
           <=> 0 \in cfg.low .. cfg.high /\ offset \in -sdk.position .. sdk.position
<1>1. /\ cfg.low \in Int /\ cfg.high \in Int /\ sdk.position \in Nat
      /\ sdk.kp \in Nat /\ sdk.kd \in Nat
      /\ Lesser(sdk.velocity, cfg.velocity) + slack \in Nat
      /\ Lesser(sdk.torque, cfg.torque) + slack \in Nat
  BY DEF Limits, Envelopes, Lesser
<1>2. d * 0 = 0 /\ d * 0 + offset = offset
  OBVIOUS
<1> QED
  BY <1>1, <1>2 DEF Takes, Nothing, Size, Greater

-----------------------------------------------------------------------------
(* The preparation *)

\* A product grows with either factor.
LEMMA ProductGrows ==
  ASSUME NEW k \in Nat, NEW m \in Nat, k <= m, NEW a \in Int, NEW b \in Int,
         a <= b
  PROVE  k * a <= k * b /\ (0 <= b => k * b <= m * b)
OBVIOUS

\* The first preparation command holds the pose that was measured, unless the
\* default pose is to be reached in no time: then it is commanded in one step,
\* whatever the distance (update).
THEOREM PreparationStartsAtPose ==
  ASSUME NEW ramp \in Nat, NEW mode \in {"hold", "ramp_default"},
         NEW from \in Int, NEW to \in Int
  PROVE  LET first == Prepares(FirstPhase(mode, ramp), mode, ramp, 0, from, to)
         IN  first = Divisor(ramp)
                       * (IF mode = "ramp_default" /\ ramp = 0 THEN to ELSE from)
<1>1. Divisor(ramp) \in Nat /\ 0 <= Divisor(ramp)
  BY DEF Divisor, Greater
<1>2. Ramped(ramp, 0, from, to) = Divisor(ramp) * from
  <2>1. Lesser(0, Divisor(ramp)) = 0
    BY <1>1 DEF Lesser
  <2>2. 0 * (to - from) = 0 /\ Divisor(ramp) * from \in Int
    BY <1>1
  <2> QED
    BY <2>1, <2>2 DEF Ramped
<1> QED
  BY <1>2 DEF Prepares, FirstPhase, Held

\* The ramp arrives at the pose that is held after it, so the change of phase
\* moves nothing (update).
THEOREM RampEndsWhereHeld ==
  ASSUME NEW ramp \in Nat, NEW elapsed \in Nat, elapsed >= Divisor(ramp),
         NEW from \in Int, NEW to \in Int
  PROVE  Ramped(ramp, elapsed, from, to) = Held("ramp_default", ramp, from, to)
<1> DEFINE n == Divisor(ramp)
<1>1. n \in Nat
  BY DEF Divisor, Greater
<1> HIDE DEF n
<1>2. n * from + n * (to - from) = n * to
  BY <1>1
<1>3. elapsed >= n => Lesser(elapsed, n) = n
  BY <1>1 DEF Lesser
<1> QED
  BY <1>2, <1>3 DEF Ramped, Held, n

\* Every target on the way lies within the joint's limits if the measured pose
\* and the default do, so the limiter clips none (update, limit_command).
THEOREM RampStaysWithin ==
  ASSUME NEW ramp \in Nat, NEW elapsed \in Nat,
         NEW low \in Int, NEW high \in Int,
         NEW from \in low .. high, NEW to \in low .. high
  PROVE  Ramped(ramp, elapsed, from, to)
           \in Divisor(ramp) * low .. Divisor(ramp) * high
<1> DEFINE n == Divisor(ramp)  k == Lesser(elapsed, n)
<1>1. n \in Nat /\ k \in Nat /\ k <= n /\ n - k \in Nat
  BY DEF Divisor, Greater, Lesser
<1> HIDE DEF k, n
<1>2. n * from + k * (to - from) = (n - k) * from + k * to
  BY <1>1
<1>3. /\ (n - k) * low <= (n - k) * from /\ k * low <= k * to
      /\ (n - k) * from <= (n - k) * high /\ k * to <= k * high
  BY <1>1, ProductGrows
<1>4. /\ (n - k) * low + k * low = n * low
      /\ (n - k) * high + k * high = n * high
  BY <1>1
<1>5. (n - k) * from + k * to \in n * low .. n * high
  BY <1>1, <1>3, <1>4
<1> QED
  BY <1>2, <1>5 DEF Ramped, k, n

\* Between two updates the target moves by no more than the time between them
\* allows at the ramp's speed, however late the second is (update).
THEOREM RampIsGentle ==
  ASSUME NEW ramp \in Nat, NEW first \in Nat, NEW second \in Nat,
         first <= second, NEW from \in Int, NEW to \in Int
  PROVE  Size(Ramped(ramp, second, from, to) - Ramped(ramp, first, from, to))
           <= (second - first) * Size(to - from)
<1> DEFINE n == Divisor(ramp)  late == Lesser(second, n)  early == Lesser(first, n)
           k == late - early  x == to - from
<1>1. /\ n \in Nat /\ late \in Nat /\ early \in Nat
      /\ k \in Nat /\ k <= second - first
  BY DEF Divisor, Greater, Lesser
<1>2. Ramped(ramp, second, from, to) - Ramped(ramp, first, from, to) = k * x
  <2> DEFINE there == Ramped(ramp, second, from, to)
             here == Ramped(ramp, first, from, to)
  <2>1. there = n * from + late * x /\ here = n * from + early * x
    BY DEF Ramped
  <2>2. x \in Int
    OBVIOUS
  <2> HIDE DEF n, late, early, x, there, here
  <2>3. there - here = (late - early) * x
    BY <1>1, <2>1, <2>2
  <2> QED
    BY <2>3 DEF there, here
<1>3. x \in Int /\ Size(x) \in Nat
  BY DEF Size, Greater
<1> HIDE DEF k, x
<1>4. Size(k * x) = k * Size(x)
  <2>1. CASE x >= 0
    BY <1>1, <1>3, <2>1 DEF Size, Greater
  <2>2. CASE x < 0
    BY <1>1, <1>3, <2>2 DEF Size, Greater
  <2> QED
    BY <1>3, <2>1, <2>2
<1>5. k * Size(x) <= (second - first) * Size(x)
  BY <1>1, <1>3, ProductGrows
<1> QED
  BY <1>2, <1>4, <1>5 DEF x
=============================================================================
