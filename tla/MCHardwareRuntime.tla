------------------------- MODULE MCHardwareRuntime -------------------------
(***************************************************************************)
(* Instances of HardwareRuntime for TLC.                                   *)
(***************************************************************************)
EXTENDS HardwareRuntime, MotorCommand

\* Every --send command line, most of them refused by a gate ...
SendLaunches == {o \in [Switch -> BOOLEAN] : o["send"]}

\* ... and the command lines without --send; the switches a run without --send never
\* reads again after main() are fixed.
DryAndShadowLaunches ==
  {o \in [Switch -> BOOLEAN] :
     /\ ~o["send"] /\ ~o["enablePiper"] /\ ~o["enableOnStart"]
     /\ o["dryRun"] /\ o["policyPath"] /\ ~o["force"]}

AllLaunches == SendLaunches \cup DryAndShadowLaunches

\* The command line that sends, with every gate given and FORCE_DIRECT not
\* requested.
PlainSend ==
  {[s \in Switch |-> s \notin {"shadow", "dryRun", "enableOnStart", "force"}]}

\* The limiter against its reference: the value of a window that is nearest to x.
Nearest(x, low, high) ==
  CHOOSE y \in low .. high :
    \A z \in low .. high : Greater(x - y, y - x) <= Greater(x - z, z - x)

ASSUME LimiterIsNearest ==
  \A limit \in 0 .. 3, step \in 0 .. 2 : \A last \in -limit .. limit :
    LET low == RateLower(limit, step, last)
        high == RateUpper(limit, step, last)
    IN  \A torque \in -4 .. 4, pd \in -5 .. 5 :
          LET sent == Nearest(Nearest(torque, -limit, limit), low, high)
          IN  /\ FeedForward(limit, step, last, torque) = sent
              /\ Effective(limit, step, last, torque, pd, 0)
                   = Nearest(sent + pd, low, high)

\* Every calibration of two motors is inverted by feedback, and gives a motor its
\* joint's torque.
ASSUME CalibrationIsTransparent ==
  LET Joint == 0 .. 1
      Pair(S) == [Joint -> S]
      cals == {cal \in [index: Pair(Joint), direction: Pair({-1, 1}),
                        offset: Pair({0, 3})] : Complete(cal, Joint)}
  IN  \A cal \in cals, position, q \in Pair({-1, 2}), kp, dq \in Pair({0, 2}) :
        LET c == [position |-> position, velocity |-> kp, kp |-> kp, kd |-> dq,
                  torque |-> q]
            f == [q |-> q, dq |-> dq]
            there == [q |-> [i \in Joint |-> Calibrated(cal, position, i)]]
        IN  \A j \in Joint :
              /\ Position(cal, there, j) = position[j]
              /\ MotorTorque(cal, c, f, cal.index[j])
                   = cal.direction[j] * JointTorque(cal, c, f, j)

\* The ramp against its reference: it leaves the measured pose, moves by the same
\* amount in every unit of time, and rests at the default.
ASSUME RampIsStraight ==
  \A ramp \in 0 .. 4, from, to \in -2 .. 2 :
    LET n == Divisor(ramp)
        At(elapsed) == Prepares("ramp_default", "ramp_default", ramp, elapsed, from, to)
    IN  /\ At(0) = n * from
        /\ \A e \in 0 .. 6 :
             At(e + 1) - At(e) = IF e < n THEN to - from ELSE 0
        /\ Held("ramp_default", ramp, from, to) = At(6)

\* The arm refuses a limited command only at a position limit that was rounded
\* outwards, here by a unit, and refuses it always there.
ASSUME RefusedOnlyWhereRounded ==
  LET cfg == [low |-> -2, high |-> 2, velocity |-> 1, torque |-> 1]
      sdk == [position |-> 4, velocity |-> 2, kp |-> 1, kd |-> 1, torque |-> 2]
  IN  \A low, high \in 1 .. 3, position \in -4 .. 4, velocity \in -2 .. 2,
         torque \in -2 .. 2, kd, d \in {-1, 1}, last \in -1 .. 1 :
        LET lim == [low |-> -low, high |-> high, velocity |-> 1, torque |-> 1]
            asked == [position |-> position, velocity |-> velocity, kp |-> 1,
                      kd |-> kd, torque |-> torque]
            out == [position |-> Nearest(position, -low, high),
                    velocity |-> Nearest(velocity, -1, 1), kp |-> 0, kd |-> kd,
                    torque |-> FeedForward(1, 1, last, torque)]
        IN  /\ LimitedTo(lim, 1, last, asked, out)
            /\ Takes(cfg, sdk, 0, d, d, out)
                 <=> out.position \in -2 .. 2
=============================================================================
