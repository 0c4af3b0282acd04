-------------------------- MODULE ActuatorContract --------------------------
(***************************************************************************)
(* What the hardware runtime promises the robot, with nothing said of the  *)
(* threads, the feedback checks and the failure paths that keep it.        *)
(*                                                                         *)
(* The run is first "closed"; it may go "live" once, may be halted from    *)
(* either, and once "stopping" it only ever quietens the actuators until   *)
(* it is "released".  Nothing leads back: moving again takes a new run     *)
(* (loco_mani_runtime.py, HardwarePolicyRuntimeLoop.run and                *)
(* stop_and_disconnect).                                                   *)
(***************************************************************************)

CONSTANTS
  Bus,      \* the CAN buses the runtime owns
  Active,   \* frames that move a joint or hand its control to the runtime
  Quiet,    \* frames that zero or stop the actuators
  NoFrame   \* nothing was sent yet

VARIABLES
  phase,    \* "closed", "live", "stopping" or "released"
  frame,    \* the last frame each bus received
  power     \* are the arm motors energised?

vars == <<phase, frame, power>>

TypeOK ==
  /\ phase \in {"closed", "live", "stopping", "released"}
  /\ frame \in [Bus -> Active \cup Quiet \cup {NoFrame}]
  /\ power \in BOOLEAN

Init ==
  /\ phase = "closed"
  /\ frame = [b \in Bus |-> NoFrame]
  /\ power = FALSE

\* A frame of the set F reaches bus b, or the bus keeps the one it had.
Reach(b, F) == \E f \in F : frame' = [frame EXCEPT ![b] = f]

GoLive == phase = "closed" /\ phase' = "live" /\ UNCHANGED <<frame, power>>

\* Moving the robot, and powering the arm, need a live run.  A send that
\* fails half-way may reach the bus and halt the run in one step.
Drive ==
  /\ phase = "live"
  /\ phase' \in {"live", "stopping"}
  /\ \/ \E b \in Bus : Reach(b, Active) /\ UNCHANGED power
     \/ power' \in {power, TRUE} /\ UNCHANGED frame

Halt ==
  /\ phase \in {"closed", "live"}
  /\ phase' = "stopping"
  /\ UNCHANGED <<frame, power>>

Quieten ==
  /\ phase = "stopping"
  /\ UNCHANGED phase
  /\ \E b \in Bus : Reach(b, Quiet)
  /\ power' \in {power, FALSE}

Release ==
  /\ phase \in {"closed", "stopping"}
  /\ phase' = "released"
  /\ UNCHANGED <<frame, power>>

Next == GoLive \/ Drive \/ Halt \/ Quieten \/ Release

Spec == Init /\ [][Next]_vars

\* Nor may it stay in the middle of a stop, if the buses answer.
StopEnds == phase = "stopping" ~> phase = "released"
=============================================================================
