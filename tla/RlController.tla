---------------------------- MODULE RlController ----------------------------
(***************************************************************************)
(* The ros2_control controller (rl_controller): the state machine its      *)
(* update() runs (FSM.cpp and the states), the two ramps that stand the    *)
(* robot up and fold it down, the operator's requests, and the thread of   *)
(* each RL policy, which shares the action vector with update() unlocked.  *)
(*                                                                         *)
(* A tick is one update().  A setpoint is how far its ramp has come; an    *)
(* action is told apart by the visit of its state it was computed in.      *)
(* Left out: gains, torques, whose clamp FSM::run() throws away, a change  *)
(* of the parameters, which leaves the RL states dangling pointers, and a  *)
(* policy number too long for std::stoi: two of the three states that read *)
(* it catch its out_of_range, transform_up lets it escape from update().   *)
(***************************************************************************)
EXTENDS Naturals

CONSTANTS
  Policies,   \* rl_policy_names; a request for one is its number
  FoldRamps,  \* ticks the posture at entry may give a fold
  StandRamp,  \* ticks of the stand-up ramp
  Settle      \* ticks a transform holds its last pose: 100

Transforms == {"transform_up", "transform_down"}
States == Transforms \cup {"idle", "joint_pd"} \cup Policies

ASSUME PoliciesAssumption ==
  Policies \cap {"idle", "joint_pd", "transform_up", "transform_down"} = {}
ASSUME RampsAssumption ==
  FoldRamps \subseteq Nat /\ StandRamp \in Nat \ {0} /\ Settle \in Nat \ {0, 1}

VARIABLES
  request,  \* rc_data->fsm_name_
  current,  \* _currentState
  chosen,   \* _nextState
  mode,     \* _mode
  up,       \* transform_up: _flag, _state_iter, _motion_start_iter,
            \* fold_ramp_iter and where initial_jpos comes from
  down,     \* transform_down: _state_iter, fold_ramp_iter, transform_finish_
  over,     \* is the robot upside down (external)?
  cmd,      \* what the last tick commanded
  thread,   \* what each policy's forward_thread is doing
  stop,     \* stop_update_
  sample,   \* the visit the observation of a running inference is of
  action    \* action_vec_

stateVars == <<current, chosen, mode, up, down, cmd>>
threadVars == <<thread, sample, action>>
vars == <<request, stateVars, over, threadVars, stop>>

Visit == {"none", "before", "now"}
Ramp == [from: {"initial", "fold"}, to: {"fold", "stand"}, at: Nat, of: Nat]
NoRamp == [from |-> "initial", to |-> "fold", at |-> 0, of |-> 1]
\* The transforms' counters outside of them, where enter() sets them all again.
NoUp == [flag |-> "fold", iter |-> 0, start |-> 0, fold |-> 0, from |-> "initial"]
NoDown == [iter |-> 0, fold |-> 0, finished |-> FALSE]
Command(kind, ramp, act) == [kind |-> kind, ramp |-> ramp, action |-> act]

TypeOK ==
  /\ request \in States \cup {"other"}
  /\ current \in States /\ chosen \in States /\ mode \in {"normal", "change"}
  /\ up \in [flag: {"fold", "stand", "roll"}, iter: Nat, start: Nat,
             fold: FoldRamps \cup {0}, from: {"initial", "fold"}]
  /\ down \in [iter: Nat, fold: FoldRamps \cup {0}, finished: BOOLEAN]
  /\ over \in BOOLEAN
  /\ cmd \in [kind: {"none", "damp", "hold", "ramp", "undefined", "policy"},
              ramp: Ramp, action: Visit \cup {"torn"}]
  /\ thread \in [Policies -> {"none", "waiting", "inferring", "storing"}]
  /\ stop \in [Policies -> BOOLEAN]
  /\ sample \in [Policies -> Visit] /\ action \in [Policies -> Visit]

Init ==
  /\ request = "idle"
  /\ current = "idle" /\ chosen = "idle" /\ mode = "normal"
  /\ up = NoUp /\ down = NoDown
  /\ over \in BOOLEAN
  /\ cmd = Command("none", NoRamp, "none")
  /\ thread = [p \in Policies |-> "none"] /\ stop = [p \in Policies |-> FALSE]
  /\ sample = [p \in Policies |-> "none"] /\ action = [p \in Policies |-> "none"]

\* fsm_goal_cb: an operator may ask for anything at any time; "other" is what no
\* state follows.
Request(r) ==
  /\ r # request /\ request' = r
  /\ UNCHANGED <<stateVars, over, threadVars, stop>>

Topple ==
  /\ over' = ~over
  /\ UNCHANGED <<request, stateVars, threadVars, stop>>

-----------------------------------------------------------------------------
(* The two transforms.  Their counters stop where nothing compares them further. *)

Smaller(a, b) == IF a < b THEN a ELSE b

\* _SetJPosInterPts(): past its end a ramp holds the final pose, and the first
\* tick of a ramp of no length divides zero by zero.
Setpoint(from, to, at, of) ==
  Command(IF at = 0 /\ of = 0 THEN "undefined" ELSE "ramp",
          [from |-> from, to |-> to, at |-> Smaller(at, of), of |-> of], "none")

UpEntered(fold) ==
  [flag |-> IF over THEN "roll" ELSE "fold", iter |-> 0, start |-> 0,
   fold |-> fold, from |-> "initial"]

\* run(): there is no case for rolling over, so nothing is commanded.
UpCommand(u) ==
  CASE u.flag = "fold"  -> Setpoint(u.from, "fold", u.iter - u.start, u.fold)
    [] u.flag = "stand" -> Setpoint(u.from, "stand", u.iter - u.start, StandRamp)
    [] u.flag = "roll"  -> Command("none", NoRamp, "none")

UpLimit(u) == u.fold + StandRamp + Settle
FoldedKeepsInitial(u) ==
  [u EXCEPT !.flag = IF over THEN "roll" ELSE "stand", !.start = u.iter + 1]
\* _FoldLegs(): the next ramp starts from the folded pose, with the next tick.
Folded(u) ==
  [u EXCEPT !.flag = IF over THEN "roll" ELSE "stand",
            !.from = "fold", !.start = u.iter + 1]

UpRun(u) ==
  LET v == IF u.flag = "fold" /\ u.iter - u.start >= u.fold THEN Folded(u) ELSE u
  IN [v EXCEPT !.iter = Smaller(@ + 1, UpLimit(u))]

UpDoneAtStand == up.iter - up.fold >= Settle
\* checkTransition(): on the total of both ramps.
UpDone == up.iter >= UpLimit(up)

DownEntered(fold) == [iter |-> 0, fold |-> fold, finished |-> FALSE]
DownCommand(d) == Setpoint("initial", "fold", d.iter, d.fold)
DownRunForever(d) == [d EXCEPT !.iter = Smaller(@ + 1, d.fold + Settle)]
DownRun(d) ==
  [d EXCEPT !.finished = @ \/ d.iter >= d.fold + Settle,
            !.iter = Smaller(@ + 1, d.fold + Settle)]

-----------------------------------------------------------------------------
(* The state machine *)

\* FSMState_RL::run() reads the action the thread may be writing.
PolicyCommand(p, act) ==
  Command("policy", NoRamp, IF thread[p] = "storing" THEN "torn" ELSE act)

Damp == Command("damp", NoRamp, "none")
Hold == Command("hold", NoRamp, "none")

\* run() of a state, given what its enter() has left.
Run(s, u, d, acts) ==
  /\ up' = IF s = "transform_up" THEN UpRun(u) ELSE NoUp
  /\ down' = IF s = "transform_down" THEN DownRun(d) ELSE NoDown
  /\ cmd' = CASE s = "idle" -> Damp
              [] s = "joint_pd" -> Hold
              [] s = "transform_up" -> UpCommand(u)
              [] s = "transform_down" -> DownCommand(d)
              [] s \in Policies -> PolicyCommand(s, acts[s])

\* checkTransition() of each state, after its run(): the requests it follows.
IdleAdmits == {"transform_up", "joint_pd"}
JointPDAdmits == Policies \cup {"idle", "transform_down"}
UpAdmits == IF UpDone' THEN Policies \cup {"joint_pd", "transform_down"} ELSE {}
PolicyAdmitsPolicies == Policies
PolicyAdmits == Policies \cup {"transform_down"}
Admits(s) ==
  CASE s = "idle" -> IdleAdmits
    [] s = "joint_pd" -> JointPDAdmits
    [] s = "transform_up" -> UpAdmits
    [] s = "transform_down" -> {}
    [] s \in Policies -> PolicyAdmits

NextNameUnchecked(s) ==
  IF s = "transform_down" /\ down'.finished THEN "idle" ELSE request
NextName(s) ==
  CASE s = "transform_down" /\ down'.finished -> "idle"
    [] request \in Admits(s) -> request
    [] OTHER -> s

\* FSM::run() in a state,
Stay ==
  /\ mode = "normal"
  /\ Run(current, up, down, action)
  /\ chosen' = IF NextName(current) = current THEN chosen ELSE NextName(current)
  /\ mode' = IF NextName(current) = current THEN "normal" ELSE "change"
  /\ UNCHANGED <<request, current, over, threadVars, stop>>

Older(visits, p) ==
  [visits EXCEPT ![p] = IF @ = "now" THEN "before" ELSE @]

StoppedForGood(s, t) ==
  [p \in Policies |-> stop[p] \/ p = s]
\* exit() stops the inferences of the state left, enter() lets those of the
\* next begin.
Stopped(s, t) ==
  [p \in Policies |-> IF p = t THEN FALSE ELSE stop[p] \/ p = s]

\* enter() starts the thread of a policy the first time only, and keeps the
\* action of its last visit.
EnterPolicy(t) ==
  IF t \in Policies
  THEN /\ thread' = [thread EXCEPT ![t] = IF @ = "none" THEN "waiting" ELSE @]
       /\ sample' = Older(sample, t) /\ action' = Older(action, t)
  ELSE UNCHANGED threadVars

\* and from one to the next, on the tick after it was chosen.
Change ==
  /\ mode = "change" /\ mode' = "normal"
  /\ current' = chosen
  /\ stop' = Stopped(current, chosen)
  /\ EnterPolicy(chosen)
  /\ \E fold \in FoldRamps :
       Run(chosen, UpEntered(fold), DownEntered(fold), action')
  /\ UNCHANGED <<request, chosen, over>>

Tick == Stay \/ Change

-----------------------------------------------------------------------------
(* update_forward(): a policy's thread *)

Begin(p) ==
  /\ thread[p] = "waiting" /\ ~stop[p]
  /\ thread' = [thread EXCEPT ![p] = "inferring"]
  /\ sample' = [sample EXCEPT ![p] = "now"]
  /\ UNCHANGED <<request, stateVars, over, action, stop>>

Infer(p) ==
  /\ thread[p] = "inferring"
  /\ thread' = [thread EXCEPT ![p] = "storing"]
  /\ UNCHANGED <<request, stateVars, over, sample, action, stop>>

\* The action is assigned, and reordered and signed in place by np3o policies.
Store(p) ==
  /\ thread[p] = "storing"
  /\ thread' = [thread EXCEPT ![p] = "waiting"]
  /\ action' = [action EXCEPT ![p] = sample[p]]
  /\ sample' = [sample EXCEPT ![p] = "none"]
  /\ UNCHANGED <<request, stateVars, over, stop>>

Forward(p) == Begin(p) \/ Infer(p) \/ Store(p)

Next ==
  \/ (\E r \in States \cup {"other"} : Request(r))
  \/ Topple \/ Tick
  \/ \E p \in Policies : Forward(p)

Spec == Init /\ [][Next]_vars

\* The controller manager calls update() for ever, and the threads are scheduled.
ForwardRuns(p) == WF_vars(Forward(p))
FairSpec == Spec /\ WF_vars(Tick) /\ \A p \in Policies : ForwardRuns(p)

-----------------------------------------------------------------------------
(* Properties *)

\* How far each ramp is, and that the last command was its setpoint a tick ago.
UpInv ==
  current = "transform_up" =>
    \/ /\ up.flag = "fold" /\ up.from = "initial" /\ up.start = 0
       /\ up.iter \in 1..up.fold
       /\ cmd = Setpoint("initial", "fold", up.iter - 1, up.fold)
    \/ /\ up.flag = "stand" /\ up.from = "fold" /\ up.start = up.fold + 1
       /\ up.iter \in up.start..UpLimit(up)
       /\ cmd = IF up.iter = up.start
                THEN Setpoint("initial", "fold", up.fold, up.fold)
                ELSE Setpoint("fold", "stand", up.iter - 1 - up.start, StandRamp)
    \/ up.flag = "roll"

DownInv ==
  current = "transform_down" =>
    /\ down.iter \in 1..(down.fold + Settle)
    /\ cmd = Setpoint("initial", "fold", down.iter - 1, down.fold)

\* A change is one of state, and only the transforms command setpoints.
ControlInv ==
  /\ mode = "change" => chosen # current
  /\ cmd.kind \in {"ramp", "undefined"} => current \in Transforms

\* Nothing cuts a robot's way up short: from the middle of a ramp transform_up
\* is left for no request, in whatever order requests and upsets come, but only
\* with the setpoint at the end of the stand and held there, or for a robot
\* found upside down, to which it then commands nothing (checkTransition's one
\* total of two ramps against _FoldLegs).  A robot that never went through
\* transform_up is no concern of it: joint_pd leads from idle to a policy.
StoodBeforeLeave ==
  current = "transform_up" /\ mode = "change" =>
    \/ up.flag = "roll" /\ cmd.kind = "none"
    \/ /\ cmd = Setpoint("fold", "stand", StandRamp, StandRamp)
       /\ up.iter - up.start >= StandRamp + Settle - 1

\* The policy the controller is in has a thread, whose flag enter() has cleared.
AwakeInv ==
  \A p \in Policies : current = p => thread[p] # "none" /\ ~stop[p]

\* The strengthening the properties of the ramps and threads follow from: it is
\* inductive.
IInv ==
  TypeOK /\ UpInv /\ DownInv /\ ControlInv /\ StoodBeforeLeave /\ AwakeInv

\* b is a step of the ramp further than a, or the start of the next ramp in the
\* pose a has reached.
Follows(a, b) ==
  \/ b = [a EXCEPT !.at = @ + 1]
  \/ a.at = a.of /\ b.from = a.to /\ b.at = 0

\* Within a state the setpoint never jumps, and a state's first one is the pose
\* the robot is in, or undefined if it already is in the one it goes to
\* (_SetJPosInterPts, enter).
SmoothSetpoint ==
  [][IF current' = current
     THEN /\ cmd'.kind # "undefined"
          /\ cmd.kind = "ramp" /\ cmd'.kind = "ramp" => Follows(cmd.ramp, cmd'.ramp)
     ELSE cmd'.kind = "ramp" => cmd'.ramp.from = "initial" /\ cmd'.ramp.at = 0]_cmd

\* An operator who keeps asking for it gets the robot down, whatever it is doing.
LiesDown ==
  <>[](request = "transform_down") => <>[](current = "idle")

\* How far the robot is from lying idle: the changes of state on its way there
\* and the updates that are left in the ramp it is in.
Distance(s) ==
  CASE s = "idle" -> 0
    [] s = "transform_down" -> 1
    [] OTHER -> 2
ChangesLeft ==
  IF mode = "change" THEN 2 * Distance(chosen) + 1 ELSE 2 * Distance(current)
TicksLeft ==
  CASE current = "transform_up" -> UpLimit(up) - up.iter
    [] current = "transform_down" -> down.fold + Settle - down.iter
    [] OTHER -> 0
Rests == current = "idle" /\ mode = "normal"

\* While transform_down is asked for every update brings the robot closer to
\* lying idle, where it stays: no order of requests, upsets and ramps makes an
\* update that is for nothing, or that leads away (checkTransition, run).
NearsIdle ==
  [][Tick /\ request = "transform_down" =>
       \/ Rests /\ Rests'
       \/ ChangesLeft' < ChangesLeft
       \/ ChangesLeft' = ChangesLeft /\ TicksLeft' < TicksLeft]_vars

\* The thread of the policy the controller is in is never asleep: whatever the
\* order of enter(), exit() and the thread's own steps, its flag is cleared and
\* it was started (stop_update_, forward_thread).
ForwardReady(p) == current = p => ENABLED <<Forward(p)>>_vars
ThreadAwake == \A p \in Policies : ForwardReady(p)

\* A policy entered again does not act on its last visit's action for ever, nor
\* does its thread sleep on (exit, enter, update_forward).
Stale(p) == current = p /\ action[p] # "now"
PolicyResumes(p) == Stale(p) ~> ~Stale(p)
Resumes == \A p \in Policies : PolicyResumes(p)
=============================================================================
