--------------------------- MODULE MujocoRollout ---------------------------
(***************************************************************************)
(* The MuJoCo runner (d1_piper_l_mujoco.py): its launch, the optional      *)
(* observation dump, and the loop that updates the policy every            *)
(* `decimation' physics steps, delays the arm's command, and integrates.   *)
(*                                                                         *)
(* An action stands for the update that computed it, or for the row of the *)
(* trace it replays; a command for its row in the command trace; a state   *)
(* of the robot for the physics step it was sampled at.  What is checked   *)
(* is which of them meet: the numbers are left out, but for the torque     *)
(* envelope, an operator of its own at the end.                            *)
(***************************************************************************)
EXTENDS Integers, Sequences

CONSTANTS
  Launches,    \* the command lines and files explored
  HistoryLen,  \* PolicyConfig.history_length
  MaxDelay     \* the longest delay DelayedPDActuator was trained with

ASSUME HistoryLenAssumption == HistoryLen \in Nat \ {0}
ASSUME MaxDelayAssumption == MaxDelay \in Nat

\* How many rows of a trace one physics step is worth: sim_dt * replay_rate_hz
\* as num / den.
RateType == [num: Nat, den: Nat \ {0}]

\* A trace of actions as its file has it, and one of commands, whose rate (0 for
\* none) replaces that of the command line.
ActionFile == [given: BOOLEAN, width: {"actions", "timed", "other"},
               header: BOOLEAN, ordered: BOOLEAN, finite: BOOLEAN, rows: Nat]
CommandTrace == [given: BOOLEAN, finite: BOOLEAN, rows: Nat, rate: RateType]
\* delay and decimation: on the command line, where 0 and 4 are the defaults,
\* and in the YAML, if one is given.
LaunchType == [config: BOOLEAN, delay: Int, yamlDelay: Int,
               decimation: Int, yamlDecimation: Int, steps: Nat,
               actions: ActionFile, commands: CommandTrace, rate: RateType,
               live: BOOLEAN, dump: BOOLEAN, mayStop: BOOLEAN]
ASSUME LaunchesAssumption == Launches \subseteq LaunchType

Terms == {"state", "last_action", "command"}

VARIABLES
  launch,  \* the command line
  pc,      \* what main() is doing
  step,    \* the physics step
  action,  \* rollout.action and target_action: 0 before the first update
  arm,     \* _arm_applied_action
  queue,   \* _arm_history, empty for None
  terms,   \* _term_history
  command, \* rollout.command_velocity and ee_pose: a row (0 for the launch's
           \* own), and whether it passed sanitize_commands()
  done,    \* first_policy_done
  frames,  \* history: the frame of every policy update
  issued,  \* history: the action of every physics step
  trace    \* the rows of the policy trace: physics step and update

vars == <<launch, pc, step, action, arm, queue, terms, command, done, frames,
          issued, trace>>

Larger(a, b) == IF a > b THEN a ELSE b
Smaller(a, b) == IF a < b THEN a ELSE b

\* main(): an option left at its default is taken from the YAML.
Setting(l, option, default, yaml) ==
  IF l.config /\ option = default THEN yaml ELSE option
Delay == Larger(0, Setting(launch, launch.delay, 0, launch.yamlDelay))
Decimation == Setting(launch, launch.decimation, 4, launch.yamlDecimation)
Rate ==
  IF launch.commands.given /\ launch.commands.rate.num > 0
  THEN launch.commands.rate ELSE launch.rate

\* _load_action_replay(): a header that names the actions selects their
\* columns; else a first column that is a time is dropped.
LoadsActions(f) ==
  /\ f.rows > 0 /\ f.finite
  /\ f.header \/ f.width = "actions" \/ (f.width = "timed" /\ f.ordered)

\* _load_command_replay()
LoadsCommands(f) == f.rows > 0 /\ f.finite

Accepted ==
  /\ Decimation > 0 /\ Delay <= MaxDelay /\ launch.rate.num > 0
  /\ launch.actions.given => LoadsActions(launch.actions)
  /\ launch.commands.given => LoadsCommands(launch.commands)

Command == [row: Nat, sanitized: BOOLEAN]
Frame == [state: Nat, last_action: Nat, command: Command, row: Nat]

TypeOK ==
  /\ launch \in Launches
  /\ pc \in {"launch", "refused", "dump", "update", "actuate", "integrate",
             "finished"}
  /\ step \in Nat /\ action \in Nat /\ arm \in Nat
  /\ queue \in Seq(Nat)
  /\ command \in Command
  /\ done \in BOOLEAN
  /\ DOMAIN terms = Terms
  /\ terms["state"] \in Seq(Nat) /\ terms["last_action"] \in Seq(Nat)
  /\ terms["command"] \in Seq(Command)
  /\ frames \in Seq(Frame)
  /\ issued \in Seq(Nat)
  /\ trace \in Seq([step: Nat, update: Nat])

Init ==
  /\ launch \in Launches /\ pc = "launch"
  /\ step = 0 /\ action = 0 /\ arm = 0 /\ queue = <<>>
  /\ terms = [t \in Terms |-> <<>>]
  /\ command = [row |-> 0, sanitized |-> TRUE]
  /\ done = FALSE
  /\ frames = <<>> /\ issued = <<>> /\ trace = <<>>

Launch ==
  /\ pc = "launch"
  /\ pc' = IF ~Accepted THEN "refused"
           ELSE IF launch.dump THEN "dump" ELSE "update"
  /\ UNCHANGED <<launch, step, action, arm, queue, terms, command, done,
                 frames, issued, trace>>

-----------------------------------------------------------------------------
(* A policy update *)

RowLate(rows) == Smaller((step * Rate.num) \div Rate.den + 1, rows - 1)
\* The row of a trace in force at this step, the 1e-9 that absorbs rounding left
\* out; its last row is held once it is over.
Row(rows) == Smaller((step * Rate.num) \div Rate.den, rows - 1)

ShiftNewestFirst(old, sample) ==
  IF old = <<>> THEN [i \in 1 .. HistoryLen |-> sample]
  ELSE <<sample>> \o SubSeq(old, 1, HistoryLen - 1)
\* policy_step(): each term's buffer drops its oldest sample; the first sample
\* fills it.
Shift(old, sample) ==
  IF old = <<>> THEN [i \in 1 .. HistoryLen |-> sample]
  ELSE Append(Tail(old), sample)

\* The action the policy computes, or the row of the trace.
NewAction == IF launch.actions.given THEN Row(launch.actions.rows) + 1
             ELSE Len(frames) + 1

LastActionLate == NewAction
\* frame() reads the action before it is replaced.
LastAction == action

PolicyStep ==
  LET sample == [state |-> step, last_action |-> LastAction, command |-> command']
  IN /\ terms' = [t \in Terms |-> Shift(terms[t], sample[t])]
     /\ frames' = Append(frames,
          [state |-> step, last_action |-> LastAction, command |-> command',
           row |-> NewAction])
     /\ action' = NewAction
     /\ arm' = IF Delay = 0 THEN NewAction ELSE arm

NewCommandRaw ==
  IF launch.commands.given
  THEN command' = [row |-> Row(launch.commands.rows) + 1, sanitized |-> FALSE]
  ELSE \/ UNCHANGED command
       \/ launch.live /\ command' = [row |-> step + 1, sanitized |-> TRUE]
\* The command an update uses: the trace's row, or what the live file says.
NewCommand ==
  IF launch.commands.given
  THEN command' = [row |-> Row(launch.commands.rows) + 1, sanitized |-> TRUE]
  ELSE \/ UNCHANGED command
       \/ launch.live /\ command' = [row |-> step + 1, sanitized |-> TRUE]

Update ==
  /\ pc = "update" /\ pc' = "actuate"
  /\ IF step % Decimation = 0 /\ ~(step = 0 /\ done) THEN NewCommand /\ PolicyStep
     ELSE UNCHANGED <<action, arm, terms, command, frames>>
  /\ UNCHANGED <<launch, step, queue, done, issued, trace>>

\* --observation-dump evaluates the first update before the loop; the command
\* trace's first row is taken as it is.
Dump ==
  /\ pc = "dump" /\ pc' = "update"
  /\ command' = IF launch.commands.given THEN [row |-> 1, sanitized |-> FALSE]
                ELSE command
  /\ PolicyStep
  /\ done' = TRUE
  /\ UNCHANGED <<launch, step, queue, issued, trace>>

-----------------------------------------------------------------------------
(* The torque of a D1 motor, update_torque().  Everything is multiplied by the *)
(* no-load speed v, which makes the linear torque-speed envelope integral:     *)
(* the saturation torque s and the limit e become s * v and e * v, a speed dq  *)
(* becomes s * dq, the corner speed v * (1 + e / s) becomes (s + e) * v.       *)

Clip(x, low, high) == Smaller(Larger(x, low), high)

\* The speed is clipped to the corner speed, so the envelope may cross zero but
\* never the effort limit.
Speed(dq, s, e, v) == Clip(s * dq, -(s * v + e * v), s * v + e * v)
MaxEffort(dq, s, e, v) == Smaller(s * v - Speed(dq, s, e, v), e * v)
MinEffort(dq, s, e, v) == Larger(-(s * v) - Speed(dq, s, e, v), -(e * v))
Torque(computed, dq, s, e, v) ==
  Smaller(Larger(computed, MinEffort(dq, s, e, v)), MaxEffort(dq, s, e, v))

-----------------------------------------------------------------------------
(* A physics step *)

PushShort(q, c) ==
  IF q = <<>> THEN [i \in 1 .. Delay |-> c] ELSE Append(Tail(q), c)
\* advance_actuator_delay(): a deque of Delay + 1 commands, filled with the
\* first one.
Push(q, c) ==
  IF q = <<>> THEN [i \in 1 .. Delay + 1 |-> c] ELSE Append(Tail(q), c)

Advance ==
  IF Delay = 0 THEN UNCHANGED <<queue, arm>>
  ELSE queue' = Push(queue, action) /\ arm' = queue'[1]

UpdatedByLoop == step % Decimation = 0 /\ ~(step = 0 /\ done)
\* Did this step write a row of the policy trace: an update, or the dump's?
Updated == step % Decimation = 0

Actuate ==
  /\ pc = "actuate" /\ pc' = "integrate"
  /\ Advance
  /\ issued' = Append(issued, action)
  /\ trace' = IF Updated
              THEN Append(trace, [step |-> step, update |-> Len(frames)])
              ELSE trace
  /\ UNCHANGED <<launch, step, action, terms, command, done, frames>>

\* mj_step(), then a fall or a closed viewer may end the run.
Integrate ==
  /\ pc = "integrate"
  /\ step' = step + 1
  /\ pc' \in IF launch.mayStop THEN {"update", "finished"} ELSE {"update"}
  /\ UNCHANGED <<launch, action, arm, queue, terms, command, done, frames,
                 issued, trace>>

Finish ==
  /\ pc = "update" /\ step >= launch.steps
  /\ pc' = "finished"
  /\ UNCHANGED <<launch, step, action, arm, queue, terms, command, done, frames,
                 issued, trace>>

Ended == pc \in {"refused", "finished"} /\ UNCHANGED vars

Next == \/ Launch \/ Dump \/ (step < launch.steps /\ Update) \/ Actuate
        \/ Integrate \/ Finish \/ Ended
Spec == Init /\ [][Next]_vars

-----------------------------------------------------------------------------
(* Properties *)

\* The arm follows the action of exactly Delay physics steps before, the first
\* one until then: "a deque with the same semantics avoids an off-by-one
\* difference" (__init__, advance_actuator_delay).
ArmDelayExact ==
  pc = "integrate" => arm = issued[Larger(1, Len(issued) - Delay)]

\* Every term's buffer holds the samples of the last HistoryLen updates, of the
\* same updates for all terms, and of the first one before that (policy_step).
HistoryAligned ==
  frames # <<>> =>
    \A t \in Terms, i \in 1 .. HistoryLen :
      terms[t][i] = frames[Larger(1, Len(frames) - HistoryLen + i)][t]

\* The policy is shown, as its last action, the one its last update issued,
\* whether computed, replayed or evaluated for the dump.
LastActionChained ==
  /\ \A n \in 1 .. Len(frames) :
       frames[n].last_action = IF n = 1 THEN 0 ELSE frames[n - 1].row
  /\ action = IF frames = <<>> THEN 0 ELSE frames[Len(frames)].row

\* Is n the row of a trace that is in force at physics step s: the newest one
\* whose time has come?
InForce(n, s, rows) ==
  /\ n \in 1 .. rows
  /\ (n - 1) * Rate.den <= s * Rate.num
  /\ n = rows \/ s * Rate.num < n * Rate.den

\* Whatever the rate a trace was recorded at, the n-th update is that of the
\* n-th control period, with a dump, whose update "the loop must not evaluate
\* twice", or without, and it is given the rows of actions and commands in force
\* at that moment: none early, none late, the last one held (loop).
ReplayInOrder ==
  \A n \in 1 .. Len(frames) :
    LET f == frames[n]
    IN /\ f.state = Decimation * (n - 1)
       /\ launch.actions.given => InForce(f.row, f.state, launch.actions.rows)
       /\ launch.commands.given =>
            InForce(f.command.row, f.state, launch.commands.rows)

\* Each row of the policy trace pairs a frame with the state it was sampled in.
TraceAligned ==
  \A i \in 1 .. Len(trace) :
    trace[i].update = i /\ frames[i].state = trace[i].step

\* The limit layer of the configuration stands before every command the policy
\* is shown, the replayed and the live ones too, but for the first row of a
\* trace when it is dumped (sanitize_commands, main).
RawOnlyInDump ==
  \A n \in 1 .. Len(frames) :
    ~frames[n].command.sanitized => n = 1 /\ launch.dump /\ launch.commands.given

\* What each phase of main() finds.
PhaseInv ==
  /\ pc \notin {"launch", "refused"} => Accepted
  /\ pc \in {"launch", "refused", "dump"} =>
       /\ step = 0 /\ ~done
       /\ frames = <<>> /\ issued = <<>> /\ trace = <<>>
  /\ pc = "dump" => launch.dump
  /\ pc \in {"actuate", "integrate"} \/ step > 0 \/ done => frames # <<>>
  /\ pc = "integrate" => issued # <<>> /\ issued[Len(issued)] = action

\* The deque against what was issued: its i-th command is Delay + 1 - i steps
\* old.
QueueInv ==
  /\ issued = <<>> => queue = <<>>
  /\ Delay > 0 /\ issued # <<>> =>
       /\ Len(queue) = Delay + 1
       /\ \A i \in 1 .. Delay + 1 :
            queue[i] = issued[Larger(1, Len(issued) - (Delay + 1) + i)]
  /\ Delay = 0 => arm = action

\* The buffers are filled together, by the first update.
BuffersInv ==
  \A t \in Terms : Len(terms[t]) = IF frames = <<>> THEN 0 ELSE HistoryLen

\* An update whose row of the trace is not written yet: the dump's waits for the
\* loop's first step.
Pending ==
  \/ pc = "actuate" /\ step % Decimation = 0
  \/ pc = "update" /\ step = 0 /\ done

\* One row is written every Decimation steps, for the update of that step.
ClockInv ==
  pc \in {"update", "actuate", "integrate"} =>
    /\ Len(frames) = Len(trace) + IF Pending THEN 1 ELSE 0
    /\ Pending => frames[Len(frames)].state = step
    /\ Len(trace) = step \div Decimation
                     + IF pc = "integrate" \/ step % Decimation # 0 THEN 1 ELSE 0

\* A raw command comes from a trace.
RawInv == ~command.sanitized => launch.commands.given

\* Together they are inductive.
RolloutInv ==
  /\ TypeOK /\ PhaseInv /\ QueueInv /\ BuffersInv /\ ClockInv /\ RawInv
  /\ ArmDelayExact /\ HistoryAligned /\ LastActionChained /\ TraceAligned
  /\ ReplayInOrder /\ RawOnlyInDump
=============================================================================
