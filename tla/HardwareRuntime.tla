-------------------------- MODULE HardwareRuntime --------------------------
(***************************************************************************)
(* The two-bus hardware runtime of loco_mani_runtime.py                    *)
(* (HardwarePolicyRuntimeLoop) with the parts of d1_piper_hardware.py it   *)
(* drives: D1Backend on can0, PiperBackend on can1 and SafetySupervisor.   *)
(*                                                                         *)
(* Actors: the main thread (connect, feedback gate, enable, the two-rate   *)
(* loop, teardown), one reader thread per bus, and the operator, whose     *)
(* SIGINT or SIGTERM sets the stop event at any moment.  A vendor call is  *)
(* made under the bus's _io_lock: the main thread's calls are one step     *)
(* each, a reader holds the lock from ReaderAcquire to ReaderReturn.       *)
(*                                                                         *)
(* Time is abstract: a snapshot may have become stale whenever it is       *)
(* checked, a watchdog may have expired whenever it is read, and a         *)
(* deadline may pass whenever it is tested.                                *)
(***************************************************************************)
EXTENDS Naturals

CONSTANTS
  Launches,   \* the command lines and YAML switches explored
  Readings,   \* what a vendor feedback call may yield
  Hanging     \* the buses whose vendor feedback call may never return

Bus == {"d1", "piper"}

\* Command-line flags and YAML switches main() looks at.  "startup" is
\* StartupManager.enabled, false when its mode is "policy".
Switch == {"send", "shadow", "gate", "enablePiper", "force", "dryRun",
           "enableOnStart", "startup", "calibrated", "policyPath"}

ASSUME LaunchesAssumption == Launches \subseteq [Switch -> BOOLEAN]
ASSUME HangingAssumption == Hanging \subseteq Bus

Phases == {"wait_state", "ramp_default", "hold", "policy"}

\* The last frame a bus received: D1's FORCE_DIRECT request, a preparation
\* command, a policy command, the all-zero JointCommand, an emergency stop.
Active == {"direct", "prep", "act"}
Quiet == {"zero", "estop"}
Frames == {"none"} \cup Active \cup Quiet

\* A feedback sample: none yet, invalid, valid, valid with a joint outside
\* its limits, valid with the base tilted (the IMU is D1's).
Valid == {"ok", "limit", "tilt"}
Samples == {"empty", "bad"} \cup Valid

ASSUME ReadingsAssumption == Readings \subseteq Samples \ {"empty"}

Faults == {"", "state", "watchdog", "send"}
Reports == Faults \cup {"d1_safe", "piper_safe", "piper_estop",
                        "d1_close", "piper_close"}

LoopPC == {"force", "enable", "loop", "policy", "policy_check", "command",
           "command_check", "send_d1", "send_piper", "send_piper_rejected"}
StopPC == {"stop", "join", "safe_d1", "safe_piper", "estop_piper",
           "estop_d1", "close_d1", "close_piper"}
StartPC == {"launch", "start_d1", "start_piper", "undo_d1", "undo_piper",
            "readers", "wait", "wait_check"}

VARIABLES
  opt,        \* the switches this process was launched with
  pc,         \* the main thread's next step
  seen,       \* the D1 half of the snapshot being merged
  policyNs,   \* has a policy tick completed (_last_policy_ns # 0)?
  commandNs,  \* has a command been limited (_last_command_ns # 0)?
  cmd,        \* _last_command: "zero" before the first policy tick
  startup,    \* StartupManager.phase
  fault,      \* SafetySupervisor.fault, the latch
  raised,     \* did run() leave by an exception?
  lastFault,  \* RuntimeStats.last_fault, the process's exit report
  stop,       \* the stop event
  reader,     \* per bus: the reader thread's step
  box,        \* per bus: the _SnapshotBox
  conn,       \* per bus: the backend's connected flag and vendor handle
  enabled,    \* PiperBackend.enabled
  handle,     \* per bus: the vendor driver itself (external)
  frame,      \* per bus: the last frame the robot received (external)
  power,      \* are the arm motors energised (external)?
  qualified,  \* history: the initial feedback gate was passed
  attempts,   \* history: the stop commands issued during teardown
  late        \* history, per bus: active frames sent after the stop event

mainVars  == <<pc, seen, policyNs, commandNs, cmd, startup, raised>>
latchVars == <<fault, lastFault>>
readVars  == <<reader, box>>
connVars  == <<conn, enabled, handle>>
robotVars == <<frame, power, late>>
histVars  == <<qualified, attempts>>
vars == <<opt, mainVars, latchVars, stop, readVars, connVars, robotVars,
          histVars>>

hardwareAccess == opt["send"] \/ opt["shadow"]
Free(b) == reader[b] # "reading"

TypeOK ==
  /\ opt \in Launches
  /\ pc \in StartPC \cup LoopPC \cup StopPC \cup {"exit"}
  /\ seen \in Samples
  /\ policyNs \in BOOLEAN /\ commandNs \in BOOLEAN
  /\ cmd \in {"zero", "prep", "act"}
  /\ startup \in Phases
  /\ fault \in Faults /\ lastFault \in Reports
  /\ raised \in BOOLEAN /\ stop \in BOOLEAN
  /\ reader \in [Bus -> {"off", "top", "calling", "reading", "done"}]
  /\ box \in [Bus -> Samples]
  /\ conn \in [Bus -> BOOLEAN] /\ enabled \in BOOLEAN
  /\ handle \in [Bus -> {"none", "open", "closed", "closed twice"}]
  /\ frame \in [Bus -> Frames] /\ power \in BOOLEAN
  /\ qualified \in BOOLEAN
  /\ attempts \subseteq {"d1_zero", "piper_zero", "piper_estop", "d1_estop"}
  /\ late \in [Bus -> {0, 1, 2}]

Init ==
  /\ opt \in Launches
  /\ pc = "launch" /\ seen = "empty"
  /\ policyNs = FALSE /\ commandNs = FALSE /\ cmd = "zero"
  /\ startup = "policy"
  /\ fault = "" /\ lastFault = "" /\ raised = FALSE /\ stop = FALSE
  /\ reader = [b \in Bus |-> "off"] /\ box = [b \in Bus |-> "empty"]
  /\ conn = [b \in Bus |-> FALSE] /\ enabled = FALSE
  /\ handle = [b \in Bus |-> "none"]
  /\ frame = [b \in Bus |-> "none"] /\ power = FALSE
  /\ qualified = FALSE /\ attempts = {}
  /\ late = [b \in Bus |-> 0]

-----------------------------------------------------------------------------
(* Steps of the main thread's program counter *)

Step(from, to) == pc = from /\ pc' = to

\* An exception leaves run()'s try block for stop_and_disconnect.
Raise(from) == Step(from, "stop") /\ raised' = TRUE

\* A frame reaches the robot.
Deliver(b, f) ==
  /\ frame' = [frame EXCEPT ![b] = f]
  /\ late' = [late EXCEPT ![b] =
                IF stop /\ f \in Active /\ @ < 2 THEN @ + 1 ELSE @]

Undelivered == UNCHANGED <<frame, late>>

\* JointCommand(): no target, no gain, no torque.
HeldCommand == cmd
ZeroCommand == "zero"

\* A vendor send that fails may have reached some of the motors.
MaybeDeliver(b, f) == Deliver(b, f) \/ Undelivered

\* stats.last_fault = stats.last_fault or r
ReportAlways(r) == lastFault' = r
ReportIfNone(r) == lastFault' = IF lastFault = "" THEN r ELSE lastFault

-----------------------------------------------------------------------------
(* main(): the launch gates, then run() up to the loop *)

\* main() refuses a launch, and so do the constructor's checks, unless every
\* opt-in a real send needs was given.
AcceptedUncalibrated ==
  /\ ~(opt["send"] /\ opt["shadow"])
  /\ hardwareAccess => opt["policyPath"] /\ opt["gate"]
  /\ opt["send"] => opt["enablePiper"] /\ opt["startup"]
Accepted ==
  /\ ~(opt["send"] /\ opt["shadow"])
  /\ hardwareAccess => opt["policyPath"] /\ opt["gate"]
  /\ opt["send"] => /\ opt["enablePiper"] /\ ~opt["dryRun"]
                    /\ ~opt["enableOnStart"] /\ opt["startup"]
                    /\ opt["calibrated"]
  /\ opt["force"] => opt["send"]

\* StartupManager.reset()
StartupResetLost == "policy"
StartupReset == IF opt["startup"] THEN "wait_state" ELSE "policy"

Launch ==
  /\ Accepted
  /\ Step("launch", "start_d1")
  /\ startup' = StartupReset
  /\ UNCHANGED <<opt, seen, policyNs, commandNs, cmd, raised, latchVars, stop,
                 readVars, connVars, robotVars, histVars>>

Refuse ==
  /\ ~Accepted
  /\ Step("launch", "exit")
  /\ raised' = TRUE
  /\ UNCHANGED <<opt, seen, policyNs, commandNs, cmd, startup, latchVars, stop,
                 readVars, connVars, robotVars, histVars>>

\* The backends' own gates: connect() opens the bus only behind the hardware
\* gate, and without a complete calibration only to inspect.
MayOpen == ~hardwareAccess \/ (opt["gate"] /\ (opt["calibrated"] \/ opt["shadow"]))

Connect(b) ==
  /\ MayOpen
  /\ conn' = [conn EXCEPT ![b] = TRUE]
  /\ handle' = IF hardwareAccess THEN [handle EXCEPT ![b] = "open"] ELSE handle
  /\ UNCHANGED enabled

\* connect() raised: a Piper driver that had opened was torn down again.
ConnectFails == hardwareAccess /\ UNCHANGED connVars

StartD1 ==
  /\ \/ Step("start_d1", "start_piper") /\ Connect("d1")
     \/ Step("start_d1", "undo_d1") /\ ConnectFails
  /\ UNCHANGED <<opt, seen, policyNs, commandNs, cmd, startup, raised,
                 latchVars, stop, readVars, robotVars, histVars>>

StartPiper ==
  /\ \/ Step("start_piper", "readers") /\ Connect("piper")
     \/ Step("start_piper", "undo_d1") /\ ConnectFails
  /\ UNCHANGED <<opt, seen, policyNs, commandNs, cmd, startup, raised,
                 latchVars, stop, readVars, robotVars, histVars>>

\* disconnect() clears the ownership before it calls the vendor's close, so
\* it closes a driver it still owns and nothing otherwise.  The close may
\* raise; the driver counts as closed all the same.
ClearAfterClose(b) == conn' = [conn EXCEPT ![b] = FALSE] \/ UNCHANGED conn
ClearOwnership(b) == conn' = [conn EXCEPT ![b] = FALSE]

Disconnect(b) ==
  /\ ClearOwnership(b)
  /\ enabled' = (enabled /\ b # "piper")
  /\ handle' = [handle EXCEPT ![b] =
                  IF ~conn[b] \/ @ = "none" THEN @
                  ELSE IF @ = "open" THEN "closed" ELSE "closed twice"]

UndoD1 ==
  /\ Step("undo_d1", "undo_piper")
  /\ Disconnect("d1")
  /\ UNCHANGED <<opt, seen, policyNs, commandNs, cmd, startup, raised,
                 latchVars, stop, readVars, robotVars, histVars>>

UndoPiper ==
  /\ Raise("undo_piper")
  /\ Disconnect("piper")
  /\ UNCHANGED <<opt, seen, policyNs, commandNs, cmd, startup,
                 latchVars, stop, readVars, robotVars, histVars>>

StartReaders ==
  /\ Step("readers", "wait")
  /\ reader' = [b \in Bus |-> "top"]
  /\ UNCHANGED <<opt, seen, policyNs, commandNs, cmd, startup, raised,
                 latchVars, stop, box, connVars, robotVars, histVars>>

-----------------------------------------------------------------------------
(* The reader threads and the operator *)

ReaderLoopForever == "calling"
ReaderLoop == IF stop THEN "done" ELSE "calling"

ReaderCheck(b) ==
  /\ reader[b] = "top"
  /\ reader' = [reader EXCEPT ![b] = ReaderLoop]
  /\ UNCHANGED <<opt, mainVars, latchVars, stop, box, connVars, robotVars,
                 histVars>>

\* backend.read() takes the lock; on a backend disconnected meanwhile it
\* raises, and the reader stores an invalid snapshot.
ReaderAcquire(b) ==
  /\ reader[b] = "calling"
  /\ \/ /\ conn[b]
        /\ reader' = [reader EXCEPT ![b] = "reading"]
        /\ UNCHANGED box
     \/ /\ ~conn[b]
        /\ reader' = [reader EXCEPT ![b] = "top"]
        /\ box' = [box EXCEPT ![b] = "bad"]
  /\ UNCHANGED <<opt, mainVars, latchVars, stop, connVars, robotVars, histVars>>

\* A dry-run read returns the standing pose; a real one whatever the bus has.
ReadOutcome(b) ==
  IF ~hardwareAccess THEN {"ok"}
  ELSE IF b = "d1" THEN Readings ELSE Readings \ {"tilt"}

ReaderReturn(b) ==
  /\ reader[b] = "reading"
  /\ reader' = [reader EXCEPT ![b] = "top"]
  /\ \E s \in ReadOutcome(b) : box' = [box EXCEPT ![b] = s]
  /\ UNCHANGED <<opt, mainVars, latchVars, stop, connVars, robotVars, histVars>>

\* The handlers of SIGINT and SIGTERM only set the event.
Signal ==
  /\ pc \notin {"launch", "exit"}
  /\ ~stop
  /\ stop' = TRUE
  /\ UNCHANGED <<opt, mainVars, latchVars, readVars, connVars, robotVars,
                 histVars>>

-----------------------------------------------------------------------------
(* The initial feedback gate, FORCE_DIRECT and the Piper enable *)

\* merge_snapshots(d1, piper).valid
MergedValid(d1, piper) == d1 \in Valid /\ piper \in Valid

\* check_state() on that merge: the latch never clears, any sample may have
\* become stale by the time it is checked, and joint limits are not enforced
\* on a read-only run.
Healthy(d1, piper) ==
  /\ MergedValid(d1, piper)
  /\ d1 # "tilt"
  /\ opt["shadow"] \/ "limit" \notin {d1, piper}

VerdictsUnlatched(d1, piper) ==
  {"state", IF Healthy(d1, piper) THEN "" ELSE "state"}
Verdicts(d1, piper) ==
  {"state", IF Healthy(d1, piper) THEN fault ELSE "state"}

\* The two boxes are read one after the other, each under its own lock.
ReadD1Box(from, to) ==
  /\ Step(from, to)
  /\ seen' = box["d1"]

\* The merged snapshot is local to the tick.
Forget == seen' = "empty"

WaitPoll ==
  /\ ~stop
  /\ ReadD1Box("wait", "wait_check")
  /\ UNCHANGED <<opt, policyNs, commandNs, cmd, startup, raised, latchVars,
                 stop, readVars, connVars, robotVars, histVars>>

AfterGateAlwaysEnables == IF opt["force"] THEN "force" ELSE "enable"
AfterGate == IF ~opt["send"] THEN "loop"
             ELSE IF opt["force"] THEN "force" ELSE "enable"

WaitCheck ==
  /\ pc = "wait_check"
  /\ IF MergedValid(seen, box["piper"])
     THEN \E f \in Verdicts(seen, box["piper"]) :
            /\ fault' = f
            /\ pc' = IF f = "" THEN AfterGate ELSE "wait"
            /\ qualified' = (f = "")
     ELSE pc' = "wait" /\ UNCHANGED <<fault, qualified>>
  /\ Forget
  /\ UNCHANGED <<opt, policyNs, commandNs, cmd, startup, raised,
                 lastFault, stop, readVars, connVars, robotVars, attempts>>

\* The deadline passed or the stop event is set: the gate raises.
NoDeadline == stop
Deadline == TRUE

WaitExpire ==
  /\ Deadline
  /\ Raise("wait")
  /\ UNCHANGED <<opt, seen, policyNs, commandNs, cmd, startup, latchVars,
                 stop, readVars, connVars, robotVars, histVars>>

\* set_force_direct(): its Boolean result is ignored by run().
ForceDirect ==
  /\ Free("d1")
  /\ \/ Step("force", "enable") /\ UNCHANGED raised
     \/ Raise("force")
  /\ MaybeDeliver("d1", "direct")
  /\ UNCHANGED <<opt, seen, policyNs, commandNs, cmd, startup, latchVars, stop,
                 readVars, connVars, power, histVars>>

\* enable(): a request that is not acknowledged raises, but the arm may have
\* powered up all the same.
EnablePiper ==
  /\ Free("piper")
  /\ \/ Step("enable", "loop") /\ enabled' = TRUE /\ power' = TRUE
        /\ UNCHANGED raised
     \/ Raise("enable") /\ power' \in {power, TRUE} /\ UNCHANGED enabled
  /\ UNCHANGED <<opt, seen, policyNs, commandNs, cmd, startup, latchVars, stop,
                 readVars, conn, handle, frame, late, histVars>>

-----------------------------------------------------------------------------
(* The two-rate loop *)

\* The duration elapsed, or the stop event is set.
LoopExit ==
  /\ Step("loop", "stop")
  /\ UNCHANGED <<opt, seen, policyNs, commandNs, cmd, startup, raised,
                 latchVars, stop, readVars, connVars, robotVars, histVars>>

\* Both ticks are due on the first turn, in program order; later each is due
\* at its own rate.  Reading the command file may raise (an OSError).
LoopConditionUntested == TRUE
LoopCondition == ~stop

LoopTurn ==
  /\ LoopCondition
  /\ \/ Step("loop", "policy") /\ UNCHANGED raised
     \/ policyNs /\ Step("loop", "command") /\ UNCHANGED raised
     \/ Raise("loop")
  /\ UNCHANGED <<opt, seen, policyNs, commandNs, cmd, startup, latchVars,
                 stop, readVars, connVars, robotVars, histVars>>

PolicyRead ==
  /\ ReadD1Box("policy", "policy_check")
  /\ UNCHANGED <<opt, policyNs, commandNs, cmd, startup, raised, latchVars,
                 stop, readVars, connVars, robotVars, histVars>>

\* A latched fault ends the run with the fault as its report.
HaltUnreported(f) ==
  /\ pc' = "stop"
  /\ fault' = f
  /\ UNCHANGED lastFault
  /\ stop' = TRUE
Halt(f) ==
  /\ pc' = "stop"
  /\ fault' = f
  /\ lastFault' = f
  /\ stop' = TRUE

\* StartupManager.update(): the phase after this tick and whether the tick
\* still commands the preparation.
PrepareStep ==
  \/ startup = "wait_state" /\ startup' \in {"ramp_default", "hold", "policy"}
  \/ startup = "ramp_default" /\ startup' \in {"ramp_default", "hold"}
  \/ startup = "hold" /\ startup' \in {"hold", "policy"}

PolicyCheck ==
  /\ pc = "policy_check"
  /\ \E f \in Verdicts(seen, box["piper"]) :
       \/ /\ f # ""
          /\ Halt(f)
          /\ UNCHANGED <<policyNs, cmd, startup, raised>>
       \/ /\ f = ""
          /\ \/ PrepareStep /\ cmd' = "prep"
             \/ startup = "policy" /\ UNCHANGED startup /\ cmd' = "act"
          /\ policyNs' = TRUE
          /\ \/ pc' = "command"
             \/ commandNs /\ pc' = "loop"
          /\ UNCHANGED <<latchVars, stop, raised>>
       \/ \* the policy step raised
          /\ f = ""
          /\ startup = "policy"
          /\ Raise("policy_check")
          /\ UNCHANGED <<latchVars, stop, policyNs, cmd, startup>>
  /\ Forget
  /\ UNCHANGED <<opt, commandNs, readVars, connVars, robotVars, histVars>>

\* The policy watchdog may trip before the snapshot is read again.
CommandRead ==
  /\ ReadD1Box("command", "command_check")
  /\ fault' \in {fault, "watchdog"}
  /\ UNCHANGED <<opt, policyNs, commandNs, cmd, startup, raised, lastFault,
                 stop, readVars, connVars, robotVars, histVars>>

\* check_state(), then limit_command(), whose own watchdog may trip once a
\* command has been limited.
CommandVerdicts ==
  LET checked == Verdicts(seen, box["piper"])
  IN checked \cup (IF commandNs /\ "" \in checked THEN {"watchdog"} ELSE {})

CommandCheck ==
  /\ pc = "command_check"
  /\ \E f \in CommandVerdicts :
       \/ /\ f # ""
          /\ Halt(f)
          /\ UNCHANGED commandNs
       \/ /\ f = ""
          /\ commandNs' = TRUE
          /\ pc' = IF opt["send"] THEN "send_d1" ELSE "loop"
          /\ UNCHANGED <<latchVars, stop>>
  /\ Forget
  /\ UNCHANGED <<opt, policyNs, cmd, startup, raised, readVars,
                 connVars, robotVars, histVars>>

\* D1's send returns True, returns False after a leg was refused (Piper is
\* still sent the command), or raises (Piper is not).
SendD1 ==
  /\ Free("d1")
  /\ \/ /\ Step("send_d1", "send_piper")
        /\ Deliver("d1", cmd)
        /\ UNCHANGED <<latchVars, stop>>
     \/ /\ Step("send_d1", "send_piper_rejected")
        /\ MaybeDeliver("d1", cmd)
        /\ UNCHANGED <<latchVars, stop>>
     \/ /\ pc = "send_d1"
        /\ MaybeDeliver("d1", cmd)
        /\ Halt("send")
  /\ UNCHANGED <<opt, seen, policyNs, commandNs, cmd, startup, raised,
                 readVars, connVars, power, histVars>>

\* Piper's send returns True or raises; it refuses on an arm not enabled.
SendPiper ==
  /\ Free("piper")
  /\ \/ /\ enabled
        /\ Step("send_piper", "loop")
        /\ Deliver("piper", cmd)
        /\ UNCHANGED <<latchVars, stop>>
     \/ /\ enabled
        /\ pc = "send_piper_rejected"
        /\ Deliver("piper", cmd)
        /\ Halt("send")
     \/ /\ pc \in {"send_piper", "send_piper_rejected"}
        /\ Undelivered \/ (enabled /\ Deliver("piper", cmd))
        /\ Halt("send")
  /\ UNCHANGED <<opt, seen, policyNs, commandNs, cmd, startup, raised,
                 readVars, connVars, power, histVars>>

-----------------------------------------------------------------------------
(* stop_and_disconnect() *)

SetStop ==
  /\ Step("stop", "join")
  /\ stop' = TRUE
  /\ UNCHANGED <<opt, seen, policyNs, commandNs, cmd, startup, raised,
                 latchVars, readVars, connVars, robotVars, histVars>>

\* Each join returns when its reader ended or after half a second.
AfterJoinUnlessRaised ==
  IF opt["send"] /\ ~raised THEN "safe_d1" ELSE "close_d1"
AfterJoin == IF opt["send"] THEN "safe_d1" ELSE "close_d1"

Join ==
  /\ Step("join", AfterJoin)
  /\ UNCHANGED <<opt, seen, policyNs, commandNs, cmd, startup, raised,
                 latchVars, stop, readVars, connVars, robotVars, histVars>>

\* _safe_send(), D1 half: a False result is dropped, an exception is reported
\* over whatever was reported before.
SafeD1 ==
  /\ Free("d1")
  /\ Step("safe_d1", "safe_piper")
  /\ attempts' = attempts \cup {"d1_zero"}
  /\ \/ conn["d1"] /\ MaybeDeliver("d1", ZeroCommand) /\ UNCHANGED lastFault
     \/ /\ Undelivered \/ (conn["d1"] /\ Deliver("d1", ZeroCommand))
        /\ lastFault' = "d1_safe"
  /\ UNCHANGED <<opt, seen, policyNs, commandNs, cmd, startup, raised, fault,
                 stop, readVars, connVars, power, qualified>>

SafePiper ==
  /\ enabled => Free("piper")
  /\ Step("safe_piper", "estop_piper")
  /\ IF enabled
     THEN /\ attempts' = attempts \cup {"piper_zero"}
          /\ \/ Deliver("piper", ZeroCommand) /\ UNCHANGED lastFault
             \/ MaybeDeliver("piper", ZeroCommand) /\ ReportIfNone("piper_safe")
     ELSE UNCHANGED <<attempts, frame, late, lastFault>>
  /\ UNCHANGED <<opt, seen, policyNs, commandNs, cmd, startup, raised, fault,
                 stop, readVars, connVars, power, qualified>>

\* emergency_stop() refuses without a driver, before it takes the lock; a
\* call that raised may have stopped the arm all the same.
EstopPiper ==
  /\ conn["piper"] => Free("piper")
  /\ Step("estop_piper", "estop_d1")
  /\ attempts' = attempts \cup {"piper_estop"}
  /\ \/ /\ conn["piper"]
        /\ Deliver("piper", "estop")
        /\ enabled' = FALSE /\ power' = FALSE
        /\ UNCHANGED lastFault
     \/ /\ ReportIfNone("piper_estop")
        /\ \/ conn["piper"] /\ Deliver("piper", "estop") /\ power' = FALSE
           \/ Undelivered /\ UNCHANGED power
        /\ UNCHANGED enabled
  /\ UNCHANGED <<opt, seen, policyNs, commandNs, cmd, startup, raised, fault,
                 stop, readVars, conn, handle, qualified>>

\* Optional in the adapter; its absence and its failure are both dropped.
EstopD1 ==
  /\ Free("d1")
  /\ Step("estop_d1", "close_d1")
  /\ attempts' = attempts \cup {"d1_estop"}
  /\ Undelivered \/ (conn["d1"] /\ Deliver("d1", "estop"))
  /\ UNCHANGED <<opt, seen, policyNs, commandNs, cmd, startup, raised,
                 latchVars, stop, readVars, connVars, power, qualified>>

\* A close that raises is reported unless something was already.
CloseD1 ==
  /\ Free("d1")
  /\ Step("close_d1", "close_piper")
  /\ Disconnect("d1")
  /\ \/ UNCHANGED lastFault
     \/ conn["d1"] /\ hardwareAccess /\ ReportIfNone("d1_close")
  /\ UNCHANGED <<opt, seen, policyNs, commandNs, cmd, startup, raised, fault,
                 stop, readVars, robotVars, histVars>>

ClosePiper ==
  /\ Free("piper")
  /\ Step("close_piper", "exit")
  /\ Disconnect("piper")
  /\ \/ UNCHANGED lastFault
     \/ conn["piper"] /\ hardwareAccess /\ ReportIfNone("piper_close")
  /\ UNCHANGED <<opt, seen, policyNs, commandNs, cmd, startup, raised, fault,
                 stop, readVars, robotVars, histVars>>

\* The process ended; its status is 2 when lastFault is set.
Exited == pc = "exit" /\ UNCHANGED vars

-----------------------------------------------------------------------------
Main ==
  \/ Launch \/ Refuse \/ StartD1 \/ StartPiper \/ UndoD1 \/ UndoPiper
  \/ StartReaders \/ WaitPoll \/ WaitCheck \/ WaitExpire \/ ForceDirect
  \/ EnablePiper \/ LoopExit \/ LoopTurn \/ PolicyRead \/ PolicyCheck
  \/ CommandRead \/ CommandCheck \/ SendD1 \/ SendPiper \/ SetStop \/ Join
  \/ SafeD1 \/ SafePiper \/ EstopPiper \/ EstopD1 \/ CloseD1 \/ ClosePiper

Reader(b) == ReaderCheck(b) \/ ReaderAcquire(b) \/ ReaderReturn(b)

Next == Main \/ (\E b \in Bus : Reader(b)) \/ Signal \/ Exited

Spec == Init /\ [][Next]_vars

\* The interpreter runs every thread; a vendor call returns unless its bus
\* hangs; the gate's deadline passes.
ReaderRuns(b) == WF_vars(ReaderCheck(b)) /\ WF_vars(ReaderAcquire(b))
CallReturns(b) == WF_vars(ReaderReturn(b))

Fairness ==
  /\ WF_vars(Main)
  /\ SF_vars(WaitExpire)
  /\ \A b \in Bus : ReaderRuns(b)
  /\ \A b \in Bus \ Hanging : CallReturns(b)

FairSpec == Spec /\ Fairness

-----------------------------------------------------------------------------
(* Properties *)

\* The arm is powered, D1 is switched to FORCE_DIRECT and either bus is told
\* to move only in a --send run with every opt-in given, and only after both
\* buses once passed the initial feedback gate; a shadow or dry run never
\* does any of it (main, _wait_for_initial_state).
ActuationGated ==
  power \/ (\E b \in Bus : late[b] > 0 \/ frame[b] \in Active)
    => /\ opt["send"] /\ opt["gate"] /\ opt["enablePiper"]
       /\ opt["calibrated"] /\ ~opt["dryRun"] /\ ~opt["shadow"]
       /\ qualified

\* A motor gets its first policy command straight after a preparation
\* command: no interleaving of the two rates lets the policy take over a robot
\* that was not brought to the prepared pose (StartupManager).
PreparedBeforePolicy ==
  [][\A b \in Bus : frame'[b] = "act" => frame[b] \in {"prep", "act"}]_vars

\* The first fault a run reports is the one its exit names, through every step
\* of teardown that fails after it; only the D1 half of _safe_send, where
\* "never hide the original fault" is its docstring, reports over it.
FirstFaultKept ==
  [][lastFault # "" => lastFault' = lastFault \/ pc = "safe_d1"]_vars

\* From the moment the safety latch is set, no step moves or powers the
\* robot, and nothing in the run clears the latch (SafetySupervisor).
LatchSilences ==
  [][fault # "" =>
       /\ fault' # ""
       /\ power' => power
       /\ \A b \in Bus : frame'[b] \in {frame[b]} \cup Quiet]_vars

\* However the operator's signal interleaves with the loop, each bus gets at
\* most one more active frame after it (run tests the event once per turn).
BoundedAfterStop == \A b \in Bus : late[b] <= 1

\* A powered arm is never abandoned: once enable() may have energised it,
\* its driver is released only after an emergency stop was issued, whatever
\* failed on either bus before (stop_and_disconnect).
DisarmBeforeRelease ==
  /\ power /\ ~conn["piper"] => "piper_estop" \in attempts
  /\ pc = "exit" /\ qualified /\ opt["send"]
       => {"d1_zero", "piper_estop", "d1_estop"} \subseteq attempts

\* Every driver the process opened is closed exactly once on every path out,
\* the failed start included, which disconnects both backends twice.
DriversClosedOnce ==
  /\ \A b \in Bus : handle[b] # "closed twice"
  /\ pc = "exit" => \A b \in Bus : ~conn[b] /\ handle[b] # "open"

\* A run that latched a fault, or leaves the arm energised, does not exit
\* with status 0.
FaultReachesExitStatus ==
  pc = "exit" /\ (fault # "" \/ power) => raised \/ lastFault # ""

\* The main thread is blocked by nothing but a vendor call that waits for its
\* bus's lock, and the gate's deadline by nothing at all; a reader goes on from
\* each of its steps once the vendor's call is over (_io_lock, _Reader.run).
D1PC == {"force", "send_d1", "safe_d1", "estop_d1", "close_d1"}
PiperPC == {"enable", "send_piper", "send_piper_rejected", "safe_piper",
            "estop_piper", "close_piper"}
MainReady ==
  /\ pc # "exit"
  /\ pc \in D1PC => Free("d1")
  /\ pc \in PiperPC => Free("piper")
ReaderReady(b) ==
  /\ reader[b] = "top" => ENABLED <<ReaderCheck(b)>>_vars
  /\ reader[b] = "calling" => ENABLED <<ReaderAcquire(b)>>_vars
  /\ reader[b] = "reading" => ENABLED <<ReaderReturn(b)>>_vars
OnlyLocksBlock ==
  /\ MainReady => ENABLED <<Main>>_vars
  /\ pc = "wait" => ENABLED <<WaitExpire>>_vars
  /\ \A b \in Bus : ReaderReady(b)

\* After a stop request both buses are released and the process exits.
StopReleasesBuses == stop ~> pc = "exit"

\* Launched, the run passes the gate or exits: it never waits for feedback
\* for ever.
LaunchDecides == pc = "start_d1" ~> (qualified \/ pc = "exit")

\* A stop that has begun gives D1 its zero command even if Piper's bus hangs: it
\* comes first and waits for no lock but D1's (_safe_send).
StopZeroesD1 == pc = "stop" /\ opt["send"] ~> "d1_zero" \in attempts

-----------------------------------------------------------------------------
(* The inductive invariant: why the properties above hold *)

\* Where the main thread is says which checks it has passed.
ControlInv ==
  /\ pc \notin {"launch", "exit"} => Accepted
  /\ pc \in {"force", "enable", "send_d1", "send_piper", "send_piper_rejected",
            "safe_d1", "safe_piper", "estop_piper", "estop_d1"} => opt["send"]
  /\ pc \in StartPC => ~qualified
  /\ pc \in LoopPC => qualified
  /\ pc \in LoopPC \ {"command_check"} => fault = ""
  /\ policyNs => cmd # "zero"
  /\ pc \in StartPC \cup {"force", "enable"} => ~policyNs
  /\ pc \in {"command", "command_check", "send_d1", "send_piper",
            "send_piper_rejected"} => policyNs

\* A driver is open only while its backend is connected, and closed once.
Owned ==
  \A b \in Bus : /\ conn[b] => handle[b] \in {"none", "open"}
                 /\ ~conn[b] => handle[b] \in {"none", "closed"}

\* Which drivers the process owns by each step of its main thread.
OwnershipInv ==
  /\ pc \in {"launch", "start_d1"} => ~conn["d1"] /\ handle["d1"] = "none"
  /\ pc \in {"launch", "start_d1", "start_piper"}
       => ~conn["piper"] /\ handle["piper"] = "none"
  /\ pc = "start_piper" => conn["d1"]
  /\ pc \in {"readers", "wait", "wait_check"} \cup LoopPC
       => conn["d1"] /\ conn["piper"]
  /\ pc \in {"close_piper", "exit"} => ~conn["d1"]
  /\ pc = "exit" => ~conn["piper"]
  /\ Owned

\* What teardown has attempted by each of its steps.
TeardownInv ==
  /\ opt["send"] /\ pc \in {"safe_piper", "estop_piper", "estop_d1",
                          "close_d1", "close_piper"} => "d1_zero" \in attempts
  /\ opt["send"] /\ pc \in {"estop_d1", "close_d1", "close_piper"}
       => "piper_estop" \in attempts
  /\ opt["send"] /\ pc \in {"close_d1", "close_piper"}
       => "d1_estop" \in attempts
  /\ DisarmBeforeRelease

\* An active frame after the stop event is sent by the turn it interrupted.
LateInv ==
  /\ ~stop \/ pc \in StartPC => \A b \in Bus : late[b] = 0
  /\ pc \in LoopPC \ {"loop"} => late["piper"] = 0
  /\ pc \in {"force", "policy", "policy_check", "command", "command_check",
            "send_d1"} => late["d1"] = 0
  /\ BoundedAfterStop

\* From teardown on, a latched fault or an arm left energised is reported.
ReportInv ==
  /\ pc \in StopPC \cup {"exit"} /\ fault # "" => raised \/ lastFault # ""
  /\ pc \in {"estop_d1", "close_d1", "close_piper", "exit"} /\ power
       => lastFault # ""

\* Bus b was last told to move by a preparation or a policy command.
Prepared(b) == frame[b] \in {"prep", "act"}

\* A run that sends gives its policy no command before both buses took a
\* preparation command.
PreparedInv ==
  opt["send"] =>
    /\ pc \notin {"launch", "exit"} /\ ~policyNs => startup = "wait_state"
    /\ commandNs => policyNs
    /\ pc \in {"loop", "policy", "policy_check"} /\ policyNs
         => \A b \in Bus : Prepared(b)
    /\ pc \in {"command", "command_check", "send_d1", "send_piper",
              "send_piper_rejected"} /\ cmd = "act"
         => \A b \in Bus : Prepared(b)
    /\ pc = "send_piper" => Prepared("d1")

\* It is inductive.
IInv == /\ TypeOK /\ ControlInv /\ ActuationGated /\ OwnershipInv
        /\ TeardownInv /\ LateInv /\ ReportInv /\ PreparedInv

-----------------------------------------------------------------------------
(* The refinement of ActuatorContract *)

phase == IF pc = "exit" THEN "released"
         ELSE IF fault # "" \/ pc \in StopPC THEN "stopping"
         ELSE IF pc \in LoopPC THEN "live"
         ELSE "closed"

Contract == INSTANCE ActuatorContract WITH NoFrame <- "none"
ContractSpec == Contract!Spec

-----------------------------------------------------------------------------
(* What a comment of the code says, and a run refutes *)

\* _safe_send: "Keep the buses independent.  If can0 teardown is already
\* failing, Piper must still receive its zero/stop attempt".
PiperStopIndependent == stop /\ power ~> "piper_estop" \in attempts
=============================================================================
