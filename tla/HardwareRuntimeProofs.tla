----------------------- MODULE HardwareRuntimeProofs -----------------------
(***************************************************************************)
(* Theorems of HardwareRuntime, for every set of launches and of readings: *)
(* its types; and that a stop is carried out and a launch decided, for the *)
(* hanging buses each theorem names.                                       *)
(***************************************************************************)
EXTENDS HardwareRuntime, TLAPS

\* A frame delivered to a bus keeps the types of frame and late.
LEMMA DeliverType ==
  ASSUME TypeOK, NEW b \in Bus, NEW f \in Frames, Deliver(b, f)
  PROVE  frame' \in [Bus -> Frames] /\ late' \in [Bus -> {0, 1, 2}]
<1>1. frame \in [Bus -> Frames] /\ late \in [Bus -> {0, 1, 2}]
  BY DEF TypeOK
<1>2. frame' \in [Bus -> Frames]
  BY <1>1 DEF Deliver
<1>3. late' \in [Bus -> {0, 1, 2}]
  BY <1>1 DEF Deliver
<1> QED
  BY <1>2, <1>3

\* disconnect() keeps the types of the backends' variables.
LEMMA DisconnectType ==
  ASSUME TypeOK, NEW b \in Bus, Disconnect(b)
  PROVE  /\ conn' \in [Bus -> BOOLEAN] /\ enabled' \in BOOLEAN
         /\ handle' \in [Bus -> {"none", "open", "closed", "closed twice"}]
<1>1. conn' \in [Bus -> BOOLEAN] /\ enabled' \in BOOLEAN
  BY DEF TypeOK, Disconnect, ClearOwnership
<1>2. handle \in [Bus -> {"none", "open", "closed", "closed twice"}]
  BY DEF TypeOK
<1>3. handle' \in [Bus -> {"none", "open", "closed", "closed twice"}]
  BY <1>2 DEF Disconnect
<1> QED
  BY <1>1, <1>3

\* So does connect(), whether it opens the bus or fails.
LEMMA ConnectType ==
  ASSUME TypeOK, NEW b \in Bus, Connect(b) \/ ConnectFails
  PROVE  /\ conn' \in [Bus -> BOOLEAN] /\ enabled' \in BOOLEAN
         /\ handle' \in [Bus -> {"none", "open", "closed", "closed twice"}]
<1>1. conn' \in [Bus -> BOOLEAN] /\ enabled' \in BOOLEAN
  BY DEF TypeOK, Connect, ConnectFails, connVars
<1>2. handle \in [Bus -> {"none", "open", "closed", "closed twice"}]
  BY DEF TypeOK
<1>3. handle' \in [Bus -> {"none", "open", "closed", "closed twice"}]
  BY <1>2 DEF Connect, ConnectFails, connVars
<1> QED
  BY <1>1, <1>3

\* What check_state() leaves in the latch: the old fault or a state fault.
LEMMA VerdictsOutcome ==
  ASSUME NEW d, NEW p, NEW f \in Verdicts(d, p)
  PROVE  f = fault \/ f = "state"
BY DEF Verdicts

\* limit_command() adds its watchdog to that.
LEMMA CommandOutcome ==
  ASSUME NEW f \in CommandVerdicts
  PROVE  f \in {fault, "state", "watchdog"}
BY VerdictsOutcome DEF CommandVerdicts

\* The initial states are well typed.
LEMMA InitType ==
  ASSUME Init
  PROVE  TypeOK
<1>1. /\ pc \in StartPC /\ seen \in Samples /\ startup \in Phases
      /\ fault \in Faults /\ lastFault \in Reports
  BY DEF Init, StartPC, Samples, Phases, Faults, Reports
<1>2. box \in [Bus -> Samples] /\ frame \in [Bus -> Frames]
  BY DEF Init, Samples, Frames
<1>3. late \in [Bus -> {0, 1, 2}]
  BY DEF Init
<1> QED
  BY <1>1, <1>2, <1>3 DEF Init, TypeOK

\* Every step keeps every variable's type.
LEMMA TypeStep ==
  ASSUME TypeOK, [Next]_vars
  PROVE  TypeOK'
<1> USE DEF mainVars, latchVars, readVars, connVars, robotVars, histVars
<1>1. CASE Launch
  BY <1>1 DEF Launch, Step, StartupReset, StartPC, Phases, TypeOK
<1>2. CASE Refuse
  BY <1>2 DEF Refuse, Step, TypeOK
<1>3. CASE StartD1
  <2>1. Connect("d1") \/ ConnectFails
    BY <1>3 DEF StartD1
  <2>2. /\ conn' \in [Bus -> BOOLEAN] /\ enabled' \in BOOLEAN
        /\ handle' \in [Bus -> {"none", "open", "closed", "closed twice"}]
    BY <2>1, ConnectType DEF Bus
  <2> QED
    BY <1>3, <2>2 DEF StartD1, Step, StartPC, TypeOK
<1>4. CASE StartPiper
  <2>1. Connect("piper") \/ ConnectFails
    BY <1>4 DEF StartPiper
  <2>2. /\ conn' \in [Bus -> BOOLEAN] /\ enabled' \in BOOLEAN
        /\ handle' \in [Bus -> {"none", "open", "closed", "closed twice"}]
    BY <2>1, ConnectType DEF Bus
  <2> QED
    BY <1>4, <2>2 DEF StartPiper, Step, StartPC, TypeOK
<1>5. CASE UndoD1
  <2>1. Disconnect("d1")
    BY <1>5 DEF UndoD1
  <2>2. /\ conn' \in [Bus -> BOOLEAN] /\ enabled' \in BOOLEAN
        /\ handle' \in [Bus -> {"none", "open", "closed", "closed twice"}]
    BY <2>1, DisconnectType DEF Bus
  <2> QED
    BY <1>5, <2>2 DEF UndoD1, Step, StartPC, TypeOK
<1>6. CASE UndoPiper
  <2>1. Disconnect("piper")
    BY <1>6 DEF UndoPiper
  <2>2. /\ conn' \in [Bus -> BOOLEAN] /\ enabled' \in BOOLEAN
        /\ handle' \in [Bus -> {"none", "open", "closed", "closed twice"}]
    BY <2>1, DisconnectType DEF Bus
  <2> QED
    BY <1>6, <2>2 DEF UndoPiper, Step, Raise, StopPC, TypeOK
<1>7. CASE StartReaders
  BY <1>7 DEF StartReaders, Step, StartPC, TypeOK
<1>8. CASE WaitPoll
  <2>1. seen' \in Samples
    BY <1>8 DEF WaitPoll, ReadD1Box, Bus, TypeOK
  <2> QED
    BY <1>8, <2>1 DEF WaitPoll, Step, ReadD1Box, StartPC, TypeOK
<1>9. CASE WaitCheck
  <2>1. fault' \in Faults /\ qualified' \in BOOLEAN
    BY <1>9, VerdictsOutcome DEF WaitCheck, Faults, TypeOK
  <2>2. pc' \in StartPC \cup LoopPC
    BY <1>9 DEF WaitCheck, AfterGate, StartPC, LoopPC
  <2> QED
    BY <1>9, <2>1, <2>2 DEF WaitCheck, Forget, Samples, TypeOK
<1>10. CASE WaitExpire
  BY <1>10 DEF WaitExpire, Step, Raise, StopPC, TypeOK
<1>11. CASE ForceDirect
  <2>1. frame' \in [Bus -> Frames] /\ late' \in [Bus -> {0, 1, 2}]
    BY <1>11, DeliverType
    DEF ForceDirect, MaybeDeliver, Undelivered, TypeOK, Bus, Frames, Active, Quiet
  <2> QED
    BY <1>11, <2>1, ZenonT(60) DEF ForceDirect, Step, Raise, LoopPC, StopPC, TypeOK
<1>12. CASE EnablePiper
  BY <1>12 DEF EnablePiper, Step, Raise, LoopPC, StopPC, TypeOK
<1>13. CASE LoopExit
  BY <1>13 DEF LoopExit, Step, StopPC, TypeOK
<1>14. CASE LoopTurn
  BY <1>14, ZenonT(60) DEF LoopTurn, Step, Raise, LoopPC, StopPC, TypeOK
<1>15. CASE PolicyRead
  <2>1. seen' \in Samples
    BY <1>15 DEF PolicyRead, ReadD1Box, Bus, TypeOK
  <2> QED
    BY <1>15, <2>1 DEF PolicyRead, Step, ReadD1Box, LoopPC, TypeOK
<1>16. CASE PolicyCheck
  <2>1. fault' \in Faults /\ lastFault' \in Reports /\ stop' \in BOOLEAN
    BY <1>16, VerdictsOutcome
    DEF PolicyCheck, Halt, Raise, Step, Faults, Reports, TypeOK
  <2>2. pc' \in LoopPC \cup StopPC /\ raised' \in BOOLEAN
    BY <1>16 DEF PolicyCheck, Halt, Raise, Step, LoopPC, StopPC, TypeOK
  <2>3. /\ startup' \in Phases /\ cmd' \in {"zero", "prep", "act"}
        /\ policyNs' \in BOOLEAN
    BY <1>16 DEF PolicyCheck, PrepareStep, Phases, TypeOK
  <2> QED
    BY <1>16, <2>1, <2>2, <2>3 DEF PolicyCheck, Forget, Samples, TypeOK
<1>17. CASE CommandRead
  <2>1. seen' \in Samples
    BY <1>17 DEF CommandRead, ReadD1Box, Bus, TypeOK
  <2>2. fault' \in Faults
    BY <1>17 DEF CommandRead, Faults, TypeOK
  <2> QED
    BY <1>17, <2>1, <2>2 DEF CommandRead, Step, ReadD1Box, LoopPC, TypeOK
<1>18. CASE CommandCheck
  <2>1. fault' \in Faults /\ lastFault' \in Reports /\ stop' \in BOOLEAN
    BY <1>18, CommandOutcome DEF CommandCheck, Halt, Faults, Reports, TypeOK
  <2>2. pc' \in LoopPC \cup StopPC /\ commandNs' \in BOOLEAN
    BY <1>18 DEF CommandCheck, Halt, LoopPC, StopPC, TypeOK
  <2> QED
    BY <1>18, <2>1, <2>2 DEF CommandCheck, Forget, Samples, TypeOK
<1>19. CASE SendD1
  <2>1. cmd \in {"zero", "prep", "act"} /\ cmd \in Frames
    BY DEF TypeOK, Frames, Active, Quiet
  <2>2. Deliver("d1", cmd) \/ Undelivered
    BY <1>19 DEF SendD1, MaybeDeliver
  <2>3. frame' \in [Bus -> Frames] /\ late' \in [Bus -> {0, 1, 2}]
    BY <2>1, <2>2, DeliverType DEF Undelivered, TypeOK, Bus
  <2>4. fault' \in Faults /\ lastFault' \in Reports /\ stop' \in BOOLEAN
    BY <1>19 DEF SendD1, Halt, Faults, Reports, TypeOK
  <2>5. pc' \in LoopPC \cup StopPC
    BY <1>19 DEF SendD1, Halt, Step, LoopPC, StopPC
  <2> QED
    BY <1>19, <2>3, <2>4, <2>5 DEF SendD1, TypeOK
<1>20. CASE SendPiper
  <2>1. cmd \in {"zero", "prep", "act"} /\ cmd \in Frames
    BY DEF TypeOK, Frames, Active, Quiet
  <2>2. Deliver("piper", cmd) \/ Undelivered
    BY <1>20 DEF SendPiper, MaybeDeliver
  <2>3. frame' \in [Bus -> Frames] /\ late' \in [Bus -> {0, 1, 2}]
    BY <2>1, <2>2, DeliverType DEF Undelivered, TypeOK, Bus
  <2>4. fault' \in Faults /\ lastFault' \in Reports /\ stop' \in BOOLEAN
    BY <1>20 DEF SendPiper, Halt, Faults, Reports, TypeOK
  <2>5. pc' \in LoopPC \cup StopPC
    BY <1>20 DEF SendPiper, Halt, Step, LoopPC, StopPC
  <2> QED
    BY <1>20, <2>3, <2>4, <2>5 DEF SendPiper, TypeOK
<1>21. CASE SetStop
  BY <1>21 DEF SetStop, Step, StopPC, TypeOK
<1>22. CASE Join
  BY <1>22 DEF Join, Step, AfterJoin, StopPC, TypeOK
<1>23. CASE SafeD1
  <2>1. frame' \in [Bus -> Frames] /\ late' \in [Bus -> {0, 1, 2}]
    BY <1>23, DeliverType
    DEF SafeD1, MaybeDeliver, Undelivered, ZeroCommand, TypeOK, Bus, Frames, Active, Quiet
  <2> QED
    BY <1>23, <2>1, ZenonT(60) DEF SafeD1, Step, StopPC, Reports, TypeOK
<1>24. CASE SafePiper
  <2>1. frame' \in [Bus -> Frames] /\ late' \in [Bus -> {0, 1, 2}]
    BY <1>24, DeliverType
    DEF SafePiper, MaybeDeliver, Undelivered, ZeroCommand, TypeOK, Bus, Frames, Active, Quiet
  <2> QED
    BY <1>24, <2>1, ZenonT(60) DEF SafePiper, Step, ReportIfNone, StopPC, Reports, TypeOK
<1>25. CASE EstopPiper
  <2>1. frame' \in [Bus -> Frames] /\ late' \in [Bus -> {0, 1, 2}]
    BY <1>25, DeliverType
    DEF EstopPiper, Undelivered, TypeOK, Bus, Frames, Active, Quiet
  <2> QED
    BY <1>25, <2>1, ZenonT(60) DEF EstopPiper, Step, ReportIfNone, StopPC, Reports, TypeOK
<1>26. CASE EstopD1
  <2>1. frame' \in [Bus -> Frames] /\ late' \in [Bus -> {0, 1, 2}]
    BY <1>26, DeliverType
    DEF EstopD1, Undelivered, TypeOK, Bus, Frames, Active, Quiet
  <2> QED
    BY <1>26, <2>1 DEF EstopD1, Step, StopPC, TypeOK
<1>27. CASE CloseD1
  <2>1. Disconnect("d1")
    BY <1>27 DEF CloseD1
  <2>2. /\ conn' \in [Bus -> BOOLEAN] /\ enabled' \in BOOLEAN
        /\ handle' \in [Bus -> {"none", "open", "closed", "closed twice"}]
    BY <2>1, DisconnectType DEF Bus
  <2> QED
    BY <1>27, <2>2, ZenonT(60) DEF CloseD1, Step, StopPC, ReportIfNone, Reports, TypeOK
<1>28. CASE ClosePiper
  <2>1. Disconnect("piper")
    BY <1>28 DEF ClosePiper
  <2>2. /\ conn' \in [Bus -> BOOLEAN] /\ enabled' \in BOOLEAN
        /\ handle' \in [Bus -> {"none", "open", "closed", "closed twice"}]
    BY <2>1, DisconnectType DEF Bus
  <2> QED
    BY <1>28, <2>2 DEF ClosePiper, Step, ReportIfNone, Reports, TypeOK
<1>29. ASSUME NEW b \in Bus, ReaderCheck(b) PROVE TypeOK'
  BY <1>29, ZenonT(60) DEF ReaderCheck, ReaderLoop, Bus, TypeOK
<1>30. ASSUME NEW b \in Bus, ReaderAcquire(b) PROVE TypeOK'
  <2>1. reader \in [Bus -> {"off", "top", "calling", "reading", "done"}]
    BY DEF TypeOK
  <2>2. reader' \in [Bus -> {"off", "top", "calling", "reading", "done"}]
    BY <1>30, <2>1 DEF ReaderAcquire
  <2>3. box \in [Bus -> Samples]
    BY DEF TypeOK
  <2>4. box' \in [Bus -> Samples]
    BY <1>30, <2>3 DEF ReaderAcquire, Samples
  <2> QED
    BY <1>30, <2>2, <2>4, ZenonT(60) DEF ReaderAcquire, TypeOK
<1>31. ASSUME NEW b \in Bus, ReaderReturn(b) PROVE TypeOK'
  <2>1. reader \in [Bus -> {"off", "top", "calling", "reading", "done"}]
    BY DEF TypeOK
  <2>2. reader' \in [Bus -> {"off", "top", "calling", "reading", "done"}]
    BY <1>31, <2>1 DEF ReaderReturn
  <2>3. box \in [Bus -> Samples]
    BY DEF TypeOK
  <2>4. box' \in [Bus -> Samples]
    BY <1>31, <2>3, ReadingsAssumption DEF ReaderReturn, ReadOutcome, Samples, Valid
  <2> QED
    BY <1>31, <2>2, <2>4, ZenonT(60) DEF ReaderReturn, TypeOK
<1>32. CASE Signal
  BY <1>32 DEF Signal, TypeOK
<1>33. CASE UNCHANGED vars
  BY <1>33, ZenonT(60) DEF vars, TypeOK
<1> QED
  BY <1>1, <1>2, <1>3, <1>4, <1>5, <1>6, <1>7, <1>8, <1>9, <1>10, <1>11, <1>12, <1>13, <1>14, <1>15, <1>16, <1>17, <1>18, <1>19, <1>20, <1>21, <1>22, <1>23, <1>24, <1>25, <1>26, <1>27, <1>28, <1>29, <1>30, <1>31, <1>32, <1>33
  DEF Next, Main, Reader, Exited

\* Every variable keeps its type through every run.
THEOREM TypeCorrect == Spec => []TypeOK
  BY InitType, TypeStep, PTL DEF Spec

-----------------------------------------------------------------------------
(* Liveness.  Each ENABLED is a fact OnlyLocksBlock gives, which TLC checks. *)

\* What fairness comes to with the guards written out.
MainTurns == []<>~MainReady \/ []<><<Main>>_vars
GateExpires == []<>(pc = "wait") => []<><<WaitExpire>>_vars
ReaderTurns(b) ==
  /\ []<>(reader[b] # "top") /\ []<>(reader[b] # "calling")
  /\ []<>(reader[b] # "reading")

\* The interpreter gives the main thread its turn, and the deadline passes.
LEMMA MainIsFair ==
  FairSpec /\ []OnlyLocksBlock => MainTurns /\ GateExpires
BY PTL DEF FairSpec, Fairness, OnlyLocksBlock, MainTurns, GateExpires

Reads(b) ==
  []TypeOK /\ ReaderRuns(b) /\ CallReturns(b) /\ []ReaderReady(b)

\* A reader whose vendor calls return gets past each of its steps.
LEMMA ReaderIsFair ==
  ASSUME NEW b \in Bus
  PROVE  Reads(b) => ReaderTurns(b)
<1>1. TypeOK => reader \in [Bus -> {"off", "top", "calling", "reading", "done"}]
  BY DEF TypeOK
<1>2. TypeOK /\ <<ReaderCheck(b)>>_vars => (reader[b] # "top")'
  BY <1>1 DEF ReaderCheck, ReaderLoop
<1>3. TypeOK /\ <<ReaderAcquire(b)>>_vars => (reader[b] # "calling")'
  BY <1>1 DEF ReaderAcquire
<1>4. TypeOK /\ <<ReaderReturn(b)>>_vars => (reader[b] # "reading")'
  BY <1>1 DEF ReaderReturn
<1>5. /\ (reader[b] # "top") <=> ~(reader[b] = "top")
      /\ (reader[b] # "calling") <=> ~(reader[b] = "calling")
      /\ (reader[b] # "reading") <=> ~(reader[b] = "reading")
  OBVIOUS
<1> QED
  BY <1>2, <1>3, <1>4, <1>5, PTL
  DEF Reads, ReaderRuns, CallReturns, ReaderReady, ReaderTurns

\* So each does whose bus does not hang.
LEMMA ReadersAreFair ==
  FairSpec /\ []OnlyLocksBlock => \A b \in Bus \ Hanging : ReaderTurns(b)
<1>1. Fairness => /\ \A b \in Bus : ReaderRuns(b)
                  /\ \A b \in Bus \ Hanging : CallReturns(b)
  BY PTL DEF Fairness
<1>2. ASSUME NEW b \in Bus \ Hanging
      PROVE  FairSpec /\ []OnlyLocksBlock => ReaderTurns(b)
  <2>1. Fairness => ReaderRuns(b) /\ CallReturns(b)
    BY <1>1
  <2>2. OnlyLocksBlock => ReaderReady(b)
    BY DEF OnlyLocksBlock
  <2>3. Reads(b) => ReaderTurns(b)
    BY ReaderIsFair
  <2> QED
    BY <2>1, <2>2, <2>3, TypeCorrect, PTL DEF FairSpec, Reads
<1> QED
  BY <1>2

\* The steps the main thread has at most left to its exit, once the stop event
\* is set: the loop and the gate's polling are not entered again.
StepsLeft ==
  IF pc = "exit" THEN 0
  ELSE IF pc = "close_piper" THEN 1
  ELSE IF pc = "close_d1" THEN 2
  ELSE IF pc = "estop_d1" THEN 3
  ELSE IF pc = "estop_piper" THEN 4
  ELSE IF pc = "safe_piper" THEN 5
  ELSE IF pc = "safe_d1" THEN 6
  ELSE IF pc = "join" THEN 7
  ELSE IF pc = "stop" THEN 8
  ELSE IF pc \in {"loop", "wait", "undo_piper"} THEN 9
  ELSE IF pc \in {"send_piper", "send_piper_rejected", "enable", "readers",
                  "undo_d1"} THEN 10
  ELSE IF pc \in {"send_d1", "force", "start_piper"} THEN 11
  ELSE IF pc \in {"command_check", "wait_check", "start_d1"} THEN 12
  ELSE IF pc \in {"command", "launch"} THEN 13
  ELSE IF pc = "policy_check" THEN 14
  ELSE 15

\* After the stop event every step of the main thread brings it closer to the
\* exit (run's loop, the gate and stop_and_disconnect never go back).
LEMMA StopDescends ==
  ASSUME Main, stop
  PROVE  StepsLeft' < StepsLeft
<1> USE DEF Step, Raise
<1>1. CASE Launch
  BY <1>1 DEF Launch, StepsLeft
<1>2. CASE Refuse
  BY <1>2 DEF Refuse, StepsLeft
<1>3. CASE StartD1
  BY <1>3 DEF StartD1, StepsLeft
<1>4. CASE StartPiper
  BY <1>4 DEF StartPiper, StepsLeft
<1>5. CASE UndoD1
  BY <1>5 DEF UndoD1, StepsLeft
<1>6. CASE UndoPiper
  BY <1>6 DEF UndoPiper, StepsLeft
<1>7. CASE StartReaders
  BY <1>7 DEF StartReaders, StepsLeft
<1>8. CASE WaitPoll
  BY <1>8 DEF WaitPoll, ReadD1Box, StepsLeft
<1>9. CASE WaitCheck
  <2>1. pc = "wait_check" /\ pc' \in {"wait", "loop", "force", "enable"}
    BY <1>9 DEF WaitCheck, AfterGate
  <2> QED
    BY <2>1 DEF StepsLeft
<1>10. CASE WaitExpire
  BY <1>10 DEF WaitExpire, StepsLeft
<1>11. CASE ForceDirect
  BY <1>11 DEF ForceDirect, StepsLeft
<1>12. CASE EnablePiper
  <2>1. pc = "enable" /\ pc' \in {"loop", "stop"}
    BY <1>12 DEF EnablePiper, Raise
  <2> QED
    BY <2>1 DEF StepsLeft
<1>13. CASE LoopExit
  BY <1>13 DEF LoopExit, StepsLeft
<1>14. CASE LoopTurn
  BY <1>14 DEF LoopTurn, LoopCondition, StepsLeft
<1>15. CASE PolicyRead
  BY <1>15 DEF PolicyRead, ReadD1Box, StepsLeft
<1>16. CASE PolicyCheck
  <2>1. pc = "policy_check" /\ pc' \in {"command", "loop", "stop"}
    BY <1>16 DEF PolicyCheck, Halt
  <2> QED
    BY <2>1 DEF StepsLeft
<1>17. CASE CommandRead
  BY <1>17 DEF CommandRead, ReadD1Box, StepsLeft
<1>18. CASE CommandCheck
  <2>1. pc = "command_check" /\ pc' \in {"send_d1", "loop", "stop"}
    BY <1>18 DEF CommandCheck, Halt
  <2> QED
    BY <2>1 DEF StepsLeft
<1>19. CASE SendD1
  <2>1. pc = "send_d1" /\ pc' \in {"send_piper", "send_piper_rejected", "stop"}
    BY <1>19 DEF SendD1, Halt
  <2> QED
    BY <2>1 DEF StepsLeft
<1>20. CASE SendPiper
  <2>1. pc \in {"send_piper", "send_piper_rejected"} /\ pc' \in {"loop", "stop"}
    BY <1>20 DEF SendPiper, Halt
  <2> QED
    BY <2>1 DEF StepsLeft
<1>21. CASE SetStop
  BY <1>21 DEF SetStop, StepsLeft
<1>22. CASE Join
  BY <1>22 DEF Join, AfterJoin, StepsLeft
<1>23. CASE SafeD1
  BY <1>23 DEF SafeD1, StepsLeft
<1>24. CASE SafePiper
  BY <1>24 DEF SafePiper, StepsLeft
<1>25. CASE EstopPiper
  BY <1>25 DEF EstopPiper, StepsLeft
<1>26. CASE EstopD1
  BY <1>26 DEF EstopD1, StepsLeft
<1>27. CASE CloseD1
  BY <1>27 DEF CloseD1, StepsLeft
<1>28. CASE ClosePiper
  BY <1>28 DEF ClosePiper, StepsLeft
<1> QED
  BY <1>1, <1>2, <1>3, <1>4, <1>5, <1>6, <1>7, <1>8, <1>9, <1>10, <1>11, <1>12,
      <1>13, <1>14, <1>15, <1>16, <1>17, <1>18, <1>19, <1>20, <1>21, <1>22,
      <1>23, <1>24, <1>25, <1>26, <1>27, <1>28
  DEF Main

\* Whoever takes a step, the stop event stays set, and a main thread that
\* moved has fewer steps left.
LEMMA StopStep ==
  ASSUME stop, [Next]_vars
  PROVE  stop' /\ (pc' = pc \/ StepsLeft' < StepsLeft)
<1> USE DEF latchVars, Halt
<1>1. CASE Main
  <2>1. stop'
    BY <1>1
    DEF Main, Launch, Refuse, StartD1, StartPiper, UndoD1, UndoPiper, StartReaders,
        WaitPoll, WaitCheck, WaitExpire, ForceDirect, EnablePiper,
        LoopExit, LoopTurn, PolicyRead, PolicyCheck, CommandRead,
        CommandCheck, SendD1, SendPiper, SetStop, Join, SafeD1, SafePiper,
        EstopPiper, EstopD1, CloseD1, ClosePiper
  <2> QED
    BY <1>1, <2>1, StopDescends
<1>2. CASE \E b \in Bus : Reader(b)
  BY <1>2 DEF Reader, ReaderCheck, ReaderAcquire, ReaderReturn, mainVars
<1>3. CASE Signal
  BY <1>3 DEF Signal, mainVars
<1>4. CASE UNCHANGED vars
  BY <1>4 DEF vars, mainVars
<1> QED
  BY <1>1, <1>2, <1>3, <1>4 DEF Next, Exited

\* While the main thread waits in a stop, a reader only moves towards its end:
\* its loop tests the event.
LEMMA ReaderStep ==
  ASSUME TypeOK, stop, [Next]_vars, pc' = pc, NEW b \in Bus
  PROVE  /\ reader[b] \in {"off", "done"} => reader'[b] \in {"off", "done"}
         /\ reader[b] = "top" => reader'[b] \in {"top", "done"}
         /\ reader[b] = "reading" => reader'[b] \in {"reading", "top"}
         /\ reader[b] = "calling"
              => reader'[b] \in {"calling", "reading", "top"}
<1>1. reader \in [Bus -> {"off", "top", "calling", "reading", "done"}]
  BY DEF TypeOK
<1>2. StepsLeft' = StepsLeft
  BY DEF StepsLeft
<1>3. StepsLeft \in Nat
  BY DEF StepsLeft
<1>4. ~Main
  BY <1>2, <1>3, StopDescends
<1>5. CASE \E c \in Bus : Reader(c)
  <2>1. PICK c \in Bus : Reader(c)
    BY <1>5
  <2>2. CASE ReaderCheck(c)
    BY <1>1, <2>2 DEF ReaderCheck, ReaderLoop
  <2>3. CASE ReaderAcquire(c)
    BY <1>1, <2>3 DEF ReaderAcquire
  <2>4. CASE ReaderReturn(c)
    BY <1>1, <2>4 DEF ReaderReturn
  <2> QED
    BY <2>1, <2>2, <2>3, <2>4 DEF Reader
<1>6. CASE Signal
  BY <1>6 DEF Signal, readVars
<1>7. CASE UNCHANGED vars
  BY <1>7 DEF vars, readVars
<1> QED
  BY <1>4, <1>5, <1>6, <1>7 DEF Next, Exited

StopLeft(n) == stop /\ StepsLeft = n
Below(n) == stop /\ StepsLeft < n
Rested(b) == reader[b] \in {"off", "done"}
Stuck(n) == []TypeOK /\ [][Next]_vars /\ []StopLeft(n)
EndsRested(b) == <>[]Rested(b)

\* So a main thread that stays where it is waits for no lock in the end.
LEMMA ReaderRests ==
  ASSUME NEW n \in Nat, NEW b \in Bus
  PROVE  ReaderTurns(b) /\ Stuck(n) => EndsRested(b)
<1> DEFINE At(s) == reader[b] = s
<1>1. TypeOK /\ StopLeft(n) /\ StopLeft(n)' /\ [Next]_vars
        => /\ Rested(b) => Rested(b)'
           /\ At("top") => At("top")' \/ Rested(b)'
           /\ At("reading") => At("reading")' \/ At("top")'
           /\ At("calling") => At("calling")' \/ At("reading")' \/ At("top")'
  <2>1. StopLeft(n) /\ StopLeft(n)' /\ [Next]_vars => pc' = pc
    BY StopStep DEF StopLeft
  <2> QED
    BY <2>1, ReaderStep DEF StopLeft, Rested
<1>2. TypeOK => Rested(b) \/ At("top") \/ At("reading") \/ At("calling")
  BY DEF Rested, TypeOK
<1>3. /\ (reader[b] # "top") <=> ~At("top")
      /\ (reader[b] # "calling") <=> ~At("calling")
      /\ (reader[b] # "reading") <=> ~At("reading")
  OBVIOUS
<1> HIDE DEF At
<1> QED
  BY <1>1, <1>2, <1>3, PTL DEF Stuck, EndsRested, ReaderTurns

\* And therefore it moves on.
LEMMA Descends ==
  ASSUME NEW n \in Nat \ {0}, Hanging = {}
  PROVE  FairSpec /\ []OnlyLocksBlock => (StopLeft(n) ~> Below(n))
<1>1. StopLeft(n) /\ [Next]_vars => StopLeft(n)' \/ Below(n)'
  BY StopStep DEF StopLeft, Below, StepsLeft
<1>2. StopLeft(n) /\ <<Main>>_vars => Below(n)'
  <2>1. Main => [Next]_vars
    BY DEF Next
  <2> QED
    BY <2>1, StopDescends, StopStep DEF StopLeft, Below
<1>3. /\ ReaderTurns("d1") /\ Stuck(n) => EndsRested("d1")
      /\ ReaderTurns("piper") /\ Stuck(n) => EndsRested("piper")
  BY ReaderRests DEF Bus
<1>4. Rested("d1") /\ Rested("piper") /\ StopLeft(n) => MainReady
  BY DEF Rested, MainReady, Free, StopLeft, StepsLeft
<1>5. FairSpec /\ []OnlyLocksBlock
        => []ReaderTurns("d1") /\ []ReaderTurns("piper")
  <2>1. FairSpec /\ []OnlyLocksBlock => ReaderTurns("d1") /\ ReaderTurns("piper")
    BY ReadersAreFair DEF Bus
  <2> QED
    BY <2>1, PTL DEF ReaderTurns
<1> QED
  BY <1>1, <1>2, <1>3, <1>4, <1>5, MainIsFair, TypeCorrect, PTL
  DEF FairSpec, Spec, MainTurns, Stuck, EndsRested

Arrives(n) == Below(n) ~> pc = "exit"

\* From one step more than n it arrives, if it does from n.
LEMMA ArrivesFromOneMore ==
  ASSUME NEW n \in Nat \ {0}, Hanging = {}
  PROVE  FairSpec /\ []OnlyLocksBlock /\ Arrives(n) => Arrives(n + 1)
<1>1. FairSpec /\ []OnlyLocksBlock => (StopLeft(n) ~> Below(n))
  BY Descends
<1>2. Below(n + 1) => StopLeft(n) \/ Below(n)
  <2>1. StepsLeft \in Nat
    BY DEF StepsLeft
  <2> QED
    BY <2>1 DEF Below, StopLeft
<1> QED
  BY <1>1, <1>2, PTL DEF Arrives

\* A stop request ends in released buses and the process's exit, whatever failed
\* before, if every vendor call returns (run, stop_and_disconnect).
THEOREM StopCompletes ==
  ASSUME Hanging = {}
  PROVE  FairSpec /\ []OnlyLocksBlock => StopReleasesBuses
<1>1. FairSpec /\ []OnlyLocksBlock => Arrives(1)
  <2>1. Below(1) => pc = "exit"
    BY DEF Below, StepsLeft
  <2> QED
    BY <2>1, PTL DEF Arrives
<1>2. FairSpec /\ []OnlyLocksBlock => Arrives(16)
  BY <1>1, ArrivesFromOneMore
<1>3. stop => Below(16)
  BY DEF Below, StepsLeft
<1> QED
  BY <1>2, <1>3, PTL DEF Arrives, StopReleasesBuses

-----------------------------------------------------------------------------
(* The launch *)

At(p) == pc = p

\* Where start(), the gate and the beginning of a stop go from each step.
LEMMA StartMoves ==
  ASSUME [Next]_vars
  PROVE  /\ At("start_d1") => At("start_d1")' \/ At("start_piper")'
                              \/ At("undo_d1")'
         /\ At("start_piper") => At("start_piper")' \/ At("readers")'
                                 \/ At("undo_d1")'
         /\ At("readers") => At("readers")' \/ At("wait")'
         /\ At("undo_d1") => At("undo_d1")' \/ At("undo_piper")'
         /\ At("undo_piper") => At("undo_piper")' \/ At("stop")'
         /\ At("wait") => At("wait")' \/ At("wait_check")' \/ At("stop")'
         /\ At("wait_check") => At("wait_check")' \/ At("wait")' \/ qualified'
         /\ At("stop") => At("stop")' \/ stop'
<1>1. CASE Main
  BY <1>1
  DEF At, Step, Raise, Halt, ReadD1Box, Main, Launch, Refuse, StartD1,
      StartPiper, UndoD1, UndoPiper, StartReaders,
      WaitPoll, WaitCheck, WaitExpire, ForceDirect, EnablePiper,
      LoopExit, LoopTurn, PolicyRead, PolicyCheck, CommandRead,
      CommandCheck, SendD1, SendPiper, SetStop, Join, SafeD1, SafePiper,
      EstopPiper, EstopD1, CloseD1, ClosePiper
<1>2. CASE ~Main
  <2>1. pc' = pc
    BY <1>2
    DEF Next, Reader, ReaderCheck, ReaderAcquire, ReaderReturn, mainVars,
        Signal, vars, Exited
  <2> QED
    BY <2>1 DEF At
<1> QED
  BY <1>1, <1>2

Lockless ==
  {"start_d1", "start_piper", "readers", "undo_d1", "undo_piper", "wait_check",
   "command_check", "stop", "join"}
Leaves(p) == At(p) ~> ~At(p)

\* None of those steps takes a lock, so each is left.
LEMMA LocklessLeaves ==
  ASSUME NEW p \in Lockless
  PROVE  [][Next]_vars /\ MainTurns => Leaves(p)
<1>1. At(p) => MainReady
  BY DEF Lockless, At, MainReady, D1PC, PiperPC
<1>2. At(p) /\ <<Main>>_vars => ~At(p)'
  BY DEF Lockless, At, Step, Raise, Halt, ReadD1Box, AfterGate, AfterJoin, Main, Launch,
      Refuse, StartD1, StartPiper, UndoD1, UndoPiper, StartReaders,
      WaitPoll, WaitCheck, WaitExpire, ForceDirect, EnablePiper,
      LoopExit, LoopTurn, PolicyRead, PolicyCheck, CommandRead,
      CommandCheck, SendD1, SendPiper, SetStop, Join, SafeD1, SafePiper,
      EstopPiper, EstopD1, CloseD1, ClosePiper
<1> QED
  BY <1>1, <1>2, PTL DEF MainTurns, Leaves

\* A launch passes the feedback gate or ends: the gate's polling ends at its
\* deadline, and a failed start is undone (start, _wait_for_initial_state).
THEOREM LaunchIsDecided ==
  ASSUME Hanging = {}
  PROVE  FairSpec /\ []OnlyLocksBlock => LaunchDecides
<1>1. [Next]_vars =>
        /\ At("start_d1") => At("start_d1")' \/ At("start_piper")'
                              \/ At("undo_d1")'
        /\ At("start_piper") => At("start_piper")' \/ At("readers")'
                                 \/ At("undo_d1")'
        /\ At("readers") => At("readers")' \/ At("wait")'
        /\ At("undo_d1") => At("undo_d1")' \/ At("undo_piper")'
        /\ At("undo_piper") => At("undo_piper")' \/ At("stop")'
        /\ At("wait") => At("wait")' \/ At("wait_check")' \/ At("stop")'
        /\ At("wait_check") => At("wait_check")' \/ At("wait")' \/ qualified'
        /\ At("stop") => At("stop")' \/ stop'
  BY StartMoves
<1>2. [][Next]_vars /\ MainTurns
        => /\ Leaves("start_d1") /\ Leaves("start_piper") /\ Leaves("readers")
           /\ Leaves("undo_d1") /\ Leaves("undo_piper")
           /\ Leaves("wait_check") /\ Leaves("stop")
  BY LocklessLeaves DEF Lockless
<1>3. <<WaitExpire>>_vars => At("stop")'
  BY DEF WaitExpire, Raise, Step, At
<1>4. /\ pc = "start_d1" <=> At("start_d1")
      /\ pc = "wait" <=> At("wait")
      /\ pc = "exit" <=> At("exit")
  BY DEF At
<1> QED
  BY <1>1, <1>2, <1>3, <1>4, StopCompletes, MainIsFair, PTL
  DEF FairSpec, Spec, LaunchDecides, StopReleasesBuses, GateExpires, Leaves

-----------------------------------------------------------------------------
(* The two buses in a stop *)

Zeroes(p) == At(p) /\ opt["send"]
ZeroTried == "d1_zero" \in attempts

\* How a sending run gets to D1's zero command.
LEMMA ZeroSteps ==
  ASSUME [Next]_vars
  PROVE  /\ Zeroes("stop") => Zeroes("stop")' \/ (Zeroes("join")' /\ stop')
         /\ Zeroes("join") => Zeroes("join")' \/ Zeroes("safe_d1")'
         /\ Zeroes("safe_d1") => Zeroes("safe_d1")' \/ ZeroTried'
<1>1. CASE Main
  BY <1>1
  DEF Zeroes, ZeroTried, At, Step, Raise, Halt, ReadD1Box, AfterJoin, Main,
      Launch, Refuse, StartD1, StartPiper, UndoD1, UndoPiper, StartReaders,
      WaitPoll, WaitCheck, WaitExpire, ForceDirect, EnablePiper,
      LoopExit, LoopTurn, PolicyRead, PolicyCheck, CommandRead,
      CommandCheck, SendD1, SendPiper, SetStop, Join, SafeD1, SafePiper,
      EstopPiper, EstopD1, CloseD1, ClosePiper
<1>2. CASE ~Main
  <2>1. pc' = pc /\ opt' = opt
    BY <1>2
    DEF Next, Reader, ReaderCheck, ReaderAcquire, ReaderReturn, mainVars,
        Signal, vars, Exited
  <2> QED
    BY <2>1 DEF Zeroes, At
<1> QED
  BY <1>1, <1>2

\* Whatever Piper's bus does, a stop that has begun gives D1 its zero command,
\* if D1's own vendor calls return (_safe_send).
THEOREM PiperCannotKeepD1Moving ==
  ASSUME "d1" \notin Hanging
  PROVE  FairSpec /\ []OnlyLocksBlock => StopZeroesD1
<1>1. [Next]_vars =>
        /\ Zeroes("stop") => Zeroes("stop")' \/ (Zeroes("join")' /\ stop')
        /\ Zeroes("join") => Zeroes("join")' \/ Zeroes("safe_d1")'
        /\ Zeroes("safe_d1") => Zeroes("safe_d1")' \/ ZeroTried'
  BY ZeroSteps
<1>2. stop /\ [Next]_vars => stop'
  BY StopStep
<1>3. [][Next]_vars /\ MainTurns => Leaves("stop") /\ Leaves("join")
  BY LocklessLeaves DEF Lockless
<1>4. Zeroes("safe_d1") /\ stop => StopLeft(6)
  BY DEF Zeroes, At, StopLeft, StepsLeft
<1>5. ReaderTurns("d1") /\ Stuck(6) => EndsRested("d1")
  BY ReaderRests DEF Bus
<1>6. Zeroes("safe_d1") /\ Rested("d1") => MainReady
  BY DEF Zeroes, At, Rested, MainReady, Free, D1PC, PiperPC
<1>7. StopLeft(6) /\ <<Main>>_vars => ~StopLeft(6)'
  BY StopDescends DEF StopLeft
<1>8. FairSpec /\ []OnlyLocksBlock => []ReaderTurns("d1")
  <2>1. FairSpec /\ []OnlyLocksBlock => ReaderTurns("d1")
    BY ReadersAreFair DEF Bus
  <2> QED
    BY <2>1, PTL DEF ReaderTurns
<1>9. /\ Zeroes("stop") => At("stop")
      /\ Zeroes("join") => At("join")
      /\ (pc = "stop" /\ opt["send"]) <=> Zeroes("stop")
      /\ "d1_zero" \in attempts <=> ZeroTried
  BY DEF Zeroes, At, ZeroTried
<1> QED
  BY <1>1, <1>2, <1>3, <1>4, <1>5, <1>6, <1>7, <1>8, <1>9, MainIsFair,
     TypeCorrect, PTL
  DEF FairSpec, Spec, MainTurns, Leaves, Stuck, EndsRested, StopZeroesD1
=============================================================================
