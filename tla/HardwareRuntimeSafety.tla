----------------------- MODULE HardwareRuntimeSafety -----------------------
(***************************************************************************)
(* The safety properties of HardwareRuntime, for every set of launches, of *)
(* readings and of hanging buses: IInv is inductive, each property follows *)
(* from it, and the runtime implements ActuatorContract.                   *)
(***************************************************************************)
EXTENDS HardwareRuntimeProofs

-----------------------------------------------------------------------------
(* The step lemmas of the inductive invariant *)

\* Every step keeps ControlInv: the main thread passes its checks in order.
LEMMA ControlStep ==
  ASSUME TypeOK, ControlInv, [Next]_vars
  PROVE  ControlInv'
<1> USE DEF mainVars, latchVars, readVars, connVars, robotVars, histVars
<1>a. opt' = opt => Accepted' = Accepted
  BY DEF Accepted, hardwareAccess
<1>1. CASE Launch
  BY <1>1, <1>a
  DEF Launch, Step, StartupReset, ControlInv, StartPC, LoopPC, StopPC
<1>2. CASE Refuse
  BY <1>2, <1>a DEF Refuse, Step, ControlInv, StartPC, LoopPC, StopPC
<1>3. CASE StartD1
  BY <1>3, <1>a
  DEF StartD1, Step, Connect, ConnectFails, connVars, ControlInv, StartPC,
      LoopPC, StopPC
<1>4. CASE StartPiper
  BY <1>4, <1>a
  DEF StartPiper, Step, Connect, ConnectFails, connVars, ControlInv, StartPC,
      LoopPC, StopPC
<1>5. CASE UndoD1
  BY <1>5, <1>a
  DEF UndoD1, Step, Disconnect, ClearOwnership, ControlInv, StartPC, LoopPC,
      StopPC
<1>6. CASE UndoPiper
  BY <1>6, <1>a
  DEF UndoPiper, Step, Raise, Disconnect, ClearOwnership, ControlInv, StartPC,
      LoopPC, StopPC
<1>7. CASE StartReaders
  BY <1>7, <1>a DEF StartReaders, Step, ControlInv, StartPC, LoopPC, StopPC
<1>8. CASE WaitPoll
  BY <1>8, <1>a
  DEF WaitPoll, Step, ReadD1Box, ControlInv, StartPC, LoopPC, StopPC
<1>9. CASE WaitCheck
  BY <1>9, <1>a
  DEF WaitCheck, AfterGate, Verdicts, Forget, ControlInv, StartPC, LoopPC,
      StopPC
<1>10. CASE WaitExpire
  BY <1>10, <1>a
  DEF WaitExpire, Step, Raise, ControlInv, StartPC, LoopPC, StopPC
<1>11. CASE ForceDirect
  BY <1>11, <1>a
  DEF ForceDirect, Step, Raise, MaybeDeliver, Deliver, Undelivered, ControlInv,
      StartPC, LoopPC, StopPC
<1>12. CASE EnablePiper
  BY <1>12, <1>a
  DEF EnablePiper, Step, Raise, ControlInv, StartPC, LoopPC, StopPC
<1>13. CASE LoopExit
  BY <1>13, <1>a DEF LoopExit, Step, ControlInv, StartPC, LoopPC, StopPC
<1>14. CASE LoopTurn
  BY <1>14, <1>a
  DEF LoopTurn, Step, Raise, LoopCondition, ControlInv, StartPC, LoopPC, StopPC
<1>15. CASE PolicyRead
  BY <1>15, <1>a
  DEF PolicyRead, Step, ReadD1Box, ControlInv, StartPC, LoopPC, StopPC
<1>16. CASE PolicyCheck
  BY <1>16, <1>a
  DEF PolicyCheck, Step, Raise, Halt, Verdicts, PrepareStep, Forget,
      ControlInv, StartPC, LoopPC, StopPC
<1>17. CASE CommandRead
  BY <1>17, <1>a
  DEF CommandRead, Step, ReadD1Box, ControlInv, StartPC, LoopPC, StopPC
<1>18. CASE CommandCheck
  BY <1>18, <1>a
  DEF CommandCheck, Halt, CommandVerdicts, Verdicts, Forget, ControlInv,
      StartPC, LoopPC, StopPC
<1>19. CASE SendD1
  BY <1>19, <1>a
  DEF SendD1, Step, Halt, MaybeDeliver, Deliver, Undelivered, ControlInv,
      StartPC, LoopPC, StopPC
<1>20. CASE SendPiper
  BY <1>20, <1>a
  DEF SendPiper, Step, Halt, Deliver, Undelivered, ControlInv, StartPC, LoopPC,
      StopPC
<1>21. CASE SetStop
  BY <1>21, <1>a DEF SetStop, Step, ControlInv, StartPC, LoopPC, StopPC
<1>22. CASE Join
  BY <1>22, <1>a DEF Join, Step, AfterJoin, ControlInv, StartPC, LoopPC, StopPC
<1>23. CASE SafeD1
  BY <1>23, <1>a
  DEF SafeD1, Step, MaybeDeliver, Deliver, Undelivered, ZeroCommand,
      ControlInv, StartPC, LoopPC, StopPC
<1>24. CASE SafePiper
  BY <1>24, <1>a
  DEF SafePiper, Step, MaybeDeliver, Deliver, Undelivered, ZeroCommand,
      ReportIfNone, ControlInv, StartPC, LoopPC, StopPC
<1>25. CASE EstopPiper
  BY <1>25, <1>a
  DEF EstopPiper, Step, Deliver, Undelivered, ReportIfNone, ControlInv,
      StartPC, LoopPC, StopPC
<1>26. CASE EstopD1
  BY <1>26, <1>a
  DEF EstopD1, Step, Deliver, Undelivered, ControlInv, StartPC, LoopPC, StopPC
<1>27. CASE CloseD1
  BY <1>27, <1>a
  DEF CloseD1, Step, Disconnect, ClearOwnership, ReportIfNone, ControlInv,
      StartPC, LoopPC, StopPC
<1>28. CASE ClosePiper
  BY <1>28, <1>a
  DEF ClosePiper, Step, Disconnect, ClearOwnership, ReportIfNone, ControlInv,
      StartPC, LoopPC, StopPC
<1>29. ASSUME NEW b \in Bus, ReaderCheck(b) PROVE ControlInv'
  BY <1>29, <1>a DEF ReaderCheck, ControlInv, StartPC, LoopPC, StopPC
<1>30. ASSUME NEW b \in Bus, ReaderAcquire(b) PROVE ControlInv'
  BY <1>30, <1>a DEF ReaderAcquire, ControlInv, StartPC, LoopPC, StopPC
<1>31. ASSUME NEW b \in Bus, ReaderReturn(b) PROVE ControlInv'
  BY <1>31, <1>a DEF ReaderReturn, ControlInv, StartPC, LoopPC, StopPC
<1>32. CASE Signal
  BY <1>32, <1>a DEF Signal, ControlInv, StartPC, LoopPC, StopPC
<1>33. CASE UNCHANGED vars
  BY <1>33, <1>a DEF vars, ControlInv, StartPC, LoopPC, StopPC
<1> QED
  BY <1>1, <1>2, <1>3, <1>4, <1>5, <1>6, <1>7, <1>8, <1>9, <1>10, <1>11,
     <1>12, <1>13, <1>14, <1>15, <1>16, <1>17, <1>18, <1>19, <1>20, <1>21,
     <1>22, <1>23, <1>24, <1>25, <1>26, <1>27, <1>28, <1>29, <1>30, <1>31,
     <1>32, <1>33
  DEF Next, Main, Reader, Exited

\* Only these steps move a frame or change the arm's power.
LEMMA ActuatingSteps ==
  ASSUME [Next]_vars
  PROVE  \/ UNCHANGED <<frame, power, late>>
         \/ ForceDirect \/ EnablePiper \/ SendD1 \/ SendPiper
         \/ SafeD1 \/ SafePiper \/ EstopPiper \/ EstopD1
BY DEF Next, Main, Reader, Exited, Launch, Refuse, StartD1, StartPiper, UndoD1,
       UndoPiper, StartReaders, WaitPoll, WaitCheck, WaitExpire, LoopExit,
       LoopTurn, PolicyRead, PolicyCheck, CommandRead, CommandCheck, SetStop,
       Join, CloseD1, ClosePiper, ReaderCheck, ReaderAcquire, ReaderReturn,
       Signal, vars, robotVars

\* The gates an accepted --send launch has passed.
LEMMA SendGates ==
  ASSUME Accepted, opt["send"]
  PROVE  /\ opt["gate"] /\ opt["enablePiper"] /\ opt["calibrated"]
         /\ ~opt["dryRun"] /\ ~opt["shadow"]
BY DEF Accepted, hardwareAccess

\* A zero command or an emergency stop moves nothing, and is never late.
LEMMA DeliverQuiet ==
  ASSUME TypeOK, NEW b \in Bus, NEW f \in Quiet, Deliver(b, f)
  PROVE  late' = late /\ (\A c \in Bus : frame'[c] \in {frame[c]} \cup Quiet)
<1>1. frame \in [Bus -> Frames] /\ late \in [Bus -> {0, 1, 2}]
  BY DEF TypeOK
<1>2. f \notin Active
  BY DEF Active, Quiet
<1> QED
  BY <1>1, <1>2 DEF Deliver

\* The stop and safe commands of teardown reach a bus quietly or not at all.
LEMMA TeardownIsQuiet ==
  ASSUME TypeOK, SafeD1 \/ SafePiper \/ EstopPiper \/ EstopD1
  PROVE  /\ late' = late /\ (power' => power)
         /\ \A c \in Bus : frame'[c] \in {frame[c]} \cup Quiet
<1>1. Undelivered \/ \E b \in Bus, f \in Quiet : Deliver(b, f)
  BY DEF SafeD1, SafePiper, EstopPiper, EstopD1, MaybeDeliver, ZeroCommand,
         Undelivered, Bus, Quiet
<1>2. power' => power
  BY DEF SafeD1, SafePiper, EstopPiper, EstopD1
<1> QED
  BY <1>1, <1>2, DeliverQuiet DEF Undelivered

\* The switches never change, and only the feedback gate qualifies a run.
LEMMA QualifyingSteps ==
  ASSUME [Next]_vars
  PROVE  opt' = opt /\ (UNCHANGED qualified \/ WaitCheck)
BY DEF Next, Main, Reader, Exited, Launch, Refuse, StartD1, StartPiper, UndoD1,
       UndoPiper, StartReaders, WaitPoll, WaitCheck, WaitExpire, ForceDirect,
       EnablePiper, LoopExit, LoopTurn, PolicyRead, PolicyCheck, CommandRead,
       CommandCheck, SendD1, SendPiper, SetStop, Join, SafeD1, SafePiper,
       EstopPiper, EstopD1, CloseD1, ClosePiper, ReaderCheck, ReaderAcquire,
       ReaderReturn, Signal, vars, histVars

\* Every step keeps ActuationGated: only a loop step of a --send run drives.
LEMMA ActuationStep ==
  ASSUME TypeOK, ControlInv, ActuationGated, [Next]_vars
  PROVE  ActuationGated'
<1>1. WaitCheck => ~qualified
  BY DEF WaitCheck, ControlInv, StartPC
<1>2. CASE UNCHANGED <<frame, power, late>>
  BY <1>1, <1>2, QualifyingSteps DEF ActuationGated
<1>3. CASE ForceDirect \/ EnablePiper \/ SendD1 \/ SendPiper
  <2>1. opt["send"] /\ Accepted /\ qualified /\ ~WaitCheck
    BY <1>3 DEF ForceDirect, EnablePiper, SendD1, SendPiper, WaitCheck, Step,
                Raise, ControlInv, LoopPC
  <2> QED
    BY <2>1, QualifyingSteps, SendGates DEF ActuationGated
<1>4. CASE SafeD1 \/ SafePiper \/ EstopPiper \/ EstopD1
  <2>1. \A c \in Bus : frame'[c] \in Active => frame[c] \in Active
    BY <1>4, TeardownIsQuiet DEF Active, Quiet
  <2>2. late' = late /\ (power' => power)
    BY <1>4, TeardownIsQuiet
  <2>3. UNCHANGED <<opt, qualified>>
    BY <1>4 DEF SafeD1, SafePiper, EstopPiper, EstopD1
  <2> QED
    BY <2>1, <2>2, <2>3 DEF ActuationGated
<1> QED
  BY <1>2, <1>3, <1>4, ActuatingSteps

\* disconnect() gives up one backend and keeps the pairing of drivers and
\* backends, called once or twice.
LEMMA DisconnectOwned ==
  ASSUME TypeOK, Owned, NEW b \in Bus, Disconnect(b)
  PROVE  /\ ~conn'[b] /\ (\A c \in Bus \ {b} : conn'[c] = conn[c])
         /\ Owned'
<1>1. /\ conn \in [Bus -> BOOLEAN]
      /\ handle \in [Bus -> {"none", "open", "closed", "closed twice"}]
  BY DEF TypeOK
<1>2. conn' = [conn EXCEPT ![b] = FALSE]
  BY DEF Disconnect, ClearOwnership
<1>3. \A c \in Bus \ {b} : conn'[c] = conn[c] /\ handle'[c] = handle[c]
  BY <1>1, <1>2 DEF Disconnect
<1>4. ~conn'[b] /\ handle'[b] \in {"none", "closed"}
  BY <1>1, <1>2 DEF Disconnect, Owned
<1> QED
  BY <1>3, <1>4 DEF Owned

\* connect() opens one backend's driver, or none.
LEMMA ConnectOwned ==
  ASSUME TypeOK, Owned, NEW b \in Bus, ~conn[b], handle[b] = "none", Connect(b)
  PROVE  /\ conn'[b] /\ (\A c \in Bus \ {b} : /\ conn'[c] = conn[c]
                                           /\ handle'[c] = handle[c])
         /\ Owned'
<1>1. /\ conn \in [Bus -> BOOLEAN]
      /\ handle \in [Bus -> {"none", "open", "closed", "closed twice"}]
  BY DEF TypeOK
<1>2. conn' = [conn EXCEPT ![b] = TRUE]
  BY DEF Connect
<1>3. \A c \in Bus \ {b} : conn'[c] = conn[c] /\ handle'[c] = handle[c]
  BY <1>1, <1>2 DEF Connect
<1>4. conn'[b] /\ handle'[b] \in {"none", "open"}
  BY <1>1, <1>2 DEF Connect
<1> QED
  BY <1>3, <1>4 DEF Owned

\* Every step keeps OwnershipInv: each driver is opened once and closed once.
LEMMA OwnershipStep ==
  ASSUME TypeOK, OwnershipInv, [Next]_vars
  PROVE  OwnershipInv'
<1> USE DEF mainVars, latchVars, readVars, connVars, robotVars, histVars
<1>a. UNCHANGED <<conn, handle>> => Owned' = Owned
  BY DEF Owned
<1>1. CASE Launch
  BY <1>1, <1>a DEF Launch, Step, StartupReset, OwnershipInv, StartPC, LoopPC
<1>2. CASE Refuse
  BY <1>2, <1>a DEF Refuse, Step, OwnershipInv, StartPC, LoopPC
<1>3. CASE StartD1
  <2>1. Owned /\ ~conn["d1"] /\ handle["d1"] = "none"
    BY <1>3 DEF OwnershipInv, StartD1, Step
  <2>2. CASE pc' = "undo_d1" /\ ConnectFails
    <3>1. Owned'
      BY <2>1, <2>2 DEF ConnectFails, Owned
    <3> QED
      BY <2>2, <3>1 DEF OwnershipInv, StartPC, LoopPC
  <2>3. CASE pc' = "start_piper" /\ Connect("d1")
    <3>1. /\ conn'["d1"] /\ conn'["piper"] = conn["piper"]
          /\ handle'["piper"] = handle["piper"] /\ Owned'
      BY <2>1, <2>3, ConnectOwned DEF Bus
    <3> QED
      BY <1>3, <2>3, <3>1 DEF StartD1, Step, OwnershipInv, StartPC, LoopPC
  <2> QED
    BY <1>3, <2>2, <2>3 DEF StartD1, Step
<1>4. CASE StartPiper
  <2>1. Owned /\ ~conn["piper"] /\ handle["piper"] = "none"
    BY <1>4 DEF OwnershipInv, StartPiper, Step
  <2>2. CASE pc' = "undo_d1" /\ ConnectFails
    <3>1. Owned'
      BY <2>1, <2>2 DEF ConnectFails, Owned
    <3> QED
      BY <2>2, <3>1 DEF OwnershipInv, StartPC, LoopPC
  <2>3. CASE pc' = "readers" /\ Connect("piper")
    <3>1. /\ conn'["piper"] /\ conn'["d1"] = conn["d1"]
          /\ handle'["d1"] = handle["d1"] /\ Owned'
      BY <2>1, <2>3, ConnectOwned DEF Bus
    <3> QED
      BY <1>4, <2>3, <3>1 DEF StartPiper, Step, OwnershipInv, StartPC, LoopPC
  <2> QED
    BY <1>4, <2>2, <2>3 DEF StartPiper, Step
<1>5. CASE UndoD1
  <2>1. Disconnect("d1")
    BY <1>5 DEF UndoD1
  <2>2. ~conn'["d1"] /\ conn'["piper"] = conn["piper"] /\ Owned'
    BY <2>1, DisconnectOwned DEF OwnershipInv, Bus
  <2> QED
    BY <1>5, <2>2 DEF UndoD1, Step, Raise, OwnershipInv, StartPC, LoopPC
<1>6. CASE UndoPiper
  <2>1. Disconnect("piper")
    BY <1>6 DEF UndoPiper
  <2>2. ~conn'["piper"] /\ conn'["d1"] = conn["d1"] /\ Owned'
    BY <2>1, DisconnectOwned DEF OwnershipInv, Bus
  <2> QED
    BY <1>6, <2>2 DEF UndoPiper, Step, Raise, OwnershipInv, StartPC, LoopPC
<1>7. CASE StartReaders
  BY <1>7, <1>a DEF StartReaders, Step, OwnershipInv, StartPC, LoopPC
<1>8. CASE WaitPoll
  BY <1>8, <1>a DEF WaitPoll, Step, ReadD1Box, OwnershipInv, StartPC, LoopPC
<1>9. CASE WaitCheck
  BY <1>9, <1>a
  DEF WaitCheck, AfterGate, Verdicts, Forget, OwnershipInv, StartPC, LoopPC
<1>10. CASE WaitExpire
  BY <1>10, <1>a DEF WaitExpire, Step, Raise, OwnershipInv, StartPC, LoopPC
<1>11. CASE ForceDirect
  BY <1>11, <1>a DEF ForceDirect, Step, Raise, OwnershipInv, StartPC, LoopPC
<1>12. CASE EnablePiper
  BY <1>12, <1>a DEF EnablePiper, Step, Raise, OwnershipInv, StartPC, LoopPC
<1>13. CASE LoopExit
  BY <1>13, <1>a DEF LoopExit, Step, OwnershipInv, StartPC, LoopPC
<1>14. CASE LoopTurn
  BY <1>14, <1>a
  DEF LoopTurn, Step, Raise, LoopCondition, OwnershipInv, StartPC, LoopPC
<1>15. CASE PolicyRead
  BY <1>15, <1>a DEF PolicyRead, Step, ReadD1Box, OwnershipInv, StartPC, LoopPC
<1>16. CASE PolicyCheck
  BY <1>16, <1>a
  DEF PolicyCheck, Step, Raise, Halt, Verdicts, PrepareStep, Forget,
      OwnershipInv, StartPC, LoopPC
<1>17. CASE CommandRead
  BY <1>17, <1>a
  DEF CommandRead, Step, ReadD1Box, OwnershipInv, StartPC, LoopPC
<1>18. CASE CommandCheck
  BY <1>18, <1>a
  DEF CommandCheck, Halt, CommandVerdicts, Verdicts, Forget, OwnershipInv,
      StartPC, LoopPC
<1>19. CASE SendD1
  BY <1>19, <1>a DEF SendD1, Step, Halt, OwnershipInv, StartPC, LoopPC
<1>20. CASE SendPiper
  BY <1>20, <1>a DEF SendPiper, Step, Halt, OwnershipInv, StartPC, LoopPC
<1>21. CASE SetStop
  BY <1>21, <1>a DEF SetStop, Step, OwnershipInv, StartPC, LoopPC
<1>22. CASE Join
  BY <1>22, <1>a DEF Join, Step, AfterJoin, OwnershipInv, StartPC, LoopPC
<1>23. CASE SafeD1
  BY <1>23, <1>a DEF SafeD1, Step, ZeroCommand, OwnershipInv, StartPC, LoopPC
<1>24. CASE SafePiper
  BY <1>24, <1>a
  DEF SafePiper, Step, ZeroCommand, OwnershipInv, StartPC, LoopPC
<1>25. CASE EstopPiper
  BY <1>25, <1>a DEF EstopPiper, Step, OwnershipInv, StartPC, LoopPC
<1>26. CASE EstopD1
  BY <1>26, <1>a DEF EstopD1, Step, OwnershipInv, StartPC, LoopPC
<1>27. CASE CloseD1
  <2>1. Disconnect("d1")
    BY <1>27 DEF CloseD1
  <2>2. ~conn'["d1"] /\ conn'["piper"] = conn["piper"] /\ Owned'
    BY <2>1, DisconnectOwned DEF OwnershipInv, Bus
  <2> QED
    BY <1>27, <2>2 DEF CloseD1, Step, Raise, OwnershipInv, StartPC, LoopPC
<1>28. CASE ClosePiper
  <2>1. Disconnect("piper")
    BY <1>28 DEF ClosePiper
  <2>2. ~conn'["piper"] /\ conn'["d1"] = conn["d1"] /\ Owned'
    BY <2>1, DisconnectOwned DEF OwnershipInv, Bus
  <2> QED
    BY <1>28, <2>2 DEF ClosePiper, Step, Raise, OwnershipInv, StartPC, LoopPC
<1>29. ASSUME NEW b \in Bus, ReaderCheck(b) PROVE OwnershipInv'
  BY <1>29, <1>a DEF ReaderCheck, OwnershipInv, StartPC, LoopPC
<1>30. ASSUME NEW b \in Bus, ReaderAcquire(b) PROVE OwnershipInv'
  BY <1>30, <1>a DEF ReaderAcquire, OwnershipInv, StartPC, LoopPC
<1>31. ASSUME NEW b \in Bus, ReaderReturn(b) PROVE OwnershipInv'
  BY <1>31, <1>a DEF ReaderReturn, OwnershipInv, StartPC, LoopPC
<1>32. CASE Signal
  BY <1>32, <1>a DEF Signal, OwnershipInv, StartPC, LoopPC
<1>33. CASE UNCHANGED vars
  BY <1>33, <1>a DEF vars, OwnershipInv, StartPC, LoopPC
<1> QED
  BY <1>1, <1>2, <1>3, <1>4, <1>5, <1>6, <1>7, <1>8, <1>9, <1>10, <1>11,
     <1>12, <1>13, <1>14, <1>15, <1>16, <1>17, <1>18, <1>19, <1>20, <1>21,
     <1>22, <1>23, <1>24, <1>25, <1>26, <1>27, <1>28, <1>29, <1>30, <1>31,
     <1>32, <1>33
  DEF Next, Main, Reader, Exited

\* Every step keeps TeardownInv: no powered arm loses its driver unstopped.
LEMMA TeardownStep ==
  ASSUME TypeOK, ControlInv, ActuationGated, OwnershipInv,
         TeardownInv, [Next]_vars
  PROVE  TeardownInv'
<1> USE DEF mainVars, latchVars, readVars, connVars, robotVars, histVars
<1>1. CASE Launch
  BY <1>1 DEF Launch, Step, TeardownInv, DisarmBeforeRelease
<1>2. CASE Refuse
  <2>1. ~qualified /\ ~power
    BY <1>2 DEF ControlInv, ActuationGated, StartPC, Refuse, Step
  <2> QED
    BY <1>2, <2>1 DEF Refuse, Step, TeardownInv, DisarmBeforeRelease
<1>3. CASE StartD1
  <2>1. ~power
    BY <1>3 DEF ControlInv, ActuationGated, StartPC, StartD1, Step, Raise
  <2> QED
    BY <1>3, <2>1 DEF StartD1, Step, Raise, TeardownInv, DisarmBeforeRelease
<1>4. CASE StartPiper
  <2>1. ~power
    BY <1>4 DEF ControlInv, ActuationGated, StartPC, StartPiper, Step, Raise
  <2> QED
    BY <1>4, <2>1 DEF StartPiper, Step, Raise, TeardownInv, DisarmBeforeRelease
<1>5. CASE UndoD1
  <2>1. ~power
    BY <1>5 DEF ControlInv, ActuationGated, StartPC, UndoD1, Step, Raise
  <2> QED
    BY <1>5, <2>1 DEF UndoD1, Step, Raise, TeardownInv, DisarmBeforeRelease
<1>6. CASE UndoPiper
  <2>1. ~power
    BY <1>6 DEF ControlInv, ActuationGated, StartPC, UndoPiper, Step, Raise
  <2> QED
    BY <1>6, <2>1 DEF UndoPiper, Step, Raise, TeardownInv, DisarmBeforeRelease
<1>7. CASE StartReaders
  BY <1>7 DEF StartReaders, Step, TeardownInv, DisarmBeforeRelease
<1>8. CASE WaitPoll
  BY <1>8 DEF WaitPoll, Step, ReadD1Box, TeardownInv, DisarmBeforeRelease
<1>9. CASE WaitCheck
  <2>1. pc' \in LoopPC \cup {"wait"}
    BY <1>9 DEF WaitCheck, AfterGate, LoopPC
  <2> QED
    BY <1>9, <2>1 DEF WaitCheck, LoopPC, TeardownInv, DisarmBeforeRelease
<1>10. CASE WaitExpire
  BY <1>10 DEF WaitExpire, Step, Raise, TeardownInv, DisarmBeforeRelease
<1>11. CASE ForceDirect
  BY <1>11 DEF ForceDirect, Step, Raise, TeardownInv, DisarmBeforeRelease
<1>12. CASE EnablePiper
  <2>1. conn["piper"]
    BY <1>12 DEF EnablePiper, Step, Raise, OwnershipInv, LoopPC
  <2> QED
    BY <1>12, <2>1
    DEF EnablePiper, Step, Raise, TeardownInv, DisarmBeforeRelease
<1>13. CASE LoopExit
  BY <1>13 DEF LoopExit, Step, TeardownInv, DisarmBeforeRelease
<1>14. CASE LoopTurn
  BY <1>14
  DEF LoopTurn, Step, Raise, LoopCondition, TeardownInv, DisarmBeforeRelease
<1>15. CASE PolicyRead
  BY <1>15 DEF PolicyRead, Step, ReadD1Box, TeardownInv, DisarmBeforeRelease
<1>16. CASE PolicyCheck
  BY <1>16 DEF PolicyCheck, Step, Raise, Halt, TeardownInv, DisarmBeforeRelease
<1>17. CASE CommandRead
  BY <1>17 DEF CommandRead, Step, ReadD1Box, TeardownInv, DisarmBeforeRelease
<1>18. CASE CommandCheck
  BY <1>18 DEF CommandCheck, Halt, TeardownInv, DisarmBeforeRelease
<1>19. CASE SendD1
  BY <1>19 DEF SendD1, Step, Halt, TeardownInv, DisarmBeforeRelease
<1>20. CASE SendPiper
  BY <1>20 DEF SendPiper, Step, Halt, TeardownInv, DisarmBeforeRelease
<1>21. CASE SetStop
  BY <1>21 DEF SetStop, Step, TeardownInv, DisarmBeforeRelease
<1>22. CASE Join
  BY <1>22 DEF Join, Step, AfterJoin, TeardownInv, DisarmBeforeRelease
<1>23. CASE SafeD1
  BY <1>23 DEF SafeD1, Step, TeardownInv, DisarmBeforeRelease
<1>24. CASE SafePiper
  BY <1>24 DEF SafePiper, Step, TeardownInv, DisarmBeforeRelease
<1>25. CASE EstopPiper
  BY <1>25 DEF EstopPiper, Step, TeardownInv, DisarmBeforeRelease
<1>26. CASE EstopD1
  BY <1>26 DEF EstopD1, Step, TeardownInv, DisarmBeforeRelease
<1>27. CASE CloseD1
  <2>1. conn'["piper"] = conn["piper"]
    BY <1>27, DisconnectOwned DEF CloseD1, OwnershipInv, Bus
  <2> QED
    BY <1>27, <2>1 DEF CloseD1, Step, TeardownInv, DisarmBeforeRelease
<1>28. CASE ClosePiper
  <2>1. power => opt["send"]
    BY DEF ActuationGated
  <2>2. opt["send"]
          => {"d1_zero", "piper_estop", "d1_estop"} \subseteq attempts
    BY <1>28 DEF ClosePiper, Step, TeardownInv
  <2> QED
    BY <1>28, <2>1, <2>2 DEF ClosePiper, Step, TeardownInv, DisarmBeforeRelease
<1>29. ASSUME NEW b \in Bus, ReaderCheck(b) PROVE TeardownInv'
  BY <1>29 DEF ReaderCheck, TeardownInv, DisarmBeforeRelease
<1>30. ASSUME NEW b \in Bus, ReaderAcquire(b) PROVE TeardownInv'
  BY <1>30 DEF ReaderAcquire, TeardownInv, DisarmBeforeRelease
<1>31. ASSUME NEW b \in Bus, ReaderReturn(b) PROVE TeardownInv'
  BY <1>31 DEF ReaderReturn, TeardownInv, DisarmBeforeRelease
<1>32. CASE Signal
  BY <1>32 DEF Signal, TeardownInv, DisarmBeforeRelease
<1>33. CASE UNCHANGED vars
  BY <1>33 DEF vars, TeardownInv, DisarmBeforeRelease
<1> QED
  BY <1>1, <1>2, <1>3, <1>4, <1>5, <1>6, <1>7, <1>8, <1>9, <1>10, <1>11,
     <1>12, <1>13, <1>14, <1>15, <1>16, <1>17, <1>18, <1>19, <1>20, <1>21,
     <1>22, <1>23, <1>24, <1>25, <1>26, <1>27, <1>28, <1>29, <1>30, <1>31,
     <1>32, <1>33
  DEF Next, Main, Reader, Exited

\* Delivering a frame counts at most one late frame, on that bus only, and
\* none before the stop event.
LEMMA DeliverLate ==
  ASSUME TypeOK, NEW b \in Bus, NEW f, Deliver(b, f)
  PROVE  /\ \A c \in Bus \ {b} : late'[c] = late[c]
         /\ late'[b] \in {late[b], late[b] + 1}
         /\ ~stop => late'[b] = late[b]
<1>1. late \in [Bus -> {0, 1, 2}]
  BY DEF TypeOK
<1> QED
  BY <1>1 DEF Deliver

\* Every step keeps LateInv: the loop tests the stop event before each turn.
LEMMA LateStep ==
  ASSUME TypeOK, LateInv, [Next]_vars
  PROVE  LateInv'
<1> USE DEF mainVars, latchVars, readVars, connVars, robotVars, histVars
<1>1. CASE Launch
  BY <1>1
  DEF Launch, Step, LateInv, BoundedAfterStop, Bus, StartPC, LoopPC, StopPC
<1>2. CASE Refuse
  BY <1>2
  DEF Refuse, Step, LateInv, BoundedAfterStop, Bus, StartPC, LoopPC, StopPC
<1>3. CASE StartD1
  BY <1>3
  DEF StartD1, Step, LateInv, BoundedAfterStop, Bus, StartPC, LoopPC, StopPC
<1>4. CASE StartPiper
  BY <1>4
  DEF StartPiper, Step, LateInv, BoundedAfterStop, Bus, StartPC, LoopPC, StopPC
<1>5. CASE UndoD1
  BY <1>5
  DEF UndoD1, Step, LateInv, BoundedAfterStop, Bus, StartPC, LoopPC, StopPC
<1>6. CASE UndoPiper
  BY <1>6
  DEF UndoPiper, Step, Raise, LateInv, BoundedAfterStop, Bus, StartPC, LoopPC,
      StopPC
<1>7. CASE StartReaders
  BY <1>7
  DEF StartReaders, Step, LateInv, BoundedAfterStop, Bus, StartPC, LoopPC,
      StopPC
<1>8. CASE WaitPoll
  BY <1>8
  DEF WaitPoll, Step, ReadD1Box, LateInv, BoundedAfterStop, Bus, StartPC,
      LoopPC, StopPC
<1>9. CASE WaitCheck
  BY <1>9
  DEF WaitCheck, AfterGate, LateInv, BoundedAfterStop, Bus, StartPC, LoopPC,
      StopPC
<1>10. CASE WaitExpire
  BY <1>10
  DEF WaitExpire, Step, Raise, LateInv, BoundedAfterStop, Bus, StartPC, LoopPC,
      StopPC
<1>11. CASE ForceDirect
  <2>1. late["d1"] = 0 /\ late["piper"] = 0 /\ (~stop => late["piper"] = 0)
    BY <1>11
    DEF ForceDirect, Step, Raise, LateInv, BoundedAfterStop, LoopPC, Bus
  <2>2. late' = late \/ \E f : Deliver("d1", f)
    BY <1>11 DEF ForceDirect, MaybeDeliver, Undelivered
  <2>3. /\ late'["piper"] = late["piper"]
        /\ late'["d1"] \in {0, 1} /\ (~stop => late'["d1"] = 0)
    BY <2>1, <2>2, DeliverLate DEF Bus
  <2>4. pc' \in {"enable"} \cup StopPC /\ (~stop' => ~stop)
    BY <1>11 DEF ForceDirect, Step, Raise, Halt, StopPC
  <2> QED
    BY <2>1, <2>3, <2>4
    DEF LateInv, BoundedAfterStop, Bus, StartPC, LoopPC, StopPC
<1>12. CASE EnablePiper
  BY <1>12
  DEF EnablePiper, Step, Raise, LateInv, BoundedAfterStop, Bus, StartPC,
      LoopPC, StopPC
<1>13. CASE LoopExit
  BY <1>13
  DEF LoopExit, Step, LateInv, BoundedAfterStop, Bus, StartPC, LoopPC, StopPC
<1>14. CASE LoopTurn
  BY <1>14
  DEF LoopTurn, Step, Raise, LoopCondition, LateInv, BoundedAfterStop, Bus,
      StartPC, LoopPC, StopPC
<1>15. CASE PolicyRead
  BY <1>15
  DEF PolicyRead, Step, ReadD1Box, LateInv, BoundedAfterStop, Bus, StartPC,
      LoopPC, StopPC
<1>16. CASE PolicyCheck
  BY <1>16
  DEF PolicyCheck, Step, Raise, Halt, LateInv, BoundedAfterStop, Bus, StartPC,
      LoopPC, StopPC
<1>17. CASE CommandRead
  BY <1>17
  DEF CommandRead, Step, ReadD1Box, LateInv, BoundedAfterStop, Bus, StartPC,
      LoopPC, StopPC
<1>18. CASE CommandCheck
  BY <1>18
  DEF CommandCheck, Halt, LateInv, BoundedAfterStop, Bus, StartPC, LoopPC,
      StopPC
<1>19. CASE SendD1
  <2>1. late["d1"] = 0 /\ late["piper"] = 0 /\ (~stop => late["piper"] = 0)
    BY <1>19 DEF SendD1, Step, Raise, LateInv, BoundedAfterStop, LoopPC, Bus
  <2>2. late' = late \/ \E f : Deliver("d1", f)
    BY <1>19 DEF SendD1, MaybeDeliver, Undelivered
  <2>3. /\ late'["piper"] = late["piper"]
        /\ late'["d1"] \in {0, 1} /\ (~stop => late'["d1"] = 0)
    BY <2>1, <2>2, DeliverLate DEF Bus
  <2>4. /\ pc' \in {"send_piper", "send_piper_rejected"} \cup StopPC
        /\ ~stop' => ~stop
    BY <1>19 DEF SendD1, Step, Raise, Halt, StopPC
  <2> QED
    BY <2>1, <2>3, <2>4
    DEF LateInv, BoundedAfterStop, Bus, StartPC, LoopPC, StopPC
<1>20. CASE SendPiper
  <2>a. late["d1"] \in {0, 1}
    <3>1. late["d1"] \in {0, 1, 2} /\ late["d1"] <= 1
      BY DEF TypeOK, LateInv, BoundedAfterStop, Bus
    <3> QED
      BY <3>1
  <2>1. late["piper"] = 0 /\ late["d1"] \in {0, 1} /\ (~stop => late["d1"] = 0)
    BY <1>20, <2>a
    DEF SendPiper, Step, Raise, LateInv, BoundedAfterStop, LoopPC, Bus
  <2>2. late' = late \/ \E f : Deliver("piper", f)
    BY <1>20 DEF SendPiper, MaybeDeliver, Undelivered
  <2>3. /\ late'["d1"] = late["d1"]
        /\ late'["piper"] \in {0, 1} /\ (~stop => late'["piper"] = 0)
    BY <2>1, <2>2, DeliverLate DEF Bus
  <2>4. pc' \in {"loop"} \cup StopPC /\ (~stop' => ~stop)
    BY <1>20 DEF SendPiper, Step, Raise, Halt, StopPC
  <2> QED
    BY <2>1, <2>3, <2>4
    DEF LateInv, BoundedAfterStop, Bus, StartPC, LoopPC, StopPC
<1>21. CASE SetStop
  BY <1>21
  DEF SetStop, Step, LateInv, BoundedAfterStop, Bus, StartPC, LoopPC, StopPC
<1>22. CASE Join
  BY <1>22
  DEF Join, Step, AfterJoin, LateInv, BoundedAfterStop, Bus, StartPC, LoopPC,
      StopPC
<1>23. CASE SafeD1
  <2>1. late' = late
    BY <1>23, TeardownIsQuiet
  <2>2. stop' = stop /\ pc \in StopPC /\ pc' \in StopPC
    BY <1>23 DEF SafeD1, Step, StopPC
  <2> QED
    BY <2>1, <2>2 DEF LateInv, BoundedAfterStop, StartPC, LoopPC, StopPC
<1>24. CASE SafePiper
  <2>1. late' = late
    BY <1>24, TeardownIsQuiet
  <2>2. stop' = stop /\ pc \in StopPC /\ pc' \in StopPC
    BY <1>24 DEF SafePiper, Step, StopPC
  <2> QED
    BY <2>1, <2>2 DEF LateInv, BoundedAfterStop, StartPC, LoopPC, StopPC
<1>25. CASE EstopPiper
  <2>1. late' = late
    BY <1>25, TeardownIsQuiet
  <2>2. stop' = stop /\ pc \in StopPC /\ pc' \in StopPC
    BY <1>25 DEF EstopPiper, Step, StopPC
  <2> QED
    BY <2>1, <2>2 DEF LateInv, BoundedAfterStop, StartPC, LoopPC, StopPC
<1>26. CASE EstopD1
  <2>1. late' = late
    BY <1>26, TeardownIsQuiet
  <2>2. stop' = stop /\ pc \in StopPC /\ pc' \in StopPC
    BY <1>26 DEF EstopD1, Step, StopPC
  <2> QED
    BY <2>1, <2>2 DEF LateInv, BoundedAfterStop, StartPC, LoopPC, StopPC
<1>27. CASE CloseD1
  BY <1>27
  DEF CloseD1, Step, LateInv, BoundedAfterStop, Bus, StartPC, LoopPC, StopPC
<1>28. CASE ClosePiper
  BY <1>28
  DEF ClosePiper, Step, LateInv, BoundedAfterStop, Bus, StartPC, LoopPC, StopPC
<1>29. ASSUME NEW b \in Bus, ReaderCheck(b) PROVE LateInv'
  BY <1>29
  DEF ReaderCheck, LateInv, BoundedAfterStop, Bus, StartPC, LoopPC, StopPC
<1>30. ASSUME NEW b \in Bus, ReaderAcquire(b) PROVE LateInv'
  BY <1>30
  DEF ReaderAcquire, LateInv, BoundedAfterStop, Bus, StartPC, LoopPC, StopPC
<1>31. ASSUME NEW b \in Bus, ReaderReturn(b) PROVE LateInv'
  BY <1>31
  DEF ReaderReturn, LateInv, BoundedAfterStop, Bus, StartPC, LoopPC, StopPC
<1>32. CASE Signal
  BY <1>32 DEF Signal, LateInv, BoundedAfterStop, Bus, StartPC, LoopPC, StopPC
<1>33. CASE UNCHANGED vars
  BY <1>33 DEF vars, LateInv, BoundedAfterStop, Bus, StartPC, LoopPC, StopPC
<1> QED
  BY <1>1, <1>2, <1>3, <1>4, <1>5, <1>6, <1>7, <1>8, <1>9, <1>10, <1>11,
     <1>12, <1>13, <1>14, <1>15, <1>16, <1>17, <1>18, <1>19, <1>20, <1>21,
     <1>22, <1>23, <1>24, <1>25, <1>26, <1>27, <1>28, <1>29, <1>30, <1>31,
     <1>32, <1>33
  DEF Next, Main, Reader, Exited

\* Every step keeps ReportInv: a fault reaches the report before teardown, an
\* arm that was not stopped during it.
LEMMA ReportStep ==
  ASSUME TypeOK, ControlInv, ActuationGated, ReportInv, [Next]_vars
  PROVE  ReportInv'
<1> USE DEF mainVars, latchVars, readVars, connVars, robotVars, histVars
<1>1. CASE Launch
  BY <1>1 DEF Launch, Step, ReportInv, LoopPC, StopPC
<1>2. CASE Refuse
  <2>1. ~power
    BY <1>2 DEF ControlInv, ActuationGated, StartPC, Refuse, Step
  <2> QED
    BY <1>2, <2>1 DEF Refuse, Step, ReportInv
<1>3. CASE StartD1
  BY <1>3 DEF StartD1, Step, ReportInv, LoopPC, StopPC
<1>4. CASE StartPiper
  BY <1>4 DEF StartPiper, Step, ReportInv, LoopPC, StopPC
<1>5. CASE UndoD1
  BY <1>5 DEF UndoD1, Step, ReportInv, LoopPC, StopPC
<1>6. CASE UndoPiper
  BY <1>6 DEF UndoPiper, Step, Raise, ReportInv, LoopPC, StopPC
<1>7. CASE StartReaders
  BY <1>7 DEF StartReaders, Step, ReportInv, LoopPC, StopPC
<1>8. CASE WaitPoll
  BY <1>8 DEF WaitPoll, Step, ReadD1Box, ReportInv, LoopPC, StopPC
<1>9. CASE WaitCheck
  BY <1>9 DEF WaitCheck, AfterGate, ReportInv, LoopPC, StopPC
<1>10. CASE WaitExpire
  BY <1>10 DEF WaitExpire, Step, Raise, ReportInv, LoopPC, StopPC
<1>11. CASE ForceDirect
  BY <1>11 DEF ForceDirect, Step, Raise, ReportInv, LoopPC, StopPC
<1>12. CASE EnablePiper
  BY <1>12 DEF EnablePiper, Step, Raise, ReportInv, LoopPC, StopPC
<1>13. CASE LoopExit
  <2>1. fault = ""
    BY <1>13 DEF ControlInv, LoopExit, Step, LoopPC
  <2> QED
    BY <1>13, <2>1 DEF LoopExit, Step, ReportInv
<1>14. CASE LoopTurn
  BY <1>14 DEF LoopTurn, Step, Raise, LoopCondition, ReportInv, LoopPC, StopPC
<1>15. CASE PolicyRead
  BY <1>15 DEF PolicyRead, Step, ReadD1Box, ReportInv, LoopPC, StopPC
<1>16. CASE PolicyCheck
  BY <1>16 DEF PolicyCheck, Step, Raise, Halt, ReportInv, LoopPC, StopPC
<1>17. CASE CommandRead
  BY <1>17 DEF CommandRead, Step, ReadD1Box, ReportInv, LoopPC, StopPC
<1>18. CASE CommandCheck
  BY <1>18 DEF CommandCheck, Halt, ReportInv, LoopPC, StopPC
<1>19. CASE SendD1
  BY <1>19 DEF SendD1, Step, Halt, ReportInv, LoopPC, StopPC
<1>20. CASE SendPiper
  BY <1>20 DEF SendPiper, Step, Halt, ReportInv, LoopPC, StopPC
<1>21. CASE SetStop
  BY <1>21 DEF SetStop, Step, ReportInv, LoopPC, StopPC
<1>22. CASE Join
  <2>1. ~opt["send"] => ~power
    BY DEF ActuationGated
  <2> QED
    BY <1>22, <2>1 DEF Join, AfterJoin, Step, ReportInv, StopPC
<1>23. CASE SafeD1
  BY <1>23 DEF SafeD1, Step, ReportInv, LoopPC, StopPC
<1>24. CASE SafePiper
  BY <1>24 DEF SafePiper, Step, ReportIfNone, ReportInv, LoopPC, StopPC
<1>25. CASE EstopPiper
  BY <1>25 DEF EstopPiper, Step, ReportIfNone, ReportInv, LoopPC, StopPC
<1>26. CASE EstopD1
  BY <1>26 DEF EstopD1, Step, ReportInv, LoopPC, StopPC
<1>27. CASE CloseD1
  BY <1>27 DEF CloseD1, Step, ReportIfNone, ReportInv, LoopPC, StopPC
<1>28. CASE ClosePiper
  BY <1>28 DEF ClosePiper, Step, ReportIfNone, ReportInv, LoopPC, StopPC
<1>29. ASSUME NEW b \in Bus, ReaderCheck(b) PROVE ReportInv'
  BY <1>29 DEF ReaderCheck, ReportInv, LoopPC, StopPC
<1>30. ASSUME NEW b \in Bus, ReaderAcquire(b) PROVE ReportInv'
  BY <1>30 DEF ReaderAcquire, ReportInv, LoopPC, StopPC
<1>31. ASSUME NEW b \in Bus, ReaderReturn(b) PROVE ReportInv'
  BY <1>31 DEF ReaderReturn, ReportInv, LoopPC, StopPC
<1>32. CASE Signal
  BY <1>32 DEF Signal, ReportInv, LoopPC, StopPC
<1>33. CASE UNCHANGED vars
  BY <1>33 DEF vars, ReportInv, LoopPC, StopPC
<1> QED
  BY <1>1, <1>2, <1>3, <1>4, <1>5, <1>6, <1>7, <1>8, <1>9, <1>10, <1>11,
     <1>12, <1>13, <1>14, <1>15, <1>16, <1>17, <1>18, <1>19, <1>20, <1>21,
     <1>22, <1>23, <1>24, <1>25, <1>26, <1>27, <1>28, <1>29, <1>30, <1>31,
     <1>32, <1>33
  DEF Next, Main, Reader, Exited

\* Every step keeps PreparedInv: the policy takes over a prepared robot only.
LEMMA PreparedStep ==
  ASSUME TypeOK, ControlInv, PreparedInv, [Next]_vars
  PROVE  PreparedInv'
<1> USE DEF mainVars, latchVars, readVars, connVars, robotVars, histVars
<1>1. CASE Launch
  <2>1. opt["send"] => startup' = "wait_state" /\ pc' = "start_d1"
    BY <1>1 DEF Launch, Accepted, StartupReset, Step
  <2>2. UNCHANGED <<opt, policyNs, commandNs>>
    BY <1>1 DEF Launch
  <2> QED
    BY <2>1, <2>2 DEF PreparedInv, Prepared, LoopPC
<1>2. CASE Refuse
  BY <1>2 DEF Refuse, Step, PreparedInv, Prepared, LoopPC
<1>3. CASE StartD1
  BY <1>3 DEF StartD1, Step, PreparedInv, Prepared, LoopPC
<1>4. CASE StartPiper
  BY <1>4 DEF StartPiper, Step, PreparedInv, Prepared, LoopPC
<1>5. CASE UndoD1
  BY <1>5 DEF UndoD1, Step, PreparedInv, Prepared, LoopPC
<1>6. CASE UndoPiper
  BY <1>6 DEF UndoPiper, Step, Raise, PreparedInv, Prepared, LoopPC
<1>7. CASE StartReaders
  BY <1>7 DEF StartReaders, Step, PreparedInv, Prepared, LoopPC
<1>8. CASE WaitPoll
  BY <1>8 DEF WaitPoll, Step, ReadD1Box, PreparedInv, Prepared, LoopPC
<1>9. CASE WaitCheck
  <2>1. ~policyNs /\ UNCHANGED <<opt, policyNs, startup, commandNs>>
    BY <1>9 DEF WaitCheck, ControlInv, StartPC
  <2>2. pc = "wait_check" /\ pc' \in {"wait", "loop", "force", "enable"}
    BY <1>9 DEF WaitCheck, AfterGate
  <2> QED
    BY <2>1, <2>2 DEF PreparedInv
<1>10. CASE WaitExpire
  BY <1>10 DEF WaitExpire, Step, Raise, PreparedInv, Prepared, LoopPC
<1>11. CASE ForceDirect
  <2>1. pc = "force" /\ pc' \in {"enable", "stop"}
    BY <1>11 DEF ForceDirect, Step, Raise
  <2> QED
    BY <1>11, <2>1 DEF ForceDirect, PreparedInv, Prepared, LoopPC
<1>12. CASE EnablePiper
  <2>1. ~policyNs /\ pc = "enable" /\ pc' \in {"loop", "stop"}
    BY <1>12 DEF EnablePiper, Step, Raise, ControlInv
  <2> QED
    BY <1>12, <2>1 DEF EnablePiper, PreparedInv
<1>13. CASE LoopExit
  BY <1>13 DEF LoopExit, Step, PreparedInv, Prepared, LoopPC
<1>14. CASE LoopTurn
  BY <1>14
  DEF LoopTurn, Step, Raise, LoopCondition, PreparedInv, Prepared, LoopPC
<1>15. CASE PolicyRead
  BY <1>15 DEF PolicyRead, Step, ReadD1Box, PreparedInv, Prepared, LoopPC
<1>16. CASE PolicyCheck
  <2>1. pc = "policy_check" /\ UNCHANGED <<opt, commandNs, frame>>
    BY <1>16 DEF PolicyCheck
  <2>2. CASE pc' = "stop" /\ UNCHANGED <<policyNs, startup>>
    BY <2>1, <2>2 DEF PreparedInv
  <2>3. CASE /\ policyNs' /\ (pc' = "command" \/ (commandNs /\ pc' = "loop"))
             /\ cmd' = "prep" \/ startup = "policy"
    BY <2>1, <2>3 DEF PreparedInv, Prepared
  <2> QED
    BY <1>16, <2>2, <2>3 DEF PolicyCheck, Halt, Raise, Step
<1>17. CASE CommandRead
  BY <1>17 DEF CommandRead, Step, ReadD1Box, PreparedInv, Prepared, LoopPC
<1>18. CASE CommandCheck
  <2>1. policyNs /\ pc = "command_check"
    BY <1>18 DEF CommandCheck, ControlInv
  <2>2. pc' \in {"stop", "send_d1"} \/ ~opt["send"]
    BY <1>18 DEF CommandCheck, Halt
  <2>3. UNCHANGED <<opt, startup, policyNs, cmd, frame>>
    BY <1>18 DEF CommandCheck
  <2> QED
    BY <2>1, <2>2, <2>3 DEF PreparedInv, Prepared
<1>19. CASE SendD1
  <2>1. frame \in [Bus -> Frames]
    BY DEF TypeOK
  <2>2. Deliver("d1", cmd) \/ frame' = frame
    BY <1>19 DEF SendD1, MaybeDeliver, Undelivered
  <2>3. policyNs /\ cmd \in {"prep", "act"}
    BY <1>19 DEF SendD1, Step, ControlInv, TypeOK
  <2>4. Prepared("d1") => Prepared("d1")'
    BY <2>1, <2>2, <2>3 DEF Deliver, Prepared, Bus
  <2>5. Prepared("piper") => Prepared("piper")'
    BY <2>1, <2>2 DEF Deliver, Prepared, Bus
  <2>6. pc' = "send_piper" => Prepared("d1")'
    BY <1>19, <2>1, <2>3 DEF SendD1, Step, Deliver, Halt, Prepared, Bus
  <2>7. pc = "send_d1" /\ pc' \in {"send_piper", "send_piper_rejected", "stop"}
    BY <1>19 DEF SendD1, Step, Halt
  <2>8. UNCHANGED <<opt, startup, policyNs, commandNs, cmd>>
    BY <1>19 DEF SendD1
  <2> QED
    BY <2>3, <2>4, <2>5, <2>6, <2>7, <2>8
    DEF PreparedInv, Prepared, LoopPC, Bus
<1>20. CASE SendPiper
  <2>1. frame \in [Bus -> Frames]
    BY DEF TypeOK
  <2>2. cmd \in {"prep", "act"}
    BY <1>20 DEF SendPiper, Step, ControlInv, TypeOK
  <2>3. pc' = "loop" => pc = "send_piper" /\ Deliver("piper", cmd)
    BY <1>20 DEF SendPiper, Step, Halt
  <2>4. pc' = "loop" => /\ Prepared("piper")'
                        /\ Prepared("d1") => Prepared("d1")'
    BY <2>1, <2>2, <2>3 DEF Deliver, Prepared, Bus
  <2>5. /\ pc \in {"send_piper", "send_piper_rejected"}
        /\ pc' \in {"loop", "stop"}
    BY <1>20 DEF SendPiper, Step, Halt
  <2>6. policyNs /\ UNCHANGED <<opt, startup, policyNs, commandNs, cmd>>
    BY <1>20 DEF SendPiper, Step, ControlInv
  <2> QED
    BY <2>3, <2>4, <2>5, <2>6 DEF PreparedInv, Prepared, LoopPC, Bus
<1>21. CASE SetStop
  BY <1>21 DEF SetStop, Step, PreparedInv, Prepared, LoopPC
<1>22. CASE Join
  BY <1>22 DEF Join, AfterJoin, Step, PreparedInv, Prepared, LoopPC
<1>23. CASE SafeD1
  <2>1. pc \in StopPC /\ pc' \in StopPC
    BY <1>23 DEF SafeD1, Step, StopPC
  <2> QED
    BY <1>23, <2>1 DEF SafeD1, PreparedInv, Prepared, StopPC, LoopPC
<1>24. CASE SafePiper
  <2>1. pc \in StopPC /\ pc' \in StopPC
    BY <1>24 DEF SafePiper, Step, StopPC
  <2> QED
    BY <1>24, <2>1 DEF SafePiper, PreparedInv, Prepared, StopPC, LoopPC
<1>25. CASE EstopPiper
  <2>1. pc \in StopPC /\ pc' \in StopPC
    BY <1>25 DEF EstopPiper, Step, StopPC
  <2> QED
    BY <1>25, <2>1 DEF EstopPiper, PreparedInv, Prepared, StopPC, LoopPC
<1>26. CASE EstopD1
  <2>1. pc \in StopPC /\ pc' \in StopPC
    BY <1>26 DEF EstopD1, Step, StopPC
  <2> QED
    BY <1>26, <2>1 DEF EstopD1, PreparedInv, Prepared, StopPC, LoopPC
<1>27. CASE CloseD1
  BY <1>27 DEF CloseD1, Step, PreparedInv, Prepared, LoopPC
<1>28. CASE ClosePiper
  BY <1>28 DEF ClosePiper, Step, PreparedInv, Prepared, LoopPC
<1>29. ASSUME NEW b \in Bus, ReaderCheck(b) PROVE PreparedInv'
  BY <1>29 DEF ReaderCheck, PreparedInv, Prepared, LoopPC
<1>30. ASSUME NEW b \in Bus, ReaderAcquire(b) PROVE PreparedInv'
  BY <1>30 DEF ReaderAcquire, PreparedInv, Prepared, LoopPC
<1>31. ASSUME NEW b \in Bus, ReaderReturn(b) PROVE PreparedInv'
  BY <1>31 DEF ReaderReturn, PreparedInv, Prepared, LoopPC
<1>32. CASE Signal
  BY <1>32 DEF Signal, PreparedInv, Prepared, LoopPC
<1>33. CASE UNCHANGED vars
  BY <1>33 DEF vars, PreparedInv, Prepared, LoopPC
<1> QED
  BY <1>1, <1>2, <1>3, <1>4, <1>5, <1>6, <1>7, <1>8, <1>9, <1>10, <1>11,
     <1>12, <1>13, <1>14, <1>15, <1>16, <1>17, <1>18, <1>19, <1>20, <1>21,
     <1>22, <1>23, <1>24, <1>25, <1>26, <1>27, <1>28, <1>29, <1>30, <1>31,
     <1>32, <1>33
  DEF Next, Main, Reader, Exited

-----------------------------------------------------------------------------
(* Steps of the action properties *)

\* Only these steps change the safety latch.
LEMMA LatchingSteps ==
  ASSUME [Next]_vars
  PROVE  \/ UNCHANGED fault
         \/ WaitCheck \/ PolicyCheck \/ CommandRead \/ CommandCheck
         \/ SendD1 \/ SendPiper
BY DEF Next, Main, Reader, Exited, Launch, Refuse, StartD1, StartPiper, UndoD1,
       UndoPiper, StartReaders, WaitPoll, WaitExpire, ForceDirect, EnablePiper,
       LoopExit, LoopTurn, PolicyRead, SetStop, Join, SafeD1, SafePiper,
       EstopPiper, EstopD1, CloseD1, ClosePiper, ReaderCheck, ReaderAcquire,
       ReaderReturn, Signal, vars, latchVars

\* A step taken with the latch set keeps it set and moves nothing.
LEMMA LatchedStep ==
  ASSUME TypeOK, ControlInv, [Next]_vars, fault # ""
  PROVE  /\ fault' # ""
         /\ power' => power
         /\ \A b \in Bus : frame'[b] \in {frame[b]} \cup Quiet
<1>1. pc \notin LoopPC \ {"command_check"}
  BY DEF ControlInv
<1>2. ~(ForceDirect \/ EnablePiper \/ SendD1 \/ SendPiper \/ PolicyCheck)
  BY <1>1 DEF ForceDirect, EnablePiper, SendD1, SendPiper, PolicyCheck, Step,
              Raise, LoopPC
<1>3. fault' # ""
  <2>1. CASE WaitCheck
    BY <2>1, VerdictsOutcome DEF WaitCheck
  <2>2. CASE CommandCheck
    <3>1. "" \notin CommandVerdicts
      BY DEF CommandVerdicts, Verdicts
    <3> QED
      BY <2>2, <3>1 DEF CommandCheck, Halt
  <2>3. CASE CommandRead
    BY <2>3 DEF CommandRead
  <2> QED
    BY <2>1, <2>2, <2>3, <1>2, LatchingSteps
<1>4. CASE SafeD1 \/ SafePiper \/ EstopPiper \/ EstopD1
  BY <1>3, <1>4, TeardownIsQuiet
<1>5. CASE UNCHANGED <<frame, power, late>>
  BY <1>3, <1>5
<1> QED
  BY <1>2, <1>4, <1>5, ActuatingSteps

\* A step that leaves a bus on a policy command found it prepared.
LEMMA PreparedFirst ==
  ASSUME TypeOK, ControlInv, ActuationGated, PreparedInv, [Next]_vars,
         NEW b \in Bus, frame'[b] = "act"
  PROVE  frame[b] \in {"prep", "act"}
<1>1. frame \in [Bus -> Frames]
  BY DEF TypeOK
<1>2. CASE SendD1 \/ SendPiper
  <2>1. /\ pc \in {"send_d1", "send_piper", "send_piper_rejected"}
        /\ opt["send"]
        /\ frame' = frame \/ \E c \in Bus : Deliver(c, cmd)
    BY <1>2 DEF SendD1, SendPiper, Step, MaybeDeliver, Undelivered, ControlInv,
                Bus
  <2>2. CASE cmd = "act"
    BY <2>1, <2>2 DEF PreparedInv, Prepared
  <2>3. CASE cmd # "act"
    BY <1>1, <2>1, <2>3 DEF Deliver
  <2> QED
    BY <2>2, <2>3
<1>3. CASE ForceDirect \/ EnablePiper
  BY <1>1, <1>3
  DEF ForceDirect, EnablePiper, MaybeDeliver, Undelivered, Deliver,
                    Bus
<1>4. CASE SafeD1 \/ SafePiper \/ EstopPiper \/ EstopD1
  BY <1>4, TeardownIsQuiet DEF Quiet
<1> QED
  BY <1>2, <1>3, <1>4, ActuatingSteps

-----------------------------------------------------------------------------
(* Steps of the contract *)

\* The moves of the abstract phase.
PhaseMoves ==
  \/ phase' = phase
  \/ phase = "closed" /\ phase' \in {"live", "stopping", "released"}
  \/ phase = "live" /\ phase' = "stopping"
  \/ phase = "stopping" /\ phase' = "released"

\* Every step moves the abstract phase forward or leaves it.
LEMMA PhaseStep ==
  ASSUME TypeOK, ControlInv, [Next]_vars
  PROVE  PhaseMoves
<1> USE DEF mainVars, latchVars, readVars, connVars, robotVars, histVars
<1>1. CASE Launch
  BY <1>1 DEF Launch, Step, PhaseMoves, phase, LoopPC, StopPC
<1>2. CASE Refuse
  BY <1>2 DEF Refuse, Step, PhaseMoves, phase, LoopPC, StopPC
<1>3. CASE StartD1
  BY <1>3 DEF StartD1, Step, PhaseMoves, phase, LoopPC, StopPC
<1>4. CASE StartPiper
  BY <1>4 DEF StartPiper, Step, PhaseMoves, phase, LoopPC, StopPC
<1>5. CASE UndoD1
  BY <1>5 DEF UndoD1, Step, PhaseMoves, phase, LoopPC, StopPC
<1>6. CASE UndoPiper
  BY <1>6 DEF UndoPiper, Step, Raise, PhaseMoves, phase, LoopPC, StopPC
<1>7. CASE StartReaders
  BY <1>7 DEF StartReaders, Step, PhaseMoves, phase, LoopPC, StopPC
<1>8. CASE WaitPoll
  BY <1>8 DEF WaitPoll, Step, ReadD1Box, PhaseMoves, phase, LoopPC, StopPC
<1>9. CASE WaitCheck
  <2>1. pc = "wait_check" /\ pc' \in {"wait"} \cup LoopPC
    BY <1>9 DEF WaitCheck, AfterGate, LoopPC
  <2>2. (pc' # "wait" => fault' = "") /\ (fault # "" => fault' # "")
    BY <1>9, VerdictsOutcome DEF WaitCheck
  <2> QED
    BY <2>1, <2>2 DEF PhaseMoves, phase, LoopPC, StopPC
<1>10. CASE WaitExpire
  BY <1>10 DEF WaitExpire, Step, Raise, PhaseMoves, phase, LoopPC, StopPC
<1>11. CASE ForceDirect
  <2>1. pc \in LoopPC /\ fault = ""
    BY <1>11 DEF ForceDirect, Step, Raise, ControlInv, LoopPC
  <2>2. pc' \in LoopPC \cup {"stop"}
    BY <1>11 DEF ForceDirect, Step, Raise, Halt, LoopPC, StopPC
  <2> QED
    BY <2>1, <2>2 DEF PhaseMoves, phase, LoopPC, StopPC
<1>12. CASE EnablePiper
  <2>1. pc \in LoopPC /\ fault = ""
    BY <1>12 DEF EnablePiper, Step, Raise, ControlInv, LoopPC
  <2>2. pc' \in LoopPC \cup {"stop"}
    BY <1>12 DEF EnablePiper, Step, Raise, Halt, LoopPC, StopPC
  <2> QED
    BY <2>1, <2>2 DEF PhaseMoves, phase, LoopPC, StopPC
<1>13. CASE LoopExit
  <2>1. pc \in LoopPC /\ fault = ""
    BY <1>13 DEF LoopExit, Step, Raise, ControlInv, LoopPC
  <2>2. pc' \in LoopPC \cup {"stop"}
    BY <1>13 DEF LoopExit, Step, Raise, Halt, LoopPC, StopPC
  <2> QED
    BY <2>1, <2>2 DEF PhaseMoves, phase, LoopPC, StopPC
<1>14. CASE LoopTurn
  <2>1. pc \in LoopPC /\ fault = ""
    BY <1>14 DEF LoopTurn, Step, Raise, ControlInv, LoopPC
  <2>2. pc' \in LoopPC \cup {"stop"}
    BY <1>14 DEF LoopTurn, Step, Raise, Halt, LoopPC, StopPC
  <2> QED
    BY <2>1, <2>2 DEF PhaseMoves, phase, LoopPC, StopPC
<1>15. CASE PolicyRead
  <2>1. pc \in LoopPC /\ fault = ""
    BY <1>15 DEF PolicyRead, ReadD1Box, Step, Raise, ControlInv, LoopPC
  <2>2. pc' \in LoopPC \cup {"stop"}
    BY <1>15 DEF PolicyRead, ReadD1Box, Step, Raise, Halt, LoopPC, StopPC
  <2> QED
    BY <2>1, <2>2 DEF PhaseMoves, phase, LoopPC, StopPC
<1>16. CASE PolicyCheck
  <2>1. pc \in LoopPC /\ fault = ""
    BY <1>16 DEF PolicyCheck, Step, Raise, ControlInv, LoopPC
  <2>2. pc' \in LoopPC \cup {"stop"}
    BY <1>16 DEF PolicyCheck, Step, Raise, Halt, LoopPC, StopPC
  <2> QED
    BY <2>1, <2>2 DEF PhaseMoves, phase, LoopPC, StopPC
<1>17. CASE CommandRead
  <2>1. pc \in LoopPC /\ fault = ""
    BY <1>17 DEF CommandRead, ReadD1Box, Step, Raise, ControlInv, LoopPC
  <2>2. pc' \in LoopPC \cup {"stop"}
    BY <1>17 DEF CommandRead, ReadD1Box, Step, Raise, Halt, LoopPC, StopPC
  <2> QED
    BY <2>1, <2>2 DEF PhaseMoves, phase, LoopPC, StopPC
<1>18. CASE CommandCheck
  <2>1. pc = "command_check" /\ pc' \in LoopPC \cup {"stop"}
    BY <1>18 DEF CommandCheck, Halt, LoopPC
  <2>2. "" \in CommandVerdicts => fault = ""
    BY DEF CommandVerdicts, Verdicts
  <2>3. pc' # "stop" => fault = "" /\ fault' = ""
    BY <1>18, <2>2 DEF CommandCheck, Halt
  <2> QED
    BY <2>1, <2>3 DEF PhaseMoves, phase, LoopPC, StopPC
<1>19. CASE SendD1
  <2>1. pc \in LoopPC /\ fault = ""
    BY <1>19 DEF SendD1, Step, Raise, ControlInv, LoopPC
  <2>2. pc' \in LoopPC \cup {"stop"}
    BY <1>19 DEF SendD1, Step, Raise, Halt, LoopPC, StopPC
  <2> QED
    BY <2>1, <2>2 DEF PhaseMoves, phase, LoopPC, StopPC
<1>20. CASE SendPiper
  <2>1. pc \in LoopPC /\ fault = ""
    BY <1>20 DEF SendPiper, Step, Raise, ControlInv, LoopPC
  <2>2. pc' \in LoopPC \cup {"stop"}
    BY <1>20 DEF SendPiper, Step, Raise, Halt, LoopPC, StopPC
  <2> QED
    BY <2>1, <2>2 DEF PhaseMoves, phase, LoopPC, StopPC
<1>21. CASE SetStop
  BY <1>21 DEF SetStop, Step, PhaseMoves, phase, LoopPC, StopPC
<1>22. CASE Join
  BY <1>22 DEF Join, Step, AfterJoin, PhaseMoves, phase, LoopPC, StopPC
<1>23. CASE SafeD1
  BY <1>23 DEF SafeD1, Step, PhaseMoves, phase, LoopPC, StopPC
<1>24. CASE SafePiper
  BY <1>24 DEF SafePiper, Step, PhaseMoves, phase, LoopPC, StopPC
<1>25. CASE EstopPiper
  BY <1>25 DEF EstopPiper, Step, PhaseMoves, phase, LoopPC, StopPC
<1>26. CASE EstopD1
  BY <1>26 DEF EstopD1, Step, PhaseMoves, phase, LoopPC, StopPC
<1>27. CASE CloseD1
  BY <1>27 DEF CloseD1, Step, PhaseMoves, phase, LoopPC, StopPC
<1>28. CASE ClosePiper
  BY <1>28 DEF ClosePiper, Step, PhaseMoves, phase, LoopPC, StopPC
<1>29. ASSUME NEW b \in Bus, ReaderCheck(b) PROVE PhaseMoves
  BY <1>29 DEF ReaderCheck, PhaseMoves, phase, LoopPC, StopPC
<1>30. ASSUME NEW b \in Bus, ReaderAcquire(b) PROVE PhaseMoves
  BY <1>30 DEF ReaderAcquire, PhaseMoves, phase, LoopPC, StopPC
<1>31. ASSUME NEW b \in Bus, ReaderReturn(b) PROVE PhaseMoves
  BY <1>31 DEF ReaderReturn, PhaseMoves, phase, LoopPC, StopPC
<1>32. CASE Signal
  BY <1>32 DEF Signal, PhaseMoves, phase, LoopPC, StopPC
<1>33. CASE UNCHANGED vars
  BY <1>33 DEF vars, PhaseMoves, phase, LoopPC, StopPC
<1> QED
  BY <1>1, <1>2, <1>3, <1>4, <1>5, <1>6, <1>7, <1>8, <1>9, <1>10, <1>11,
     <1>12, <1>13, <1>14, <1>15, <1>16, <1>17, <1>18, <1>19, <1>20, <1>21,
     <1>22, <1>23, <1>24, <1>25, <1>26, <1>27, <1>28, <1>29, <1>30, <1>31,
     <1>32, <1>33
  DEF Next, Main, Reader, Exited

\* Every step is a step of the contract or leaves its variables alone.
LEMMA ContractStep ==
  ASSUME TypeOK, ControlInv, [Next]_vars
  PROVE  [Contract!Next]_(Contract!vars)
<1> USE DEF Contract!Next, Contract!vars
<1>1. CASE UNCHANGED <<frame, power, late>>
  BY <1>1, PhaseStep
  DEF PhaseMoves, Contract!GoLive, Contract!Halt, Contract!Release
<1>2. CASE ForceDirect \/ EnablePiper \/ SendD1 \/ SendPiper
  <2>1. pc \in LoopPC /\ fault = "" /\ pc' \in LoopPC \cup {"stop"}
    BY <1>2 DEF ForceDirect, EnablePiper, SendD1, SendPiper, Step, Raise, Halt,
                ControlInv, LoopPC
  <2>2. phase = "live" /\ phase' \in {"live", "stopping"}
    BY <2>1 DEF phase, LoopPC, StopPC
  <2>3. CASE frame' = frame
    <3>1. power' \in {power, TRUE}
      BY <1>2, Zenon DEF ForceDirect, EnablePiper, SendD1, SendPiper
    <3> QED
      BY <2>2, <2>3, <3>1 DEF Contract!Drive
  <2>4. CASE frame' # frame
    <3>1. UNCHANGED power
      BY <1>2, <2>4 DEF ForceDirect, EnablePiper, SendD1, SendPiper
    <3>2. \E b \in Bus, f \in Active : Deliver(b, f)
      <4>1. CASE ForceDirect
        BY <4>1, <2>4 DEF ForceDirect, MaybeDeliver, Undelivered, Active, Bus
      <4>2. CASE SendD1 \/ SendPiper
        <5>1. cmd \in Active
          BY <4>2 DEF SendD1, SendPiper, Step, ControlInv, TypeOK, Active
        <5> QED
          BY <4>2, <5>1, <2>4
          DEF SendD1, SendPiper, MaybeDeliver, Undelivered, Bus
      <4> QED
        BY <1>2, <2>4, <4>1, <4>2 DEF EnablePiper
    <3> QED
      BY <2>2, <3>1, <3>2 DEF Contract!Drive, Contract!Reach, Deliver
  <2> QED
    BY <2>3, <2>4
<1>3. CASE SafeD1 \/ SafePiper \/ EstopPiper \/ EstopD1
  <2>1. pc \in StopPC /\ pc' \in StopPC
    BY <1>3 DEF SafeD1, SafePiper, EstopPiper, EstopD1, Step, StopPC
  <2>2. phase = "stopping" /\ UNCHANGED phase
    BY <2>1 DEF phase, StopPC
  <2>3. power' \in {power, FALSE}
    BY <1>3 DEF SafeD1, SafePiper, EstopPiper, EstopD1
  <2>4. \/ UNCHANGED <<frame, power>>
        \/ \E b \in Bus, f \in Quiet : Deliver(b, f)
    BY <1>3 DEF SafeD1, SafePiper, EstopPiper, EstopD1, MaybeDeliver,
                ZeroCommand, Undelivered, Bus, Quiet
  <2> QED
    BY <2>2, <2>3, <2>4 DEF Contract!Quieten, Contract!Reach, Deliver
<1> QED
  BY <1>1, <1>2, <1>3, ActuatingSteps

-----------------------------------------------------------------------------
(* The theorems *)

\* The initial states satisfy the inductive invariant.
LEMMA InitInv == Init => IInv
<1> SUFFICES ASSUME Init PROVE IInv
  OBVIOUS
<1>1. TypeOK
  BY InitType
<1>2. ControlInv /\ ReportInv /\ PreparedInv
  BY DEF Init, ControlInv, ReportInv, PreparedInv, StartPC, LoopPC, StopPC
<1>3. ActuationGated /\ LateInv
  <2>1. /\ ~power /\ ~stop /\ pc = "launch"
        /\ \A b \in Bus : late[b] = 0 /\ frame[b] = "none"
    BY DEF Init
  <2> QED
    BY <2>1 DEF ActuationGated, LateInv, BoundedAfterStop, LoopPC, Active, Bus
<1>4. OwnershipInv
  BY DEF Init, OwnershipInv, Owned, LoopPC, Bus
<1>5. TeardownInv
  BY DEF Init, TeardownInv, DisarmBeforeRelease
<1> QED
  BY <1>1, <1>2, <1>3, <1>4, <1>5 DEF IInv

\* The inductive invariant holds in every state of every run.
THEOREM Inductive == Spec => []IInv
<1>1. IInv /\ [Next]_vars => IInv'
  <2> SUFFICES ASSUME IInv, [Next]_vars PROVE IInv'
    OBVIOUS
  <2>1. /\ TypeOK /\ ControlInv /\ ActuationGated /\ OwnershipInv
        /\ TeardownInv /\ LateInv /\ ReportInv /\ PreparedInv
    BY DEF IInv
  <2>2. TypeOK' /\ ControlInv' /\ ActuationGated' /\ OwnershipInv'
    BY <2>1, TypeStep, ControlStep, ActuationStep, OwnershipStep
  <2>3. TeardownInv' /\ LateInv' /\ ReportInv' /\ PreparedInv'
    BY <2>1, TeardownStep, LateStep, ReportStep, PreparedStep
  <2> QED
    BY <2>2, <2>3 DEF IInv
<1> QED
  BY InitInv, <1>1, PTL DEF Spec

\* Nothing moves the robot or powers the arm outside a --send run with every
\* opt-in given and the feedback gate passed.
THEOREM ActuationIsGated == Spec => []ActuationGated
<1>1. IInv => ActuationGated
  BY DEF IInv
<1> QED
  BY Inductive, <1>1, PTL

\* Each bus gets at most one active frame after the operator's stop.
THEOREM StopIsBounded == Spec => []BoundedAfterStop
<1>1. IInv => BoundedAfterStop
  BY DEF IInv, LateInv
<1> QED
  BY Inductive, <1>1, PTL

\* A powered arm's driver is not released before an emergency stop was tried.
THEOREM ArmIsDisarmed == Spec => []DisarmBeforeRelease
<1>1. IInv => DisarmBeforeRelease
  BY DEF IInv, TeardownInv
<1> QED
  BY Inductive, <1>1, PTL

\* Every driver is closed once on every path out of the process.
THEOREM DriversAreClosedOnce == Spec => []DriversClosedOnce
<1>1. IInv => DriversClosedOnce
  <2> SUFFICES ASSUME IInv PROVE DriversClosedOnce
    OBVIOUS
  <2>1. OwnershipInv /\ conn \in [Bus -> BOOLEAN]
    BY DEF IInv, TypeOK
  <2>2. \A b \in Bus : handle[b] # "closed twice"
    BY <2>1 DEF OwnershipInv, Owned
  <2>3. pc = "exit" => \A b \in Bus : ~conn[b] /\ handle[b] # "open"
    BY <2>1 DEF OwnershipInv, Owned, Bus
  <2> QED
    BY <2>2, <2>3 DEF DriversClosedOnce
<1> QED
  BY Inductive, <1>1, PTL

\* A latched fault or an arm left energised reaches the exit status.
THEOREM FaultsAreReported == Spec => []FaultReachesExitStatus
<1>1. IInv => FaultReachesExitStatus
  BY DEF IInv, ReportInv, FaultReachesExitStatus, StopPC
<1> QED
  BY Inductive, <1>1, PTL

\* Once the latch is set nothing moves, powers or clears.
THEOREM LatchIsFinal == Spec => LatchSilences
<1>1. IInv /\ [Next]_vars =>
        [fault # "" =>
           /\ fault' # ""
           /\ power' => power
           /\ \A b \in Bus : frame'[b] \in {frame[b]} \cup Quiet]_vars
  BY LatchedStep DEF IInv
<1> QED
  BY Inductive, <1>1, PTL DEF Spec, LatchSilences

\* The policy commands a bus only after the preparation did.
THEOREM PolicyIsPrepared == Spec => PreparedBeforePolicy
<1>1. IInv /\ [Next]_vars =>
        [\A b \in Bus : frame'[b] = "act" => frame[b] \in {"prep", "act"}]_vars
  BY PreparedFirst DEF IInv
<1> QED
  BY Inductive, <1>1, PTL DEF Spec, PreparedBeforePolicy

\* The runtime implements the actuator contract.
THEOREM Refinement == Spec => ContractSpec
<1>1. Init => Contract!Init
  BY DEF Init, Contract!Init, phase, StopPC, LoopPC
<1>2. IInv /\ [Next]_vars => [Contract!Next]_(Contract!vars)
  BY ContractStep DEF IInv
<1> QED
  BY Inductive, <1>1, <1>2, PTL DEF Spec, ContractSpec, Contract!Spec

-----------------------------------------------------------------------------
(* A stop that ends: the liveness that needs the inductive invariant *)

\* The arm's emergency stop was issued.
ArmStopTried == "piper_estop" \in attempts

\* The motors lose their power by that stop only.
LEMMA PowerStep ==
  ASSUME TypeOK, [Next]_vars
  PROVE  power => power' \/ ArmStopTried'
<1>1. CASE EnablePiper
  BY <1>1 DEF EnablePiper, TypeOK
<1>2. CASE EstopPiper
  BY <1>2 DEF EstopPiper, ArmStopTried
<1>3. CASE UNCHANGED power
  BY <1>3
<1>4. ForceDirect \/ SendD1 \/ SendPiper \/ SafeD1 \/ SafePiper \/ EstopD1
        => UNCHANGED power
  BY DEF ForceDirect, SendD1, SendPiper, SafeD1, SafePiper, EstopD1
<1> QED
  BY <1>1, <1>2, <1>3, <1>4, ActuatingSteps

\* The comment that hung_can0 refutes holds once no bus hangs: an arm that is
\* powered when a stop is asked for is given its emergency stop, whatever else
\* fails on either bus (_safe_send, stop_and_disconnect).
THEOREM PiperIsStopped ==
  ASSUME Hanging = {}
  PROVE  FairSpec /\ []OnlyLocksBlock => PiperStopIndependent
<1>1. IInv /\ pc = "exit" /\ power => ArmStopTried
  BY DEF IInv, OwnershipInv, TeardownInv, DisarmBeforeRelease, ArmStopTried
<1>2. IInv /\ [Next]_vars => (power => power' \/ ArmStopTried')
  BY PowerStep DEF IInv
<1>3. "piper_estop" \in attempts <=> ArmStopTried
  BY DEF ArmStopTried
<1> QED
  BY <1>1, <1>2, <1>3, StopCompletes, Inductive, PTL
  DEF FairSpec, Spec, StopReleasesBuses, PiperStopIndependent

\* Where the main thread may be with the latch set, with a fault reported, and
\* with the stop event clear.
StoppingInv ==
  /\ pc \in StartPC \ {"wait", "wait_check"} => fault = ""
  /\ pc \in StopPC \ {"stop"} => stop
  /\ pc \in StartPC \cup LoopPC => lastFault = ""

\* The latch is first touched by the gate, a fault is reported by the step that
\* leaves the loop, and teardown begins with the event.
LEMMA StoppingStep ==
  ASSUME StoppingInv, [Next]_vars
  PROVE  StoppingInv'
<1>1. CASE Main
  BY <1>1
  DEF StoppingInv, Step, Raise, Halt, ReadD1Box, AfterGate, AfterJoin, Main,
      mainVars, latchVars, StartPC, LoopPC, StopPC,
      Launch, Refuse, StartD1, StartPiper, UndoD1, UndoPiper, StartReaders,
      WaitPoll, WaitCheck, WaitExpire, ForceDirect, EnablePiper,
      LoopExit, LoopTurn, PolicyRead, PolicyCheck, CommandRead,
      CommandCheck, SendD1, SendPiper, SetStop, Join, SafeD1, SafePiper,
      EstopPiper, EstopD1, CloseD1, ClosePiper
<1>2. CASE ~Main
  BY <1>2
  DEF StoppingInv, Next, Reader, ReaderCheck, ReaderAcquire, ReaderReturn,
      mainVars, latchVars, Signal, vars, Exited
<1> QED
  BY <1>1, <1>2

\* So it holds of every state.
LEMMA StoppingInductive == Spec => []StoppingInv
<1>1. Init => StoppingInv
  BY DEF Init, StoppingInv, StartPC, StopPC
<1> QED
  BY <1>1, StoppingStep, PTL DEF Spec

\* Every step except D1's half of _safe_send reports a fault only where none
\* was: the fault that ended a run is the one its exit names, unless D1's zero
\* command raises during teardown (_safe_send, run, stop_and_disconnect).
THEOREM FaultsAreKept == Spec => FirstFaultKept
<1>1. ASSUME StoppingInv, [Next]_vars, lastFault # ""
      PROVE  lastFault' = lastFault \/ pc = "safe_d1"
  <2>1. ~(PolicyCheck \/ CommandCheck \/ SendD1 \/ SendPiper)
    BY <1>1 DEF StoppingInv, LoopPC, PolicyCheck, CommandCheck, SendD1, SendPiper, Step
  <2>2. SafeD1 => pc = "safe_d1"
    BY DEF SafeD1, Step
  <2>3. ~(SafePiper \/ EstopPiper \/ CloseD1 \/ ClosePiper)
          => UNCHANGED lastFault \/ SafeD1
    BY <1>1, <2>1
    DEF Next, Main, Reader, Exited, latchVars, vars, Launch, Refuse, StartD1,
        StartPiper, UndoD1, UndoPiper, StartReaders, WaitPoll, WaitCheck,
        WaitExpire, ForceDirect, EnablePiper, LoopExit, LoopTurn, PolicyRead,
        CommandRead, SetStop, Join, EstopD1, ReaderCheck, ReaderAcquire,
        ReaderReturn, Signal
  <2>4. SafePiper \/ EstopPiper \/ CloseD1 \/ ClosePiper => UNCHANGED lastFault
    BY <1>1 DEF SafePiper, EstopPiper, CloseD1, ClosePiper, ReportIfNone
  <2> QED
    BY <2>2, <2>3, <2>4
<1>2. StoppingInv /\ [Next]_vars
        => [lastFault # "" => lastFault' = lastFault \/ pc = "safe_d1"]_vars
  BY <1>1 DEF vars, latchVars
<1> QED
  BY <1>2, StoppingInductive, PTL DEF Spec, FirstFaultKept

\* A main thread at p with the latch set.
Faulty(p) == At(p) /\ fault # ""

\* From the gate and from a command's check a latched fault leads to the stop.
LEMMA FaultMoves ==
  ASSUME IInv, [Next]_vars
  PROVE  /\ Faulty("wait")
              => Faulty("wait")' \/ Faulty("wait_check")' \/ At("stop")'
         /\ Faulty("wait_check") => Faulty("wait_check")' \/ Faulty("wait")'
         /\ Faulty("command_check") => Faulty("command_check")' \/ stop'
         /\ At("stop") => At("stop")' \/ stop'
<1>1. fault # "" => fault' # ""
  BY LatchedStep DEF IInv
<1>2. /\ At("wait") => At("wait")' \/ At("wait_check")' \/ At("stop")'
      /\ At("stop") => At("stop")' \/ stop'
  BY StartMoves
<1>3. ASSUME Faulty("wait_check")
      PROVE  At("wait_check")' \/ At("wait")'
  <2>1. CASE WaitCheck
    <3>1. \A d, p : "" \notin Verdicts(d, p)
      BY <1>3 DEF Verdicts, Faulty
    <3> QED
      BY <2>1, <3>1 DEF WaitCheck, At
  <2>2. CASE ~WaitCheck
    BY <1>3, <2>2
    DEF Faulty, At, Next, Main, Step, Raise, ReadD1Box, mainVars, Reader, ReaderCheck,
        ReaderAcquire, ReaderReturn, Signal, vars, Exited,
        Launch, Refuse, StartD1, StartPiper, UndoD1, UndoPiper, StartReaders,
        WaitPoll, WaitExpire, ForceDirect, EnablePiper, LoopExit, LoopTurn,
        PolicyRead, PolicyCheck, CommandRead, CommandCheck, SendD1, SendPiper,
        SetStop, Join, SafeD1, SafePiper, EstopPiper, EstopD1, CloseD1,
        ClosePiper
  <2> QED
    BY <2>1, <2>2
<1>4. ASSUME Faulty("command_check")
      PROVE  At("command_check")' \/ stop'
  <2>1. CASE CommandCheck
    <3>1. "" \notin CommandVerdicts
      BY <1>4 DEF CommandVerdicts, Verdicts, Faulty
    <3> QED
      BY <2>1, <3>1 DEF CommandCheck, Halt
  <2>2. CASE ~CommandCheck
    BY <1>4, <2>2
    DEF Faulty, At, Next, Main, Step, Raise, ReadD1Box, mainVars, Reader, ReaderCheck,
        ReaderAcquire, ReaderReturn, Signal, vars, Exited,
        Launch, Refuse, StartD1, StartPiper, UndoD1, UndoPiper, StartReaders,
        WaitPoll, WaitCheck, WaitExpire, ForceDirect, EnablePiper, LoopExit,
        LoopTurn, PolicyRead, PolicyCheck, CommandRead, SendD1, SendPiper,
        SetStop, Join, SafeD1, SafePiper, EstopPiper, EstopD1, CloseD1,
        ClosePiper
  <2> QED
    BY <2>1, <2>2
<1> QED
  BY <1>1, <1>2, <1>3, <1>4 DEF Faulty

\* The runtime keeps the contract's promise too: once the latch is set or the
\* teardown begun, the drivers are released and the process ends, with no signal
\* from the operator (check_state, run, stop_and_disconnect).
THEOREM StopIsCarriedOut ==
  ASSUME Hanging = {}
  PROVE  FairSpec /\ []OnlyLocksBlock => Contract!StopEnds
<1>1. Spec => []StoppingInv
  BY StoppingInductive
<1>2. IInv /\ StoppingInv /\ phase = "stopping"
        => \/ Faulty("wait") \/ Faulty("wait_check")
           \/ Faulty("command_check") \/ At("stop") \/ stop
  BY DEF IInv, TypeOK, ControlInv, StoppingInv, phase, Faulty, At, StartPC, LoopPC,
         StopPC
<1>3. IInv /\ [Next]_vars
        => /\ Faulty("wait")
                => Faulty("wait")' \/ Faulty("wait_check")' \/ At("stop")'
           /\ Faulty("wait_check") => Faulty("wait_check")' \/ Faulty("wait")'
           /\ Faulty("command_check") => Faulty("command_check")' \/ stop'
           /\ At("stop") => At("stop")' \/ stop'
  BY FaultMoves
<1>4. [][Next]_vars /\ MainTurns
        => Leaves("wait_check") /\ Leaves("command_check") /\ Leaves("stop")
  BY LocklessLeaves DEF Lockless
<1>5. <<WaitExpire>>_vars => At("stop")'
  BY DEF WaitExpire, Raise, Step, At
<1>6. /\ Faulty("wait") => pc = "wait"
      /\ Faulty("wait_check") => At("wait_check")
      /\ Faulty("command_check") => At("command_check")
      /\ pc = "exit" => phase = "released"
  BY DEF Faulty, At, phase
<1> QED
  BY <1>1, <1>2, <1>3, <1>4, <1>5, <1>6, StopCompletes, MainIsFair, Inductive,
     PTL
  DEF FairSpec, Spec, StopReleasesBuses, GateExpires, Leaves,
      Contract!StopEnds
=============================================================================
