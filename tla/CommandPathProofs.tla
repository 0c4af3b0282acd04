------------------------- MODULE CommandPathProofs -------------------------
(* Proofs about CommandPath: a dead writer stops the base, for every *)
(* setting of the timeouts, the heartbeat and the keys typed ahead.  *)
EXTENDS CommandPath, SequenceTheorems, TLAPS

\* One instant makes an age one larger, until it is past its limit.
LEMMA OlderAge ==
  ASSUME NEW limit \in Nat, NEW age \in Age(limit)
  PROVE  /\ age \in Nat /\ age <= limit + 1
         /\ Older(age, limit) \in Age(limit)
         /\ Older(age, limit) <= age + 1
         /\ age <= Older(age, limit)
         /\ Older(age, limit) <= limit => Older(age, limit) = age + 1
BY DEF Older, Age

\* The longest timeout is a number, and none is longer.
LEMMA LongestTimeout ==
  /\ Longest \in Nat
  /\ FileTimeout <= Longest /\ TopicTimeout <= Longest
BY TimesAssumption DEF Longest

\* What the reader returns is a command; it is the file's when that is well
\* formed and fresh, else zero or the command it had, if that is fresh.
LEMMA ReadResult ==
  ASSUME NEW c \in CacheType, NEW f \in FileType
  PROVE  /\ Read(c, f) \in CacheType
         /\ Fresh(f) => Read(c, f) = f
         /\ Read(c, f).vel = "move"
              => \/ Read(c, f) = f /\ Fresh(f)
                 \/ Read(c, f) = c /\ c.age <= FileTimeout
         /\ Read(c, f).vel = "none" => c.vel = "none"
<1> DEFINE old == IF c.vel # "none" /\ c.age > FileTimeout THEN Safe(c) ELSE c
<1>1. Safe(c) \in CacheType /\ Safe(c).vel # "move"
      /\ (Safe(c).vel = "none" => c.vel = "none")
  BY TimesAssumption DEF Safe, CacheType, Velocity, Age
<1>2. /\ old \in CacheType
      /\ old.vel = "move" => old = c /\ c.age <= FileTimeout
      /\ old.vel = "none" => c.vel = "none"
  BY <1>1, TimesAssumption DEF CacheType, Age
<1>3. Safe(old) \in CacheType /\ Safe(old).vel # "move"
      /\ (Safe(old).vel = "none" => old.vel = "none")
  BY <1>2, TimesAssumption DEF Safe, CacheType, Velocity, Age
<1>4. Read(c, f) = IF Fresh(f) THEN f
                   ELSE IF f.vel \in Velocity THEN Safe(old) ELSE old
  BY DEF Read
<1> HIDE DEF old
<1>5. CASE Fresh(f)
  <2>1. f \in CacheType /\ f.vel # "none"
    BY <1>5 DEF Fresh, FileType, CacheType, Velocity
  <2> QED
    BY <1>4, <1>5, <2>1
<1>6. CASE ~Fresh(f) /\ f.vel \in Velocity
  BY <1>2, <1>3, <1>4, <1>6
<1>7. CASE f.vel \notin Velocity
  <2>1. Read(c, f) = old /\ ~Fresh(f)
    BY <1>4, <1>7 DEF Fresh
  <2> QED
    BY <1>2, <2>1
<1> QED
  BY <1>5, <1>6, <1>7

-----------------------------------------------------------------------------
(* The inductive invariant, one lemma per conjunct that needs the model *)

\* Writing the file leaves a typed file; unless the disk failed it is new.
LEMMA WriteResult ==
  ASSUME TypeOK, NEW v \in Velocity, WriteFile(v)
  PROVE  /\ file' \in FileType /\ silence' \in Age(Longest)
         /\ ~setup.diskFails => file' = [vel |-> v, age |-> 0]
         /\ \/ file' = [vel |-> v, age |-> 0]
               /\ silence' = (IF setup.consumer = "topics" THEN silence ELSE 0)
            \/ setup.diskFails /\ file' = file /\ silence' = silence
<1>1. [vel |-> v, age |-> 0] \in FileType /\ 0 \in Age(Longest)
  BY LongestTimeout, TimesAssumption DEF FileType, Age
<1>2. file \in FileType /\ silence \in Age(Longest)
  BY DEF TypeOK
<1>3. \/ /\ file' = [vel |-> v, age |-> 0]
         /\ silence' = (IF setup.consumer = "topics" THEN silence ELSE 0)
      \/ setup.diskFails /\ file' = file /\ silence' = silence
  BY DEF WriteFile
<1> QED
  BY <1>1, <1>2, <1>3

\* Every step keeps the types.
LEMMA TypeStep ==
  ASSUME TypeOK, [Next]_vars
  PROVE  TypeOK'
<1>1. CASE ConsumerTick
  <2>1. Read(cache, file) \in CacheType
    BY ReadResult DEF TypeOK
  <2>2. cache' \in CacheType /\ vel' \in Velocity
    <3>1. CASE TopicTick
      BY <3>1 DEF TopicTick, Velocity, TypeOK
    <3>2. CASE FileTick
      BY <3>2, <2>1 DEF FileTick, ReadFile, CacheType, TypeOK
    <3>3. CASE RuntimeTick
      BY <3>3, <2>1 DEF RuntimeTick, ReadFile, CacheType, TypeOK
    <3> QED
      BY <1>1, <3>1, <3>2, <3>3 DEF ConsumerTick
  <2> QED
    BY ZenonT(60), <1>1, <2>2 DEF ConsumerTick, kbVars, bridgeVars, TypeOK
<1>2. CASE KeyboardTick
  <2>1. timer' \in 0 .. Heartbeat
    BY <1>2, TimesAssumption DEF KeyboardTick
  <2> QED
    BY <1>2, <2>1 DEF KeyboardTick, fileVars, nodeVars, bridgeVars, TypeOK
<1>3. CASE PollKey
  <2>1. keys' \in Seq(Chars)
    BY <1>3, EmptySeq, HeadTailProperties DEF PollKey, TypeOK
  <2>2. escape' \in {"", "ESC", "ESC["}
    BY <1>3 DEF PollKey, TypeOK
  <2>3. /\ want' \in Velocity /\ closed' \in BOOLEAN
        /\ kb' \in {"polling", "publish"}
        /\ after' \in {"start", "idle", "polling", "gone"}
    BY <1>3 DEF PollKey, HandleKey, Velocity, TypeOK
  <2> QED
    BY <1>3, <2>1, <2>2, <2>3
    DEF PollKey, fileVars, nodeVars, bridgeVars, TypeOK
<1>4. CASE PollEnd
  BY <1>4 DEF PollEnd, fileVars, nodeVars, bridgeVars, TypeOK
<1>5. CASE Publish
  <2>1. vel' \in Velocity /\ rosAge' \in Age(TopicTimeout) /\ seen' \in BOOLEAN
        /\ silence' \in Age(Longest)
    <3>1. 0 \in Age(TopicTimeout) /\ 0 \in Age(Longest)
      BY LongestTimeout, TimesAssumption DEF Age
    <3> QED
      BY <1>5, <3>1 DEF Publish, TakeTopics, nodeVars, TypeOK
  <2> QED
    BY <1>5, <2>1 DEF Publish, fileVars, bridgeVars, TypeOK
<1>6. CASE Write
  <2>1. file' \in FileType /\ silence' \in Age(Longest)
    BY <1>6, WriteResult DEF Write, TypeOK
  <2> QED
    BY <1>6, <2>1 DEF Write, nodeVars, bridgeVars, TypeOK
<1>7. ASSUME NEW c \in Chars, Type(c) PROVE TypeOK'
  <2>1. keys' \in Seq(Chars)
    BY <1>7, AppendProperties DEF Type, TypeOK
  <2> QED
    BY ZenonT(60), <1>7, <2>1 DEF Type, fileVars, nodeVars, bridgeVars, TypeOK
<1>8. CASE Interrupt
  BY <1>8 DEF Interrupt, Velocity, fileVars, nodeVars, bridgeVars, TypeOK
<1>9. CASE Kill
  BY <1>9 DEF Kill, fileVars, nodeVars, bridgeVars, TypeOK
<1>10. ASSUME NEW v \in Velocity, BridgeTwist(v) PROVE TypeOK'
  <2>1. file' \in FileType /\ silence' \in Age(Longest)
    BY <1>10, WriteResult DEF BridgeTwist
  <2> QED
    BY <1>10, <2>1 DEF BridgeTwist, nodeVars, kbVars, bridgeVars, TypeOK
<1>11. CASE BridgePose
  <2>1. file' \in FileType /\ silence' \in Age(Longest)
    BY <1>11, WriteResult DEF BridgePose, TypeOK
  <2> QED
    BY <1>11, <2>1 DEF BridgePose, nodeVars, kbVars, bridgeVars, TypeOK
<1>12. CASE BridgeTick
  <2>1. file' \in FileType /\ silence' \in Age(Longest)
    BY <1>12, WriteResult DEF BridgeTick, TypeOK
  <2>2. timer' \in 0 .. Heartbeat
    BY <1>12, TimesAssumption DEF BridgeTick
  <2> QED
    BY <1>12, <2>1, <2>2
    DEF BridgeTick, nodeVars, kbVars, bridgeVars, TypeOK
<1>13. CASE BridgeClose
  <2>1. file' \in FileType /\ silence' \in Age(Longest)
    BY <1>13, WriteResult DEF BridgeClose, Velocity
  <2> QED
    BY ZenonT(60), <1>13, <2>1
    DEF BridgeClose, Velocity, nodeVars, kbVars, TypeOK
<1>14. CASE BridgeKill
  BY ZenonT(60), <1>14 DEF BridgeKill, fileVars, nodeVars, kbVars, TypeOK
<1>15. CASE TeleopDies
  BY ZenonT(60), <1>15 DEF TeleopDies, fileVars, nodeVars, kbVars, TypeOK
<1>16. CASE Advance
  <2>1. file' \in FileType /\ cache' \in CacheType
    BY <1>16, OlderAge, TimesAssumption DEF Advance, FileType, CacheType, TypeOK
  <2>2. rosAge' \in Age(TopicTimeout) /\ silence' \in Age(Longest)
    BY <1>16, OlderAge, LongestTimeout, TimesAssumption DEF Advance, TypeOK
  <2>3. timer' \in 0 .. Heartbeat
    <3>1. timer \in 0 .. Heartbeat
      BY DEF TypeOK
    <3>2. CASE kb = "idle" \/ bridge
      <4>1. timer' = timer + 1 /\ timer # Heartbeat
        BY <1>16, <3>2 DEF Advance, Due
      <4> QED
        BY <3>1, <4>1, TimesAssumption
    <3>3. CASE ~(kb = "idle" \/ bridge)
      BY <1>16, <3>1, <3>3 DEF Advance
    <3> QED
      BY <3>2, <3>3
  <2> QED
    BY <1>16, <2>1, <2>2, <2>3 DEF Advance, kbVars, bridgeVars, TypeOK
<1>17. CASE UNCHANGED vars
  BY ZenonT(60), <1>17 DEF vars, fileVars, nodeVars, kbVars, bridgeVars, TypeOK
<1> QED
  BY <1>1, <1>2, <1>3, <1>4, <1>5, <1>6, <1>7, <1>8, <1>9, <1>10, <1>11,
     <1>12, <1>13, <1>14, <1>15, <1>16, <1>17
  DEF Next, Keyboard, Operator, Bridge

-----------------------------------------------------------------------------
(* The safety conjuncts see five kinds of step *)

\* A write: the file may change, and the next tick is still to come.
FileWritten ==
  /\ \E v \in Velocity : WriteFile(v)
  /\ ticked' = FALSE
  /\ UNCHANGED <<setup, cache, nodeVars>>

\* Nothing a consumer or a clock sees changes.
Unseen == UNCHANGED <<setup, fileVars, nodeVars, ticked, silence>>

\* Every step is a tick, a publication, a write, an instant or unseen.
LEMMA StepKinds ==
  ASSUME TypeOK, [Next]_vars
  PROVE  ConsumerTick \/ Publish \/ FileWritten \/ Advance \/ Unseen
<1>1. CASE KeyboardTick \/ PollKey \/ PollEnd \/ Interrupt \/ Kill
  BY <1>1 DEF KeyboardTick, PollKey, PollEnd, Interrupt, Kill, Unseen
<1>2. CASE BridgeKill \/ TeleopDies
  BY <1>2 DEF BridgeKill, TeleopDies, Unseen
<1>3. CASE \E c \in Chars : Type(c)
  BY <1>3 DEF Type, Unseen
<1>4. CASE UNCHANGED vars
  BY <1>4 DEF vars, Unseen
<1>5. want \in Velocity
  BY DEF TypeOK
<1>6. CASE Write
  BY <1>5, <1>6 DEF Write, FileWritten
<1>7. CASE BridgePose \/ BridgeTick
  BY <1>5, <1>7 DEF BridgePose, BridgeTick, FileWritten
<1>8. CASE BridgeClose \/ (\E v \in Velocity : BridgeTwist(v))
  BY <1>8 DEF BridgeClose, BridgeTwist, FileWritten, Velocity
<1> QED
  BY <1>1, <1>2, <1>3, <1>4, <1>6, <1>7, <1>8
  DEF Next, Keyboard, Operator, Bridge

\* Ages and the timer are numbers.
LEMMA AgesAreNumbers ==
  ASSUME TypeOK
  PROVE  /\ silence \in Nat /\ rosAge \in Nat
         /\ file.age \in Nat /\ cache.age \in Nat
         /\ timer \in Nat /\ timer <= Heartbeat /\ Heartbeat \in Nat
<1>1. /\ silence \in Age(Longest) /\ rosAge \in Age(TopicTimeout)
      /\ file.age \in Age(FileTimeout) /\ cache.age \in Age(FileTimeout)
  BY DEF TypeOK, FileType, CacheType
<1>2. timer \in 0 .. Heartbeat
  BY DEF TypeOK
<1>3. /\ Longest \in Nat /\ TopicTimeout \in Nat /\ FileTimeout \in Nat
      /\ Heartbeat \in Nat
  BY LongestTimeout, TimesAssumption
<1> QED
  BY <1>1, <1>2, <1>3, OlderAge

\* An instant ages each stamp by one, until it is past its timeout.
LEMMA InstantAges ==
  ASSUME TypeOK, Advance
  PROVE  /\ silence' <= silence + 1
         /\ rosAge' <= rosAge + 1 /\ rosAge <= rosAge'
         /\ rosAge' <= TopicTimeout => rosAge' = rosAge + 1
         /\ file'.vel = file.vel /\ file'.age <= file.age + 1
         /\ file'.age <= FileTimeout => file'.age = file.age + 1
         /\ cache'.vel = cache.vel
         /\ cache'.age <= FileTimeout => cache'.age = cache.age + 1
<1>1. /\ silence \in Age(Longest) /\ rosAge \in Age(TopicTimeout)
      /\ file.age \in Age(FileTimeout) /\ cache.age \in Age(FileTimeout)
  BY DEF TypeOK, FileType, CacheType
<1>2. Longest \in Nat /\ TopicTimeout \in Nat /\ FileTimeout \in Nat
  BY LongestTimeout, TimesAssumption
<1>3. /\ silence' = Older(silence, Longest)
      /\ rosAge' = Older(rosAge, TopicTimeout)
  BY DEF Advance
<1>4. /\ file'.vel = file.vel /\ file'.age = Older(file.age, FileTimeout)
      /\ cache'.vel = cache.vel /\ cache'.age = Older(cache.age, FileTimeout)
  BY DEF Advance, TypeOK, FileType, CacheType
<1> QED
  BY <1>1, <1>2, <1>3, <1>4, OlderAge

\* No stamp gets younger than the last command that got out.
LEMMA StampsStep ==
  ASSUME TypeOK, TypeOK', StampsInv, [Next]_vars
  PROVE  StampsInv'
<1>1. /\ silence \in Nat /\ silence' \in Nat /\ rosAge \in Nat
      /\ file.age \in Nat /\ cache.age \in Nat
  <2>1. silence' \in Age(Longest)
    BY DEF TypeOK
  <2> QED
    BY <2>1, AgesAreNumbers, LongestTimeout, OlderAge
<1>2. CASE ConsumerTick
  <2>1. CASE cache' = cache
    BY <1>2, <2>1 DEF ConsumerTick, StampsInv, Fresh
  <2>2. CASE cache' = Read(cache, file) /\ setup.consumer # "topics"
    <3>1. cache'.vel = "move" => \/ cache' = file /\ Fresh(file)
                                 \/ cache' = cache
      BY <2>2, ReadResult DEF TypeOK
    <3> QED
      BY <1>2, <2>2, <3>1 DEF ConsumerTick, StampsInv, Fresh
  <2> QED
    BY <1>2, <2>1, <2>2
    DEF ConsumerTick, TopicTick, FileTick, RuntimeTick, ReadFile
<1>3. CASE Publish
  <2>1. UNCHANGED <<setup, file, cache>>
    BY <1>3 DEF Publish, fileVars
  <2>2. CASE UNCHANGED <<nodeVars, silence>>
    BY <2>1, <2>2 DEF StampsInv, nodeVars, Fresh
  <2>3. CASE rosAge' = 0 /\ silence' = 0
    BY <1>1, <2>1, <2>3 DEF StampsInv, Fresh
  <2> QED
    BY <1>3, <2>2, <2>3 DEF Publish, TakeTopics
<1>4. CASE FileWritten
  <2>1. PICK v \in Velocity : WriteFile(v)
    BY <1>4 DEF FileWritten
  <2>2. UNCHANGED <<setup, cache, rosAge>>
    BY <1>4 DEF FileWritten, nodeVars
  <2>3. CASE UNCHANGED <<file, silence>>
    BY <2>2, <2>3 DEF StampsInv, Fresh
  <2>4. CASE /\ file' = [vel |-> v, age |-> 0]
             /\ silence' = IF setup.consumer = "topics" THEN silence ELSE 0
    BY <1>1, <2>2, <2>4 DEF StampsInv, Fresh
  <2> QED
    BY <2>1, <2>3, <2>4 DEF WriteFile
<1>5. CASE Advance
  <2>1. setup' = setup
    BY <1>5 DEF Advance
  <2>2. /\ rosAge' <= TopicTimeout => rosAge <= TopicTimeout
        /\ file'.age <= FileTimeout => file.age <= FileTimeout
        /\ cache'.age <= FileTimeout => cache.age <= FileTimeout
    BY <1>1, <1>5, InstantAges, TimesAssumption
  <2>3. setup.consumer # "runtime" /\ rosAge' <= TopicTimeout
          => silence' <= rosAge'
    BY <1>1, <1>5, <2>2, InstantAges DEF StampsInv
  <2>4. setup.consumer # "topics" /\ file'.vel \in Velocity
          /\ file'.age <= FileTimeout => silence' <= file'.age
    BY <1>1, <1>5, <2>2, InstantAges DEF StampsInv, Fresh
  <2>5. setup.consumer # "topics" /\ cache'.vel = "move"
          /\ cache'.age <= FileTimeout => silence' <= cache'.age
    BY <1>1, <1>5, <2>2, InstantAges DEF StampsInv
  <2> QED
    BY <2>1, <2>3, <2>4, <2>5 DEF StampsInv, Fresh
<1>6. CASE Unseen
  BY <1>6 DEF Unseen, fileVars, nodeVars, StampsInv, Fresh
<1> QED
  BY <1>2, <1>3, <1>4, <1>5, <1>6, StepKinds

\* The keyboard keeps its file within one heartbeat.
LEMMA KeyboardStep ==
  ASSUME TypeOK, TypeOK', KeyboardInv, [Next]_vars
  PROVE  KeyboardInv'
<1>1. /\ file.age \in Nat /\ timer \in Nat /\ timer <= Heartbeat
      /\ Heartbeat \in Nat
  BY AgesAreNumbers
<1>2. CASE ConsumerTick \/ TeleopDies
  BY <1>2
  DEF ConsumerTick, TeleopDies, fileVars, kbVars, bridgeVars, KeyboardInv
<1>3. CASE KeyboardTick
  BY <1>1, <1>3 DEF KeyboardTick, fileVars, bridgeVars, KeyboardInv
<1>4. CASE PollKey
  BY <1>4 DEF PollKey, HandleKey, fileVars, bridgeVars, KeyboardInv
<1>5. CASE PollEnd
  BY <1>5 DEF PollEnd, fileVars, bridgeVars, KeyboardInv
<1>6. CASE Publish
  BY <1>6 DEF Publish, fileVars, bridgeVars, KeyboardInv
<1>7. CASE Write
  <2>1. ~setup.diskFails => file' = [vel |-> want, age |-> 0]
    BY <1>7, WriteResult DEF Write, TypeOK
  <2>2. ~setup.diskFails =>
          file'.vel \in Velocity /\ file'.age <= timer /\ file'.age <= Heartbeat
    <3>1. want \in Velocity
      BY DEF TypeOK
    <3>2. ASSUME ~setup.diskFails PROVE file'.vel = want /\ file'.age = 0
      BY <2>1, <3>2
    <3> QED
      BY <1>1, <3>1, <3>2
  <2>3. /\ UNCHANGED <<setup, bridge, timer>> /\ kb = "write"
        /\ kb' \in {"idle", "polling", "gone"}
    BY <1>7 DEF Write, bridgeVars, TypeOK
  <2> QED
    BY <2>2, <2>3 DEF KeyboardInv
<1>8. CASE \E c \in Chars : Type(c)
  BY <1>8 DEF Type, fileVars, bridgeVars, KeyboardInv
<1>9. CASE Interrupt
  BY <1>9 DEF Interrupt, bridgeVars, KeyboardInv
<1>10. CASE Kill
  BY <1>10 DEF Kill, fileVars, bridgeVars, KeyboardInv
<1>11. CASE Bridge
  BY <1>11
  DEF Bridge, BridgeTwist, BridgePose, BridgeTick, BridgeClose, BridgeKill,
      kbVars, bridgeVars, KeyboardInv
<1>12. CASE Advance
  <2>1. file'.vel = file.vel /\ file'.age <= file.age + 1
    BY <1>12, InstantAges
  <2>2. /\ UNCHANGED <<setup, kb, want, bridge>>
        /\ kb \in {"idle", "gone", "killed"}
    BY <1>12 DEF Advance, kbVars, bridgeVars
  <2>3. CASE kb = "idle"
    <3>1. timer' = timer + 1
      BY <1>12, <2>3 DEF Advance
    <3>2. file'.age \in Nat
      <4>1. file'.age \in Age(FileTimeout)
        BY DEF TypeOK, FileType
      <4> QED
        BY <4>1, OlderAge, TimesAssumption
    <3> QED
      BY <1>1, <2>1, <2>2, <2>3, <3>1, <3>2 DEF KeyboardInv
  <2> QED
    BY <2>2, <2>3 DEF KeyboardInv
<1>13. CASE UNCHANGED vars
  BY <1>13 DEF vars, fileVars, kbVars, bridgeVars, KeyboardInv
<1> QED
  BY <1>2, <1>3, <1>4, <1>5, <1>6, <1>7, <1>8, <1>9, <1>10, <1>11, <1>12,
     <1>13
  DEF Next, Keyboard, Operator

\* Whoever moves the base keeps a command that can expire.
LEMMA ExpiryStep ==
  ASSUME TypeOK, TypeOK', ExpiryInv, KeyboardInv, [Next]_vars
  PROVE  ExpiryInv'
<1>1. /\ file.age \in Nat /\ rosAge \in Nat /\ TopicTimeout \in Nat
      /\ Heartbeat \in Nat /\ FileTimeout \in Nat
  BY AgesAreNumbers, TimesAssumption
<1>3. FileOutlasts =>
        ~setup.diskFails /\ TopicTimeout + 1 + Heartbeat <= FileTimeout
  BY DEF FileOutlasts
<1>4. CASE ConsumerTick
  <2>1. UNCHANGED <<setup, file, rosAge, seen>> /\ ~ticked
    BY <1>4 DEF ConsumerTick
  <2>2. CASE TopicTick
    BY <2>1, <2>2 DEF TopicTick, ExpiryInv, FileOutlasts
  <2>3. CASE RuntimeTick
    <3>1. cache'.vel = "none" => cache.vel = "none" /\ vel' = vel
      BY <2>3, ReadResult DEF RuntimeTick, ReadFile, TypeOK
    <3> QED
      BY <2>1, <2>3, <3>1 DEF RuntimeTick, ExpiryInv, FileOutlasts
  <2>4. CASE FileTick /\ TopicsFresh
    BY <1>1, <2>1, <2>4 DEF FileTick, TopicsFresh, ExpiryInv, FileOutlasts
  <2>5. CASE FileTick /\ ~TopicsFresh
    <3>1. cache' = Read(cache, file)
          /\ vel' = IF cache'.vel = "none" THEN vel ELSE cache'.vel
      BY <2>5 DEF FileTick, ReadFile
    <3>2. cache'.vel = "none" => cache.vel = "none" /\ vel' = vel
      BY <3>1, ReadResult DEF TypeOK
    <3>3. rosAge \in Age(TopicTimeout)
      BY DEF TypeOK
    <3>4. rosAge <= TopicTimeout + 1
      BY <1>1, <3>3, OlderAge
    <3>5. ASSUME FileOutlasts, vel' = "move", cache'.vel = "none" PROVE FALSE
      <4>1. file.vel \in Velocity /\ file.age <= rosAge + Heartbeat
        BY <2>5, <3>2, <3>5 DEF FileTick, ExpiryInv
      <4>2. Fresh(file)
        BY <1>1, <1>3, <2>5, <3>4, <3>5, <4>1 DEF FileTick, Fresh
      <4>3. cache' = file
        BY <3>1, <4>2, ReadResult DEF TypeOK
      <4> QED
        BY <3>5, <4>1, <4>3 DEF Velocity
    <3> QED
      BY <2>1, <2>5, <3>5 DEF FileTick, ExpiryInv, FileOutlasts
  <2> QED
    BY <1>4, <2>2, <2>3, <2>4, <2>5 DEF ConsumerTick
<1>5. CASE Publish
  <2>1. UNCHANGED <<setup, file, cache>> /\ ticked' = FALSE
        /\ kb = "publish"
    BY <1>5 DEF Publish, fileVars
  <2>2. CASE UNCHANGED nodeVars
    BY <2>1, <2>2 DEF nodeVars, ExpiryInv, FileOutlasts
  <2>3. CASE /\ vel' = want /\ rosAge' = 0 /\ seen' = TRUE
             /\ setup.consumer # "runtime"
    <3>1. ASSUME FileOutlasts, vel' = "move"
          PROVE  file.vel \in Velocity /\ file.age <= Heartbeat
      BY <1>3, <2>1, <2>3, <3>1 DEF KeyboardInv
    <3> QED
      BY <1>1, <2>1, <2>3, <3>1 DEF ExpiryInv, FileOutlasts
  <2> QED
    BY <1>5, <2>2, <2>3 DEF Publish, TakeTopics, nodeVars
<1>6. CASE FileWritten
  <2>1. PICK v \in Velocity : WriteFile(v)
    BY <1>6 DEF FileWritten
  <2>2. UNCHANGED <<setup, cache, vel, rosAge, seen>> /\ ticked' = FALSE
    BY <1>6 DEF FileWritten, nodeVars
  <2>3. FileOutlasts => file' = [vel |-> v, age |-> 0]
    BY <1>3, <2>1 DEF WriteFile
  <2>4. FileOutlasts => file'.vel \in Velocity /\ file'.age <= rosAge + Heartbeat
    BY <1>1, <2>3
  <2> QED
    BY <2>2, <2>4 DEF ExpiryInv, FileOutlasts
<1>7. CASE Advance
  <2>1. UNCHANGED <<setup, vel, seen>> /\ ticked /\ ticked' = FALSE
    BY <1>7 DEF Advance
  <2>2. /\ file'.vel = file.vel /\ cache'.vel = cache.vel
        /\ file'.age <= file.age + 1
        /\ rosAge' <= TopicTimeout => rosAge' = rosAge + 1
        /\ rosAge <= rosAge'
    BY <1>7, InstantAges
  <2>3. file'.age \in Nat /\ rosAge' \in Nat
    <3>1. file'.age \in Age(FileTimeout) /\ rosAge' \in Age(TopicTimeout)
      BY DEF TypeOK, FileType
    <3> QED
      BY <1>1, <3>1, OlderAge
  <2>4. rosAge <= TopicTimeout => rosAge' = rosAge + 1
    BY <1>1, <1>7 DEF Advance, Older
  <2> QED
    BY <1>1, <2>1, <2>2, <2>3, <2>4 DEF ExpiryInv, FileOutlasts
<1>8. CASE Unseen
  BY <1>8 DEF Unseen, fileVars, nodeVars, ExpiryInv, FileOutlasts
<1> QED
  BY <1>4, <1>5, <1>6, <1>7, <1>8, StepKinds

\* No step leaves a consumer moving under an old command.
LEMMA DeadWriterStep ==
  ASSUME TypeOK, TypeOK', StampsInv, StampsInv', ExpiryInv, ExpiryInv',
         DeadWriterStops, [Next]_vars
  PROVE  DeadWriterStops'
<1>1. /\ silence \in Nat /\ rosAge \in Nat /\ Longest \in Nat
      /\ file.age \in Nat /\ cache.age \in Nat
      /\ TopicTimeout \in Nat /\ FileTimeout \in Nat
      /\ FileTimeout <= Longest /\ TopicTimeout <= Longest
  BY AgesAreNumbers, LongestTimeout, TimesAssumption
<1>2. CASE ConsumerTick
  <2>1. UNCHANGED <<setup, file, rosAge, seen, silence>>
    BY <1>2 DEF ConsumerTick
  <2>2. CASE TopicTick
    BY <1>1, <2>1, <2>2 DEF TopicTick, ExpiryInv, StampsInv, DeadWriterStops
  <2>3. CASE FileTick /\ TopicsFresh
    BY <1>1, <2>1, <2>3
    DEF FileTick, TopicsFresh, StampsInv, DeadWriterStops
  <2>4. CASE ReadFile /\ setup.consumer # "topics"
             /\ (setup.consumer = "file" => ~TopicsFresh)
    <3>1. ASSUME vel' = "move", ~Orphaned' PROVE cache'.vel = "move"
      <4>1. ticked' = TRUE
        BY <1>2 DEF ConsumerTick
      <4>2. cache'.vel # "none"
        <5>1. setup.consumer \in {"file", "runtime"}
          BY <2>4, SetupsAssumption DEF TypeOK, SetupType
        <5>2. rosAge > TopicTimeout \/ setup.consumer = "runtime"
          BY <1>1, <2>4, <5>1 DEF TopicsFresh
        <5> QED
          BY <2>1, <3>1, <4>1, <5>1, <5>2 DEF ExpiryInv, Orphaned, FileOutlasts
      <4> QED
        BY <2>4, <3>1, <4>2 DEF ReadFile
    <3>2. ASSUME cache'.vel = "move" PROVE silence <= FileTimeout
      <4>1. \/ cache' = file /\ Fresh(file)
            \/ cache' = cache /\ cache.age <= FileTimeout
        BY <2>4, <3>2, ReadResult DEF ReadFile, TypeOK
      <4> QED
        BY <1>1, <2>4, <3>2, <4>1 DEF StampsInv, Fresh
    <3> QED
      BY <1>1, <2>1, <3>1, <3>2 DEF DeadWriterStops
  <2> QED
    BY <1>2, <2>2, <2>3, <2>4
    DEF ConsumerTick, FileTick, RuntimeTick
<1>3. CASE Publish \/ FileWritten \/ Advance
  BY <1>3 DEF Publish, FileWritten, Advance, DeadWriterStops
<1>4. CASE Unseen
  BY <1>4 DEF Unseen, fileVars, nodeVars, DeadWriterStops, Orphaned, FileOutlasts
<1> QED
  BY <1>2, <1>3, <1>4, StepKinds

\* The invariant holds when the writer starts.
LEMMA InitInv ==
  ASSUME Init
  PROVE  SilenceInv
<1>1. /\ Longest \in Nat /\ FileTimeout \in Nat /\ TopicTimeout \in Nat
      /\ Heartbeat \in Nat
  BY LongestTimeout, TimesAssumption
<1>2. /\ FileTimeout + 1 \in Age(FileTimeout)
      /\ TopicTimeout + 1 \in Age(TopicTimeout)
      /\ Longest + 1 \in Age(Longest) /\ 0 \in 0 .. Heartbeat
  BY <1>1 DEF Age
<1>3. TypeOK
  <2>1. timer \in 0 .. Heartbeat
    <3>1. timer = 0 \/ timer = Heartbeat
      BY DEF Init
    <3> QED
      BY <1>1, <3>1
  <2> QED
    BY <1>2, <2>1, EmptySeq DEF Init, TypeOK, CacheType, Velocity
<1>4. StampsInv
  <2>1. rosAge = TopicTimeout + 1 /\ file.age = FileTimeout + 1
    BY DEF Init
  <2>2. ~(rosAge <= TopicTimeout) /\ ~(file.age <= FileTimeout)
    BY <1>1, <2>1
  <2>3. cache.vel = "none"
    BY DEF Init
  <2> QED
    BY <2>2, <2>3 DEF StampsInv, Fresh
<1>5. ExpiryInv /\ KeyboardInv /\ DeadWriterStops
  BY SetupsAssumption
  DEF Init, ExpiryInv, KeyboardInv, DeadWriterStops, SetupType
<1> QED
  BY <1>3, <1>4, <1>5 DEF SilenceInv

\* However the writers' processes, the operator and the disk behave, and
\* whatever the timeouts and the heartbeat, the stamps bound the silence behind
\* every velocity a consumer uses, but that of a node whose reader has never
\* held a command (CommandFileReader.read, _read_command_file).
THEOREM StampsBoundSilence == Spec => []SilenceInv
<1>1. ASSUME SilenceInv, [Next]_vars PROVE SilenceInv'
  <2>1. /\ TypeOK /\ StampsInv /\ ExpiryInv /\ KeyboardInv
        /\ DeadWriterStops
    BY <1>1 DEF SilenceInv
  <2>2. TypeOK'
    BY <1>1, <2>1, TypeStep
  <2>3. StampsInv'
    BY <1>1, <2>1, <2>2, StampsStep
  <2>4. ExpiryInv' /\ KeyboardInv'
    BY <1>1, <2>1, <2>2, ExpiryStep, KeyboardStep
  <2>5. DeadWriterStops'
    BY <1>1, <2>1, <2>2, <2>3, <2>4, DeadWriterStep
  <2> QED
    BY <2>2, <2>3, <2>4, <2>5 DEF SilenceInv
<1> QED
  BY <1>1, InitInv, PTL DEF Spec

\* A keyboard or a bridge that dies, or loses its disk, stops the base within
\* the longer of the two timeouts, for every setting of them - except at a node
\* that reads a file its reader never had a command from, because the disk fails
\* or because the file expires too soon for it.
THEOREM SilenceIsBounded == Spec => []DeadWriterStops
<1>1. SilenceInv => DeadWriterStops
  BY DEF SilenceInv
<1> QED
  BY <1>1, StampsBoundSilence, PTL
-----------------------------------------------------------------------------
(* What the operator asked for last is what is used *)

\* An expired channel stays expired as time passes.
LEMMA ExpiredStays ==
  ASSUME TypeOK, Advance
  PROVE  /\ setup' = setup /\ vel' = vel /\ want' = want
         /\ Expired => Expired'
         /\ ~Fresh(file) => ~Fresh(file')
         /\ file'.vel = file.vel /\ cache'.vel = cache.vel
<1>1. /\ setup' = setup /\ vel' = vel /\ want' = want
      /\ rosAge' = Older(rosAge, TopicTimeout)
      /\ file'.vel = file.vel /\ file'.age = Older(file.age, FileTimeout)
      /\ cache'.vel = cache.vel
  BY DEF Advance, TypeOK, FileType, CacheType
<1>2. /\ rosAge \in Age(TopicTimeout) /\ file.age \in Age(FileTimeout)
      /\ TopicTimeout \in Nat /\ FileTimeout \in Nat
  BY TimesAssumption DEF TypeOK, FileType
<1>3. /\ rosAge \in Nat /\ rosAge <= rosAge' /\ rosAge' \in Nat
      /\ file.age \in Nat /\ file.age <= file'.age /\ file'.age \in Nat
  BY <1>1, <1>2, OlderAge DEF Age
<1>4. ~Fresh(file) => ~Fresh(file')
  BY <1>1, <1>2, <1>3 DEF Fresh
<1>5. rosAge > TopicTimeout => rosAge' > TopicTimeout
  BY <1>2, <1>3
<1> QED
  BY <1>1, <1>4, <1>5 DEF Expired

\* A reader hands out what the file says while that is fresh, and nothing but a
\* stop once it is not.
LEMMA StaleRead ==
  ASSUME TypeOK, ReadFile, file.vel \in Velocity
  PROVE  /\ Fresh(file) => vel' = file.vel
         /\ ~Fresh(file) => \/ cache'.vel = "zero" /\ vel' = "zero"
                            \/ cache.vel = "none" /\ cache'.vel = "none" /\ vel' = vel
<1>1. cache' = Read(cache, file) /\ vel' = IF cache'.vel = "none" THEN vel ELSE cache'.vel
  BY DEF ReadFile
<1>2. CASE Fresh(file)
  BY <1>1, <1>2 DEF Read, Velocity
<1>3. CASE ~Fresh(file)
  BY <1>1, <1>3 DEF Read, Safe
<1> QED
  BY <1>2, <1>3

\* A tick of the consumer takes the velocity of a writer at rest, or drops it
\* when every channel has expired.
LEMMA TickFollows ==
  ASSUME TypeOK, RestInv, BridgeInv, ConsumerTick, AtRest, Written
  PROVE  Followed'
<1>1. /\ UNCHANGED <<setup, file, rosAge, want>> /\ want \in Velocity
      /\ rosAge \in Nat /\ TopicTimeout \in Nat
  BY AgesAreNumbers, TimesAssumption DEF ConsumerTick, TypeOK
<1>2. Expired' = Expired
  BY <1>1 DEF Expired
<1>3. CASE kb = "idle"
  <2>1. CASE TopicTick
    <3>1. Followed
      BY <1>3, <2>1 DEF TopicTick, RestInv
    <3> QED
      BY <1>1, <1>2, <2>1, <3>1 DEF TopicTick, Followed, Expired
  <2>2. CASE FileTick
    <3>1. Followed /\ file.vel = want
      BY <1>3, <2>2 DEF FileTick, RestInv
    <3>2. CASE TopicsFresh
      BY <1>1, <1>2, <2>2, <3>1, <3>2 DEF FileTick, Followed
    <3>3. CASE ~TopicsFresh
      <4>1. ReadFile /\ rosAge > TopicTimeout /\ setup.consumer = "file"
        BY <1>1, <2>2, <3>3 DEF FileTick, TopicsFresh
      <4> QED
        BY <1>1, <1>2, <3>1, <4>1, StaleRead DEF Followed, Expired
    <3> QED
      BY <3>2, <3>3
  <2>3. CASE RuntimeTick
    <3>1. ReadFile /\ setup.consumer = "runtime" /\ file.vel = want
      BY <1>3, <2>3 DEF RuntimeTick, RestInv
    <3> QED
      BY <1>1, <1>2, <3>1, StaleRead DEF Followed, Expired, BridgeInv
  <2> QED
    BY <2>1, <2>2, <2>3 DEF ConsumerTick
<1>4. CASE bridge
  <2>1. ReadFile /\ setup.consumer = "runtime" /\ ~setup.diskFails
    BY <1>4 DEF ConsumerTick, TopicTick, FileTick, RuntimeTick, BridgeInv, Written
  <2>2. CASE file.vel = want
    BY <1>1, <1>2, <2>1, <2>2, StaleRead DEF Followed, Expired, BridgeInv
  <2>3. CASE ~Fresh(file) /\ want = "zero" /\ cache.vel = "none"
    <3>1. /\ cache' = Read(cache, file)
          /\ vel' = IF cache'.vel = "none" THEN vel ELSE cache'.vel
      BY <2>1 DEF ReadFile
    <3>2. vel' = "zero"
      BY <2>1, <2>3, <3>1 DEF Read, Safe, BridgeInv
    <3> QED
      BY <1>1, <2>3, <3>2 DEF Followed
  <2> QED
    BY <1>4, <2>1, <2>2, <2>3 DEF BridgeInv
<1> QED
  BY <1>3, <1>4 DEF AtRest

\* A keyboard at rest has got its velocity out.
LEMMA RestStep ==
  ASSUME TypeOK, RestInv, BridgeInv, [Next]_vars
  PROVE  RestInv'
<1>1. CASE ConsumerTick
  <2>1. UNCHANGED <<setup, file, rosAge, kb, after, closed, context, bridge, want>>
    BY <1>1 DEF ConsumerTick, kbVars, bridgeVars
  <2>2. kb = "idle" /\ Written => Followed'
    BY <1>1, TickFollows DEF AtRest
  <2>3. kb = "write" /\ ~closed /\ setup.consumer # "runtime" => vel' = vel
    <3>1. 0 <= TopicTimeout /\ ~(0 > TopicTimeout)
      BY TimesAssumption
    <3> QED
      BY <1>1, <3>1
      DEF ConsumerTick, TopicTick, FileTick, RuntimeTick, TopicsFresh, RestInv
  <2> QED
    BY <2>1, <2>2, <2>3 DEF RestInv, Written
<1>2. CASE KeyboardTick
  BY <1>2 DEF KeyboardTick, RestInv
<1>3. CASE PollKey
  <2>1. /\ kb' \in {"polling", "publish"} /\ context' = context
        /\ closed => closed'
        /\ closed' /\ kb' = "publish" => after' \in {"polling", "gone"}
    BY <1>3 DEF PollKey, HandleKey
  <2> QED
    BY <2>1 DEF RestInv
<1>4. CASE PollEnd
  BY <1>4 DEF PollEnd, RestInv
<1>5. CASE Publish
  <2>1. /\ UNCHANGED <<setup, closed, context, after, want>>
        /\ kb = "publish" /\ kb' = "write"
    BY <1>5 DEF Publish
  <2>2. ~closed /\ setup.consumer # "runtime" => vel' = want /\ rosAge' = 0
    BY <1>5 DEF Publish, TakeTopics, RestInv
  <2> QED
    BY <2>1, <2>2 DEF RestInv
<1>6. CASE Write
  <2>1. /\ UNCHANGED <<setup, vel, rosAge, closed, want>> /\ kb = "write"
        /\ after' = (IF after = "start" THEN "idle" ELSE after) /\ kb' = after'
        /\ context' = (context /\ ~closed)
    BY <1>6 DEF Write, nodeVars
  <2>2. ~setup.diskFails => file'.vel = want
    <3>1. want \in Velocity /\ WriteFile(want)
      BY <1>6 DEF Write, TypeOK
    <3>2. ~setup.diskFails => file' = [vel |-> want, age |-> 0]
      BY <3>1, WriteResult
    <3> QED
      BY <3>2
  <2>3. kb' \in {"idle", "polling", "gone"}
    BY <2>1 DEF TypeOK
  <2>4. closed => kb' # "idle"
    BY <2>1 DEF RestInv
  <2>5. kb' = "idle" /\ setup.consumer # "runtime" => Followed'
    BY <2>1, <2>4 DEF RestInv, Followed
  <2> QED
    BY <2>1, <2>2, <2>3, <2>4, <2>5 DEF RestInv, Written
<1>7. CASE \E c \in Chars : Type(c)
  BY <1>7
  DEF Type, fileVars, nodeVars, RestInv, Written, Followed, Expired, Fresh
<1>8. CASE Interrupt \/ Kill
  BY <1>8 DEF Interrupt, Kill, RestInv
<1>9. CASE Bridge \/ TeleopDies
  <2>1. /\ UNCHANGED <<setup, nodeVars, kbVars>>
        /\ kb = "gone" \/ UNCHANGED <<file, want>>
    BY <1>9
    DEF Bridge, BridgeTwist, BridgePose, BridgeTick, BridgeClose, BridgeKill,
        TeleopDies, fileVars, BridgeInv
  <2> QED
    BY <2>1 DEF nodeVars, kbVars, RestInv, Written, Followed, Expired, Fresh
<1>10. CASE Advance
  <2>1. /\ UNCHANGED <<kb, after, closed, context>>
        /\ kb # "write"
    BY <1>10 DEF Advance, kbVars
  <2> QED
    BY <1>10, <2>1, ExpiredStays DEF RestInv, Written, Followed
<1>11. CASE UNCHANGED vars
  BY <1>11
  DEF vars, fileVars, nodeVars, kbVars, RestInv, Written, Followed, Expired, Fresh
<1> QED
  BY <1>1, <1>2, <1>3, <1>4, <1>5, <1>6, <1>7, <1>8, <1>9, <1>10, <1>11
  DEF Next, Keyboard, Operator

\* So has the bridge.
LEMMA BridgeStep ==
  ASSUME TypeOK, BridgeInv, [Next]_vars
  PROVE  BridgeInv'
<1>1. CASE ConsumerTick
  <2>1. UNCHANGED <<setup, file, kb, bridge, want>>
    BY <1>1 DEF ConsumerTick, kbVars, bridgeVars
  <2>2. setup.consumer = "runtime" =>
          /\ cache' = Read(cache, file)
          /\ vel' = IF cache'.vel = "none" THEN vel ELSE cache'.vel
    BY <1>1 DEF ConsumerTick, TopicTick, FileTick, RuntimeTick, ReadFile
  <2>3. Read(cache, file).vel = "none" => cache.vel = "none"
    BY ReadResult DEF TypeOK
  <2>4. cache.vel = "none" /\ ~Fresh(file) => Read(cache, file).vel = "none"
    BY DEF Read, Safe
  <2> QED
    BY <2>1, <2>2, <2>3, <2>4 DEF BridgeInv, Fresh
<1>2. CASE Keyboard \/ Operator
  <2>1. kb # "gone"
    BY <1>2
    DEF Keyboard, KeyboardTick, PollKey, PollEnd, Publish, Write, Operator,
        Type, Interrupt, Kill
  <2>2. /\ UNCHANGED <<setup, cache, bridge>>
        /\ setup.consumer = "runtime" => vel' = vel
    BY <1>2
    DEF Keyboard, KeyboardTick, PollKey, PollEnd, Publish, TakeTopics, Write,
        Operator, Type, Interrupt, Kill, fileVars, nodeVars, bridgeVars
  <2> QED
    BY <2>1, <2>2 DEF BridgeInv
<1>3. CASE Bridge
  <2>1. /\ UNCHANGED <<setup, cache, vel, kb>>
        /\ bridge
    BY <1>3
    DEF Bridge, BridgeTwist, BridgePose, BridgeTick, BridgeClose, BridgeKill,
        fileVars, nodeVars, kbVars
  <2>2. bridge' /\ ~setup.diskFails => file'.vel = want'
    <3>1. want \in Velocity
      BY DEF TypeOK
    <3>2. CASE BridgePose \/ BridgeTick
      BY <3>1, <3>2, WriteResult DEF BridgePose, BridgeTick
    <3>3. CASE \E v \in Velocity : BridgeTwist(v)
      BY <3>3, WriteResult DEF BridgeTwist
    <3>4. CASE BridgeClose \/ BridgeKill
      BY <3>4 DEF BridgeClose, BridgeKill
    <3> QED
      BY <1>3, <3>2, <3>3, <3>4 DEF Bridge
  <2> QED
    BY <2>1, <2>2 DEF BridgeInv
<1>4. CASE TeleopDies
  BY <1>4 DEF TeleopDies, fileVars, nodeVars, kbVars, BridgeInv, Fresh
<1>5. CASE Advance
  <2>1. UNCHANGED <<kb, bridge>>
    BY <1>5 DEF Advance, kbVars, bridgeVars
  <2> QED
    BY <1>5, <2>1, ExpiredStays DEF BridgeInv
<1>6. CASE UNCHANGED vars
  BY <1>6 DEF vars, fileVars, nodeVars, kbVars, bridgeVars, BridgeInv, Fresh
<1> QED
  BY <1>1, <1>2, <1>3, <1>4, <1>5, <1>6 DEF Next

\* No step leaves a consumer that has ticked with another velocity than that of
\* a writer at rest.
LEMMA VelocityStep ==
  ASSUME TypeOK, RestInv, BridgeInv, VelocityFollows, [Next]_vars
  PROVE  VelocityFollows'
<1>1. CASE ConsumerTick
  <2>1. AtRest' = AtRest /\ Written' = Written
    BY <1>1 DEF ConsumerTick, kbVars, bridgeVars, AtRest, Written
  <2> QED
    BY <1>1, <2>1, TickFollows DEF VelocityFollows
<1>2. CASE KeyboardTick \/ PollKey \/ PollEnd \/ Interrupt \/ Kill
  <2>1. kb # "gone" /\ kb' # "idle" /\ bridge' = bridge
    BY <1>2
    DEF KeyboardTick, PollKey, HandleKey, PollEnd, Interrupt, Kill, bridgeVars
  <2> QED
    BY <2>1 DEF BridgeInv, AtRest, VelocityFollows
<1>3. CASE Publish \/ Write \/ Advance
  BY <1>3 DEF Publish, Write, Advance, VelocityFollows
<1>4. CASE BridgePose \/ BridgeTick \/ BridgeClose
           \/ (\E v \in Velocity : BridgeTwist(v))
  BY <1>4 DEF BridgePose, BridgeTick, BridgeClose, BridgeTwist, VelocityFollows
<1>5. CASE BridgeKill
  BY <1>5 DEF BridgeKill, kbVars, BridgeInv, AtRest, VelocityFollows
<1>6. CASE (\E c \in Chars : Type(c)) \/ TeleopDies \/ UNCHANGED vars
  <2>1. UNCHANGED <<setup, file, vel, rosAge, ticked, kb, bridge, want>>
    BY <1>6
    DEF Type, TeleopDies, vars, fileVars, nodeVars, kbVars, bridgeVars
  <2> QED
    BY <2>1 DEF VelocityFollows, AtRest, Written, Followed, Expired, Fresh
<1> QED
  BY <1>1, <1>2, <1>3, <1>4, <1>5, <1>6 DEF Next, Keyboard, Operator, Bridge

\* Keyboard, bridge and consumer agree: the invariant is inductive, with no
\* hypothesis on the timeouts or the heartbeat (_publish, _handle_key, close,
\* D1PiperCommandBridge, CommandFileReader.read, _read_command_file).
THEOREM FollowInductive == Spec => []FollowInv
<1>1. Init => FollowInv
  <2> SUFFICES ASSUME Init PROVE FollowInv
    OBVIOUS
  <2>1. TypeOK
    BY InitInv DEF SilenceInv
  <2>2. ~Fresh(file)
    <3>1. file.age = FileTimeout + 1
      BY DEF Init
    <3> QED
      BY <3>1, TimesAssumption DEF Fresh
  <2>3. RestInv
    BY DEF Init, RestInv
  <2>4. BridgeInv
    <3>1. setup.writer = "bridge" => setup.consumer = "runtime"
      BY SetupsAssumption DEF Init, SetupType
    <3> QED
      BY <2>2, <3>1 DEF Init, BridgeInv
  <2>5. VelocityFollows
    BY DEF Init, VelocityFollows
  <2> QED
    BY <2>1, <2>3, <2>4, <2>5 DEF FollowInv
<1>2. ASSUME FollowInv, [Next]_vars PROVE FollowInv'
  <2>1. TypeOK /\ RestInv /\ BridgeInv /\ VelocityFollows
    BY <1>2 DEF FollowInv
  <2>2. TypeOK' /\ RestInv' /\ BridgeInv' /\ VelocityFollows'
    BY <1>2, <2>1, TypeStep, RestStep, BridgeStep, VelocityStep
  <2> QED
    BY <2>2 DEF FollowInv
<1> QED
  BY <1>1, <1>2, PTL DEF Spec

\* What the operator asked for last is what the consumer uses at its next tick;
\* it drops a velocity, but never a stop, while every channel's newest command
\* has expired.  The shipped node, whose 40 ms are shorter than the keyboard's
\* 50 ms heartbeat, is one of the cases.
THEOREM OperatorIsFollowed == Spec => []VelocityFollows
<1>1. FollowInv => VelocityFollows
  BY DEF FollowInv
<1> QED
  BY <1>1, FollowInductive, PTL
=============================================================================
