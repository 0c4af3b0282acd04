-------------------------- MODULE PolicyNodeProofs --------------------------
(* Proofs about PolicyNode: what a node that is starved, fails or closes      *)
(* commands, and that its five topics agree, for every set of sources, number *)
(* of topics, depth of their queues, policy period and timeout.               *)
EXTENDS PolicyNode, SequenceTheorems, TLAPS

\* An age counts on, keeps its order to the others and stays in its range.
LEMMA OlderAges ==
  ASSUME NEW limit \in Nat, NEW a \in Age(limit), NEW b \in Age(limit)
  PROVE  /\ Older(a, limit) \in Age(limit)
         /\ a <= b => Older(a, limit) <= Older(b, limit)
         /\ a <= Older(a, limit)
BY DEF Older, Age

LEMMA OlderPolicyAges ==
  ASSUME NEW a \in PolicyAge, NEW b \in PolicyAge
  PROVE  /\ OlderPolicy(a) \in PolicyAge /\ a \in Nat /\ a <= Period
         /\ a <= b => OlderPolicy(a) <= OlderPolicy(b)
BY TimesAssumption DEF OlderPolicy, PolicyAge

\* Whatever a full queue loses, it ends with what was put in last.
LEMMA EnqueuedIsNewest ==
  ASSUME NEW q \in Seq(Command), NEW c \in Command
  PROVE  /\ Enqueue(q, c) \in Seq(Command) /\ Enqueue(q, c) # <<>>
         /\ Enqueue(q, c)[Len(Enqueue(q, c))] = c
<1> DEFINE longer == Append(q, c)
<1>1. /\ longer \in Seq(Command) /\ Len(longer) = Len(q) + 1 /\ Len(q) \in Nat
      /\ longer[Len(longer)] = c /\ longer # <<>>
  BY AppendProperties, LenProperties
<1>2. Enqueue(q, c) = IF Len(longer) > Depth THEN Tail(longer) ELSE longer
  BY DEF Enqueue
<1> HIDE DEF longer
<1>3. CASE Len(longer) > Depth
  <2>1. Len(longer) >= 2
    BY <1>1, <1>3, TopicsAssumption
  <2>2. /\ Tail(longer) \in Seq(Command) /\ Len(Tail(longer)) = Len(longer) - 1
        /\ \A i \in 1 .. Len(Tail(longer)) : Tail(longer)[i] = longer[i + 1]
    BY <1>1, HeadTailProperties
  <2>3. Tail(longer)[Len(Tail(longer))] = c /\ Tail(longer) # <<>>
    <3>1. Len(Tail(longer)) \in 1 .. Len(Tail(longer)) /\ Len(Tail(longer)) # 0
      BY <1>1, <2>1, <2>2
    <3>2. Tail(longer)[Len(Tail(longer))] = longer[Len(longer)]
      BY <1>1, <2>2, <3>1
    <3> QED
      BY <1>1, <3>1, <3>2, EmptySeq
  <2> QED
    BY <1>2, <1>3, <2>2, <2>3
<1>4. CASE ~(Len(longer) > Depth)
  BY <1>1, <1>2, <1>4
<1> QED
  BY <1>3, <1>4

\* Taking a message from a queue leaves the topic's newest what it was.
LEMMA DeliveredIsNewest ==
  ASSUME NEW q \in Seq(Command), q # <<>>
  PROVE  /\ Tail(q) \in Seq(Command) /\ Head(q) \in Command
         /\ q[Len(q)] = IF Tail(q) = <<>> THEN Head(q) ELSE Tail(q)[Len(Tail(q))]
<1>1. /\ Tail(q) \in Seq(Command) /\ Head(q) \in Command /\ Head(q) = q[1]
      /\ Len(Tail(q)) = Len(q) - 1 /\ Len(q) \in Nat /\ Len(q) >= 1
      /\ \A i \in 1 .. Len(Tail(q)) : Tail(q)[i] = q[i + 1]
  BY HeadTailProperties, EmptySeq, LenProperties
<1>2. CASE Tail(q) = <<>>
  <2>1. Len(q) = 1
    BY <1>1, <1>2, EmptySeq
  <2> QED
    BY <1>1, <1>2, <2>1
<1>3. CASE Tail(q) # <<>>
  <2>1. Len(Tail(q)) \in 1 .. Len(Tail(q))
    BY <1>1, <1>3, EmptySeq, LenProperties
  <2>2. Tail(q)[Len(Tail(q))] = q[Len(q)]
    BY <1>1, <2>1
  <2> QED
    BY <1>1, <1>3, <2>2
<1> QED
  BY <1>2, <1>3

-----------------------------------------------------------------------------
(* The types *)

\* What one decision of the tick makes of the policy's variables.
LEMMA DecideResult ==
  ASSUME TypeOK, Decide
  PROVE  /\ cmd' \in Command /\ policyAge' \in PolicyAge
         /\ actAge' \in PolicyAge /\ frameAge' \in PolicyAge
         /\ \/ Stale /\ cmd' = "zero" /\ UNCHANGED <<policyAge, actAge, frameAge>>
            \/ /\ ~Stale /\ policyAge = Period /\ policyAge' = 0
               /\ cmd' = "zero" \/ (cmd' = "act" /\ actAge' = 0)
            \/ ~Stale /\ policyAge # Period /\ UNCHANGED policyVars
<1>1. 0 \in PolicyAge
  BY TimesAssumption DEF PolicyAge
<1>2. CASE Stale
  <2>1. cmd' = "zero" /\ UNCHANGED <<policyAge, actAge, frameAge>>
    BY <1>2 DEF Decide
  <2> QED
    BY <1>2, <2>1 DEF TypeOK, Command
<1>3. CASE ~Stale /\ policyAge = Period
  <2>1. actAge \in PolicyAge
    BY DEF TypeOK
  <2>2. Step
    BY <1>3 DEF Decide
  <2>3. PICK ok \in BOOLEAN : Attempt(ok)
    BY <2>2 DEF Step, Framed, Sanitized, Observed
  <2>4. frameAge' \in PolicyAge
    BY <1>1, <2>3 DEF Attempt, AppendFrame, TypeOK
  <2>5. CASE ok
    <3>1. cmd' = "act" /\ policyAge' = 0 /\ actAge' = 0
      BY <2>3, <2>5 DEF Attempt
    <3> QED
      BY <1>1, <1>3, <2>4, <3>1 DEF Command
  <2>6. CASE ~ok
    <3>1. cmd' = "zero" /\ policyAge' = 0
      BY <2>3, <2>6 DEF Attempt
    <3>2. actAge' \in PolicyAge
      BY <2>1, <2>3, <2>6 DEF Attempt
    <3>3. cmd' \in Command /\ policyAge' \in PolicyAge
      BY <1>1, <3>1 DEF Command
    <3> QED
      BY Zenon, <1>3, <2>4, <3>1, <3>2, <3>3
  <2> QED
    BY <2>5, <2>6
<1>4. CASE ~Stale /\ policyAge # Period
  <2>1. UNCHANGED policyVars
    BY <1>4 DEF Decide
  <2> QED
    BY <1>4, <2>1 DEF policyVars, TypeOK
<1> QED
  BY <1>2, <1>3, <1>4

\* A publication of any command leaves typed queues.
LEMMA PublishedType ==
  ASSUME TypeOK, NEW c \in Command, wire' = [wire EXCEPT ![next] = Enqueue(@, c)],
         IF next = NumTopics THEN UNCHANGED next ELSE next' = next + 1
  PROVE  wire' \in [Topics -> Seq(Command)] /\ next' \in Topics
<1>1. next \in Topics /\ wire[next] \in Seq(Command)
  BY DEF TypeOK
<1>2. Enqueue(wire[next], c) \in Seq(Command)
  BY <1>1, EnqueuedIsNewest
<1>3. next' \in Topics
  BY <1>1, TopicsAssumption DEF Topics
<1> QED
  BY <1>2, <1>3 DEF TypeOK

LEMMA TypeStep ==
  ASSUME TypeOK, [Next]_vars
  PROVE  TypeOK'
<1>1. 0 \in Age(Timeout)
  BY TimesAssumption DEF Age
<1>2. ASSUME NEW s \in Sources, NEW bad \in BOOLEAN, Sample(s, bad) PROVE TypeOK'
  <2>1. /\ seen' \subseteq Sources /\ broken' \subseteq seen'
        /\ heard' \in [Sources -> Age(Timeout)] /\ stateAge' \in Age(Timeout)
    BY <1>1, <1>2 DEF Sample, Receive, TypeOK
  <2> QED
    BY ZenonT(60), <1>2, <2>1 DEF Sample, velVars, policyVars, robotVars, TypeOK
<1>3. ASSUME NEW v \in Velocity, Twist(v) PROVE TypeOK'
  BY ZenonT(60), <1>1, <1>3 DEF Twist, stateVars, policyVars, robotVars, TypeOK
<1>4. CASE Pose
  BY ZenonT(60), <1>1, <1>4 DEF Pose, stateVars, policyVars, robotVars, TypeOK
<1>5. CASE Tick
  <2>1. vel' \in Velocity /\ next' \in Topics
    BY <1>5, TopicsAssumption DEF Tick, Watched, Velocity, Topics, TypeOK
  <2>2. /\ cmd' \in Command /\ policyAge' \in PolicyAge
        /\ actAge' \in PolicyAge /\ frameAge' \in PolicyAge
    BY <1>5, DecideResult DEF Tick
  <2> QED
    BY ZenonT(60), <1>5, <2>1, <2>2 DEF Tick, stateVars, robotVars, TypeOK
<1>6. CASE PublishTopic
  <2>1. wire' \in [Topics -> Seq(Command)] /\ next' \in Topics
    BY <1>6, PublishedType DEF PublishTopic, TypeOK
  <2>2. pc' \in {"idle", "publish"}
    BY <1>6 DEF PublishTopic
  <2> QED
    BY ZenonT(60), <1>6, <2>1, <2>2
    DEF PublishTopic, stateVars, velVars, policyVars, TypeOK
<1>7. ASSUME NEW t \in Topics, Deliver(t) PROVE TypeOK'
  <2>1. wire' \in [Topics -> Seq(Command)] /\ held' \in [Topics -> Command]
    BY <1>7, DeliveredIsNewest DEF Deliver, TypeOK
  <2> QED
    BY ZenonT(60), <1>7, <2>1 DEF Deliver, stateVars, velVars, policyVars, TypeOK
<1>8. CASE LoseContext
  BY ZenonT(60), <1>8
  DEF LoseContext, stateVars, velVars, policyVars, robotVars, TypeOK
<1>9. CASE Interrupt
  <2>1. next' \in Topics
    BY <1>9, TopicsAssumption DEF Interrupt, Topics
  <2> QED
    BY ZenonT(60), <1>9, <2>1
    DEF Interrupt, stateVars, velVars, policyVars, robotVars, TypeOK
<1>10. CASE CloseTopic
  <2>1. wire' \in [Topics -> Seq(Command)] /\ next' \in Topics
    BY <1>10, PublishedType DEF CloseTopic, FinalCommand, Command, TypeOK
  <2>2. pc' \in {"closing", "gone"}
    BY <1>10 DEF CloseTopic
  <2> QED
    BY ZenonT(60), <1>10, <2>1, <2>2
    DEF CloseTopic, stateVars, velVars, policyVars, TypeOK
<1>11. CASE CloseFails
  BY ZenonT(60), <1>11
  DEF CloseFails, stateVars, velVars, policyVars, robotVars, TypeOK
<1>12. ASSUME NEW w \in {"healthy", "silent"}, Settle(w) PROVE TypeOK'
  BY ZenonT(60), <1>12
  DEF Settle, stateVars, velVars, policyVars, robotVars, TypeOK
<1>13. CASE Advance
  <2>1. /\ stateAge' \in Age(Timeout) /\ rosAge' \in Age(Timeout)
        /\ heard' \in [Sources -> Age(Timeout)]
    BY <1>13, OlderAges, TimesAssumption DEF Advance, TypeOK
  <2>2. /\ policyAge' \in PolicyAge /\ actAge' \in PolicyAge /\ frameAge' \in PolicyAge
    BY <1>13, OlderPolicyAges DEF Advance, TypeOK
  <2> QED
    BY ZenonT(60), <1>13, <2>1, <2>2 DEF Advance, robotVars, TypeOK
<1>14. CASE UNCHANGED vars
  BY ZenonT(60), <1>14 DEF vars, stateVars, velVars, policyVars, robotVars, TypeOK
<1> QED
  BY <1>2, <1>3, <1>4, <1>5, <1>6, <1>7, <1>8, <1>9, <1>10, <1>11, <1>12, <1>13,
     <1>14
  DEF Next, Sampling, Teleop, Close, Gone

-----------------------------------------------------------------------------
(* What is published *)

\* A publication makes the next topic's newest message the command, and leaves
\* the others'.
LEMMA PublishedNewest ==
  ASSUME TypeOK, NEW c \in Command, wire' = [wire EXCEPT ![next] = Enqueue(@, c)],
         UNCHANGED held, NEW t \in Topics
  PROVE  Newest(t)' = IF t = next THEN c ELSE Newest(t)
<1>1. next \in Topics /\ wire \in [Topics -> Seq(Command)]
  BY DEF TypeOK
<1>2. CASE t = next
  <2>1. /\ wire[next] \in Seq(Command) /\ wire'[t] = Enqueue(wire[next], c)
    BY <1>1, <1>2
  <2>2. wire'[t] # <<>> /\ wire'[t][Len(wire'[t])] = c
    BY <2>1, EnqueuedIsNewest
  <2> QED
    BY <1>2, <2>2 DEF Newest
<1>3. CASE t # next
  <2>1. wire'[t] = wire[t]
    BY <1>1, <1>3
  <2> QED
    BY <1>3, <2>1 DEF Newest
<1> QED
  BY <1>2, <1>3

\* A delivery changes no topic's newest message.
LEMMA DeliveredNewest ==
  ASSUME TypeOK, NEW d \in Topics, Deliver(d), NEW t \in Topics
  PROVE  Newest(t)' = Newest(t)
<1>1. /\ wire \in [Topics -> Seq(Command)] /\ held \in [Topics -> Command]
      /\ wire[d] # <<>> /\ held' = [held EXCEPT ![d] = Head(wire[d])]
      /\ wire' = [wire EXCEPT ![d] = Tail(@)]
  BY DEF TypeOK, Deliver
<1>2. CASE t = d
  <2>1. wire'[t] = Tail(wire[t]) /\ held'[t] = Head(wire[t]) /\ wire[t] \in Seq(Command)
    BY <1>1, <1>2
  <2> QED
    BY <1>1, <1>2, <2>1, DeliveredIsNewest DEF Newest
<1>3. CASE t # d
  BY <1>1, <1>3 DEF Newest
<1> QED
  BY <1>2, <1>3

\* A callback that touches neither the topics nor the publication disturbs none
\* of their invariants.
LEMMA QuietStep ==
  ASSUME PublicationInv, CommandWhole, FinalZero,
         UNCHANGED <<robotVars, cmd, pc, next>>, context' => context
  PROVE  PublicationInv' /\ CommandWhole' /\ FinalZero'
<1>1. \A t \in Topics : Newest(t)' = Newest(t)
  BY DEF Newest, robotVars
<1> QED
  BY <1>1 DEF PublicationInv, CommandWhole, FinalZero, robotVars

LEMMA PublicationStep ==
  ASSUME TypeOK, PublicationInv, CommandWhole, FinalZero, [Next]_vars
  PROVE  PublicationInv' /\ CommandWhole' /\ FinalZero'
<1>1. ASSUME NEW s \in Sources, NEW bad \in BOOLEAN, Sample(s, bad)
      PROVE  UNCHANGED <<robotVars, cmd, pc, next>> /\ UNCHANGED context
  BY <1>1 DEF Sample, policyVars, robotVars
<1>2. ASSUME NEW v \in Velocity, Twist(v)
      PROVE  UNCHANGED <<robotVars, cmd, pc, next>> /\ UNCHANGED context
  BY <1>2 DEF Twist, policyVars, robotVars
<1>3. CASE Pose
  BY <1>3, QuietStep DEF Pose, policyVars, robotVars
<1>4. CASE Tick
  <2>1. pc' = "publish" /\ next' = 1
    BY <1>4 DEF Tick
  <2>2. \A t \in Topics : ~(t < 1)
    BY TopicsAssumption DEF Topics
  <2> QED
    BY <2>1, <2>2 DEF PublicationInv, CommandWhole, FinalZero
<1>5. CASE PublishTopic
  <2>1. /\ pc = "publish" /\ wire' = [wire EXCEPT ![next] = Enqueue(@, cmd)]
        /\ cmd \in Command /\ cmd' = cmd /\ UNCHANGED held /\ next \in Topics
    BY <1>5 DEF PublishTopic, policyVars, TypeOK
  <2>2. \A t \in Topics : t <= next => Newest(t)' = cmd
    <3>1. SUFFICES ASSUME NEW t \in Topics, t <= next PROVE Newest(t)' = cmd
      OBVIOUS
    <3>2. Newest(t)' = IF t = next THEN cmd ELSE Newest(t)
      BY <2>1, PublishedNewest
    <3>3. t # next => t < next
      BY <2>1, <3>1 DEF Topics
    <3> QED
      BY <2>1, <3>2, <3>3 DEF PublicationInv
  <2>3. CASE next = NumTopics
    <3>1. pc' = "idle"
      BY <1>5, <2>3 DEF PublishTopic
    <3>2. \A t \in Topics : t <= next
      BY <2>3, TopicsAssumption DEF Topics
    <3> QED
      BY <2>1, <2>2, <3>1, <3>2 DEF PublicationInv, CommandWhole, FinalZero
  <2>4. CASE next # NumTopics
    <3>1. pc' = "publish" /\ next' = next + 1
      BY <1>5, <2>1, <2>4 DEF PublishTopic
    <3>2. \A t \in Topics : t < next' => t <= next
      BY <2>1, <3>1 DEF Topics
    <3> QED
      BY <2>1, <2>2, <3>1, <3>2 DEF PublicationInv, CommandWhole, FinalZero
  <2> QED
    BY <2>3, <2>4
<1>6. ASSUME NEW d \in Topics, Deliver(d)
      PROVE  PublicationInv' /\ CommandWhole' /\ FinalZero'
  <2>1. \A t \in Topics : Newest(t)' = Newest(t)
    BY <1>6, DeliveredNewest
  <2>2. UNCHANGED <<cmd, pc, next, context>>
    BY <1>6 DEF Deliver, policyVars
  <2> QED
    BY <2>1, <2>2 DEF PublicationInv, CommandWhole, FinalZero
<1>7. CASE LoseContext
  BY <1>7, QuietStep DEF LoseContext, policyVars
<1>8. CASE Interrupt
  <2>1. pc' = "closing" /\ next' = 1
    BY <1>8 DEF Interrupt
  <2>2. \A t \in Topics : ~(t < 1)
    BY TopicsAssumption DEF Topics
  <2> QED
    BY <2>1, <2>2 DEF PublicationInv, CommandWhole, FinalZero
<1>9. CASE CloseTopic
  <2>1. /\ pc = "closing" /\ wire' = [wire EXCEPT ![next] = Enqueue(@, "zero")]
        /\ UNCHANGED held /\ next \in Topics
    BY <1>9 DEF CloseTopic, FinalCommand, TypeOK
  <2>2. \A t \in Topics : t <= next => Newest(t)' = "zero"
    <3>1. SUFFICES ASSUME NEW t \in Topics, t <= next PROVE Newest(t)' = "zero"
      OBVIOUS
    <3>2. Newest(t)' = IF t = next THEN "zero" ELSE Newest(t)
      BY <2>1, PublishedNewest DEF Command
    <3>3. t # next => t < next
      BY <2>1, <3>1 DEF Topics
    <3> QED
      BY <2>1, <3>2, <3>3 DEF PublicationInv
  <2>3. CASE next = NumTopics
    <3>1. pc' = "gone"
      BY <1>9, <2>3 DEF CloseTopic
    <3>2. \A t \in Topics : t <= next
      BY <2>3, TopicsAssumption DEF Topics
    <3> QED
      BY <2>2, <3>1, <3>2 DEF PublicationInv, CommandWhole, FinalZero
  <2>4. CASE next # NumTopics
    <3>1. pc' = "closing" /\ next' = next + 1
      BY <1>9, <2>1, <2>4 DEF CloseTopic
    <3>2. \A t \in Topics : t < next' => t <= next
      BY <2>1, <3>1 DEF Topics
    <3> QED
      BY <2>2, <3>1, <3>2 DEF PublicationInv, CommandWhole, FinalZero
  <2> QED
    BY <2>3, <2>4
<1>10. CASE CloseFails
  BY <1>10 DEF CloseFails, PublicationInv, CommandWhole, FinalZero
<1>11. ASSUME NEW w \in {"healthy", "silent"}, Settle(w)
       PROVE  UNCHANGED <<robotVars, cmd, pc, next>> /\ UNCHANGED context
  BY <1>11 DEF Settle, policyVars, robotVars
<1>12. CASE Advance
  BY <1>12, QuietStep DEF Advance, robotVars
<1>13. CASE UNCHANGED vars
  BY <1>13, QuietStep DEF vars, policyVars, robotVars
<1> QED
  BY <1>1, <1>2, <1>3, <1>4, <1>5, <1>6, <1>7, <1>8, <1>9, <1>10, <1>11, <1>12,
     <1>13, QuietStep
  DEF Next, Sampling, Teleop, Close, Gone

-----------------------------------------------------------------------------
(* The stamps *)

\* A step that leaves stamps, samples and the policy alone keeps StampInv.
LEMMA StampFrame ==
  ASSUME StampInv, UNCHANGED <<seen, stateAge, heard, cmd, actAge, policyAge, frameAge>>,
         ticked' => ticked
  PROVE  StampInv'
BY DEF StampInv

LEMMA StampStep ==
  ASSUME TypeOK, StampInv, [Next]_vars
  PROVE  StampInv'
<1>1. ASSUME NEW s \in Sources, NEW bad \in BOOLEAN, Sample(s, bad) PROVE StampInv'
  <2>1. /\ stateAge' = 0 /\ heard'[s] = 0 /\ ticked' = FALSE
        /\ seen \subseteq seen' /\ seen' \subseteq Sources
        /\ UNCHANGED <<cmd, actAge, policyAge, frameAge>>
    BY <1>1 DEF Sample, Receive, policyVars, TypeOK
  <2>2. \E z \in Sources : heard'[z] <= stateAge'
    BY <2>1
  <2> QED
    BY <2>1, <2>2 DEF StampInv
<1>2. ASSUME NEW v \in Velocity, Twist(v) PROVE StampInv'
  BY <1>2, StampFrame DEF Twist, stateVars, policyVars
<1>3. CASE Pose
  BY <1>3, StampFrame DEF Pose, stateVars, policyVars
<1>4. CASE Tick
  <2>1. UNCHANGED <<seen, broken, stateAge, heard>>
    BY <1>4 DEF Tick, stateVars
  <2>2. 0 < Period /\ 0 \in Nat /\ Period \in Nat
    BY TimesAssumption
  <2>3. /\ policyAge \in 0 .. Period /\ frameAge \in 0 .. Period
        /\ frameAge' \in 0 .. Period
    BY <1>4, DecideResult DEF Tick, TypeOK, PolicyAge
  <2>4. ~Stale => stateAge <= Timeout /\ Sources = seen
    <3>1. SUFFICES ASSUME ~Stale PROVE stateAge <= Timeout /\ Sources = seen
      OBVIOUS
    <3>2. stateAge <= Timeout
      BY <3>1, TimesAssumption DEF Stale, TypeOK, Age
    <3> QED
      BY <3>1, <3>2 DEF Stale, Valid, Sources, TypeOK
  <2>5. CASE Stale /\ cmd' = "zero" /\ UNCHANGED <<policyAge, actAge, frameAge>>
    BY <2>1, <2>5 DEF StampInv
  <2>6. CASE /\ ~Stale /\ policyAge = Period /\ policyAge' = 0
             /\ cmd' = "zero" \/ (cmd' = "act" /\ actAge' = 0)
    BY <2>1, <2>2, <2>3, <2>4, <2>6 DEF StampInv
  <2>7. CASE ~Stale /\ policyAge # Period /\ UNCHANGED policyVars
    <3>1. policyAge < Period
      BY <2>2, <2>3, <2>7
    <3> QED
      BY <2>1, <2>4, <2>7, <3>1 DEF StampInv, policyVars
  <2> QED
    BY <1>4, <2>5, <2>6, <2>7, DecideResult DEF Tick
<1>5. CASE PublishTopic
  BY <1>5, StampFrame DEF PublishTopic, stateVars, policyVars
<1>6. ASSUME NEW d \in Topics, Deliver(d) PROVE StampInv'
  BY <1>6, StampFrame DEF Deliver, stateVars, policyVars
<1>7. CASE LoseContext
  BY <1>7, StampFrame DEF LoseContext, stateVars, policyVars
<1>8. CASE Interrupt
  BY <1>8, StampFrame DEF Interrupt, stateVars, policyVars
<1>9. CASE Close
  BY <1>9, StampFrame DEF Close, CloseTopic, CloseFails, stateVars, policyVars
<1>10. ASSUME NEW w \in {"healthy", "silent"}, Settle(w) PROVE StampInv'
  BY <1>10, StampFrame DEF Settle, stateVars, policyVars
<1>11. CASE Advance
  <2>1. /\ ticked' = FALSE /\ UNCHANGED <<seen, cmd>>
        /\ stateAge' = Older(stateAge, Timeout)
        /\ heard' = [s \in Sources |-> Older(heard[s], Timeout)]
        /\ policyAge' = OlderPolicy(policyAge) /\ actAge' = OlderPolicy(actAge)
        /\ frameAge' = OlderPolicy(frameAge)
    BY <1>11 DEF Advance
  <2>2. /\ stateAge \in Age(Timeout) /\ heard \in [Sources -> Age(Timeout)]
        /\ policyAge \in PolicyAge /\ frameAge \in PolicyAge /\ Timeout \in Nat
    BY TimesAssumption DEF TypeOK
  <2>3. stateAge' <= Timeout => \E s \in Sources : heard'[s] <= stateAge'
    <3>1. SUFFICES ASSUME stateAge' <= Timeout
                   PROVE  \E s \in Sources : heard'[s] <= stateAge'
      OBVIOUS
    <3>2. stateAge <= Timeout
      BY <2>1, <2>2, <3>1 DEF Older, Age
    <3>3. PICK s \in Sources : heard[s] <= stateAge
      BY <3>2 DEF StampInv
    <3>4. heard[s] \in Age(Timeout)
      BY <2>2
    <3>5. Older(heard[s], Timeout) <= Older(stateAge, Timeout)
      BY <2>2, <3>3, <3>4, OlderAges
    <3> QED
      BY <2>1, <3>5
  <2>4. policyAge' <= frameAge'
    BY <2>1, <2>2, OlderPolicyAges DEF StampInv
  <2> QED
    BY <2>1, <2>3, <2>4 DEF StampInv
<1>12. CASE UNCHANGED vars
  BY <1>12, StampFrame DEF vars, stateVars, policyVars
<1> QED
  BY <1>1, <1>2, <1>3, <1>4, <1>5, <1>6, <1>7, <1>8, <1>9, <1>10, <1>11, <1>12
  DEF Next, Sampling, Teleop, Gone

-----------------------------------------------------------------------------
(* The theorems *)

LEMMA InitInv == Init => NodeInv
<1> SUFFICES ASSUME Init PROVE NodeInv
  OBVIOUS
<1>1. /\ <<>> \in Seq(Command) /\ 1 \in Topics
      /\ Timeout + 1 \in Age(Timeout) /\ Period \in PolicyAge
      /\ ~(Timeout + 1 <= Timeout) /\ Period <= Period
  BY TimesAssumption, TopicsAssumption, EmptySeq DEF Age, PolicyAge, Topics
<1>2. TypeOK
  BY <1>1 DEF Init, TypeOK, Velocity, Command
<1>3. StampInv /\ PublicationInv /\ CommandWhole /\ FinalZero
  BY <1>1 DEF Init, StampInv, PublicationInv, CommandWhole, FinalZero, Newest
<1> QED
  BY <1>2, <1>3 DEF NodeInv

\* The node's stamps, its queues and its publication agree in every reachable
\* state (the callbacks, _tick and close).
THEOREM NodeInductive == Spec => []NodeInv
<1>1. Init => NodeInv
  BY InitInv
<1>2. NodeInv /\ [Next]_vars => NodeInv'
  BY TypeStep, StampStep, PublicationStep DEF NodeInv
<1> QED
  BY <1>1, <1>2, PTL DEF Spec

\* Once no source was heard for the timeout, a node that has ticked commands
\* zero (_tick).
THEOREM StarvationStops == Spec => []StarvedStops
<1>1. NodeInv => StarvedStops
  <2>1. SUFFICES ASSUME NodeInv, ticked, \A s \in Sources : heard[s] > Timeout
                 PROVE  cmd = "zero"
    BY DEF StarvedStops
  <2>2. cmd \in Command /\ stateAge \in Age(Timeout) /\ heard \in [Sources -> Age(Timeout)]
    BY <2>1 DEF NodeInv, TypeOK
  <2>3. ~(stateAge <= Timeout)
    <3>1. SUFFICES ASSUME stateAge <= Timeout PROVE FALSE
      OBVIOUS
    <3>2. PICK s \in Sources : heard[s] <= stateAge
      BY <2>1, <3>1 DEF NodeInv, StampInv
    <3>3. heard[s] > Timeout /\ heard[s] \in Age(Timeout)
      BY <2>1, <2>2
    <3> QED
      BY <2>2, <3>1, <3>2, <3>3, TimesAssumption DEF Age
  <2> QED
    BY <2>1, <2>2, <2>3 DEF NodeInv, StampInv, Command
<1> QED
  BY <1>1, NodeInductive, PTL

\* A policy command comes from every source and is held for less than a period
\* (_tick, step).
THEOREM ActIsFresh == Spec => []FreshAct
<1>1. NodeInv => FreshAct
  BY DEF NodeInv, StampInv, FreshAct
<1> QED
  BY <1>1, NodeInductive, PTL

\* Between two ticks all topics end with the same command (_publish_command).
THEOREM CommandsAreWhole == Spec => []CommandWhole
<1>1. NodeInv => CommandWhole
  BY DEF NodeInv
<1> QED
  BY <1>1, NodeInductive, PTL

\* A node that closes with a valid context leaves every topic at zero (close).
THEOREM ClosesAtZero == Spec => []FinalZero
<1>1. NodeInv => FinalZero
  BY DEF NodeInv
<1> QED
  BY <1>1, NodeInductive, PTL

\* No two frames of the policy's history are closer than a period (_tick, step).
THEOREM HistoryIsPaced == Spec => []PacedHistory
<1>1. NodeInv => PacedHistory
  <2>1. SUFFICES ASSUME NodeInv, policyAge = Period PROVE frameAge = Period
    BY DEF PacedHistory
  <2>2. policyAge <= frameAge /\ frameAge \in 0 .. Period
    BY <2>1 DEF NodeInv, StampInv, TypeOK, PolicyAge
  <2> QED
    BY <2>1, <2>2, TimesAssumption
<1> QED
  BY <1>1, NodeInductive, PTL

-----------------------------------------------------------------------------
(* What may move a silenced robot *)

\* The state is too old to act on, the command is zero, and so is what every
\* controller has and is about to get.
Silenced ==
  /\ stateAge > Timeout /\ cmd = "zero"
  /\ \A t \in Topics : held[t] = "zero" /\ wire[t] \in Seq({"zero"})

\* A queue of zeros takes another, and gives one out.
LEMMA ZerosStay ==
  ASSUME NEW q \in Seq({"zero"})
  PROVE  /\ Enqueue(q, "zero") \in Seq({"zero"})
         /\ q # <<>> => Head(q) = "zero" /\ Tail(q) \in Seq({"zero"})
<1> DEFINE longer == Append(q, "zero")
<1>1. longer \in Seq({"zero"}) /\ longer # <<>>
  BY AppendProperties
<1>2. Tail(longer) \in Seq({"zero"})
  BY <1>1, HeadTailProperties
<1>3. q # <<>> => Head(q) \in {"zero"} /\ Tail(q) \in Seq({"zero"})
  BY HeadTailProperties
<1>4. Enqueue(q, "zero") = IF Len(longer) > Depth THEN Tail(longer) ELSE longer
  BY DEF Enqueue
<1> HIDE DEF longer
<1> QED
  BY <1>1, <1>2, <1>3, <1>4

\* A publication of zero, and a delivery, leave all queues quiet.
LEMMA QueuesStayQuiet ==
  ASSUME TypeOK, Silenced, PublishTopic \/ CloseTopic \/ \E t \in Topics : Deliver(t)
  PROVE  \A t \in Topics : held'[t] = "zero" /\ wire'[t] \in Seq({"zero"})
<1>1. /\ wire \in [Topics -> Seq(Command)] /\ held \in [Topics -> Command]
      /\ next \in Topics
      /\ \A t \in Topics : held[t] = "zero" /\ wire[t] \in Seq({"zero"})
  BY DEF TypeOK, Silenced
<1>2. CASE PublishTopic \/ CloseTopic
  <2>1. wire' = [wire EXCEPT ![next] = Enqueue(@, "zero")] /\ held' = held
    BY <1>2 DEF PublishTopic, CloseTopic, FinalCommand, Silenced
  <2>2. SUFFICES ASSUME NEW t \in Topics PROVE wire'[t] \in Seq({"zero"})
    BY <1>1, <2>1
  <2>3. wire'[t] = wire[t] \/ wire'[t] = Enqueue(wire[t], "zero")
    BY <1>1, <2>1
  <2> QED
    BY <1>1, <2>3, ZerosStay
<1>3. ASSUME NEW d \in Topics, Deliver(d), NEW t \in Topics
      PROVE  held'[t] = "zero" /\ wire'[t] \in Seq({"zero"})
  <2>1. /\ wire[d] # <<>> /\ held' = [held EXCEPT ![d] = Head(wire[d])]
        /\ wire' = [wire EXCEPT ![d] = Tail(@)]
    BY <1>3 DEF Deliver
  <2>2. CASE t = d
    <3>1. held'[t] = Head(wire[t]) /\ wire'[t] = Tail(wire[t]) /\ wire[t] # <<>>
      BY <1>1, <2>1, <2>2
    <3> QED
      BY <1>1, <3>1, ZerosStay
  <2>3. CASE t # d
    BY <1>1, <2>1, <2>3
  <2> QED
    BY <2>2, <2>3
<1> QED
  BY <1>2, <1>3

\* Once silence has stopped the robot, only a new sample lets anything move it:
\* no velocity or pose of the operator does, nor what queues still hold, nor the
\* node's end (_tick, _publish_command, close).
THEOREM OnlySamplesMove ==
  Spec => [][Silenced => Silenced' \/ Sampling]_vars
<1>1. ASSUME NodeInv, [Next]_vars, Silenced, ~Sampling
      PROVE  Silenced'
  <2>1. TypeOK /\ stateAge \in Age(Timeout)
    BY <1>1 DEF NodeInv, TypeOK
  <2>2. CASE Teleop
    BY <1>1, <2>2 DEF Teleop, Pose, Twist, stateVars, policyVars, robotVars, Silenced
  <2>3. CASE Tick
    <3>1. Stale
      BY <1>1 DEF Silenced, Stale
    <3>2. cmd' = "zero"
      BY <2>3, <3>1 DEF Tick, Decide
    <3> QED
      BY <1>1, <2>3, <3>2 DEF Tick, stateVars, robotVars, Silenced
  <2>4. CASE PublishTopic \/ CloseTopic \/ \E t \in Topics : Deliver(t)
    <3>1. UNCHANGED <<stateAge, cmd>>
      BY <2>4 DEF PublishTopic, CloseTopic, Deliver, stateVars, policyVars
    <3> QED
      BY <1>1, <2>1, <2>4, <3>1, QueuesStayQuiet DEF Silenced
  <2>5. CASE LoseContext \/ Interrupt \/ CloseFails
             \/ \E w \in {"healthy", "silent"} : Settle(w)
    BY <1>1, <2>5
    DEF LoseContext, Interrupt, CloseFails, Settle, stateVars, policyVars, robotVars,
        Silenced
  <2>6. CASE Advance
    <3>1. stateAge' = stateAge /\ UNCHANGED <<cmd, robotVars>>
      BY <1>1, <2>6 DEF Advance, Older, Silenced
    <3> QED
      BY <1>1, <3>1 DEF robotVars, Silenced
  <2>7. CASE UNCHANGED vars
    BY <1>1, <2>7 DEF vars, stateVars, policyVars, robotVars, Silenced
  <2> QED
    BY <1>1, <2>2, <2>3, <2>4, <2>5, <2>6, <2>7 DEF Next, Close, Gone
<1>2. NodeInv /\ [Next]_vars => [Silenced => Silenced' \/ Sampling]_vars
  BY <1>1
<1> QED
  BY <1>2, NodeInductive, PTL DEF Spec
=============================================================================
