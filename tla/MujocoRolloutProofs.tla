------------------------ MODULE MujocoRolloutProofs ------------------------
(* Proofs about MujocoRollout: which action, command and observation meet,  *)
(* for every launch, every delay, decimation and length of the history, and *)
(* the bounds of the torque.                                                *)
EXTENDS MujocoRollout, TLAPS

-----------------------------------------------------------------------------
(* Arithmetic *)

LEMMA Division ==
  ASSUME NEW a \in Nat, NEW b \in Nat \ {0}
  PROVE  /\ a \div b \in Nat /\ a % b \in 0 .. b - 1
         /\ a = b * (a \div b) + (a % b)
<1>1. a \div b \in Int /\ a % b \in 0 .. b - 1
  OBVIOUS
<1>2. a = b * (a \div b) + (a % b)
  OBVIOUS
<1>3. ~(a \div b <= -1)
  <2>1. SUFFICES ASSUME a \div b <= -1 PROVE FALSE
    OBVIOUS
  <2>2. b * (a \div b) <= -b
    BY <1>1, <2>1
  <2> QED
    BY <1>1, <1>2, <2>2
<1> QED
  BY <1>1, <1>2, <1>3

LEMMA DivisionOfZero ==
  ASSUME NEW b \in Nat \ {0}
  PROVE  0 \div b = 0 /\ 0 % b = 0
OBVIOUS

\* A quotient is unique.
LEMMA Quotient ==
  ASSUME NEW b \in Nat \ {0}, NEW p \in Nat, NEW q \in Nat,
         NEW r \in 0 .. b - 1, NEW s \in 0 .. b - 1, b * p + r = b * q + s
  PROVE  p = q /\ r = s
<1>1. b * (p - q) = s - r
  OBVIOUS
<1>2. ~(p - q >= 1)
  <2>1. SUFFICES ASSUME p - q >= 1 PROVE FALSE
    OBVIOUS
  <2>2. b * (p - q) >= b
    BY <2>1
  <2> QED
    BY <1>1, <2>2
<1>3. ~(q - p >= 1)
  <2>1. SUFFICES ASSUME q - p >= 1 PROVE FALSE
    OBVIOUS
  <2>2. b * (q - p) >= b
    BY <2>1
  <2>3. b * (q - p) = r - s
    BY <1>1
  <2> QED
    BY <2>2, <2>3
<1>4. p = q
  BY <1>2, <1>3
<1> QED
  BY <1>1, <1>4

\* The next step is in the same period, or begins the next one.
LEMMA NextDivision ==
  ASSUME NEW a \in Nat, NEW b \in Nat \ {0}
  PROVE  (a + 1) \div b + (IF (a + 1) % b # 0 THEN 1 ELSE 0) = a \div b + 1
<1> DEFINE q == a \div b  r == a % b  p == (a + 1) \div b  s == (a + 1) % b
<1>1. q \in Nat /\ r \in 0 .. b - 1 /\ a = b * q + r
  BY Division
<1>2. p \in Nat /\ s \in 0 .. b - 1 /\ a + 1 = b * p + s
  BY Division, a + 1 \in Nat
<1> HIDE DEF q, r, p, s
<1>3. CASE r = b - 1
  <2>1. b * p + s = b * (q + 1) + 0
    BY <1>1, <1>2, <1>3
  <2>2. p = q + 1 /\ s = 0
    BY <1>1, <1>2, <2>1, Quotient
  <2> QED
    BY <1>1, <2>2 DEF q, p, s
<1>4. CASE r # b - 1
  <2>1. b * p + s = b * q + (r + 1) /\ r + 1 \in 0 .. b - 1
    BY <1>1, <1>2, <1>4
  <2>2. p = q /\ s = r + 1
    BY <1>1, <1>2, <2>1, Quotient
  <2> QED
    BY <1>1, <2>2 DEF q, p, s
<1> QED
  BY <1>3, <1>4

-----------------------------------------------------------------------------
(* The torque *)

\* Whatever the controller computes and however fast the motor spins, past its
\* corner speed too, the torque stays within the effort limit and within the
\* envelope, whose bounds never cross: the clip has one meaning (update_torque).
THEOREM TorqueBounded ==
  ASSUME NEW s \in Nat, NEW e \in Nat, NEW v \in Nat,
         NEW dq \in Int, NEW computed \in Int
  PROVE  /\ MinEffort(dq, s, e, v) <= MaxEffort(dq, s, e, v)
         /\ Torque(computed, dq, s, e, v)
              \in MinEffort(dq, s, e, v) .. MaxEffort(dq, s, e, v)
         /\ Torque(computed, dq, s, e, v) \in -(e * v) .. e * v
<1> DEFINE sat == s * v  limit == e * v  speed == Speed(dq, s, e, v)
<1>1. sat \in Nat /\ limit \in Nat /\ s * dq \in Int
  OBVIOUS
<1>2. speed \in -(sat + limit) .. sat + limit
  BY <1>1 DEF Speed, Clip, Smaller, Larger
<1>3. /\ MaxEffort(dq, s, e, v) = Smaller(sat - speed, limit)
      /\ MinEffort(dq, s, e, v) = Larger(-sat - speed, -limit)
  BY DEF MaxEffort, MinEffort
<1> HIDE DEF sat, limit, speed
<1>4. /\ MaxEffort(dq, s, e, v) \in -limit .. limit
      /\ MinEffort(dq, s, e, v) \in -limit .. limit
      /\ MinEffort(dq, s, e, v) <= MaxEffort(dq, s, e, v)
  BY <1>1, <1>2, <1>3 DEF Smaller, Larger
<1>5. Torque(computed, dq, s, e, v)
        = Smaller(Larger(computed, MinEffort(dq, s, e, v)), MaxEffort(dq, s, e, v))
  BY DEF Torque
<1>6. Torque(computed, dq, s, e, v)
        \in MinEffort(dq, s, e, v) .. MaxEffort(dq, s, e, v)
  BY <1>1, <1>4, <1>5 DEF Smaller, Larger
<1> QED
  BY <1>1, <1>4, <1>6 DEF limit

\* At the corner speed and beyond, a motor can only brake: no torque in the
\* direction it spins (update_torque).
THEOREM BeyondCornerSpeedBrakes ==
  ASSUME NEW s \in Nat, NEW e \in Nat, NEW v \in Nat,
         NEW dq \in Int, NEW computed \in Int, s * dq >= s * v + e * v
  PROVE  Torque(computed, dq, s, e, v) = -(e * v)
<1> DEFINE sat == s * v  limit == e * v
<1>1. sat \in Nat /\ limit \in Nat /\ s * dq \in Int /\ s * dq >= sat + limit
  OBVIOUS
<1>2. Speed(dq, s, e, v) = sat + limit
  BY <1>1 DEF Speed, Clip, Smaller, Larger
<1>3. /\ MaxEffort(dq, s, e, v) = Smaller(sat - (sat + limit), limit)
      /\ MinEffort(dq, s, e, v) = Larger(-sat - (sat + limit), -limit)
  BY <1>2 DEF MaxEffort, MinEffort
<1> HIDE DEF sat, limit
<1>4. MaxEffort(dq, s, e, v) = -limit /\ MinEffort(dq, s, e, v) = -limit
  BY <1>1, <1>3 DEF Smaller, Larger
<1>5. Torque(computed, dq, s, e, v) = -limit
  BY <1>1, <1>4 DEF Torque, Smaller, Larger
<1> QED
  BY <1>5 DEF limit

-----------------------------------------------------------------------------
(* The launch *)

\* The settings of a launch that was accepted.
LEMMA Settings ==
  ASSUME TypeOK
  PROVE  /\ Delay \in Nat /\ launch.actions.rows \in Nat
         /\ launch.commands.rows \in Nat
         /\ Accepted =>
              /\ Decimation \in Nat \ {0}
              /\ Rate.num \in Nat /\ Rate.den \in Nat \ {0}
              /\ launch.actions.given => launch.actions.rows # 0
              /\ launch.commands.given => launch.commands.rows # 0
<1>1. launch \in LaunchType
  BY LaunchesAssumption DEF TypeOK
<1>2. /\ launch.config \in BOOLEAN /\ launch.delay \in Int
      /\ launch.yamlDelay \in Int /\ launch.decimation \in Int
      /\ launch.yamlDecimation \in Int /\ launch.rate \in RateType
      /\ launch.actions \in ActionFile /\ launch.commands \in CommandTrace
  BY <1>1 DEF LaunchType
<1>3. /\ launch.actions.rows \in Nat /\ launch.commands.rows \in Nat
      /\ launch.commands.rate \in RateType
  BY <1>2 DEF ActionFile, CommandTrace
<1>4. Delay \in Nat
  BY <1>2 DEF Delay, Setting, Larger
<1>5. Decimation \in Int /\ Rate \in RateType
  BY <1>2, <1>3 DEF Decimation, Rate, Setting
<1>6. Accepted =>
        /\ Decimation > 0
        /\ launch.actions.given => launch.actions.rows > 0
        /\ launch.commands.given => launch.commands.rows > 0
  BY DEF Accepted, LoadsActions, LoadsCommands
<1>7. Rate.num \in Nat /\ Rate.den \in Nat \ {0}
  BY <1>5 DEF RateType
<1> QED
  BY <1>3, <1>4, <1>5, <1>6, <1>7

\* It is settled once and for all.
LEMMA SettingsKept ==
  ASSUME UNCHANGED launch
  PROVE  /\ Delay' = Delay /\ Decimation' = Decimation /\ Rate' = Rate
         /\ Accepted' = Accepted
BY DEF Delay, Decimation, Rate, Accepted, Setting

\* The row a floor selects is the newest one whose time has come.
LEMMA FloorIsInForce ==
  ASSUME NEW a \in Nat, NEW b \in Nat \ {0}, NEW rows \in Nat \ {0}
  PROVE  LET n == Smaller(a \div b, rows - 1) + 1
         IN n \in 1 .. rows /\ (n - 1) * b <= a /\ (n = rows \/ a < n * b)
<1> DEFINE q == a \div b  r == a % b
<1>1. q \in Nat /\ r \in 0 .. b - 1 /\ a = b * q + r
  BY Division
<1> HIDE DEF q, r
<1>2. CASE q <= rows - 1
  <2>1. Smaller(q, rows - 1) = q
    BY <1>1, <1>2 DEF Smaller
  <2>2. q + 1 \in 1 .. rows /\ q * b <= a /\ a < (q + 1) * b
    BY <1>1, <1>2
  <2> QED
    BY <1>1, <2>1, <2>2 DEF q
<1>3. CASE q > rows - 1
  <2>1. Smaller(q, rows - 1) = rows - 1
    BY <1>1, <1>3 DEF Smaller
  <2>2. (rows - 1) * b <= q * b
    BY <1>1, <1>3
  <2>3. (rows - 1) * b <= a
    BY <1>1, <2>2
  <2> QED
    BY <2>1, <2>3 DEF q
<1> QED
  BY <1>1, <1>2, <1>3

\* The row of a trace.
LEMMA RowOfTrace ==
  ASSUME TypeOK, Accepted, NEW rows \in Nat \ {0}
  PROVE  /\ Row(rows) \in 0 .. rows - 1
         /\ step = 0 => Row(rows) = 0
         /\ InForce(Row(rows) + 1, step, rows)
<1>1. step \in Nat /\ Rate.num \in Nat /\ Rate.den \in Nat \ {0}
  BY Settings DEF TypeOK
<1> DEFINE a == step * Rate.num  d == a \div Rate.den
<1>2. a \in Nat /\ (step = 0 => a = 0)
  BY <1>1
<1>3. LET n == Smaller(d, rows - 1) + 1
      IN /\ n \in 1 .. rows /\ (n - 1) * Rate.den <= a
         /\ n = rows \/ a < n * Rate.den
  BY <1>1, <1>2, FloorIsInForce
<1>4. d \in Nat /\ (step = 0 => d = 0)
  BY <1>1, <1>2, Division, DivisionOfZero
<1>5. Row(rows) = Smaller(d, rows - 1)
  BY DEF Row
<1> HIDE DEF d
<1>6. Row(rows) \in 0 .. rows - 1 /\ (step = 0 => Row(rows) = 0)
  BY <1>4, <1>5 DEF Smaller
<1> QED
  BY <1>3, <1>5, <1>6 DEF InForce

\* The action of an update.
LEMMA ActionOfUpdate ==
  ASSUME TypeOK, Accepted
  PROVE  NewAction \in Nat \ {0}
<1>1. CASE launch.actions.given
  BY <1>1, Settings, RowOfTrace DEF NewAction
<1>2. CASE ~launch.actions.given
  BY <1>2 DEF NewAction, TypeOK
<1> QED
  BY <1>1, <1>2

-----------------------------------------------------------------------------
(* The buffers and the deque *)

\* A window of the given size over the values pushed, filled by the first one.
LEMMA WindowShifts ==
  ASSUME NEW S, NEW size \in Nat \ {0}, NEW w \in Seq(S), NEW x \in S,
         w = <<>> \/ Len(w) = size,
         NEW v, v = IF w = <<>> THEN [i \in 1 .. size |-> x] ELSE Append(Tail(w), x)
  PROVE  /\ v \in Seq(S) /\ Len(v) = size /\ v # <<>>
         /\ \A i \in 1 .. size : v[i] = IF w = <<>> \/ i = size THEN x ELSE w[i + 1]
<1>1. CASE w = <<>>
  <2>1. v = [i \in 1 .. size |-> x]
    BY <1>1
  <2>2. v \in Seq(S) /\ Len(v) = size
    BY <2>1
  <2> QED
    BY <1>1, <2>1, <2>2
<1>2. CASE w # <<>>
  <2>1. v = Append(Tail(w), x) /\ Len(w) = size
    BY <1>2
  <2>2. /\ Tail(w) \in Seq(S) /\ Len(Tail(w)) = size - 1
        /\ \A i \in 1 .. size - 1 : Tail(w)[i] = w[i + 1]
    BY <1>2, <2>1
  <2>3. v \in Seq(S) /\ Len(v) = size
    BY <2>1, <2>2
  <2>4. \A i \in 1 .. size : v[i] = IF i = size THEN x ELSE w[i + 1]
    BY <2>1, <2>2
  <2> QED
    BY <1>2, <2>3, <2>4
<1> QED
  BY <1>1, <1>2

\* A value appended to a history.
LEMMA Appended ==
  ASSUME NEW S, NEW h \in Seq(S), NEW x \in S, NEW g, g = Append(h, x)
  PROVE  /\ g \in Seq(S) /\ g # <<>> /\ Len(g) = Len(h) + 1 /\ Len(h) \in Nat
         /\ g[Len(g)] = x
         /\ \A n \in 1 .. Len(h) : g[n] = h[n]
         /\ h = <<>> <=> Len(h) = 0
OBVIOUS

\* The index in the history of what a window of the given size holds, before
\* and after a push.
LEMMA WindowIndex ==
  ASSUME NEW size \in Nat \ {0}, NEW k \in Nat, NEW i \in 1 .. size
  PROVE  /\ Larger(1, k + 1 - size + i) \in 1 .. k + 1
         /\ i = size \/ k = 0 => Larger(1, k + 1 - size + i) = k + 1
         /\ i # size /\ k # 0 =>
              /\ i + 1 \in 1 .. size
              /\ Larger(1, k + 1 - size + i) \in 1 .. k
              /\ Larger(1, k - size + (i + 1)) = Larger(1, k + 1 - size + i)
BY DEF Larger

-----------------------------------------------------------------------------
(* A policy step *)

Data == <<launch, action, arm, queue, terms, command, done, frames, issued, trace>>

\* What holds of the data in any phase.
DataInv ==
  /\ QueueInv /\ BuffersInv /\ RawInv /\ HistoryAligned /\ LastActionChained
  /\ TraceAligned /\ ReplayInOrder /\ RawOnlyInDump

LEMMA ReplayKept ==
  ASSUME ReplayInOrder, UNCHANGED <<launch, frames>>
  PROVE  ReplayInOrder'
BY SettingsKept DEF ReplayInOrder, InForce

LEMMA DataKept ==
  ASSUME DataInv, UNCHANGED Data
  PROVE  DataInv'
BY SettingsKept, ReplayKept
DEF Data, DataInv, QueueInv, BuffersInv, RawInv, HistoryAligned,
    LastActionChained, TraceAligned, RawOnlyInDump

\* The frame of an update.
NewFrame ==
  [state |-> step, last_action |-> LastAction, command |-> command', row |-> NewAction]

LEMMA FrameOfUpdate ==
  ASSUME TypeOK, Accepted, command' \in Command
  PROVE  /\ NewFrame \in Frame
         /\ NewFrame.state = step /\ NewFrame.last_action = action
         /\ NewFrame.command = command' /\ NewFrame.row = NewAction
BY ActionOfUpdate DEF NewFrame, Frame, LastAction, TypeOK

LEMMA StepFrames ==
  ASSUME TypeOK, Accepted, command' \in Command, PolicyStep
  PROVE  /\ frames' \in Seq(Frame) /\ frames' # <<>> /\ Len(frames) \in Nat
         /\ Len(frames') = Len(frames) + 1
         /\ frames'[Len(frames')] = NewFrame
         /\ \A n \in 1 .. Len(frames) : frames'[n] = frames[n]
         /\ frames = <<>> <=> Len(frames) = 0
<1>1. frames' = Append(frames, NewFrame) /\ frames \in Seq(Frame)
  BY DEF PolicyStep, NewFrame, TypeOK
<1> QED
  BY <1>1, FrameOfUpdate, Appended

\* Every buffer goes on holding the end of its term's history (policy_step).
LEMMA StepTerm ==
  ASSUME TypeOK, Accepted, command' \in Command, PolicyStep,
         BuffersInv, HistoryAligned,
         NEW S, NEW t \in Terms, terms[t] \in Seq(S),
         NewFrame[t] \in S, terms'[t] = Shift(terms[t], NewFrame[t])
  PROVE  /\ terms'[t] \in Seq(S) /\ Len(terms'[t]) = HistoryLen
         /\ \A i \in 1 .. HistoryLen :
              terms'[t][i] = frames'[Larger(1, Len(frames') - HistoryLen + i)][t]
<1> DEFINE w == terms[t]  x == NewFrame[t]  v == terms'[t]  k == Len(frames)
<1>1. v = IF w = <<>> THEN [i \in 1 .. HistoryLen |-> x] ELSE Append(Tail(w), x)
  BY DEF Shift
<1>2. /\ k \in Nat /\ Len(frames') = k + 1 /\ frames'[k + 1] = NewFrame
      /\ \A n \in 1 .. k : frames'[n] = frames[n]
      /\ frames = <<>> <=> k = 0
  BY StepFrames
<1>3. /\ Len(w) = IF k = 0 THEN 0 ELSE HistoryLen
      /\ w = <<>> <=> Len(w) = 0
  BY <1>2 DEF BuffersInv
<1>4. (w = <<>> <=> k = 0) /\ (w = <<>> \/ Len(w) = HistoryLen)
  BY <1>3, HistoryLenAssumption
<1>5. /\ v \in Seq(S) /\ Len(v) = HistoryLen
      /\ \A i \in 1 .. HistoryLen :
           v[i] = IF w = <<>> \/ i = HistoryLen THEN x ELSE w[i + 1]
  BY <1>1, <1>4, HistoryLenAssumption, WindowShifts
<1>6. ASSUME NEW i \in 1 .. HistoryLen
      PROVE  v[i] = frames'[Larger(1, Len(frames') - HistoryLen + i)][t]
  <2> DEFINE n == Larger(1, k + 1 - HistoryLen + i)
  <2>1. n = Larger(1, Len(frames') - HistoryLen + i)
    <3>1. k + 1 - HistoryLen + i = Len(frames') - HistoryLen + i
      BY <1>2, HistoryLenAssumption
    <3> QED
      BY <3>1
  <2>2. CASE i = HistoryLen \/ k = 0
    <3>1. n = k + 1
      BY <1>2, <2>2, HistoryLenAssumption, WindowIndex
    <3>2. v[i] = x
      BY <1>4, <1>5, <2>2
    <3> QED
      BY <1>2, <2>1, <3>1, <3>2
  <2>3. CASE i # HistoryLen /\ k # 0
    <3>1. /\ i + 1 \in 1 .. HistoryLen /\ n \in 1 .. k
          /\ Larger(1, k - HistoryLen + (i + 1)) = n
      BY <1>2, <2>3, HistoryLenAssumption, WindowIndex
    <3>2. v[i] = w[i + 1]
      BY <1>4, <1>5, <2>3
    <3>3. w[i + 1] = frames[n][t]
      BY <1>2, <2>3, <3>1 DEF HistoryAligned
    <3> QED
      BY <1>2, <2>1, <3>1, <3>2, <3>3
  <2> QED
    BY <2>2, <2>3
<1> QED
  BY <1>5, <1>6

\* The buffers, the frames and the last action, after a policy step.
LEMMA StepHistories ==
  ASSUME TypeOK, Accepted, command' \in Command, PolicyStep, DataInv,
         UNCHANGED <<launch, step, queue, issued, trace>>, done' \in BOOLEAN,
         pc' \in {"update", "actuate"}, Len(trace) <= Len(frames)
  PROVE  /\ TypeOK' /\ QueueInv' /\ BuffersInv' /\ HistoryAligned' /\ LastActionChained'
         /\ TraceAligned'
<1>1. DOMAIN terms = Terms /\ BuffersInv /\ HistoryAligned
  BY DEF TypeOK, DataInv
<1>2. NewFrame \in Frame /\ NewFrame.row = NewAction /\ NewFrame.last_action = action
  BY FrameOfUpdate
<1>3. /\ NewFrame["state"] \in Nat /\ NewFrame["last_action"] \in Nat
      /\ NewFrame["command"] \in Command
  BY <1>2 DEF Frame
<1>4. DOMAIN terms' = Terms /\ \A t \in Terms : terms'[t] = Shift(terms[t], NewFrame[t])
  BY DEF PolicyStep, NewFrame, Terms
<1>5. /\ terms["state"] \in Seq(Nat) /\ terms["last_action"] \in Seq(Nat)
      /\ terms["command"] \in Seq(Command)
      /\ "state" \in Terms /\ "last_action" \in Terms /\ "command" \in Terms
  BY DEF TypeOK, Terms
<1> DEFINE Aligned(t) ==
      /\ Len(terms'[t]) = HistoryLen
      /\ \A i \in 1 .. HistoryLen :
           terms'[t][i] = frames'[Larger(1, Len(frames') - HistoryLen + i)][t]
<1>6. terms'["state"] \in Seq(Nat) /\ Aligned("state")
  BY <1>1, <1>3, <1>4, <1>5, StepTerm
<1>7. terms'["last_action"] \in Seq(Nat) /\ Aligned("last_action")
  BY <1>1, <1>3, <1>4, <1>5, StepTerm
<1>8. terms'["command"] \in Seq(Command) /\ Aligned("command")
  BY <1>1, <1>3, <1>4, <1>5, StepTerm
<1>9. \A t \in Terms : Aligned(t)
  BY <1>6, <1>7, <1>8 DEF Terms
<1>10. /\ frames' \in Seq(Frame) /\ frames' # <<>> /\ Len(frames) \in Nat
       /\ Len(frames') = Len(frames) + 1
       /\ frames'[Len(frames')] = NewFrame
       /\ \A n \in 1 .. Len(frames) : frames'[n] = frames[n]
       /\ frames = <<>> <=> Len(frames) = 0
  BY StepFrames
<1>11. action' = NewAction /\ NewAction \in Nat \ {0}
       /\ arm' = IF Delay = 0 THEN NewAction ELSE arm
  BY ActionOfUpdate DEF PolicyStep
<1>12. TypeOK'
  BY <1>4, <1>6, <1>7, <1>8, <1>10, <1>11 DEF TypeOK
<1>13. BuffersInv' /\ HistoryAligned'
  BY <1>9, <1>10 DEF BuffersInv, HistoryAligned
<1>14. QueueInv'
  BY <1>11, SettingsKept DEF QueueInv, DataInv
<1>15. LastActionChained'
  <2>1. action' = IF frames' = <<>> THEN 0 ELSE frames'[Len(frames')].row
    BY <1>2, <1>10, <1>11
  <2>2. ASSUME NEW n \in 1 .. Len(frames')
        PROVE  frames'[n].last_action = IF n = 1 THEN 0 ELSE frames'[n - 1].row
    <3>1. CASE n \in 1 .. Len(frames)
      <4>1. frames'[n] = frames[n] /\ (n # 1 => frames'[n - 1] = frames[n - 1])
        BY <1>10, <3>1
      <4> QED
        BY <3>1, <4>1 DEF DataInv, LastActionChained
    <3>2. CASE n = Len(frames) + 1
      <4>1. frames'[n].last_action = action
        BY <1>2, <1>10, <3>2
      <4>2. n # 1 => frames'[n - 1] = frames[Len(frames)] /\ frames # <<>>
        BY <1>10, <3>2
      <4>3. n = 1 => frames = <<>>
        BY <1>10, <3>2
      <4>4. action = IF frames = <<>> THEN 0 ELSE frames[Len(frames)].row
        BY DEF DataInv, LastActionChained
      <4> QED
        BY <4>1, <4>2, <4>3, <4>4
    <3> QED
      BY <1>10, <2>2, <3>1, <3>2
  <2> QED
    BY <2>1, <2>2 DEF LastActionChained
<1>16. TraceAligned'
  <2>1. SUFFICES ASSUME NEW i \in 1 .. Len(trace)
                 PROVE  trace[i].update = i /\ frames'[i].state = trace[i].step
    BY DEF TraceAligned
  <2>2. trace[i].update = i /\ frames[i].state = trace[i].step
    BY DEF DataInv, TraceAligned
  <2>3. Len(trace) \in Nat
    BY DEF TypeOK
  <2> QED
    BY <1>10, <2>2, <2>3
<1> QED
  BY <1>12, <1>13, <1>14, <1>15, <1>16

-----------------------------------------------------------------------------
(* The invariant *)

LEMMA InitInv == Init => RolloutInv
<1> SUFFICES ASSUME Init PROVE RolloutInv
  OBVIOUS
<1>1. TypeOK
  <2>1. \A t \in Terms : terms[t] = <<>>
    BY DEF Init
  <2>2. DOMAIN terms = Terms /\ [row |-> 0, sanitized |-> TRUE] \in Command
    BY DEF Init, Command
  <2>3. /\ terms["state"] \in Seq(Nat) /\ terms["last_action"] \in Seq(Nat)
        /\ terms["command"] \in Seq(Command)
    <3>1. terms["state"] = <<>> /\ terms["last_action"] = <<>> /\ terms["command"] = <<>>
      BY <2>1 DEF Terms
    <3> QED
      BY <3>1
  <2>4. /\ frames \in Seq(Frame) /\ trace \in Seq([step: Nat, update: Nat])
        /\ queue \in Seq(Nat) /\ issued \in Seq(Nat)
    BY DEF Init
  <2> QED
    BY <2>2, <2>3, <2>4 DEF Init, TypeOK
<1>2. Delay = 0 => arm = action
  BY DEF Init
<1>3. PhaseInv /\ QueueInv /\ BuffersInv /\ ClockInv /\ RawInv
  BY <1>2 DEF Init, PhaseInv, QueueInv, BuffersInv, ClockInv, RawInv, Terms
<1>4. ArmDelayExact /\ HistoryAligned /\ LastActionChained /\ TraceAligned
  BY DEF Init, ArmDelayExact, HistoryAligned, LastActionChained, TraceAligned
<1>5. ReplayInOrder /\ RawOnlyInDump
  BY DEF Init, ReplayInOrder, RawOnlyInDump
<1> QED
  BY <1>1, <1>3, <1>4, <1>5 DEF RolloutInv

\* The invariant in the parts its steps are proved in.
LEMMA Parts ==
  RolloutInv <=> TypeOK /\ PhaseInv /\ ClockInv /\ ArmDelayExact /\ DataInv
BY DEF RolloutInv, DataInv

\* No row of the trace is of an update still to come.
LEMMA TraceWritten ==
  ASSUME RolloutInv, pc \in {"dump", "update", "actuate", "integrate"}
  PROVE  /\ Len(trace) \in Nat /\ Len(trace) <= Len(frames)
         /\ pc \in {"update", "actuate", "integrate"} =>
              Len(frames) = Len(trace) + (IF Pending THEN 1 ELSE 0)
<1>1. Len(trace) \in Nat /\ Len(frames) \in Nat
  BY DEF RolloutInv, TypeOK
<1>2. CASE pc = "dump"
  BY <1>1, <1>2 DEF RolloutInv, PhaseInv
<1>3. CASE pc # "dump"
  BY <1>1, <1>3 DEF RolloutInv, ClockInv
<1> QED
  BY <1>2, <1>3

LEMMA LaunchStep ==
  ASSUME RolloutInv, Launch
  PROVE  RolloutInv'
<1>1. UNCHANGED Data /\ UNCHANGED <<step, done>> /\ pc' \in {"refused", "dump", "update"}
  BY DEF Launch, Data
<1>2. TypeOK'
  BY <1>1 DEF RolloutInv, TypeOK, Data
<1>3. step = 0 /\ ~done /\ frames = <<>> /\ issued = <<>> /\ trace = <<>>
  BY DEF Launch, RolloutInv, PhaseInv
<1>4. (pc' # "refused" => Accepted) /\ (pc' = "dump" => launch.dump)
  BY DEF Launch
<1>5. PhaseInv'
  BY <1>1, <1>3, <1>4, SettingsKept DEF PhaseInv, Data
<1>6. ClockInv'
  <2>1. SUFFICES ASSUME pc' = "update" PROVE ClockInv'
    BY <1>1 DEF ClockInv
  <2>2. Decimation' \in Nat \ {0}
    BY <1>1, <1>4, <2>1, Settings, SettingsKept DEF RolloutInv, Data
  <2>3. step' = 0 /\ ~done' /\ Len(frames') = 0 /\ Len(trace') = 0
    BY <1>1, <1>3 DEF Data
  <2>4. step' \div Decimation' = 0 /\ step' % Decimation' = 0 /\ ~Pending'
    BY <2>1, <2>2, <2>3, DivisionOfZero DEF Pending
  <2> QED
    BY <2>1, <2>3, <2>4 DEF ClockInv
<1>7. ArmDelayExact'
  BY <1>1 DEF ArmDelayExact
<1> QED
  BY <1>1, <1>2, <1>5, <1>6, <1>7, DataKept, Parts DEF RolloutInv, DataInv

\* A policy step is due when the loop has not yet evaluated this one.
Due == step % Decimation = 0 /\ ~(step = 0 /\ done)

\* An update that evaluates the policy.
LEMMA UpdateDueStep ==
  ASSUME RolloutInv, Update, Due
  PROVE  RolloutInv'
<1>1. /\ TypeOK /\ DataInv /\ Accepted /\ pc = "update" /\ pc' = "actuate"
      /\ NewCommand /\ PolicyStep
      /\ UNCHANGED <<launch, step, queue, done, issued, trace>>
  BY Parts DEF Update, Due, RolloutInv, PhaseInv
<1>2. /\ Decimation \in Nat \ {0} /\ step \in Nat
      /\ done \in BOOLEAN /\ command \in Command
      /\ launch.commands.given => launch.commands.rows \in Nat \ {0}
      /\ launch.actions.given => launch.actions.rows \in Nat \ {0}
  BY <1>1, Settings DEF TypeOK
<1>3. /\ command' \in Command
      /\ launch.commands.given =>
           command'.sanitized /\ command'.row = Row(launch.commands.rows) + 1
      /\ ~command'.sanitized => launch.commands.given
  <2>1. CASE launch.commands.given
    <3>1. command' = [row |-> Row(launch.commands.rows) + 1, sanitized |-> TRUE]
      BY <1>1, <2>1 DEF NewCommand
    <3>2. Row(launch.commands.rows) + 1 \in Nat
      BY <1>1, <1>2, <2>1, RowOfTrace
    <3> QED
      BY <2>1, <3>1, <3>2 DEF Command
  <2>2. CASE ~launch.commands.given
    <3>1. \/ command' = command
          \/ command' = [row |-> step + 1, sanitized |-> TRUE]
      BY <1>1, <2>2 DEF NewCommand
    <3>2. command.sanitized
      BY <1>1, <2>2 DEF DataInv, RawInv
    <3>3. CASE command' = command
      BY <1>2, <2>2, <3>2, <3>3
    <3>4. CASE command' = [row |-> step + 1, sanitized |-> TRUE]
      BY <1>2, <2>2, <3>4 DEF Command
    <3> QED
      BY <3>1, <3>3, <3>4
  <2> QED
    BY <2>1, <2>2
<1>4. /\ ~Pending /\ Len(trace) \in Nat
      /\ Len(frames) = Len(trace) /\ Len(trace) = step \div Decimation
  <2>1. ~Pending
    BY <1>1 DEF Pending, Due
  <2>2. Len(trace) = step \div Decimation + 0
    BY <1>1 DEF RolloutInv, ClockInv, Due
  <2>3. step \div Decimation \in Nat
    BY <1>2, Division
  <2>4. Len(trace) \in Nat /\ Len(frames) = Len(trace) + 0
    BY <1>1, <2>1, TraceWritten
  <2> QED
    BY <2>1, <2>2, <2>3, <2>4
<1>5. /\ frames' \in Seq(Frame) /\ frames' # <<>> /\ Len(frames) \in Nat
      /\ Len(frames') = Len(frames) + 1
      /\ frames'[Len(frames')] = NewFrame
      /\ \A n \in 1 .. Len(frames) : frames'[n] = frames[n]
  BY <1>1, <1>3, StepFrames
<1>6. /\ NewFrame.state = step /\ NewFrame.command = command'
      /\ NewFrame.row = NewAction
  BY <1>1, <1>3, FrameOfUpdate
<1>7. TypeOK' /\ QueueInv' /\ BuffersInv' /\ HistoryAligned' /\ LastActionChained' /\ TraceAligned'
  BY <1>1, <1>2, <1>3, <1>4, StepHistories
<1>8. PhaseInv'
  BY <1>1, <1>5, SettingsKept DEF PhaseInv
<1>9. ClockInv'
  <2>1. Pending'
    BY <1>1, SettingsKept DEF Pending, Due
  <2> QED
    BY <1>1, <1>4, <1>5, <1>6, <2>1, SettingsKept DEF ClockInv, Due
<1>10. ArmDelayExact'
  BY <1>1 DEF ArmDelayExact
<1>11. RawInv'
  BY <1>1, <1>3 DEF RawInv
<1>12. RawOnlyInDump'
  BY <1>1, <1>3, <1>5, <1>6 DEF RawOnlyInDump, DataInv, RawInv
<1>13. ReplayInOrder'
  <2>1. SUFFICES ASSUME NEW n \in 1 .. Len(frames')
                 PROVE  /\ frames'[n].state = Decimation * (n - 1)
                        /\ launch.actions.given =>
                             InForce(frames'[n].row, frames'[n].state,
                                     launch.actions.rows)
                        /\ launch.commands.given =>
                             InForce(frames'[n].command.row, frames'[n].state,
                                     launch.commands.rows)
    BY <1>1, SettingsKept DEF ReplayInOrder, InForce
  <2>2. CASE n \in 1 .. Len(frames)
    BY <1>1, <1>5, <2>1, <2>2 DEF DataInv, ReplayInOrder
  <2>3. CASE n = Len(frames) + 1
    <3>1. frames'[n] = NewFrame /\ n - 1 = step \div Decimation
      BY <1>4, <1>5, <2>1, <2>3
    <3>2. step = Decimation * (step \div Decimation)
      BY <1>2, Division DEF Due
    <3>3. launch.actions.given => InForce(NewAction, step, launch.actions.rows)
      BY <1>1, <1>2, RowOfTrace DEF NewAction
    <3>4. launch.commands.given => InForce(command'.row, step, launch.commands.rows)
      BY <1>1, <1>2, <1>3, RowOfTrace
    <3> QED
      BY <1>6, <3>1, <3>2, <3>3, <3>4
  <2> QED
    BY <1>5, <2>1, <2>2, <2>3
<1> QED
  BY <1>7, <1>8, <1>9, <1>10, <1>11, <1>12, <1>13 DEF RolloutInv

\* One that holds the last action.
LEMMA UpdateHeldStep ==
  ASSUME RolloutInv, Update, ~Due
  PROVE  RolloutInv'
<1>1. UNCHANGED Data /\ UNCHANGED step /\ pc = "update" /\ pc' = "actuate"
  BY DEF Update, Due, Data
<1>2. /\ Decimation \in Nat \ {0} /\ step \in Nat /\ Accepted
  BY <1>1, Settings DEF RolloutInv, TypeOK, PhaseInv
<1>3. TypeOK'
  BY <1>1 DEF RolloutInv, TypeOK, Data
<1>4. frames # <<>>
  <2>1. step = 0 => step % Decimation = 0
    BY <1>2, DivisionOfZero
  <2>2. step > 0 \/ done
    BY <1>2, <2>1 DEF Due
  <2> QED
    BY <2>2 DEF RolloutInv, PhaseInv
<1>5. PhaseInv'
  BY <1>1, <1>2, <1>4, SettingsKept DEF PhaseInv, Data
<1>6. ClockInv'
  <2>1. Pending' <=> Pending
    <3>1. step = 0 => step % Decimation = 0
      BY <1>2, DivisionOfZero
    <3> QED
      BY <1>1, <3>1, SettingsKept DEF Pending, Due, Data
  <2> QED
    BY <1>1, <2>1, SettingsKept DEF RolloutInv, ClockInv, Data
<1>7. ArmDelayExact'
  BY <1>1 DEF ArmDelayExact
<1> QED
  BY <1>1, <1>3, <1>5, <1>6, <1>7, DataKept DEF RolloutInv, DataInv

\* The update for the dump, whose command is the trace's first row as it is.
LEMMA DumpStep ==
  ASSUME RolloutInv, Dump
  PROVE  RolloutInv'
<1>1. /\ TypeOK /\ DataInv /\ Accepted /\ pc = "dump" /\ pc' = "update"
      /\ command' = IF launch.commands.given THEN [row |-> 1, sanitized |-> FALSE]
                    ELSE command
      /\ PolicyStep /\ done' = TRUE
      /\ UNCHANGED <<launch, step, queue, issued, trace>>
  BY DEF Dump, RolloutInv, PhaseInv, DataInv
<1>2. /\ step = 0 /\ frames = <<>> /\ trace = <<>> /\ issued = <<>>
      /\ Len(frames) = 0 /\ Len(trace) = 0
  BY <1>1 DEF RolloutInv, PhaseInv
<1>3. /\ Decimation \in Nat \ {0} /\ command \in Command
      /\ launch.commands.given => launch.commands.rows \in Nat \ {0}
      /\ launch.actions.given => launch.actions.rows \in Nat \ {0}
  BY <1>1, Settings DEF TypeOK
<1>4. /\ command' \in Command
      /\ launch.commands.given => command'.row = 1
      /\ ~command'.sanitized => launch.commands.given
  <2>1. CASE launch.commands.given
    BY <1>1, <2>1 DEF Command
  <2>2. CASE ~launch.commands.given
    BY <1>1, <1>3, <2>2 DEF DataInv, RawInv
  <2> QED
    BY <2>1, <2>2
<1>5. /\ frames' \in Seq(Frame) /\ frames' # <<>> /\ Len(frames') = 1
      /\ frames'[1] = NewFrame
  BY <1>1, <1>2, <1>4, StepFrames
<1>6. /\ NewFrame.state = step /\ NewFrame.command = command'
      /\ NewFrame.row = NewAction
  BY <1>1, <1>4, FrameOfUpdate
<1>7. TypeOK' /\ QueueInv' /\ BuffersInv' /\ HistoryAligned' /\ LastActionChained' /\ TraceAligned'
  BY <1>1, <1>2, <1>4, StepHistories
<1>8. PhaseInv'
  BY <1>1, <1>5, SettingsKept DEF PhaseInv
<1>9. ClockInv'
  <2>1. Pending' /\ step \div Decimation = 0 /\ step % Decimation = 0
    BY <1>1, <1>2, <1>3, DivisionOfZero DEF Pending
  <2> QED
    BY <1>1, <1>2, <1>5, <1>6, <2>1, SettingsKept DEF ClockInv
<1>10. ArmDelayExact'
  BY <1>1 DEF ArmDelayExact
<1>11. RawInv'
  BY <1>1, <1>4 DEF RawInv
<1>12. RawOnlyInDump'
  <2>1. launch.dump
    BY <1>1 DEF RolloutInv, PhaseInv
  <2> QED
    BY <1>1, <1>4, <1>5, <1>6, <2>1 DEF RawOnlyInDump
<1>13. ReplayInOrder'
  <2>1. launch.actions.given => InForce(NewAction, step, launch.actions.rows)
    BY <1>1, <1>3, RowOfTrace DEF NewAction
  <2>2. launch.commands.given => InForce(command'.row, step, launch.commands.rows)
    <3>1. launch.commands.given => command'.row = Row(launch.commands.rows) + 1
      BY <1>1, <1>2, <1>3, <1>4, RowOfTrace
    <3> QED
      BY <1>1, <1>3, <3>1, RowOfTrace
  <2>3. Decimation * (1 - 1) = step
    BY <1>2, <1>3
  <2> QED
    BY <1>1, <1>5, <1>6, <2>1, <2>2, <2>3, SettingsKept DEF ReplayInOrder, InForce
<1> QED
  BY <1>7, <1>8, <1>9, <1>10, <1>11, <1>12, <1>13 DEF RolloutInv

-----------------------------------------------------------------------------
(* A physics step *)

\* advance_actuator_delay(): the deque goes on holding the last Delay + 1
\* commands, and the arm gets the oldest.
LEMMA DequeAdvances ==
  ASSUME TypeOK, QueueInv, Delay > 0, Advance, issued' = Append(issued, action)
  PROVE  /\ queue' \in Seq(Nat) /\ Len(queue') = Delay + 1 /\ arm' = queue'[1]
         /\ \A i \in 1 .. Delay + 1 :
              queue'[i] = issued'[Larger(1, Len(issued) + 1 - (Delay + 1) + i)]
<1> DEFINE size == Delay + 1  k == Len(issued)
<1>1. /\ Delay \in Nat /\ size \in Nat \ {0} /\ action \in Nat
      /\ issued \in Seq(Nat) /\ queue \in Seq(Nat)
  BY Settings DEF TypeOK
<1>2. /\ k \in Nat /\ issued'[k + 1] = action
      /\ \A n \in 1 .. k : issued'[n] = issued[n]
      /\ issued = <<>> <=> k = 0
  BY <1>1
<1>3. (queue = <<>> <=> k = 0) /\ (queue = <<>> \/ Len(queue) = size)
  BY <1>1, <1>2 DEF QueueInv
<1>4. /\ queue' = IF queue = <<>> THEN [i \in 1 .. size |-> action]
                  ELSE Append(Tail(queue), action)
      /\ arm' = queue'[1]
  BY DEF Advance, Push
<1>5. /\ queue' \in Seq(Nat) /\ Len(queue') = size
      /\ \A i \in 1 .. size :
           queue'[i] = IF queue = <<>> \/ i = size THEN action ELSE queue[i + 1]
  BY <1>1, <1>3, <1>4, WindowShifts
<1>6. ASSUME NEW i \in 1 .. size
      PROVE  queue'[i] = issued'[Larger(1, k + 1 - size + i)]
  <2>1. CASE i = size \/ k = 0
    <3>1. Larger(1, k + 1 - size + i) = k + 1
      BY <1>1, <1>2, <2>1, WindowIndex
    <3> QED
      BY <1>2, <1>3, <1>5, <2>1, <3>1
  <2>2. CASE i # size /\ k # 0
    <3>1. /\ i + 1 \in 1 .. size /\ Larger(1, k + 1 - size + i) \in 1 .. k
          /\ Larger(1, k - size + (i + 1)) = Larger(1, k + 1 - size + i)
      BY <1>1, <1>2, <2>2, WindowIndex
    <3>2. queue[i + 1] = issued[Larger(1, k - size + (i + 1))]
      BY <1>2, <2>2, <3>1 DEF QueueInv
    <3> QED
      BY <1>2, <1>3, <1>5, <2>2, <3>1, <3>2
  <2> QED
    BY <2>1, <2>2
<1> QED
  BY <1>4, <1>5, <1>6

LEMMA ActuateStep ==
  ASSUME RolloutInv, Actuate
  PROVE  RolloutInv'
<1>1. /\ TypeOK /\ pc = "actuate" /\ pc' = "integrate" /\ Advance /\ Accepted
      /\ issued' = Append(issued, action)
      /\ UNCHANGED <<launch, step, action, terms, command, done, frames>>
  BY DEF Actuate, RolloutInv, PhaseInv
<1>2. /\ Delay \in Nat /\ Decimation \in Nat \ {0} /\ step \in Nat
      /\ issued \in Seq(Nat) /\ action \in Nat /\ arm \in Nat /\ queue \in Seq(Nat)
  BY <1>1, Settings DEF TypeOK
<1>3. /\ issued' \in Seq(Nat) /\ issued' # <<>> /\ Len(issued) \in Nat
      /\ Len(issued') = Len(issued) + 1 /\ issued'[Len(issued')] = action
  <2>1. issued' = Append(issued, action)
    BY <1>1
  <2>2. /\ Append(issued, action) \in Seq(Nat) /\ Len(issued) \in Nat
        /\ Len(Append(issued, action)) = Len(issued) + 1
        /\ Append(issued, action)[Len(issued) + 1] = action
    BY <1>2
  <2>3. issued' \in Seq(Nat) /\ Len(issued') = Len(issued) + 1 /\ Len(issued) \in Nat
    BY <2>1, <2>2
  <2>4. issued' # <<>>
    BY <2>3
  <2>5. issued'[Len(issued')] = action
    BY <2>1, <2>2, <2>3
  <2> QED
    BY <2>3, <2>4, <2>5
<1>4. /\ QueueInv' /\ ArmDelayExact' /\ queue' \in Seq(Nat) /\ arm' \in Nat
  <2>1. CASE Delay = 0
    <3>1. UNCHANGED <<queue, arm>> /\ arm = action
      BY <1>1, <2>1 DEF Advance, RolloutInv, QueueInv
    <3>2. Larger(1, Len(issued') - Delay') = Len(issued')
      BY <1>1, <1>3, <2>1, SettingsKept DEF Larger
    <3> QED
      BY <1>1, <1>2, <1>3, <2>1, <3>1, <3>2, SettingsKept DEF QueueInv, ArmDelayExact
  <2>2. CASE Delay > 0
    <3>1. /\ queue' \in Seq(Nat) /\ Len(queue') = Delay + 1 /\ arm' = queue'[1]
          /\ \A i \in 1 .. Delay + 1 :
               queue'[i] = issued'[Larger(1, Len(issued) + 1 - (Delay + 1) + i)]
      BY <1>1, <2>2, DequeAdvances DEF RolloutInv
    <3>2. QueueInv'
      <4>1. ASSUME NEW i \in 1 .. Delay + 1
            PROVE  queue'[i] = issued'[Larger(1, Len(issued') - (Delay + 1) + i)]
        <5>1. Len(issued) + 1 - (Delay + 1) + i = Len(issued') - (Delay + 1) + i
          BY <1>2, <1>3
        <5> QED
          BY <3>1, <5>1
      <4>2. Delay' = Delay /\ Delay # 0 /\ issued' # <<>>
        BY <1>1, <1>2, <1>3, <2>2, SettingsKept
      <4> QED
        BY <3>1, <4>1, <4>2 DEF QueueInv
    <3>3. Larger(1, Len(issued) + 1 - (Delay + 1) + 1) = Larger(1, Len(issued') - Delay')
      BY <1>1, <1>2, <1>3, SettingsKept
    <3>4. arm' = issued'[Larger(1, Len(issued') - Delay')]
      BY <1>2, <2>2, <3>1, <3>3
    <3>5. arm' \in Nat
      BY <1>2, <2>2, <3>1
    <3> QED
      BY <3>1, <3>2, <3>4, <3>5 DEF ArmDelayExact
  <2> QED
    BY <1>2, <2>1, <2>2
<1>5. Len(trace) \in Nat /\ Len(frames) = Len(trace) + (IF Pending THEN 1 ELSE 0)
  BY <1>1, TraceWritten
<1>6. /\ Pending <=> Updated
      /\ Pending => frames[Len(frames)].state = step
      /\ Len(trace) = step \div Decimation + (IF step % Decimation # 0 THEN 1 ELSE 0)
  BY <1>1 DEF RolloutInv, ClockInv, Pending, Updated
<1>7. /\ trace' \in Seq([step: Nat, update: Nat])
      /\ Len(trace') = step \div Decimation + 1 /\ Len(frames) = Len(trace')
      /\ TraceAligned'
  <2>1. trace \in Seq([step: Nat, update: Nat]) /\ step \div Decimation \in Nat
    BY <1>1, <1>2, Division DEF TypeOK
  <2>2. CASE Updated
    <3> DEFINE row == [step |-> step, update |-> Len(frames)]
    <3>1. trace' = Append(trace, row) /\ Len(frames) = Len(trace) + 1
      BY <1>5, <1>6, <2>2 DEF Actuate
    <3>2. /\ trace' \in Seq([step: Nat, update: Nat]) /\ Len(trace') = Len(trace) + 1
          /\ trace'[Len(trace')] = row /\ \A n \in 1 .. Len(trace) : trace'[n] = trace[n]
      BY <1>2, <1>5, <2>1, <3>1, Appended
    <3>3. TraceAligned'
      BY <1>1, <1>5, <1>6, <2>2, <3>1, <3>2 DEF RolloutInv, TraceAligned
    <3> QED
      BY <1>5, <1>6, <2>1, <2>2, <3>1, <3>2, <3>3 DEF Updated
  <2>3. CASE ~Updated
    <3>1. trace' = trace
      BY <2>3 DEF Actuate
    <3> QED
      BY <1>1, <1>5, <1>6, <2>1, <2>3, <3>1 DEF Updated, RolloutInv, TraceAligned
  <2> QED
    BY <2>2, <2>3
<1>8. TypeOK'
  BY <1>1, <1>3, <1>4, <1>7 DEF TypeOK
<1>9. PhaseInv'
  BY <1>1, <1>3, SettingsKept DEF RolloutInv, PhaseInv
<1>10. ClockInv'
  BY <1>1, <1>5, <1>7, SettingsKept DEF ClockInv, Pending
<1>11. /\ BuffersInv' /\ RawInv' /\ HistoryAligned' /\ LastActionChained'
       /\ ReplayInOrder' /\ RawOnlyInDump'
  BY <1>1, SettingsKept, ReplayKept
  DEF RolloutInv, BuffersInv, RawInv, HistoryAligned, LastActionChained,
      RawOnlyInDump
<1> QED
  BY <1>4, <1>7, <1>8, <1>9, <1>10, <1>11 DEF RolloutInv

\* mj_step(): what was written is the count of the periods begun.
LEMMA IntegrateStep ==
  ASSUME RolloutInv, Integrate
  PROVE  RolloutInv'
<1>1. /\ pc = "integrate" /\ pc' \in {"update", "finished"} /\ step' = step + 1
      /\ UNCHANGED Data /\ Accepted
  BY DEF Integrate, Data, RolloutInv, PhaseInv
<1>2. step \in Nat /\ Decimation \in Nat \ {0}
  BY <1>1, Settings DEF RolloutInv, TypeOK
<1>3. TypeOK'
  BY <1>1, <1>2 DEF RolloutInv, TypeOK, Data
<1>4. PhaseInv'
  BY <1>1, SettingsKept DEF RolloutInv, PhaseInv, Data
<1>5. ClockInv'
  <2>1. ~Pending /\ ~Pending' /\ Len(frames) = Len(trace) + 0
    BY <1>1, <1>2, TraceWritten DEF Pending
  <2>2. Len(trace) = step \div Decimation + 1
    BY <1>1 DEF RolloutInv, ClockInv
  <2>3. Len(trace) = step' \div Decimation' + (IF step' % Decimation' # 0 THEN 1 ELSE 0)
    BY <1>1, <1>2, <2>2, NextDivision, SettingsKept DEF Data
  <2> QED
    BY <1>1, <2>1, <2>3 DEF ClockInv, Data
<1>6. ArmDelayExact'
  BY <1>1 DEF ArmDelayExact
<1> QED
  BY <1>1, <1>3, <1>4, <1>5, <1>6, DataKept DEF RolloutInv, DataInv

LEMMA FinishStep ==
  ASSUME RolloutInv, Finish
  PROVE  RolloutInv'
<1>1. /\ pc = "update" /\ pc' = "finished" /\ UNCHANGED step /\ UNCHANGED Data
  BY DEF Finish, Data
<1>2. TypeOK'
  BY <1>1 DEF RolloutInv, TypeOK, Data
<1>3. PhaseInv'
  BY <1>1, SettingsKept DEF RolloutInv, PhaseInv, Data
<1>4. ClockInv' /\ ArmDelayExact'
  BY <1>1 DEF ClockInv, ArmDelayExact
<1> QED
  BY <1>1, <1>2, <1>3, <1>4, DataKept DEF RolloutInv, DataInv

LEMMA InvStep == RolloutInv /\ [Next]_vars => RolloutInv'
<1> SUFFICES ASSUME RolloutInv, [Next]_vars PROVE RolloutInv'
  OBVIOUS
<1>1. CASE Launch
  BY <1>1, LaunchStep
<1>2. CASE Dump
  BY <1>2, DumpStep
<1>3. CASE Update
  BY <1>3, UpdateDueStep, UpdateHeldStep
<1>4. CASE Actuate
  BY <1>4, ActuateStep
<1>5. CASE Integrate
  BY <1>5, IntegrateStep
<1>6. CASE Finish
  BY <1>6, FinishStep
<1>7. CASE UNCHANGED vars
  <2>1. UNCHANGED Data /\ UNCHANGED <<pc, step>>
    BY <1>7 DEF vars, Data
  <2>2. TypeOK' /\ PhaseInv' /\ ClockInv' /\ ArmDelayExact'
    BY <2>1, SettingsKept
    DEF RolloutInv, TypeOK, PhaseInv, ClockInv, Pending, ArmDelayExact, Data
  <2> QED
    BY <2>1, <2>2, DataKept DEF RolloutInv, DataInv
<1> QED
  BY <1>1, <1>2, <1>3, <1>4, <1>5, <1>6, <1>7 DEF Next, Ended

-----------------------------------------------------------------------------
(* The theorems *)

\* The deque, the buffers, the traces and the phases agree in every reachable
\* state (main, policy_step, advance_actuator_delay).
THEOREM RolloutInductive == Spec => []RolloutInv
<1> QED
  BY InitInv, InvStep, PTL DEF Spec

\* The arm follows the action of exactly Delay physics steps before
\* (advance_actuator_delay).
THEOREM ArmIsDelayedExactly == Spec => []ArmDelayExact
<1>1. RolloutInv => ArmDelayExact
  BY DEF RolloutInv
<1> QED
  BY <1>1, RolloutInductive, PTL

\* Every buffer holds the last updates' samples, oldest first (policy_step).
THEOREM HistoriesAreAligned == Spec => []HistoryAligned
<1>1. RolloutInv => HistoryAligned
  BY DEF RolloutInv
<1> QED
  BY <1>1, RolloutInductive, PTL

\* The policy is shown the action its last update issued (frame, policy_step).
THEOREM LastActionIsChained == Spec => []LastActionChained
<1>1. RolloutInv => LastActionChained
  BY DEF RolloutInv
<1> QED
  BY <1>1, RolloutInductive, PTL

\* Every update is that of its own control period and is given the rows in force
\* then, of traces recorded at any rate and for any decimation (the loop of main).
THEOREM ReplayIsInOrder == Spec => []ReplayInOrder
<1>1. RolloutInv => ReplayInOrder
  BY DEF RolloutInv
<1> QED
  BY <1>1, RolloutInductive, PTL

\* A row of the policy trace holds the state its frame was sampled in.
THEOREM TraceIsAligned == Spec => []TraceAligned
<1>1. RolloutInv => TraceAligned
  BY DEF RolloutInv
<1> QED
  BY <1>1, RolloutInductive, PTL

\* Only a dump shows the policy a command that was not sanitized.
THEOREM OnlyTheDumpIsRaw == Spec => []RawOnlyInDump
<1>1. RolloutInv => RawOnlyInDump
  BY DEF RolloutInv
<1> QED
  BY <1>1, RolloutInductive, PTL
=============================================================================
