------------------------- MODULE RlControllerProofs -------------------------
(***************************************************************************)
(* Theorems of RlController, for every set of policies, every length of    *)
(* the ramps and however long a pose is held: its types, that the robot is *)
(* not handed on before it stands, that no setpoint jumps, that an update  *)
(* brings a robot asked to lie down closer to it, and that a policy        *)
(* entered again is heard.                                                 *)
(***************************************************************************)
EXTENDS RlController, TLAPS

UpType == [flag: {"fold", "stand", "roll"}, iter: Nat, start: Nat,
           fold: FoldRamps \cup {0}, from: {"initial", "fold"}]
DownType == [iter: Nat, fold: FoldRamps \cup {0}, finished: BOOLEAN]
CmdType == [kind: {"none", "damp", "hold", "ramp", "undefined", "policy"},
            ramp: Ramp, action: Visit \cup {"torn"}]

\* The ramps' lengths as numbers.
LEMMA RampsAreNumbers ==
  /\ \A n \in FoldRamps \cup {0} : n \in Nat
  /\ StandRamp \in Nat /\ StandRamp >= 1
  /\ Settle \in Nat /\ Settle >= 2
<1>1. \A n \in FoldRamps : n \in Nat
  BY RampsAssumption
<1>2. StandRamp \in Nat /\ StandRamp # 0 /\ Settle \in Nat /\ Settle # 0 /\ Settle # 1
  BY RampsAssumption
<1> QED
  BY <1>1, <1>2

\* The shorter of two durations is one, and at most both.
LEMMA SmallerOfTwo ==
  ASSUME NEW a \in Nat, NEW b \in Nat
  PROVE  /\ Smaller(a, b) \in Nat /\ Smaller(a, b) <= a /\ Smaller(a, b) <= b
         /\ a <= b => Smaller(a, b) = a
         /\ b <= a => Smaller(a, b) = b
BY DEF Smaller

\* A setpoint is a command, and undefined only at the start of an empty ramp.
LEMMA SetpointType ==
  ASSUME NEW f \in {"initial", "fold"}, NEW t \in {"fold", "stand"},
         NEW at \in Nat, NEW of \in Nat
  PROVE  /\ Setpoint(f, t, at, of) \in CmdType
         /\ Setpoint(f, t, at, of).ramp
              = [from |-> f, to |-> t, at |-> Smaller(at, of), of |-> of]
         /\ Setpoint(f, t, at, of).kind
              = IF at = 0 /\ of = 0 THEN "undefined" ELSE "ramp"
<1>1. Smaller(at, of) \in Nat
  BY SmallerOfTwo
<1> QED
  BY <1>1 DEF Setpoint, Command, CmdType, Ramp, Visit

LEMMA SetpointKind ==
  ASSUME NEW f \in {"initial", "fold"}, NEW t \in {"fold", "stand"},
         NEW at \in Nat, NEW of \in Nat
  PROVE  /\ at >= 1 \/ of >= 1 => Setpoint(f, t, at, of).kind = "ramp"
         /\ at = 0 /\ of = 0 => Setpoint(f, t, at, of).kind = "undefined"
BY DEF Setpoint, Command

LEMMA SetpointStarts ==
  ASSUME NEW f \in {"initial", "fold"}, NEW t \in {"fold", "stand"}, NEW of \in Nat
  PROVE  Setpoint(f, t, 0, of).ramp = [from |-> f, to |-> t, at |-> 0, of |-> of]
BY DEF Setpoint, Command, Smaller

\* A command that is no setpoint.
LEMMA PlainCommandType ==
  ASSUME NEW k \in {"none", "damp", "hold", "policy"}, NEW a \in Visit \cup {"torn"}
  PROVE  /\ Command(k, NoRamp, a) \in CmdType
         /\ Command(k, NoRamp, a).kind = k
BY DEF Command, CmdType, NoRamp, Ramp

\* Past its end a ramp's setpoint no longer changes.
LEMMA SetpointHolds ==
  ASSUME NEW f \in {"initial", "fold"}, NEW t \in {"fold", "stand"},
         NEW of \in Nat, NEW a \in Nat, NEW b \in Nat,
         a >= of, b >= of, a > 0, b > 0
  PROVE  Setpoint(f, t, a, of) = Setpoint(f, t, b, of)
<1>1. Smaller(a, of) = of /\ Smaller(b, of) = of
  BY SmallerOfTwo
<1>2. a # 0 /\ b # 0
  OBVIOUS
<1> QED
  BY <1>1, <1>2 DEF Setpoint

\* Before it, the next setpoint is one step further.
LEMMA SetpointFollows ==
  ASSUME NEW f \in {"initial", "fold"}, NEW t \in {"fold", "stand"},
         NEW of \in Nat, NEW a \in Nat, a < of
  PROVE  Follows(Setpoint(f, t, a, of).ramp, Setpoint(f, t, a + 1, of).ramp)
<1>1. /\ Setpoint(f, t, a, of).ramp = [from |-> f, to |-> t, at |-> a, of |-> of]
      /\ Setpoint(f, t, a + 1, of).ramp
           = [from |-> f, to |-> t, at |-> a + 1, of |-> of]
  BY SetpointType, SmallerOfTwo
<1> QED
  BY <1>1 DEF Follows

-----------------------------------------------------------------------------
(* One tick of each transform *)

\* What a tick of transform_up makes of its phase: the fold goes on or ends, the
\* stand goes on.
LEMMA UpTick ==
  ASSUME NEW u \in UpType
  PROVE  /\ UpRun(u) \in UpType /\ UpRun(u).fold = u.fold
         /\ UpRun(u).iter = Smaller(u.iter + 1, UpLimit(u))
         /\ u.flag # "fold" \/ ~(u.iter - u.start >= u.fold)
              => /\ UpRun(u).flag = u.flag /\ UpRun(u).start = u.start
                 /\ UpRun(u).from = u.from
         /\ u.flag = "fold" /\ u.iter - u.start >= u.fold
              => /\ UpRun(u).flag \in {"stand", "roll"}
                 /\ UpRun(u).from = "fold" /\ UpRun(u).start = u.iter + 1
<1> DEFINE v == IF u.flag = "fold" /\ u.iter - u.start >= u.fold
                THEN Folded(u) ELSE u
<1>1. u.iter \in Nat /\ u.fold \in Nat /\ UpLimit(u) \in Nat
  <2>1. u.iter \in Nat /\ u.fold \in FoldRamps \cup {0}
    BY DEF UpType
  <2> QED
    BY <2>1, RampsAreNumbers DEF UpLimit
<1>2. u.iter + 1 \in Nat
  BY <1>1
<1>2a. Folded(u) \in UpType /\ Folded(u).iter = u.iter /\ Folded(u).fold = u.fold
      /\ Folded(u).flag \in {"stand", "roll"}
      /\ Folded(u).from = "fold" /\ Folded(u).start = u.iter + 1
  BY <1>2 DEF Folded, UpType
<1>3. v \in UpType /\ v.iter = u.iter /\ v.fold = u.fold
  BY <1>2a
<1>4. UpLimit(v) = UpLimit(u) /\ UpRun(u) = [v EXCEPT !.iter = Smaller(@ + 1, UpLimit(v))]
  BY <1>3 DEF UpLimit, UpRun
<1>5. Smaller(u.iter + 1, UpLimit(u)) \in Nat
  BY <1>1, <1>2, SmallerOfTwo
<1>6. /\ UpRun(u) \in UpType /\ UpRun(u).iter = Smaller(u.iter + 1, UpLimit(u))
      /\ UpRun(u).fold = v.fold /\ UpRun(u).flag = v.flag
      /\ UpRun(u).start = v.start /\ UpRun(u).from = v.from
  BY <1>3, <1>4, <1>5 DEF UpType
<1>7. CASE u.flag = "fold" /\ u.iter - u.start >= u.fold
  BY <1>2a, <1>3, <1>6, <1>7
<1>8. CASE ~(u.flag = "fold" /\ u.iter - u.start >= u.fold)
  <2>1. v = u
    BY <1>8
  <2>2. u.flag # "fold" \/ ~(u.iter - u.start >= u.fold)
    BY <1>8
  <2> QED
    BY <1>6, <2>1, <2>2
<1> QED
  BY <1>7, <1>8

\* A tick of transform_down counts on.
LEMMA DownTick ==
  ASSUME NEW d \in DownType
  PROVE  /\ DownRun(d) \in DownType /\ DownRun(d).fold = d.fold
         /\ DownRun(d).iter = Smaller(d.iter + 1, d.fold + Settle)
<1>1. d.iter \in Nat /\ d.fold \in Nat /\ d.fold + Settle \in Nat
  <2>1. d.iter \in Nat /\ d.fold \in FoldRamps \cup {0}
    BY DEF DownType
  <2> QED
    BY <2>1, RampsAreNumbers
<1>2. Smaller(d.iter + 1, d.fold + Settle) \in Nat
  <2>1. d.iter + 1 \in Nat
    BY <1>1
  <2> QED
    BY <1>1, <2>1, SmallerOfTwo
<1>3. (d.finished \/ d.iter >= d.fold + Settle) \in BOOLEAN
  OBVIOUS
<1> QED
  BY <1>2, <1>3 DEF DownRun, DownType

-----------------------------------------------------------------------------
(* One tick of a state *)

\* The command of transform_up is a setpoint, or none for a robot upside down.
LEMMA UpCommandType ==
  ASSUME NEW u \in UpType, u.flag = "roll" \/ u.start <= u.iter
  PROVE  UpCommand(u) \in CmdType
<1>1. /\ u.flag = "roll" \/ u.iter - u.start \in Nat
      /\ u.fold \in Nat /\ StandRamp \in Nat
      /\ u.from \in {"initial", "fold"} /\ u.flag \in {"fold", "stand", "roll"}
  <2>1. /\ u.iter \in Nat /\ u.start \in Nat /\ u.fold \in FoldRamps \cup {0}
        /\ u.from \in {"initial", "fold"} /\ u.flag \in {"fold", "stand", "roll"}
    BY DEF UpType
  <2> QED
    BY <2>1, RampsAreNumbers
<1>2. CASE u.flag = "fold"
  <2>1. UpCommand(u) = Setpoint(u.from, "fold", u.iter - u.start, u.fold)
    BY <1>2 DEF UpCommand
  <2>2. \A f \in {"initial", "fold"}, at \in Nat, of \in Nat :
          Setpoint(f, "fold", at, of) \in CmdType
    BY SetpointType
  <2>3. u.iter - u.start \in Nat
    BY <1>1, <1>2
  <2> QED
    BY <1>1, <2>1, <2>2, <2>3
<1>3. CASE u.flag = "stand"
  <2>1. UpCommand(u) = Setpoint(u.from, "stand", u.iter - u.start, StandRamp)
    BY <1>3 DEF UpCommand
  <2>2. \A f \in {"initial", "fold"}, at \in Nat, of \in Nat :
          Setpoint(f, "stand", at, of) \in CmdType
    BY SetpointType
  <2>3. u.iter - u.start \in Nat
    BY <1>1, <1>3
  <2> QED
    BY <1>1, <2>1, <2>2, <2>3
<1>4. CASE u.flag = "roll"
  <2>1. UpCommand(u) = Command("none", NoRamp, "none")
    BY <1>4 DEF UpCommand
  <2> QED
    BY <2>1, PlainCommandType DEF Visit
<1> QED
  BY <1>1, <1>2, <1>3, <1>4

\* So is the command of transform_down.
LEMMA DownCommandType ==
  ASSUME NEW d \in DownType
  PROVE  DownCommand(d) \in CmdType
<1>1. d.iter \in Nat /\ d.fold \in Nat
  <2>1. d.iter \in Nat /\ d.fold \in FoldRamps \cup {0}
    BY DEF DownType
  <2> QED
    BY <2>1, RampsAreNumbers
<1> QED
  BY <1>1, SetpointType DEF DownCommand

\* What a tick does in each state.
LEMMA RunCases ==
  ASSUME NEW s \in States, NEW u, NEW d, NEW acts, Run(s, u, d, acts)
  PROVE  \/ /\ s = "transform_up"
            /\ up' = UpRun(u) /\ down' = NoDown /\ cmd' = UpCommand(u)
         \/ /\ s = "transform_down"
            /\ up' = NoUp /\ down' = DownRun(d) /\ cmd' = DownCommand(d)
         \/ s \notin Transforms /\ up' = NoUp /\ down' = NoDown
            /\ \/ cmd' = Damp \/ cmd' = Hold
               \/ s \in Policies /\ cmd' = PolicyCommand(s, acts[s])
BY Zenon, PoliciesAssumption DEF Run, States, Transforms

\* and that it leaves everything of its type.
LEMMA RunType ==
  ASSUME NEW s \in States, NEW u \in UpType, NEW d \in DownType,
         NEW acts \in [Policies -> Visit], Run(s, u, d, acts),
         s = "transform_up" => u.flag = "roll" \/ u.start <= u.iter
  PROVE  /\ up' \in UpType /\ down' \in DownType /\ cmd' \in CmdType
         /\ cmd'.kind \in {"ramp", "undefined"} => s \in Transforms
<1>1. NoUp \in UpType /\ NoDown \in DownType
  BY DEF NoUp, NoDown, UpType, DownType
<1>2. /\ Damp \in CmdType /\ Damp.kind = "damp"
      /\ Hold \in CmdType /\ Hold.kind = "hold"
  BY PlainCommandType DEF Damp, Hold, Visit
<1>3. ASSUME s \in Policies
      PROVE  /\ PolicyCommand(s, acts[s]) \in CmdType
             /\ PolicyCommand(s, acts[s]).kind = "policy"
  <2>1. acts[s] \in Visit
    BY <1>3
  <2>2. (IF thread[s] = "storing" THEN "torn" ELSE acts[s]) \in Visit \cup {"torn"}
    BY <2>1
  <2> QED
    BY <2>2, PlainCommandType DEF PolicyCommand
<1>4. CASE s = "transform_up" /\ up' = UpRun(u) /\ down' = NoDown /\ cmd' = UpCommand(u)
  BY <1>1, <1>4, UpTick, UpCommandType DEF Transforms
<1>5. CASE s = "transform_down" /\ up' = NoUp /\ down' = DownRun(d) /\ cmd' = DownCommand(d)
  BY <1>1, <1>5, DownTick, DownCommandType DEF Transforms
<1>6. CASE /\ s \notin Transforms /\ up' = NoUp /\ down' = NoDown
           /\ \/ cmd' = Damp \/ cmd' = Hold
              \/ s \in Policies /\ cmd' = PolicyCommand(s, acts[s])
  BY <1>1, <1>2, <1>3, <1>6
<1> QED
  BY RunCases, <1>4, <1>5, <1>6

\* A state's successor is a state.
LEMMA NextNameType ==
  ASSUME NEW s \in States
  PROVE  NextName(s) \in States
<1>1. Admits(s) \subseteq States
  <2>1. /\ IdleAdmits \subseteq States /\ JointPDAdmits \subseteq States
        /\ UpAdmits \subseteq States /\ PolicyAdmits \subseteq States
    BY DEF IdleAdmits, JointPDAdmits, UpAdmits, PolicyAdmits, States, Transforms
  <2> QED
    BY Zenon, <2>1 DEF Admits, States, Transforms
<1>2. "idle" \in States
  BY DEF States
<1>3. CASE s = "transform_down" /\ down'.finished
  <2>1. NextName(s) = "idle" \/ request \in Admits(s)
    BY <1>3 DEF NextName
  <2>2. NextName(s) = "idle" \/ NextName(s) = request
    BY <1>3 DEF NextName
  <2> QED
    BY <1>1, <1>2, <2>1, <2>2
<1>4. CASE ~(s = "transform_down" /\ down'.finished)
  <2>1. NextName(s) = IF request \in Admits(s) THEN request ELSE s
    BY <1>4 DEF NextName
  <2> QED
    BY <1>1, <2>1
<1> QED
  BY <1>3, <1>4

-----------------------------------------------------------------------------
(* The two ramps *)

\* UpInv and DownInv of a transform's counters and the last command,
UpPhase(u, c) ==
  \/ /\ u.flag = "fold" /\ u.from = "initial" /\ u.start = 0
     /\ u.iter \in 1..u.fold
     /\ c = Setpoint("initial", "fold", u.iter - 1, u.fold)
  \/ /\ u.flag = "stand" /\ u.from = "fold" /\ u.start = u.fold + 1
     /\ u.iter \in u.start..UpLimit(u)
     /\ c = IF u.iter = u.start
            THEN Setpoint("initial", "fold", u.fold, u.fold)
            ELSE Setpoint("fold", "stand", u.iter - 1 - u.start, StandRamp)
  \/ u.flag = "roll"
DownPhase(d, c) ==
  /\ d.iter \in 1..(d.fold + Settle)
  /\ c = Setpoint("initial", "fold", d.iter - 1, d.fold)

\* and what a robot that may be handed on has reached.
Stood(u, c) ==
  \/ u.flag = "roll" /\ c.kind = "none"
  \/ /\ c = Setpoint("fold", "stand", StandRamp, StandRamp)
     /\ u.iter - u.start >= StandRamp + Settle - 1

\* b continues a without a jump.
Continues(a, b) ==
  /\ b.kind # "undefined"
  /\ a.kind = "ramp" /\ b.kind = "ramp" => a = b \/ Follows(a.ramp, b.ramp)

LEMMA UpNumbers ==
  ASSUME NEW u \in UpType
  PROVE  /\ u.iter \in Nat /\ u.start \in Nat /\ u.fold \in Nat
         /\ UpLimit(u) = u.fold + StandRamp + Settle /\ UpLimit(u) \in Nat
<1>1. u.iter \in Nat /\ u.start \in Nat /\ u.fold \in FoldRamps \cup {0}
  BY DEF UpType
<1> QED
  BY <1>1, RampsAreNumbers DEF UpLimit

\* The fold goes on to its end, and the stand starts where it ended.
LEMMA UpFolds ==
  ASSUME NEW u \in UpType, NEW c, UpPhase(u, c), u.flag = "fold"
  PROVE  /\ UpPhase(UpRun(u), UpCommand(u))
         /\ ~(UpRun(u).iter >= UpLimit(UpRun(u)))
         /\ Continues(c, UpCommand(u))
<1>1. /\ u.from = "initial" /\ u.start = 0 /\ u.iter \in 1..u.fold
      /\ c = Setpoint("initial", "fold", u.iter - 1, u.fold)
  BY DEF UpPhase
<1>2. /\ u.iter \in Nat /\ u.fold \in Nat /\ u.iter <= u.fold /\ u.iter >= 1
      /\ u.iter - 1 \in Nat /\ u.iter - 1 < u.fold /\ u.iter + 1 \in Nat
      /\ u.iter + 1 <= UpLimit(u) /\ UpLimit(u) \in Nat
      /\ u.iter - 1 + 1 = u.iter /\ u.iter - u.start = u.iter
      /\ u.iter + 1 < UpLimit(u)
  BY <1>1, UpNumbers, RampsAreNumbers
<1>3. /\ UpRun(u) \in UpType /\ UpRun(u).fold = u.fold
      /\ UpRun(u).iter = u.iter + 1
  BY <1>2, UpTick, SmallerOfTwo
<1>4. UpLimit(UpRun(u)) = UpLimit(u)
  BY <1>3 DEF UpLimit
<1>5. UpCommand(u) = Setpoint("initial", "fold", u.iter, u.fold)
  BY <1>1, <1>2 DEF UpCommand
<1>6. Continues(c, UpCommand(u))
  <2>1. Follows(c.ramp, UpCommand(u).ramp)
    BY <1>1, <1>2, <1>5, SetpointFollows
  <2>2. UpCommand(u).kind = "ramp"
    <3>1. \A n, of \in Nat :
            n >= 1 => Setpoint("initial", "fold", n, of).kind = "ramp"
      BY SetpointKind
    <3> QED
      BY <1>2, <1>5, <3>1
  <2> QED
    BY <2>1, <2>2 DEF Continues
<1>7. UpPhase(UpRun(u), UpCommand(u))
  <2>1. CASE u.iter = u.fold
    <3>1. /\ UpRun(u).flag \in {"stand", "roll"} /\ UpRun(u).from = "fold"
          /\ UpRun(u).start = u.iter + 1
      BY <1>2, <2>1, UpTick
    <3>2. UpRun(u).iter \in UpRun(u).start..UpLimit(UpRun(u))
      BY <1>2, <1>3, <1>4, <3>1
    <3> QED
      BY <1>3, <1>5, <2>1, <3>1, <3>2 DEF UpPhase
  <2>2. CASE u.iter # u.fold
    <3>1. /\ UpRun(u).flag = "fold" /\ UpRun(u).from = "initial"
          /\ UpRun(u).start = 0
      BY <1>1, <1>2, <2>2, UpTick
    <3>2. UpRun(u).iter \in 1..UpRun(u).fold /\ UpRun(u).iter - 1 = u.iter
      BY <1>2, <1>3, <2>2
    <3> QED
      BY <1>3, <1>5, <3>1, <3>2 DEF UpPhase
  <2> QED
    BY <2>1, <2>2
<1> QED
  BY <1>2, <1>3, <1>4, <1>6, <1>7

\* The stand goes on to its end and is held there, and only then is it over.
LEMMA UpStands ==
  ASSUME NEW u \in UpType, NEW c, UpPhase(u, c), u.flag = "stand"
  PROVE  /\ UpPhase(UpRun(u), UpCommand(u))
         /\ UpRun(u).iter >= UpLimit(UpRun(u)) => Stood(UpRun(u), UpCommand(u))
         /\ Continues(c, UpCommand(u))
<1> DEFINE at == u.iter - u.start
<1>1. /\ u.from = "fold" /\ u.start = u.fold + 1
      /\ u.iter \in u.start..UpLimit(u)
      /\ c = IF u.iter = u.start
             THEN Setpoint("initial", "fold", u.fold, u.fold)
             ELSE Setpoint("fold", "stand", u.iter - 1 - u.start, StandRamp)
  BY DEF UpPhase
<1>2. /\ u.iter \in Nat /\ u.fold \in Nat /\ u.start \in Nat
      /\ u.iter >= u.start /\ u.iter <= UpLimit(u)
      /\ at \in Nat /\ u.iter + 1 \in Nat /\ UpLimit(u) \in Nat
      /\ UpLimit(u) = u.start + StandRamp + Settle - 1
      /\ StandRamp \in Nat /\ StandRamp >= 1 /\ Settle \in Nat /\ Settle >= 2
  BY <1>1, UpNumbers, RampsAreNumbers
<1>3. /\ UpRun(u) \in UpType /\ UpRun(u).fold = u.fold
      /\ UpRun(u).iter = Smaller(u.iter + 1, UpLimit(u))
      /\ UpRun(u).flag = "stand" /\ UpRun(u).start = u.start
      /\ UpRun(u).from = "fold"
  BY <1>1, UpTick
<1>4. UpLimit(UpRun(u)) = UpLimit(u)
  BY <1>3 DEF UpLimit
<1>5. UpCommand(u) = Setpoint("fold", "stand", at, StandRamp)
  BY <1>1 DEF UpCommand
<1>6. /\ UpCommand(u).kind = "ramp"
      /\ UpCommand(u).ramp = [from |-> "fold", to |-> "stand",
                              at |-> Smaller(at, StandRamp), of |-> StandRamp]
  <2>1. \A n, of \in Nat :
          /\ Setpoint("fold", "stand", n, of).ramp
               = [from |-> "fold", to |-> "stand", at |-> Smaller(n, of), of |-> of]
          /\ of >= 1 => Setpoint("fold", "stand", n, of).kind = "ramp"
    BY SetpointType
  <2> QED
    BY <1>2, <1>5, <2>1
<1>7. CASE u.iter < UpLimit(u)
  <2>1. UpRun(u).iter = u.iter + 1
    <3>1. u.iter + 1 <= UpLimit(u)
      BY <1>2, <1>7
    <3> QED
      BY <1>2, <1>3, <3>1, SmallerOfTwo
  <2>2. UpPhase(UpRun(u), UpCommand(u))
    <3>1. /\ UpRun(u).iter # UpRun(u).start
          /\ UpRun(u).iter - 1 - UpRun(u).start = at
          /\ UpRun(u).iter \in UpRun(u).start..UpLimit(UpRun(u))
          /\ UpRun(u).start = UpRun(u).fold + 1
      BY <1>1, <1>2, <1>3, <1>4, <1>7, <2>1
    <3> QED
      BY <1>3, <1>5, <3>1 DEF UpPhase
  <2>3. UpRun(u).iter >= UpLimit(UpRun(u)) => Stood(UpRun(u), UpCommand(u))
    <3>1. SUFFICES ASSUME u.iter + 1 >= UpLimit(u)
                   PROVE  Stood(UpRun(u), UpCommand(u))
      BY <1>4, <2>1
    <3>2. /\ at >= StandRamp /\ at > 0 /\ StandRamp > 0
          /\ UpRun(u).iter - UpRun(u).start >= StandRamp + Settle - 1
      BY <1>2, <1>3, <2>1, <3>1
    <3>3. UpCommand(u) = Setpoint("fold", "stand", StandRamp, StandRamp)
      BY <1>2, <1>5, <3>2, SetpointHolds
    <3> QED
      BY <3>2, <3>3 DEF Stood
  <2>4. Continues(c, UpCommand(u))
    <3>1. CASE at = 0
      <4>1. c = Setpoint("initial", "fold", u.fold, u.fold)
        BY <1>1, <1>2, <3>1
      <4>2. c.ramp = [from |-> "initial", to |-> "fold", at |-> u.fold, of |-> u.fold]
        <5>1. Smaller(u.fold, u.fold) = u.fold
          BY DEF Smaller
        <5> QED
          BY <1>2, <4>1, <5>1, SetpointType
      <4>3. UpCommand(u).ramp = [from |-> "fold", to |-> "stand",
                                 at |-> 0, of |-> StandRamp]
        BY <1>2, <1>6, <3>1, SmallerOfTwo
      <4>4. Follows(c.ramp, UpCommand(u).ramp)
        BY <4>2, <4>3 DEF Follows
      <4> QED
        BY <1>6, <4>4 DEF Continues
    <3>2. CASE at # 0 /\ at <= StandRamp
      <4>1. /\ c = Setpoint("fold", "stand", at - 1, StandRamp)
            /\ at - 1 \in Nat /\ at - 1 < StandRamp /\ (at - 1) + 1 = at
        <5>1. u.iter # u.start /\ u.iter - 1 - u.start = at - 1
          BY <1>2, <3>2
        <5> QED
          BY <1>1, <1>2, <3>2, <5>1
      <4>2. Follows(c.ramp, UpCommand(u).ramp)
        BY <1>2, <1>5, <4>1, SetpointFollows
      <4> QED
        BY <1>6, <4>2 DEF Continues
    <3>3. CASE at > StandRamp
      <4>1. /\ c = Setpoint("fold", "stand", at - 1, StandRamp)
            /\ at - 1 \in Nat /\ at - 1 >= StandRamp /\ at - 1 > 0 /\ at > 0
            /\ at >= StandRamp
        <5>1. u.iter # u.start /\ u.iter - 1 - u.start = at - 1
          BY <1>2, <3>3
        <5> QED
          BY <1>1, <1>2, <3>3, <5>1
      <4>2. c = UpCommand(u)
        BY <1>2, <1>5, <4>1, SetpointHolds
      <4> QED
        BY <1>6, <4>2 DEF Continues
    <3> QED
      BY <1>2, <3>1, <3>2, <3>3
  <2> QED
    BY <2>2, <2>3, <2>4
<1>8. CASE u.iter = UpLimit(u)
  <2>1. UpRun(u).iter = UpLimit(u)
    BY <1>2, <1>3, <1>8, SmallerOfTwo
  <2>2. /\ at = StandRamp + Settle - 1 /\ at - 1 \in Nat /\ at - 1 >= StandRamp
        /\ at - 1 > 0 /\ at > 0 /\ at >= StandRamp /\ StandRamp > 0
        /\ u.iter # u.start /\ u.iter - 1 - u.start = at - 1
    BY <1>2, <1>8
  <2>3. /\ UpCommand(u) = Setpoint("fold", "stand", at - 1, StandRamp)
        /\ UpCommand(u) = Setpoint("fold", "stand", StandRamp, StandRamp)
    BY <1>2, <1>5, <2>2, SetpointHolds
  <2>4. c = UpCommand(u)
    BY <1>1, <2>2, <2>3
  <2>5. UpPhase(UpRun(u), UpCommand(u))
    <3>1. /\ UpRun(u).iter # UpRun(u).start
          /\ UpRun(u).iter - 1 - UpRun(u).start = at - 1
          /\ UpRun(u).iter \in UpRun(u).start..UpLimit(UpRun(u))
          /\ UpRun(u).start = UpRun(u).fold + 1
      BY <1>1, <1>2, <1>3, <1>4, <1>8, <2>1, <2>2
    <3> QED
      BY <1>3, <2>3, <3>1 DEF UpPhase
  <2>6. Stood(UpRun(u), UpCommand(u))
    <3>1. UpRun(u).iter - UpRun(u).start >= StandRamp + Settle - 1
      BY <1>2, <1>3, <1>8, <2>1, <2>2
    <3> QED
      BY <2>3, <3>1 DEF Stood
  <2> QED
    BY <1>6, <2>4, <2>5, <2>6 DEF Continues
<1> QED
  BY <1>2, <1>7, <1>8

\* A robot found upside down is commanded nothing from then on.
LEMMA UpRolls ==
  ASSUME NEW u \in UpType, u.flag = "roll"
  PROVE  /\ UpRun(u).flag = "roll"
         /\ UpCommand(u) = Command("none", NoRamp, "none")
         /\ UpCommand(u).kind = "none"
<1>1. UpRun(u).flag = "roll"
  BY UpTick
<1>2. UpCommand(u) = Command("none", NoRamp, "none")
  BY DEF UpCommand
<1> QED
  BY <1>1, <1>2, PlainCommandType DEF Visit

\* Whatever its phase, a tick of transform_up keeps it true, does not jump, and
\* lets the robot be handed on only when it has stood.
LEMMA UpGoesOn ==
  ASSUME NEW u \in UpType, NEW c, UpPhase(u, c)
  PROVE  /\ UpPhase(UpRun(u), UpCommand(u))
         /\ UpRun(u).iter >= UpLimit(UpRun(u)) => Stood(UpRun(u), UpCommand(u))
         /\ Continues(c, UpCommand(u))
         /\ u.flag = "roll" \/ u.start <= u.iter
<1>1. CASE u.flag = "fold"
  BY <1>1, UpFolds, UpNumbers DEF UpPhase
<1>2. CASE u.flag = "stand"
  <2>1. u.start <= u.iter
    BY <1>2, UpNumbers DEF UpPhase
  <2> QED
    BY <1>2, <2>1, UpStands
<1>3. CASE u.flag = "roll"
  BY <1>3, UpRolls DEF UpPhase, Stood, Continues
<1> QED
  BY <1>1, <1>2, <1>3 DEF UpPhase

\* Its first tick starts in the pose the robot is in.
LEMMA UpStarts ==
  ASSUME NEW fold \in FoldRamps
  PROVE  LET u == UpEntered(fold)
         IN  /\ u \in UpType /\ u.start <= u.iter
             /\ UpPhase(UpRun(u), UpCommand(u))
             /\ UpCommand(u).kind = "ramp"
                  => UpCommand(u).ramp.from = "initial" /\ UpCommand(u).ramp.at = 0
<1> DEFINE u == UpEntered(fold)
<1> SUFFICES /\ u \in UpType /\ u.start <= u.iter
             /\ UpPhase(UpRun(u), UpCommand(u))
             /\ UpCommand(u).kind = "ramp"
                  => UpCommand(u).ramp.from = "initial" /\ UpCommand(u).ramp.at = 0
  OBVIOUS
<1>1. fold \in Nat /\ StandRamp \in Nat /\ Settle \in Nat /\ StandRamp >= 1
  BY RampsAreNumbers
<1>2. /\ u \in UpType /\ u.start = 0 /\ u.iter = 0 /\ u.fold = fold
      /\ u.from = "initial" /\ u.flag \in {"fold", "roll"}
      /\ u.start <= u.iter /\ u.iter - u.start = 0
  BY DEF UpEntered, UpType
<1> HIDE DEF u
<1>3. CASE u.flag = "roll"
  BY <1>2, <1>3, UpRolls DEF UpPhase
<1>4. CASE u.flag = "fold"
  <2>1. UpCommand(u) = Setpoint("initial", "fold", 0, fold)
    BY <1>2, <1>4 DEF UpCommand
  <2>2. UpCommand(u).ramp.from = "initial" /\ UpCommand(u).ramp.at = 0
    <3>1. Setpoint("initial", "fold", 0, fold).ramp
            = [from |-> "initial", to |-> "fold", at |-> 0, of |-> fold]
      BY <1>1, SetpointStarts
    <3> QED
      BY <2>1, <3>1
  <2>3. UpLimit(u) \in Nat /\ 1 <= UpLimit(u)
    BY <1>1, <1>2 DEF UpLimit
  <2>4. UpRun(u).iter = 1 /\ UpRun(u).fold = fold
    <3>1. Smaller(1, UpLimit(u)) = 1
      BY <2>3, SmallerOfTwo
    <3> QED
      BY <1>2, <3>1, UpTick
  <2>5. UpLimit(UpRun(u)) \in Nat /\ 1 <= UpLimit(UpRun(u))
    BY <1>1, <2>4 DEF UpLimit
  <2>6. CASE fold = 0
    <3>1. /\ UpRun(u).flag \in {"stand", "roll"} /\ UpRun(u).from = "fold"
          /\ UpRun(u).start = 1
      BY <1>2, <1>4, <2>6, UpTick
    <3>2. UpRun(u).iter \in UpRun(u).start..UpLimit(UpRun(u))
      BY <2>4, <2>5, <3>1
    <3> QED
      BY <1>2, <2>1, <2>2, <2>4, <2>6, <3>1, <3>2 DEF UpPhase
  <2>7. CASE fold # 0
    <3>1. ~(u.iter - u.start >= u.fold)
      BY <1>1, <1>2, <2>7
    <3>2. /\ UpRun(u).flag = "fold" /\ UpRun(u).from = "initial"
          /\ UpRun(u).start = 0
      BY <1>2, <1>4, <3>1, UpTick
    <3>3. UpRun(u).iter \in 1..UpRun(u).fold /\ UpRun(u).iter - 1 = 0
      BY <1>1, <2>4, <2>7
    <3> QED
      BY <1>2, <2>1, <2>2, <2>4, <3>2, <3>3 DEF UpPhase
  <2> QED
    BY <2>6, <2>7
<1> QED
  BY <1>2, <1>3, <1>4

\* The same of transform_down.
LEMMA DownGoesOn ==
  ASSUME NEW d \in DownType, NEW c, DownPhase(d, c)
  PROVE  /\ DownPhase(DownRun(d), DownCommand(d))
         /\ Continues(c, DownCommand(d))
<1>1. /\ d.iter \in Nat /\ d.fold \in Nat /\ d.iter >= 1
      /\ d.iter - 1 \in Nat /\ (d.iter - 1) + 1 = d.iter
      /\ d.iter <= d.fold + Settle /\ d.fold + Settle \in Nat /\ d.iter + 1 \in Nat
      /\ Settle >= 2 /\ Settle \in Nat
  <2>1. d.iter \in Nat /\ d.fold \in FoldRamps \cup {0}
    BY DEF DownType
  <2> QED
    BY <2>1, RampsAreNumbers DEF DownPhase
<1>2. /\ c = Setpoint("initial", "fold", d.iter - 1, d.fold)
      /\ DownCommand(d) = Setpoint("initial", "fold", d.iter, d.fold)
  BY DEF DownPhase, DownCommand
<1>3. DownCommand(d).kind = "ramp"
  <2>1. \A n, of \in Nat :
          n >= 1 => Setpoint("initial", "fold", n, of).kind = "ramp"
    BY SetpointKind
  <2> QED
    BY <1>1, <1>2, <2>1
<1>4. Continues(c, DownCommand(d))
  <2>1. CASE d.iter - 1 < d.fold
    BY <1>1, <1>2, <1>3, <2>1, SetpointFollows DEF Continues
  <2>2. CASE ~(d.iter - 1 < d.fold)
    <3>1. SUFFICES ASSUME c.kind = "ramp" PROVE c = DownCommand(d) \/ Follows(c.ramp, DownCommand(d).ramp)
      BY <1>3 DEF Continues
    <3>2. CASE d.iter - 1 = 0
      <4>1. d.fold = 0
        <5>1. ~(0 < d.fold)
          BY <2>2, <3>2
        <5> QED
          BY <1>1, <5>1
      <4>2. c.kind = "undefined"
        BY <1>2, <3>2, <4>1, SetpointKind
      <4> QED
        BY <3>1, <4>2
    <3>3. CASE d.iter - 1 # 0
      <4>1. d.iter - 1 > 0 /\ d.iter > 0 /\ d.iter >= d.fold /\ d.iter - 1 >= d.fold
        BY <1>1, <2>2, <3>3
      <4> QED
        BY <1>1, <1>2, <4>1, SetpointHolds
    <3> QED
      BY <3>2, <3>3
  <2> QED
    BY <2>1, <2>2
<1>5. DownPhase(DownRun(d), DownCommand(d))
  <2>1. /\ DownRun(d).fold = d.fold
        /\ DownRun(d).iter = Smaller(d.iter + 1, d.fold + Settle)
    BY DownTick
  <2>2. CASE d.iter < d.fold + Settle
    <3>1. d.iter + 1 <= d.fold + Settle
      BY <1>1, <2>2
    <3>2. DownRun(d).iter = d.iter + 1
      BY <1>1, <2>1, <3>1, SmallerOfTwo
    <3>3. DownRun(d).iter - 1 = d.iter /\ DownRun(d).iter \in 1..(DownRun(d).fold + Settle)
      BY <1>1, <2>1, <3>1, <3>2
    <3> QED
      BY <1>2, <2>1, <3>3 DEF DownPhase
  <2>3. CASE d.iter = d.fold + Settle
    <3>1. d.fold + Settle <= d.iter + 1
      BY <1>1, <2>3
    <3>2. DownRun(d).iter = d.iter
      BY <1>1, <2>1, <2>3, <3>1, SmallerOfTwo
    <3>3. /\ d.iter - 1 >= d.fold /\ d.iter >= d.fold /\ d.iter - 1 > 0 /\ d.iter > 0
          /\ DownRun(d).iter \in 1..(DownRun(d).fold + Settle)
      BY <1>1, <2>1, <2>3, <3>2
    <3>4. DownCommand(d) = Setpoint("initial", "fold", d.iter - 1, d.fold)
      BY <1>1, <1>2, <3>3, SetpointHolds
    <3> QED
      BY <2>1, <3>2, <3>3, <3>4 DEF DownPhase
  <2> QED
    BY <1>1, <2>2, <2>3
<1> QED
  BY <1>4, <1>5

LEMMA DownStarts ==
  ASSUME NEW fold \in FoldRamps
  PROVE  LET d == DownEntered(fold)
         IN  /\ d \in DownType
             /\ DownPhase(DownRun(d), DownCommand(d))
             /\ DownCommand(d).ramp.from = "initial" /\ DownCommand(d).ramp.at = 0
<1> DEFINE d == DownEntered(fold)
<1>1. fold \in Nat /\ Settle \in Nat /\ Settle >= 2 /\ fold + Settle \in Nat
  BY RampsAreNumbers
<1>2. d \in DownType /\ d.iter = 0 /\ d.fold = fold
  BY DEF DownEntered, DownType
<1> HIDE DEF d
<1>3. DownCommand(d) = Setpoint("initial", "fold", 0, fold)
  BY <1>2 DEF DownCommand
<1>4. DownCommand(d).ramp.from = "initial" /\ DownCommand(d).ramp.at = 0
  <2>1. Setpoint("initial", "fold", 0, fold).ramp
          = [from |-> "initial", to |-> "fold", at |-> 0, of |-> fold]
    BY <1>1, SetpointStarts
  <2> QED
    BY <1>3, <2>1
<1>5. DownRun(d).fold = fold /\ DownRun(d).iter = 1
  <2>1. 1 <= fold + Settle
    BY <1>1
  <2>2. Smaller(1, fold + Settle) = 1
    BY <1>1, <2>1, SmallerOfTwo
  <2> QED
    BY <1>2, <2>2, DownTick
<1>6. DownPhase(DownRun(d), DownCommand(d))
  <2>1. DownRun(d).iter \in 1..(DownRun(d).fold + Settle) /\ DownRun(d).iter - 1 = 0
    BY <1>1, <1>5
  <2> QED
    BY <1>3, <1>5, <2>1 DEF DownPhase
<1> QED
  BY <1>2, <1>4, <1>6 DEF d

-----------------------------------------------------------------------------
(* The inductive invariant *)

\* Init has no state entered yet.
LEMMA InitInv == Init => IInv
<1> SUFFICES ASSUME Init PROVE IInv
  OBVIOUS
<1>1. NoUp \in UpType /\ NoDown \in DownType
  BY DEF NoUp, NoDown, UpType, DownType
<1>2. cmd \in CmdType /\ cmd.kind = "none"
  BY PlainCommandType DEF Init, Visit
<1>3. TypeOK
  BY <1>1, <1>2 DEF Init, TypeOK, UpType, DownType, CmdType, States, Visit
<1> QED
  BY <1>2, <1>3, PoliciesAssumption
  DEF Init, IInv, UpInv, DownInv, ControlInv, StoodBeforeLeave, AwakeInv

\* A step that leaves the state machine alone disturbs none of its invariants.
LEMMA Frame ==
  ASSUME IInv, UNCHANGED stateVars
  PROVE  UpInv' /\ DownInv' /\ ControlInv' /\ StoodBeforeLeave'
BY DEF IInv, stateVars, UpInv, DownInv, ControlInv, StoodBeforeLeave

\* The state machine stays in a state, which goes on from where it was.
LEMMA StayRuns ==
  ASSUME IInv, Stay
  PROVE  /\ up' \in UpType /\ down' \in DownType /\ cmd' \in CmdType
         /\ UpInv' /\ DownInv' /\ ControlInv' /\ StoodBeforeLeave'
         /\ cmd'.kind # "undefined"
         /\ cmd.kind = "ramp" /\ cmd'.kind = "ramp"
              => cmd = cmd' \/ Follows(cmd.ramp, cmd'.ramp)
<1>1. /\ current \in States /\ up \in UpType /\ down \in DownType
      /\ action \in [Policies -> Visit]
  BY DEF IInv, TypeOK, UpType, DownType
<1>2. current' = current /\ Run(current, up, down, action)
  BY DEF Stay
<1>3. current = "transform_up" => UpPhase(up, cmd)
  BY DEF IInv, UpInv, UpPhase
<1>4. current = "transform_down" => DownPhase(down, cmd)
  BY DEF IInv, DownInv, DownPhase
<1>5. current = "transform_up" => up.flag = "roll" \/ up.start <= up.iter
  BY <1>1, <1>3, UpGoesOn
<1>6. /\ up' \in UpType /\ down' \in DownType /\ cmd' \in CmdType
      /\ cmd'.kind \in {"ramp", "undefined"} => current \in Transforms
  BY <1>1, <1>2, <1>5, RunType
<1>7. CASE current = "transform_up"
  <2>1. up' = UpRun(up) /\ cmd' = UpCommand(up)
    BY <1>1, <1>2, <1>7, RunCases DEF Transforms
  <2>2. /\ UpPhase(up', cmd') /\ Continues(cmd, cmd')
        /\ up'.iter >= UpLimit(up') => Stood(up', cmd')
    BY <1>1, <1>3, <1>7, <2>1, UpGoesOn
  <2>3. UpInv' /\ DownInv'
    BY <1>2, <1>7, <2>2 DEF UpPhase, UpInv, DownInv
  <2>4. mode' = "change" => up'.iter >= UpLimit(up')
    <3>1. SUFFICES ASSUME ~(up'.iter >= UpLimit(up')) PROVE NextName(current) = current
      BY DEF Stay
    <3>2. Admits(current) = {}
      <4>1. UpAdmits = {}
        BY <3>1 DEF UpAdmits, UpDone
      <4>2. Admits("transform_up") = UpAdmits
        BY Zenon, PoliciesAssumption DEF Admits
      <4> QED
        BY <1>7, <4>1, <4>2
    <3> QED
      BY <1>7, <3>2 DEF NextName
  <2>5. StoodBeforeLeave'
    BY <2>2, <2>4 DEF Stood, StoodBeforeLeave
  <2> QED
    BY <1>2, <1>6, <2>2, <2>3, <2>5 DEF Continues, Stay, ControlInv
<1>8. CASE current = "transform_down"
  <2>1. down' = DownRun(down) /\ cmd' = DownCommand(down)
    BY <1>1, <1>2, <1>8, RunCases DEF Transforms
  <2>2. DownPhase(down', cmd') /\ Continues(cmd, cmd')
    BY <1>1, <1>4, <1>8, <2>1, DownGoesOn
  <2>3. UpInv' /\ DownInv' /\ StoodBeforeLeave'
    BY <1>2, <1>8, <2>2 DEF DownPhase, UpInv, DownInv, StoodBeforeLeave
  <2> QED
    BY <1>2, <1>6, <2>2, <2>3 DEF Continues, Stay, ControlInv
<1>9. CASE current \notin Transforms
  <2>1. UpInv' /\ DownInv' /\ StoodBeforeLeave'
    BY <1>2, <1>9 DEF UpInv, DownInv, StoodBeforeLeave, Transforms
  <2>2. cmd'.kind \notin {"ramp", "undefined"}
    BY <1>6, <1>9
  <2> QED
    BY <1>2, <1>6, <1>9, <2>1, <2>2 DEF Stay, ControlInv
<1> QED
  BY <1>7, <1>8, <1>9 DEF Transforms

\* It changes to another state, which starts where the robot is.
LEMMA ChangeRuns ==
  ASSUME IInv, Change
  PROVE  /\ up' \in UpType /\ down' \in DownType /\ cmd' \in CmdType
         /\ thread' \in [Policies -> {"none", "waiting", "inferring", "storing"}]
         /\ sample' \in [Policies -> Visit] /\ action' \in [Policies -> Visit]
         /\ UpInv' /\ DownInv' /\ ControlInv' /\ StoodBeforeLeave'
         /\ current' # current
         /\ cmd'.kind = "ramp"
              => cmd'.ramp.from = "initial" /\ cmd'.ramp.at = 0
<1>1. PICK fold \in FoldRamps :
        Run(chosen, UpEntered(fold), DownEntered(fold), action')
  BY DEF Change
<1>2. current' = chosen /\ mode' = "normal" /\ current' # current /\ chosen \in States
  BY DEF Change, IInv, TypeOK, ControlInv
<1>3. /\ thread' \in [Policies -> {"none", "waiting", "inferring", "storing"}]
      /\ sample' \in [Policies -> Visit] /\ action' \in [Policies -> Visit]
  <2>1. EnterPolicy(chosen)
    BY DEF Change
  <2> QED
    BY <2>1 DEF EnterPolicy, Older, threadVars, IInv, TypeOK, Visit
<1> DEFINE u == UpEntered(fold)
           d == DownEntered(fold)
<1>4. /\ u \in UpType /\ u.start <= u.iter
      /\ UpPhase(UpRun(u), UpCommand(u))
      /\ UpCommand(u).kind = "ramp"
           => UpCommand(u).ramp.from = "initial" /\ UpCommand(u).ramp.at = 0
  BY UpStarts
<1>5. /\ d \in DownType /\ DownPhase(DownRun(d), DownCommand(d))
      /\ DownCommand(d).ramp.from = "initial" /\ DownCommand(d).ramp.at = 0
  BY DownStarts
<1> HIDE DEF u, d
<1>6. Run(chosen, u, d, action')
  BY <1>1 DEF u, d
<1>7. /\ up' \in UpType /\ down' \in DownType /\ cmd' \in CmdType
      /\ cmd'.kind \in {"ramp", "undefined"} => chosen \in Transforms
  BY <1>2, <1>3, <1>4, <1>5, <1>6, RunType
<1>8. ControlInv' /\ StoodBeforeLeave'
  BY <1>2, <1>7 DEF ControlInv, StoodBeforeLeave
<1>9. CASE chosen = "transform_up"
  <2>1. up' = UpRun(u) /\ cmd' = UpCommand(u)
    BY <1>2, <1>6, <1>9, RunCases DEF Transforms
  <2>2. UpInv' /\ DownInv'
    BY <1>2, <1>4, <1>9, <2>1 DEF UpPhase, UpInv, DownInv
  <2> QED
    BY <1>2, <1>3, <1>4, <1>7, <1>8, <2>1, <2>2
<1>10. CASE chosen = "transform_down"
  <2>1. down' = DownRun(d) /\ cmd' = DownCommand(d)
    BY <1>2, <1>6, <1>10, RunCases DEF Transforms
  <2>2. UpInv' /\ DownInv'
    BY <1>2, <1>5, <1>10, <2>1 DEF DownPhase, UpInv, DownInv
  <2> QED
    BY <1>2, <1>3, <1>5, <1>7, <1>8, <2>1, <2>2
<1>11. CASE chosen \notin Transforms
  <2>1. UpInv' /\ DownInv'
    BY <1>2, <1>11 DEF UpInv, DownInv, Transforms
  <2> QED
    BY <1>2, <1>3, <1>7, <1>8, <1>11, <2>1
<1> QED
  BY <1>9, <1>10, <1>11 DEF Transforms

\* The types, action by action.
LEMMA TypeStep ==
  ASSUME IInv, [Next]_vars
  PROVE  TypeOK'
<1> USE DEF IInv
<1>1. ASSUME NEW q \in States \cup {"other"}, Request(q) PROVE TypeOK'
  BY ZenonT(60), <1>1 DEF Request, stateVars, threadVars, TypeOK
<1>2. CASE Topple
  BY ZenonT(60), <1>2 DEF Topple, stateVars, threadVars, TypeOK
<1>3. CASE Stay
  <2>1. up' \in UpType /\ down' \in DownType /\ cmd' \in CmdType
    BY <1>3, StayRuns
  <2>2. NextName(current) \in States
    BY NextNameType DEF TypeOK
  <2>3. chosen' \in States /\ mode' \in {"normal", "change"}
    BY <1>3, <2>2 DEF Stay, TypeOK
  <2> QED
    BY ZenonT(60), <1>3, <2>1, <2>3
    DEF Stay, threadVars, TypeOK, UpType, DownType, CmdType
<1>4. CASE Change
  <2>1. /\ up' \in UpType /\ down' \in DownType /\ cmd' \in CmdType
        /\ thread' \in [Policies -> {"none", "waiting", "inferring", "storing"}]
        /\ sample' \in [Policies -> Visit] /\ action' \in [Policies -> Visit]
    BY <1>4, ChangeRuns
  <2>2. stop' \in [Policies -> BOOLEAN]
    <3>1. stop' = Stopped(current, chosen)
      BY <1>4 DEF Change
    <3>2. \A p \in Policies : (IF p = chosen THEN FALSE ELSE stop[p] \/ p = current) \in BOOLEAN
      OBVIOUS
    <3> QED
      BY <3>1, <3>2 DEF Stopped
  <2> QED
    BY ZenonT(60), <1>4, <2>1, <2>2
    DEF Change, TypeOK, UpType, DownType, CmdType
<1>5. ASSUME NEW p \in Policies, Forward(p) PROVE TypeOK'
  <2>1. /\ thread' \in [Policies -> {"none", "waiting", "inferring", "storing"}]
        /\ sample' \in [Policies -> Visit] /\ action' \in [Policies -> Visit]
    BY <1>5 DEF Forward, Begin, Infer, Store, TypeOK, Visit
  <2> QED
    BY ZenonT(60), <1>5, <2>1 DEF Forward, Begin, Infer, Store, stateVars, TypeOK
<1>6. CASE UNCHANGED vars
  BY ZenonT(60), <1>6 DEF vars, stateVars, threadVars, TypeOK
<1> QED
  BY <1>1, <1>2, <1>3, <1>4, <1>5, <1>6 DEF Next, Tick

\* The policy entered has a thread that may run, and only exit() stops it again
\* (exit, enter, update_forward).
LEMMA AwakeStep ==
  ASSUME IInv, [Next]_vars
  PROVE  AwakeInv'
<1> SUFFICES ASSUME NEW p \in Policies, current' = p
             PROVE  thread'[p] # "none" /\ ~stop'[p]
  BY DEF AwakeInv
<1>1. current = p => thread[p] # "none" /\ ~stop[p]
  BY DEF IInv, AwakeInv
<1>2. CASE UNCHANGED <<current, thread, stop>>
  BY <1>1, <1>2
<1>3. CASE Change
  <2>1. chosen = p /\ stop' = Stopped(current, p) /\ EnterPolicy(p)
    BY <1>3 DEF Change
  <2>2. ~stop'[p]
    BY <2>1 DEF Stopped
  <2>3. thread'[p] # "none"
    BY <2>1 DEF EnterPolicy, IInv, TypeOK
  <2> QED
    BY <2>2, <2>3
<1>4. ASSUME NEW q \in Policies, Forward(q)
      PROVE  thread'[p] # "none" /\ ~stop'[p]
  <2>1. current' = current /\ stop' = stop
    BY <1>4 DEF Forward, Begin, Infer, Store, stateVars
  <2>2. thread[p] # "none" => thread'[p] # "none"
    BY <1>4 DEF Forward, Begin, Infer, Store, IInv, TypeOK
  <2> QED
    BY <1>1, <2>1, <2>2
<1>5. ASSUME NEW q \in States \cup {"other"}, Request(q)
      PROVE  UNCHANGED <<current, thread, stop>>
  BY <1>5 DEF Request, stateVars, threadVars
<1> QED
  BY <1>2, <1>3, <1>4, <1>5
  DEF Next, Tick, Stay, Topple, vars, stateVars, threadVars

LEMMA InvStep ==
  ASSUME IInv, [Next]_vars
  PROVE  IInv'
<1>1. ASSUME NEW q \in States \cup {"other"}, Request(q) PROVE UNCHANGED stateVars
  BY <1>1 DEF Request
<1>2. CASE Topple
  BY <1>2, Frame, TypeStep, AwakeStep DEF Topple, IInv
<1>3. CASE Stay
  BY <1>3, StayRuns, TypeStep, AwakeStep DEF IInv
<1>4. CASE Change
  BY <1>4, ChangeRuns, TypeStep, AwakeStep DEF IInv
<1>5. ASSUME NEW p \in Policies, Forward(p) PROVE UNCHANGED stateVars
  BY <1>5 DEF Forward, Begin, Infer, Store
<1>6. CASE UNCHANGED vars
  BY <1>6, Frame, TypeStep, AwakeStep DEF vars, IInv
<1> QED
  BY <1>1, <1>2, <1>3, <1>4, <1>5, <1>6, Frame, TypeStep, AwakeStep
  DEF Next, Tick, IInv

\* In every reachable state the counters of the transforms and the setpoint
\* commanded last agree (enter, run and checkTransition of the transforms).
THEOREM RampsInductive == Spec => []IInv
<1>1. Init => IInv
  BY InitInv
<1>2. IInv /\ [Next]_vars => IInv'
  BY InvStep
<1> QED
  BY <1>1, <1>2, PTL DEF Spec

\* transform_up is left only with the setpoint at the end of its stand and held
\* there, or by a robot upside down that is commanded nothing then, whatever the
\* lengths of the ramps (checkTransition against the ramps of transform_up).  It
\* says nothing of a robot that reaches a policy by joint_pd.
THEOREM StandsBeforeLeaving == Spec => []StoodBeforeLeave
<1>1. IInv => StoodBeforeLeave
  BY DEF IInv
<1> QED
  BY <1>1, RampsInductive, PTL

\* The policy the controller is in has a thread that was started and not told to
\* stop, whatever the order of exit(), enter() and the thread's own steps.
THEOREM ThreadsAreReady == Spec => []AwakeInv
<1>1. IInv => AwakeInv
  BY DEF IInv
<1> QED
  BY <1>1, RampsInductive, PTL

\* No setpoint jumps within a state, and a state's first is the robot's pose.
THEOREM SetpointsAreSmooth == Spec => SmoothSetpoint
<1> DEFINE Smooth ==
      IF current' = current
      THEN /\ cmd'.kind # "undefined"
           /\ cmd.kind = "ramp" /\ cmd'.kind = "ramp" => Follows(cmd.ramp, cmd'.ramp)
      ELSE cmd'.kind = "ramp" => cmd'.ramp.from = "initial" /\ cmd'.ramp.at = 0
<1>1. IInv /\ [Next]_vars => [Smooth]_cmd
  <2>1. SUFFICES ASSUME IInv, [Next]_vars, cmd' # cmd PROVE Smooth
    OBVIOUS
  <2>2. CASE Stay
    <3>1. current' = current
      BY <2>2 DEF Stay
    <3> QED
      BY <2>1, <2>2, <3>1, StayRuns
  <2>3. CASE Change
    BY <2>1, <2>3, ChangeRuns
  <2>4. ASSUME ~Stay, ~Change PROVE FALSE
    BY <2>1, <2>4 DEF Next, Tick, Request, Topple, Forward, Begin, Infer, Store,
                      stateVars, vars
  <2> QED
    BY <2>2, <2>3, <2>4
<1> QED
  BY <1>1, RampsInductive, PTL DEF Spec, SmoothSetpoint

-----------------------------------------------------------------------------
(* The way down *)

\* While transform_down is asked for, the states pass it on towards idle.
LEMMA AskedDown ==
  ASSUME IInv, Stay, request = "transform_down"
  PROVE  /\ current = "idle" => NextName(current) = "idle"
         /\ current = "joint_pd" \/ current \in Policies
              => NextName(current) = "transform_down"
         /\ current = "transform_up"
              => NextName(current) = IF UpDone' THEN "transform_down" ELSE "transform_up"
         /\ current = "transform_down"
              => NextName(current) = IF down'.finished THEN "idle" ELSE "transform_down"
<1>1. Policies \cap {"idle", "joint_pd", "transform_up", "transform_down"} = {}
  BY PoliciesAssumption
<1> QED
  BY <1>1
  DEF NextName, Admits, IdleAdmits, JointPDAdmits, UpAdmits, PolicyAdmits

\* A ramp that goes on has one update less left.
LEMMA TicksAreUsed ==
  ASSUME IInv, Stay
  PROVE  /\ current = "transform_up" /\ ~UpDone' => TicksLeft' < TicksLeft
         /\ current = "transform_down" /\ ~down'.finished => TicksLeft' < TicksLeft
<1>1. /\ up \in UpType /\ down \in DownType /\ current' = current
      /\ current \in States /\ Run(current, up, down, action)
  BY DEF IInv, TypeOK, UpType, DownType, Stay
<1>2. ASSUME current = "transform_up", ~UpDone'
      PROVE  TicksLeft' < TicksLeft
  <2>1. up' = UpRun(up)
    BY <1>1, <1>2, RunCases DEF Transforms
  <2>2. up.iter \in Nat /\ UpLimit(up) \in Nat /\ UpLimit(up') = UpLimit(up)
    <3>1. up.iter \in Nat /\ up.fold \in FoldRamps \cup {0} /\ up'.fold = up.fold
      BY <1>1, <2>1, UpTick DEF UpType
    <3> QED
      BY <3>1, RampsAreNumbers DEF UpLimit
  <2>3. up'.iter = Smaller(up.iter + 1, UpLimit(up)) /\ ~(up'.iter >= UpLimit(up))
    BY <1>1, <1>2, <2>1, <2>2, UpTick DEF UpDone
  <2>4. up'.iter = up.iter + 1
    BY <2>2, <2>3 DEF Smaller
  <2>5. TicksLeft = UpLimit(up) - up.iter /\ TicksLeft' = UpLimit(up') - up'.iter
    BY <1>1, <1>2 DEF TicksLeft
  <2> QED
    BY <2>2, <2>4, <2>5
<1>3. ASSUME current = "transform_down", ~down'.finished
      PROVE  TicksLeft' < TicksLeft
  <2>1. down' = DownRun(down)
    BY <1>1, <1>3, RunCases DEF Transforms
  <2>2. down.iter \in Nat /\ down.fold \in Nat /\ Settle \in Nat
    <3>1. down.iter \in Nat /\ down.fold \in FoldRamps \cup {0}
      BY <1>1 DEF DownType
    <3> QED
      BY <3>1, RampsAreNumbers
  <2>3. /\ down'.fold = down.fold /\ ~(down.iter >= down.fold + Settle)
        /\ down'.iter = Smaller(down.iter + 1, down.fold + Settle)
    BY <1>1, <1>3, <2>1 DEF DownRun, DownType
  <2>4. down'.iter = down.iter + 1
    BY <2>2, <2>3 DEF Smaller
  <2>5. /\ TicksLeft = down.fold + Settle - down.iter
        /\ TicksLeft' = down'.fold + Settle - down'.iter
    BY <1>1, <1>3 DEF TicksLeft
  <2> QED
    BY <2>2, <2>3, <2>4, <2>5
<1> QED
  BY <1>2, <1>3

\* While transform_down is asked for, every update brings the robot closer to
\* lying idle, for any length of its ramps (checkTransition, run).
THEOREM EveryUpdateNearsIdle == Spec => NearsIdle
<1> DEFINE Nears == \/ Rests /\ Rests'
                    \/ ChangesLeft' < ChangesLeft
                    \/ ChangesLeft' = ChangesLeft /\ TicksLeft' < TicksLeft
<1>0. \A s : Distance(s) \in {0, 1, 2}
  BY DEF Distance
<1>1. ASSUME IInv, Stay, request = "transform_down"
      PROVE  Nears
  <2>1. /\ mode = "normal" /\ current' = current /\ ChangesLeft = 2 * Distance(current)
        /\ NextName(current) = current => mode' = "normal"
        /\ NextName(current) # current => mode' = "change" /\ chosen' = NextName(current)
    BY <1>1 DEF Stay, ChangesLeft
  <2>2. NextName(current) = current => ChangesLeft' = ChangesLeft
    BY <2>1 DEF ChangesLeft
  <2>3. NextName(current) # current => ChangesLeft' = 2 * Distance(NextName(current)) + 1
    BY <2>1 DEF ChangesLeft
  <2>4. CASE current = "idle"
    BY <1>1, <2>1, <2>4, AskedDown DEF Rests
  <2>5. CASE current = "joint_pd" \/ current \in Policies
    <3>1. current \notin {"idle", "transform_down"}
      BY <2>5, PoliciesAssumption
    <3>2. NextName(current) = "transform_down"
      BY <1>1, <2>5, AskedDown
    <3> QED
      BY <2>1, <2>3, <3>1, <3>2 DEF Distance
  <2>6. CASE current = "transform_up"
    <3>1. CASE UpDone'
      BY <1>1, <2>1, <2>3, <2>6, <3>1, AskedDown DEF Distance
    <3>2. CASE ~UpDone'
      BY <1>1, <2>1, <2>2, <2>6, <3>2, AskedDown, TicksAreUsed
    <3> QED
      BY <3>1, <3>2
  <2>7. CASE current = "transform_down"
    <3>1. CASE down'.finished
      BY <1>1, <2>1, <2>3, <2>7, <3>1, AskedDown DEF Distance
    <3>2. CASE ~down'.finished
      BY <1>1, <2>1, <2>2, <2>7, <3>2, AskedDown, TicksAreUsed
    <3> QED
      BY <3>1, <3>2
  <2> QED
    BY <1>1, <2>4, <2>5, <2>6, <2>7 DEF IInv, TypeOK, States, Transforms
<1>2. ASSUME IInv, Change
      PROVE  Nears
  <2>1. /\ ChangesLeft = 2 * Distance(chosen) + 1
        /\ mode' = "normal" /\ current' = chosen
    BY <1>2 DEF Change, ChangesLeft
  <2>2. ChangesLeft' = 2 * Distance(chosen)
    BY <2>1 DEF ChangesLeft
  <2> QED
    BY <1>0, <2>1, <2>2
<1>3. IInv /\ [Next]_vars => [Tick /\ request = "transform_down" => Nears]_vars
  BY <1>1, <1>2 DEF Tick
<1> QED
  BY <1>3, RampsInductive, PTL DEF Spec, NearsIdle

-----------------------------------------------------------------------------
(* A policy's thread.  That its step is enabled is ThreadAwake, which TLC checks. *)

Doing(p, s) == thread[p] = s
Observed(p) == sample[p] = "now"

\* While the controller stays in a policy, its thread alone moves the thread,
\* the observation and the action.
LEMMA ThreadStep ==
  ASSUME NEW p \in Policies, IInv, [Next]_vars, Stale(p), Stale(p)'
  PROVE  \/ Forward(p)
         \/ thread'[p] = thread[p] /\ sample'[p] = sample[p]
<1>1. ~Change
  BY DEF Change, Stale, IInv, ControlInv
<1>2. ASSUME NEW r \in States \cup {"other"}, Request(r) PROVE UNCHANGED threadVars
  BY <1>2 DEF Request
<1>3. ASSUME NEW q \in Policies, Forward(q), q # p
      PROVE  thread'[p] = thread[p] /\ sample'[p] = sample[p]
  BY <1>3 DEF Forward, Begin, Infer, Store, IInv, TypeOK
<1> QED
  BY <1>1, <1>2, <1>3 DEF Next, Tick, Stay, Topple, vars, threadVars

\* One step of the thread: it observes, infers, and stores what it observed.
LEMMA ForwardStep ==
  ASSUME NEW p \in Policies, IInv, Forward(p)
  PROVE  /\ Doing(p, "waiting") => Doing(p, "inferring")' /\ Observed(p)'
         /\ Doing(p, "inferring")
              => Doing(p, "storing")' /\ (Observed(p) => Observed(p)')
         /\ Doing(p, "storing")
              => Doing(p, "waiting")' /\ (Observed(p) => action'[p] = "now")
         /\ \/ Doing(p, "waiting") \/ Doing(p, "inferring")
            \/ Doing(p, "storing")
BY DEF Forward, Begin, Infer, Store, Doing, Observed, IInv, TypeOK

Awake(p) ==
  []IInv /\ [][Next]_vars /\ ForwardRuns(p) /\ []ForwardReady(p)

\* A policy's thread takes at most five steps to an action of this visit.
LEMMA ThreadResumes ==
  ASSUME NEW p \in Policies
  PROVE  Awake(p) => PolicyResumes(p)
<1>1. IInv /\ [Next]_vars /\ Stale(p) /\ Stale(p)'
        => \/ Forward(p)
           \/ /\ Doing(p, "waiting")' <=> Doing(p, "waiting")
              /\ Doing(p, "inferring")' <=> Doing(p, "inferring")
              /\ Doing(p, "storing")' <=> Doing(p, "storing")
              /\ Observed(p)' <=> Observed(p)
  BY ThreadStep DEF Doing, Observed
<1>2. IInv /\ Forward(p)
        => /\ Doing(p, "waiting") => Doing(p, "inferring")' /\ Observed(p)'
           /\ Doing(p, "inferring")
                => Doing(p, "storing")' /\ (Observed(p) => Observed(p)')
           /\ Doing(p, "storing")
                => Doing(p, "waiting")' /\ (Observed(p) => ~Stale(p)')
           /\ \/ Doing(p, "waiting") \/ Doing(p, "inferring")
              \/ Doing(p, "storing")
  BY ForwardStep DEF Stale
<1>3. ~(Doing(p, "waiting") /\ Doing(p, "inferring"))
      /\ ~(Doing(p, "waiting") /\ Doing(p, "storing"))
      /\ ~(Doing(p, "inferring") /\ Doing(p, "storing"))
  BY DEF Doing
<1>4. Stale(p) => current = p
  BY DEF Stale
<1>5. <<Forward(p)>>_vars => Forward(p)
  OBVIOUS
<1> QED
  BY <1>1, <1>2, <1>3, <1>4, <1>5, PTL
  DEF Awake, PolicyResumes, ForwardRuns, ForwardReady

\* A policy entered again comes to act on what it observes now, whatever its
\* thread was doing when it was left (exit, enter, update_forward).
THEOREM PoliciesResume == FairSpec /\ []ThreadAwake => Resumes
<1>0. FairSpec => \A p \in Policies : ForwardRuns(p)
  BY PTL DEF FairSpec
<1>1. ASSUME NEW p \in Policies
      PROVE  []ThreadAwake => []ForwardReady(p)
  <2>1. ThreadAwake => ForwardReady(p)
    BY DEF ThreadAwake
  <2> QED
    BY <2>1, PTL
<1>2. ASSUME NEW p \in Policies
      PROVE  FairSpec => ForwardRuns(p)
  BY <1>0
<1>3. FairSpec => []IInv /\ [][Next]_vars
  BY RampsInductive, PTL DEF FairSpec, Spec
<1>4. ASSUME NEW p \in Policies
      PROVE  FairSpec /\ []ThreadAwake => PolicyResumes(p)
  <2>1. FairSpec /\ []ThreadAwake => Awake(p)
    BY <1>1, <1>2, <1>3, PTL DEF Awake
  <2> QED
    BY <2>1, ThreadResumes, PTL
<1>5. FairSpec /\ []ThreadAwake => \A p \in Policies : PolicyResumes(p)
  BY <1>4
<1> QED
  BY <1>5 DEF Resumes
=============================================================================
