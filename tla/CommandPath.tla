---------------------------- MODULE CommandPath ----------------------------
(***************************************************************************)
(* How an operator's base velocity reaches the policy: the terminal        *)
(* keyboard (loco_mani_keyboard.py) or the command bridge                  *)
(* (loco_mani_command_bridge.py) writes the command file, the keyboard     *)
(* also publishes ROS topics, and a consumer reads them: the ROS 2 policy  *)
(* node without a command file ("topics") or with one ("file"), or the     *)
(* hardware runtime, which has only the file ("runtime").  The reader of   *)
(* the file is CommandFileReader (command_file.py).                        *)
(*                                                                         *)
(* A velocity is zero or moving.  Time is discrete, and every time stamp   *)
(* is kept as an age that stops counting once it has passed its timeout.   *)
(* A consumer ticks between any two instants: its period is far below the  *)
(* timeouts.                                                               *)
(***************************************************************************)
EXTENDS Naturals, Sequences

CONSTANTS
  Setups,        \* the combinations of writer, consumer and disk explored
  FileTimeout,   \* CommandFileReader.timeout_s
  TopicTimeout,  \* D1PiperRos2Policy.command_timeout
  Heartbeat,     \* the writers' timer period
  MaxKeys        \* bound: characters typed ahead

Velocity == {"zero", "move"}

\* diskFails: may writing the file raise an OSError?  The bridge writes the
\* file for the runtime, which has no topics.
SetupType == {s \in [writer: {"keyboard", "bridge"},
                     consumer: {"topics", "file", "runtime"},
                     diskFails: BOOLEAN] :
                s.writer = "bridge" => s.consumer = "runtime"}

ASSUME SetupsAssumption == Setups \subseteq SetupType
ASSUME TimesAssumption ==
  /\ FileTimeout \in Nat \ {0} /\ TopicTimeout \in Nat \ {0}
  /\ Heartbeat \in Nat \ {0}
ASSUME MaxKeysAssumption == MaxKeys \in Nat

\* What the terminal delivers: "A" drives (alone or as the end of an arrow
\* key's ESC [ A), the space bar stops, "x" exits.
Chars == {"A", " ", "x", "ESC", "["}

VARIABLES
  setup,
  file,     \* the command file: its velocity (or none, or malformed) and age
  cache,    \* CommandFileReader: _command and the age of _last_timestamp
  vel,      \* the velocity the consumer's policy is given
  rosAge,   \* the consumer: age of _last_ros_command
  seen,     \* the consumer: _ros_command_seen
  ticked,   \* has the consumer ticked since the last change of the clock
            \* or of a command?
  kb,       \* the keyboard process's next step
  after,    \* where its _publish() returns to: "start" in the constructor
  closed,   \* its _closed flag
  context,  \* is its rclpy context valid?
  keys,     \* the characters it has not read
  escape,   \* _escape: "", "ESC" or "ESC["
  bridge,   \* is the bridge process running?
  teleop,   \* is the process whose twists the bridge repeats (external)?
  want,     \* the velocity the writer wants
  timer,    \* age of the writer's last timer callback
  silence   \* history: time since the writer last got a command out

fileVars == <<file, cache>>
nodeVars == <<vel, rosAge, seen>>
kbVars   == <<kb, after, closed, context, keys, escape>>
bridgeVars == <<bridge, teleop>>
vars == <<setup, fileVars, nodeVars, ticked, kbVars, bridgeVars, want, timer,
          silence>>

Longest == IF FileTimeout > TopicTimeout THEN FileTimeout ELSE TopicTimeout
Age(limit) == 0 .. limit + 1
Older(age, limit) == IF age > limit THEN age ELSE age + 1

FileType == [vel: {"none", "malformed"} \cup Velocity, age: Age(FileTimeout)]
CacheType == [vel: {"none"} \cup Velocity, age: Age(FileTimeout)]

TypeOK ==
  /\ setup \in Setups
  /\ file \in FileType
  /\ cache \in CacheType
  /\ vel \in Velocity /\ rosAge \in Age(TopicTimeout) /\ seen \in BOOLEAN
  /\ ticked \in BOOLEAN
  /\ kb \in {"idle", "polling", "publish", "write", "gone", "killed"}
  /\ after \in {"start", "idle", "polling", "gone"}
  /\ closed \in BOOLEAN /\ context \in BOOLEAN
  /\ keys \in Seq(Chars) /\ escape \in {"", "ESC", "ESC["}
  /\ bridge \in BOOLEAN /\ teleop \in BOOLEAN
  /\ want \in Velocity /\ timer \in 0 .. Heartbeat
  /\ silence \in Age(Longest)

\* The writer's constructor publishes once: the keyboard's by its first step,
\* the bridge's as a heartbeat that is due at once.  The file may be one an
\* earlier session left behind, expired by now.
Init ==
  /\ setup \in Setups
  /\ file \in FileType /\ file.age = FileTimeout + 1
  /\ cache = [vel |-> "none", age |-> FileTimeout + 1]
  /\ vel = "zero" /\ rosAge = TopicTimeout + 1 /\ seen = FALSE
  /\ ticked = FALSE
  /\ kb = IF setup.writer = "keyboard" THEN "publish" ELSE "gone"
  /\ after = "start"
  /\ closed = FALSE /\ context = TRUE /\ keys = <<>> /\ escape = ""
  /\ bridge = (setup.writer = "bridge") /\ teleop = bridge
  /\ want = "zero" /\ silence = Longest + 1
  /\ timer = IF bridge THEN Heartbeat ELSE 0

-----------------------------------------------------------------------------
(* The two channels *)

\* os.replace() puts a complete file with a fresh stamp in place, or writing
\* raised an OSError and the old file stays.
WriteFile(v) ==
  \/ /\ file' = [vel |-> v, age |-> 0]
     /\ silence' = IF setup.consumer = "topics" THEN silence ELSE 0
  \/ setup.diskFails /\ UNCHANGED <<file, silence>>

\* _twist_cb and _pose_cb: a ROS consumer takes the velocity, and either
\* message refreshes the one command stamp.
TakeTopics(v) ==
  IF setup.consumer = "runtime" THEN UNCHANGED <<nodeVars, silence>>
  ELSE vel' = v /\ rosAge' = 0 /\ seen' = TRUE /\ silence' = 0

-----------------------------------------------------------------------------
(* CommandFileReader.read() *)

\* _safe_command() stamped now: the base stops, no command stays none.
Safe(c) == [vel |-> IF c.vel = "none" THEN "none" ELSE "zero", age |-> 0]

Fresh(f) == f.vel \in Velocity /\ f.age <= FileTimeout
ReadWhenExpired(c, f) ==
  IF c.vel # "none" /\ c.age <= FileTimeout THEN c
  ELSE IF Fresh(f) THEN f ELSE IF f.vel \in Velocity THEN Safe(c) ELSE c
ReadNeverExpires(c, f) == IF Fresh(f) THEN f ELSE c
Read(c, f) ==
  LET old == IF c.vel # "none" /\ c.age > FileTimeout THEN Safe(c) ELSE c
  IN IF Fresh(f) THEN f
     ELSE IF f.vel \in Velocity THEN Safe(old) ELSE old

ReadFile ==
  /\ cache' = Read(cache, file)
  /\ vel' = IF cache'.vel = "none" THEN vel ELSE cache'.vel

-----------------------------------------------------------------------------
(* The consumer's tick *)

\* The topics' own watchdog, without a command file.
TopicTick ==
  /\ setup.consumer = "topics"
  /\ vel' = IF seen /\ rosAge > TopicTimeout THEN "zero" ELSE vel
  /\ UNCHANGED cache

\* With one, fresh topics take precedence over the file.
TopicsFresh == rosAge <= TopicTimeout
FileTick ==
  /\ setup.consumer = "file"
  /\ IF TopicsFresh THEN UNCHANGED <<vel, cache>> ELSE ReadFile

RuntimeTick ==
  /\ setup.consumer = "runtime"
  /\ ReadFile

ConsumerTick ==
  /\ ~ticked /\ ticked' = TRUE
  /\ TopicTick \/ FileTick \/ RuntimeTick
  /\ UNCHANGED <<setup, file, rosAge, seen, kbVars, bridgeVars, want, timer,
                 silence>>

-----------------------------------------------------------------------------
(* The keyboard *)

Type(c) ==
  /\ kb \notin {"gone", "killed"} /\ Len(keys) < MaxKeys
  /\ keys' = Append(keys, c)
  /\ UNCHANGED <<setup, fileVars, nodeVars, ticked, kb, after, closed, context,
                 escape, bridgeVars, want, timer, silence>>

\* The timer's callback starts by reading what was typed.
KeyboardTick ==
  /\ kb = "idle" /\ timer = Heartbeat
  /\ kb' = "polling" /\ timer' = 0
  /\ UNCHANGED <<setup, fileVars, nodeVars, ticked, after, closed, context,
                 keys, escape, bridgeVars, want, silence>>

\* _escape collects ESC, ESC [ and the character that ends the sequence.
Collects(c) == \/ escape = "" /\ c = "ESC"
               \/ escape = "ESC" /\ c = "["
\* What _handle_key() is given: a key's name, or one it does not know.
Key(c) == CASE escape = "" /\ c \in {"A", " ", "x"}  -> c
            [] escape = "ESC[" /\ c = "A"             -> "A"
            [] OTHER                                  -> "unknown"

\* _handle_key(): each key it knows publishes; a step may add up to zero.  A
\* second "x" shuts down a context that is shut down, which raises.
HandleKey(k) ==
  /\ CASE k = "A" -> want' \in Velocity
       [] k \in {" ", "x"} -> want' = "zero"
       [] OTHER -> UNCHANGED want
  /\ closed' = (closed \/ k = "x")
  /\ kb' = IF k = "unknown" THEN "polling" ELSE "publish"
  /\ after' = CASE k = "unknown" -> after
                [] k = "x" /\ closed -> "gone"
                [] OTHER -> "polling"

PollKey ==
  /\ kb = "polling" /\ keys # <<>>
  /\ keys' = Tail(keys)
  /\ LET c == Head(keys)
     IN IF Collects(c)
        THEN /\ escape' = (IF c = "ESC" THEN "ESC" ELSE "ESC[")
             /\ UNCHANGED <<kb, after, closed, want>>
        ELSE escape' = "" /\ HandleKey(Key(c))
  /\ UNCHANGED <<setup, fileVars, nodeVars, ticked, context, bridgeVars, timer,
                 silence>>

PollEndSilent ==
  /\ kb = "polling" /\ keys = <<>>
  /\ kb' = IF closed THEN "gone" ELSE "idle"
  /\ UNCHANGED <<setup, fileVars, nodeVars, ticked, after, closed, context,
                 keys, escape, bridgeVars, want, timer, silence>>

\* Nothing more to read: the heartbeat.  After "x" the spin ends with this
\* callback, and close() only restores the terminal.
PollEnd ==
  /\ kb = "polling" /\ keys = <<>>
  /\ kb' = "publish"
  /\ after' = IF closed THEN "gone" ELSE "idle"
  /\ UNCHANGED <<setup, fileVars, nodeVars, ticked, closed, context, keys,
                 escape, bridgeVars, want, timer, silence>>

\* _publish(): first the topics, unless the context is shut down ...
Publish ==
  /\ kb = "publish" /\ kb' = "write"
  /\ IF context THEN TakeTopics(want) ELSE UNCHANGED <<nodeVars, silence>>
  /\ ticked' = FALSE
  /\ UNCHANGED <<setup, fileVars, after, closed, context, keys, escape,
                 bridgeVars, want, timer>>

\* ... then the file.  "x" shuts the context down once it has published.
Write ==
  /\ kb = "write"
  /\ after' = (IF after = "start" THEN "idle" ELSE after) /\ kb' = after'
  /\ WriteFile(want)
  /\ context' = (context /\ ~closed)
  /\ ticked' = FALSE
  /\ UNCHANGED <<setup, cache, nodeVars, closed, keys, escape, bridgeVars,
                 want, timer>>

\* SIGINT shuts the context down and raises in the callback that runs:
\* close() stops the base and publishes once more.
Interrupt ==
  /\ kb \notin {"gone", "killed"} /\ ~closed /\ after # "start"
  /\ closed' = TRUE /\ context' = FALSE
  /\ want' = "zero" /\ kb' = "publish" /\ after' = "gone"
  /\ UNCHANGED <<setup, fileVars, nodeVars, ticked, keys, escape, bridgeVars,
                 timer, silence>>

\* The process dies without publishing again: killed, or interrupted in its
\* constructor or once it is closed.
Kill ==
  /\ kb \notin {"gone", "killed"} /\ kb' = "killed"
  /\ UNCHANGED <<setup, fileVars, nodeVars, ticked, after, closed, context,
                 keys, escape, bridgeVars, want, timer, silence>>

-----------------------------------------------------------------------------
(* The command bridge *)

\* _twist_cb: every twist is written through.
BridgeTwist(v) ==
  /\ bridge /\ teleop
  /\ want' = v /\ WriteFile(v)
  /\ ticked' = FALSE
  /\ UNCHANGED <<setup, cache, nodeVars, kbVars, bridgeVars, timer>>

\* _pose_cb: a pose rewrites the file too, with the velocity as it was.
BridgePose ==
  /\ bridge /\ teleop
  /\ WriteFile(want)
  /\ ticked' = FALSE
  /\ UNCHANGED <<setup, cache, nodeVars, kbVars, bridgeVars, want, timer>>

\* The heartbeat repeats the last velocity under a new stamp.
BridgeTick ==
  /\ bridge /\ timer = Heartbeat /\ timer' = 0
  /\ WriteFile(want)
  /\ ticked' = FALSE
  /\ UNCHANGED <<setup, cache, nodeVars, kbVars, bridgeVars, want>>

BridgeClose ==
  /\ bridge /\ bridge' = FALSE
  /\ want' = "zero" /\ WriteFile("zero")
  /\ ticked' = FALSE
  /\ UNCHANGED <<setup, cache, nodeVars, kbVars, teleop, timer>>

BridgeKill ==
  /\ bridge /\ bridge' = FALSE
  /\ UNCHANGED <<setup, fileVars, nodeVars, ticked, kbVars, teleop, want, timer,
                 silence>>

TeleopDies ==
  /\ teleop /\ teleop' = FALSE
  /\ UNCHANGED <<setup, fileVars, nodeVars, ticked, kbVars, bridge, want, timer,
                 silence>>

-----------------------------------------------------------------------------
(* Time passes once the consumer has ticked and no timer is due *)

Due == (kb = "idle" \/ bridge) /\ timer = Heartbeat

Advance ==
  /\ ticked /\ ~Due /\ kb \in {"idle", "gone", "killed"}
  /\ ticked' = FALSE
  /\ timer' = IF kb = "idle" \/ bridge THEN timer + 1 ELSE timer
  /\ file' = [file EXCEPT !.age = Older(@, FileTimeout)]
  /\ cache' = [cache EXCEPT !.age = Older(@, FileTimeout)]
  /\ rosAge' = Older(rosAge, TopicTimeout)
  /\ silence' = Older(silence, Longest)
  /\ UNCHANGED <<setup, vel, seen, kbVars, bridgeVars, want>>

Keyboard == KeyboardTick \/ PollKey \/ PollEnd \/ Publish \/ Write
Operator == (\E c \in Chars : Type(c)) \/ Interrupt \/ Kill
Bridge == \/ BridgePose \/ BridgeTick \/ BridgeClose \/ BridgeKill
          \/ (\E v \in Velocity : BridgeTwist(v))

Next == ConsumerTick \/ Keyboard \/ Operator \/ Bridge \/ TeleopDies \/ Advance

Spec == Init /\ [][Next]_vars

\* Processes that run keep running, and time passes.
FairSpec == /\ Spec
            /\ WF_vars(ConsumerTick) /\ WF_vars(Keyboard) /\ WF_vars(BridgeTick)
            /\ SF_vars(Advance)

-----------------------------------------------------------------------------
(* Properties *)

\* Should the topics of a node with a command file fall silent, the file of
\* one heartbeat before is still fresh when the node turns to it.
FileOutlasts == ~setup.diskFails /\ TopicTimeout + 1 + Heartbeat <= FileTimeout

\* Without that the reader of such a node may never have held a command that
\* could expire: its read() returns None, and the node keeps the velocity.
Orphaned == setup.consumer = "file" /\ cache.vel = "none" /\ ~FileOutlasts

\* A dead writer stops the base: whichever way the keyboard or the bridge died
\* or lost its disk, no consumer is driven by a command older than the longer
\* of the two timeouts (CommandFileReader, _read_command_file) - except the
\* node whose file was never read, for want of a disk or of time.
DeadWriterStops == ticked /\ vel = "move" => silence <= Longest \/ Orphaned

\* Each stamp is at least as old as the last command that got out.
StampsInv ==
  /\ setup.consumer # "runtime" /\ rosAge <= TopicTimeout => silence <= rosAge
  /\ setup.consumer # "topics" =>
       /\ Fresh(file) => silence <= file.age
       /\ cache.vel = "move" /\ cache.age <= FileTimeout
            => silence <= cache.age

\* Whoever moves the base has a command that can expire.
ExpiryInv ==
  /\ setup.consumer = "topics" /\ vel = "move" => seen
  /\ setup.consumer = "runtime" /\ vel = "move" => cache.vel # "none"
  /\ setup.consumer = "file" /\ FileOutlasts /\ vel = "move" /\ cache.vel = "none" =>
       /\ file.vel \in Velocity /\ file.age <= rosAge + Heartbeat
       /\ rosAge > TopicTimeout => ~ticked

\* While the keyboard runs, the file is at most one heartbeat old; only its
\* first publication finds no file of its own.
KeyboardInv ==
  /\ bridge => kb = "gone"
  /\ ~setup.diskFails =>
    /\ kb = "idle" => file.vel \in Velocity /\ file.age <= timer
    /\ kb = "polling" => file.vel \in Velocity /\ file.age <= Heartbeat
    /\ kb \in {"publish", "write"} =>
         want = "zero" \/ (file.vel \in Velocity /\ file.age <= Heartbeat)

\* It is inductive.
SilenceInv == TypeOK /\ StampsInv /\ ExpiryInv /\ KeyboardInv /\ DeadWriterStops

\* The writer has no callback running.
AtRest == kb = "idle" \/ bridge

\* Has every channel of the consumer fallen silent for longer than its timeout?
Expired == /\ setup.consumer # "runtime" => rosAge > TopicTimeout
           /\ setup.consumer # "topics" => ~Fresh(file)

\* Every channel the consumer reads is written.
Written == setup.diskFails => setup.consumer = "topics"

Followed == vel = want \/ (vel = "zero" /\ Expired)

\* What the operator last asked for is what the consumer uses: a stop reaches
\* it by its next tick, past the file, the reader's cache and the topics'
\* precedence, and a velocity is dropped only while every channel's newest
\* command has expired, as between two heartbeats longer than its timeout.
VelocityFollows == ticked /\ AtRest /\ Written => Followed

\* A keyboard at rest has got its velocity out on every channel its consumer
\* reads; a closing keyboard never rests again.
RestInv ==
  /\ closed => /\ kb # "idle"
               /\ kb \in {"publish", "write"} => after \in {"polling", "gone"}
  /\ ~closed => context
  /\ kb = "idle" /\ Written =>
       /\ setup.consumer # "topics" => file.vel = want
       /\ setup.consumer # "runtime" => Followed
  /\ kb = "write" /\ ~closed /\ setup.consumer # "runtime" =>
       vel = want /\ rosAge = 0

\* So has the bridge, but for the moment before its first heartbeat.
BridgeInv ==
  /\ setup.consumer = "runtime" /\ cache.vel = "none" => vel = "zero"
  /\ bridge => /\ kb = "gone" /\ setup.consumer = "runtime"
               /\ ~setup.diskFails =>
                    \/ file.vel = want
                    \/ ~Fresh(file) /\ want = "zero" /\ cache.vel = "none"

FollowInv == TypeOK /\ RestInv /\ BridgeInv /\ VelocityFollows

\* loco_mani_bringup/README.md: letting a key go does not slow the base down, it
\* takes a space or an r to stop it: the velocity is held.
VelocityHeld == ticked /\ AtRest /\ ~setup.diskFails => vel = want

\* d1_piper_l_ros2_node.py: "A topic publisher can disappear without sending
\* an explicit stop.  Do not retain a stale base velocity indefinitely";
\* command_file.py: "a dead keyboard must never leave a locomotion velocity
\* command running indefinitely".
OperatorGone ==
  IF setup.writer = "bridge" THEN ~teleop ELSE kb \in {"gone", "killed"}
LostOperatorStops == OperatorGone ~> vel = "zero"
=============================================================================
