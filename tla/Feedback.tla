------------------------------ MODULE Feedback ------------------------------
(***************************************************************************)
(* How old the feedback is that the hardware runtime acts on: the sample   *)
(* streams of the two buses, the vendor libraries that cache them, the two *)
(* reader threads (D1Backend.read, PiperBackend.read), the boxes they fill *)
(* and the checks of the merged snapshot (SafetySupervisor.check_state and *)
(* limit_command's watchdog).                                              *)
(*                                                                         *)
(* Time is discrete and every stamp is kept as an age, counted up to one   *)
(* past the limit it is compared with.  A sample is its age; a cached      *)
(* reading is one whose stream has produced nothing since the reading      *)
(* before.  A read takes as long as its vendor calls do, and a command     *)
(* sent meanwhile waits for the bus (_io_lock): nothing makes the loop     *)
(* punctual, only the command watchdog bounds the time between two of its  *)
(* checks.  The policy watchdog and the other faults only end it earlier.  *)
(***************************************************************************)
EXTENDS Naturals

CONSTANTS
  PiperStreams,     \* those of Piper's streams that carry a stamp, by name
  FeedbackTimeout,  \* feedback_timeout_s of both backends
  StateTimeout,     \* state_timeout_ms of the supervisor
  CommandTimeout,   \* command_timeout_ms of the supervisor
  VendorTimeout,    \* after which D1's library reports a timeout (external)
  Worlds            \* what is irregular, what is steady, the buses with stamps

ASSUME TimeoutsAssumption ==
  /\ FeedbackTimeout \in Nat /\ StateTimeout \in Nat
  /\ CommandTimeout \in Nat /\ VendorTimeout \in Nat

Bus == {"d1", "piper"}
D1Streams == {"legs", "imu"}
Streams == [d1 |-> D1Streams, piper |-> PiperStreams]
AllStreams == D1Streams \cup PiperStreams
ASSUME StreamsAssumption == PiperStreams # {} /\ PiperStreams \cap D1Streams = {}
ASSUME WorldsAssumption ==
  Worlds \subseteq [irregular: SUBSET (AllStreams \cup Bus \cup {"loop"}),
                   steady: SUBSET AllStreams, stamped: SUBSET Bus]

VARIABLES
  world,    \* irregular: the streams that may pause, readers and loop that may
            \* be late; steady: the streams with a sample at once in every
            \* instant; stamped: the buses whose library stamps its samples
  sample,   \* age of each stream's newest sample
  news,     \* the buses with a new stamp since their stamps were last fetched
  known,    \* the buses with stamps to compare with
  noticed,  \* age of _last_vendor_timestamp_ns and _feedback_signature_ns
  draft,    \* what each reader has fetched from its library, if it is reading
  box,      \* each bus's _SnapshotBox: valid, monotonic_ns, and the data's ages
  polled,   \* the buses read at this instant
  idle,     \* age of _last_command_ns
  phase,    \* the feedback gate, enabling and the loop's first turn, the loop
  up,       \* age of the loop's first command
  fault     \* SafetySupervisor.fault

streamVars == <<sample, news>>
backendVars == <<known, noticed, draft>>
runtimeVars == <<idle, phase, up, fault>>
vars == <<world, streamVars, backendVars, box, polled, runtimeVars>>

Larger(a, b) == IF a > b THEN a ELSE b

\* The longest the loop can go without a new snapshot of a bus in its box.
Gap == StateTimeout + CommandTimeout

\* The longest a sample may have been in use, and the age past which a stamp
\* is stale for whoever compares it and the loop has settled.
PiperLimit == FeedbackTimeout + 2 * Gap + StateTimeout
ImuLimit == 2 * Gap + StateTimeout
D1Limit == VendorTimeout + Gap + StateTimeout
DataLimit == Larger(PiperLimit, D1Limit)
StampLimit == Larger(FeedbackTimeout, StateTimeout)
SettleTime == FeedbackTimeout + Gap + StateTimeout

Older(age, limit) == IF age > limit THEN age ELSE age + 1
DataAge == 0 .. DataLimit + 1
StampAge == 0 .. StampLimit + 1

Snapshot(b) ==
  [valid: BOOLEAN, stamp: StampAge, data: [Streams[b] -> DataAge]]

\* A read in progress: the samples fetched, and whether the library's own
\* timeouts and the stamps among them were right and new.
Draft(b) ==
  [open: BOOLEAN, timely: BOOLEAN, new: BOOLEAN, data: [Streams[b] -> DataAge]]

NoData(b) == [s \in Streams[b] |-> DataLimit + 1]
NoDraft(b) == [open |-> FALSE, timely |-> FALSE, new |-> FALSE, data |-> NoData(b)]

TypeOK ==
  /\ world \in Worlds
  /\ sample \in [AllStreams -> DataAge]
  /\ news \subseteq Bus /\ known \subseteq Bus
  /\ noticed \in [Bus -> StampAge]
  /\ DOMAIN draft = Bus /\ \A b \in Bus : draft[b] \in Draft(b)
  /\ DOMAIN box = Bus /\ \A b \in Bus : box[b] \in Snapshot(b)
  /\ polled \subseteq Bus
  /\ idle \in 0 .. CommandTimeout + 1
  /\ phase \in {"gate", "start", "loop"} /\ up \in 0 .. SettleTime + 1 /\ fault \in BOOLEAN

\* connect() forgets the stamps; the library may hold samples of long ago.
Init ==
  /\ world \in Worlds
  /\ sample = [s \in AllStreams |-> IF s \in world.irregular THEN DataLimit + 1 ELSE 0]
  /\ news = {} /\ known = {}
  /\ noticed = [b \in Bus |-> StampLimit + 1]
  /\ draft = [b \in Bus |-> NoDraft(b)]
  /\ box = [b \in Bus |-> [valid |-> FALSE, stamp |-> StampLimit + 1, data |-> NoData(b)]]
  /\ polled = {} /\ idle = 0
  /\ phase = "gate" /\ up = 0 /\ fault = FALSE

\* D1's library gives one stamp, that of the IMU; each of these streams has one.
StampedStreams == [d1 |-> {"imu"}, piper |-> PiperStreams]

\* A frame of the bus reaches the library.
Arrive(s) ==
  /\ ~fault
  /\ sample' = [sample EXCEPT ![s] = 0]
  /\ news' = news \cup {b \in world.stamped : s \in StampedStreams[b]}
  /\ UNCHANGED <<world, backendVars, box, polled, runtimeVars>>

-----------------------------------------------------------------------------
(* The readers *)

ChangedAlways(b) == TRUE
\* Is this the first comparison, or has one of the stamps changed?
Changed(b) == b \notin known \/ b \in news

VendorTimesOutImu == sample["imu"] > VendorTimeout
\* The motors are guarded by the library's own timeouts only.
VendorTimesOut ==
  sample["legs"] > VendorTimeout \/ sample["imu"] > VendorTimeout

\* The reader takes the samples out of the library's cache: D1's under the
\* library's timeouts, Piper's with their stamps.
Begin(b) ==
  /\ ~fault /\ ~draft[b].open
  /\ draft' = [draft EXCEPT ![b] =
       [open |-> TRUE,
        timely |-> (b = "d1" => ~VendorTimesOut),
        new |-> b = "piper" /\ b \in world.stamped /\ Changed(b),
        data |-> [s \in Streams[b] |-> sample[s]]]]
  /\ news' = news \ ({b} \cap {"piper"})
  /\ UNCHANGED <<world, sample, known, noticed, box, polled, runtimeVars>>

\* What a reader puts into its box: what it fetched, or why it cannot.
Put(b, valid, stamp) ==
  box' = [box EXCEPT ![b] =
    [valid |-> valid, stamp |-> stamp,
     data |-> IF valid THEN draft[b].data ELSE NoData(b)]]

\* Motors out of range, a rate of zero, a status, a number that is not finite,
\* or a call that raises, all found before the stamps are compared: a stamp
\* that was new still is.
ReadFails(b) ==
  /\ b \in world.irregular \/ ~draft[b].timely
  /\ Put(b, FALSE, 0)
  /\ news' = news \cup {c \in {b} : draft[b].new}
  /\ UNCHANGED <<known, noticed>>

Compare(b, new) ==
  /\ known' = known \cup {b}
  /\ noticed' = [noticed EXCEPT ![b] = IF new THEN 0 ELSE @]

StampPolled == 0
\* The snapshot is as old as the change of the stamp that was noticed last.
StampNoticed == noticed'["d1"]

\* D1's stamp is fetched last, by a call of its own.
ReadD1 ==
  /\ draft["d1"].timely
  /\ IF "d1" \in world.stamped
     THEN /\ Compare("d1", Changed("d1"))
          /\ news' = news \ {"d1"}
          /\ IF noticed'["d1"] > FeedbackTimeout THEN Put("d1", FALSE, 0)
             ELSE Put("d1", TRUE, StampNoticed)
     ELSE /\ Put("d1", TRUE, 0)
          /\ UNCHANGED <<known, news, noticed>>

\* Piper's stamps are compared together, if there are any, and the snapshot is
\* as old as the end of the poll.
ReadPiper ==
  /\ IF "piper" \in world.stamped
     THEN /\ Compare("piper", draft["piper"].new)
          /\ Put("piper", noticed'["piper"] <= FeedbackTimeout, 0)
     ELSE /\ Put("piper", TRUE, 0)
          /\ UNCHANGED <<known, noticed>>
  /\ UNCHANGED news

\* The read ends, and releases the bus.
Finish(b) ==
  /\ ~fault /\ draft[b].open
  /\ \/ ReadFails(b)
     \/ b = "d1" /\ ReadD1
     \/ b = "piper" /\ ReadPiper
  /\ draft' = [draft EXCEPT ![b] = NoDraft(b)]
  /\ polled' = polled \cup {b}
  /\ UNCHANGED <<world, sample, runtimeVars>>

-----------------------------------------------------------------------------
(* The runtime *)

MergedValid == box["d1"].valid /\ box["piper"].valid
MergedStampOfD1 == box["d1"].stamp
\* merge_snapshots(): the older of the two.
MergedStamp == Larger(box["d1"].stamp, box["piper"].stamp)

StaleAtLimit == MergedStamp >= StateTimeout
Stale == MergedStamp > StateTimeout

\* _wait_for_initial_state(): an invalid snapshot is waited out, a stale one
\* latches the fault, and then the gate can only run into its deadline.
GateCheck ==
  /\ phase = "gate"
  /\ fault' = (MergedValid /\ Stale)
  /\ phase' = IF MergedValid /\ ~Stale THEN "start" ELSE "gate"
  /\ UNCHANGED idle

\* The loop halts on either; the policy's turn writes no command.
PolicyCheck ==
  /\ phase \in {"start", "loop"}
  /\ fault' = (~MergedValid \/ Stale)
  /\ UNCHANGED <<idle, phase>>

Late == idle > CommandTimeout
\* limit_command() times every command against the one before.
CommandCheck ==
  /\ phase \in {"start", "loop"}
  /\ fault' = (~MergedValid \/ Stale \/ (phase = "loop" /\ Late))
  /\ idle' = 0 /\ phase' = "loop"

Check ==
  /\ ~fault
  /\ GateCheck \/ PolicyCheck \/ CommandCheck
  /\ UNCHANGED <<world, streamVars, backendVars, box, polled, up>>

OlderData(b, data) == [s \in Streams[b] |-> Older(data[s], DataLimit)]

\* Regular streams have a sample, and regular readers a whole read, at every
\* instant; a regular loop is within its watchdog.
Advance ==
  /\ ~fault
  /\ \A s \in AllStreams \ world.irregular : sample[s] = 0
  /\ \A b \in Bus \ world.irregular : b \in polled /\ ~draft[b].open
  /\ "loop" \notin world.irregular /\ phase = "loop" => idle < CommandTimeout
  /\ polled' = {}
  /\ sample' = [s \in AllStreams |->
       IF s \in world.steady THEN 0 ELSE Older(sample[s], DataLimit)]
  /\ news' = news \cup
       {b \in world.stamped : StampedStreams[b] \cap world.steady # {}}
  /\ noticed' = [b \in Bus |-> Older(noticed[b], StampLimit)]
  /\ draft' = [b \in Bus |-> [draft[b] EXCEPT !.data = OlderData(b, @)]]
  /\ box' = [b \in Bus |-> [box[b] EXCEPT !.stamp = Older(@, StampLimit),
                                          !.data = OlderData(b, @)]]
  /\ idle' = IF phase = "loop" THEN Older(idle, CommandTimeout) ELSE idle
  /\ up' = IF phase = "loop" THEN Older(up, SettleTime) ELSE up
  /\ UNCHANGED <<world, known, phase, fault>>

Halted == fault /\ UNCHANGED vars

Next ==
  \/ \E s \in AllStreams : Arrive(s)
  \/ \E b \in Bus : Begin(b) \/ Finish(b)
  \/ Check \/ Advance \/ Halted

Spec == Init /\ [][Next]_vars

-----------------------------------------------------------------------------
(* Properties *)

\* The loop is within its watchdog, so it will go on if its next check does.
Alive == phase = "loop" /\ ~fault /\ ~Late

\* Would a command be sent on the boxes as they are?  The loop acts on them.
Trusted == Alive /\ MergedValid /\ ~Stale

AnyWithin(data, age) == \E s \in PiperStreams : data[s] <= age
AllWithin(data, age) == \A s \in D1Streams : data[s] <= age

\* Piper's whole bus cannot fall silent unnoticed: a loop that has settled acts
\* on data of which some is younger than the feedback timeout, three state
\* timeouts and two command watchdogs together, however long the vendor's calls
\* hold the bus, though every poll stamps the snapshot anew (_read_locked,
\* check_state, limit_command).  Without stamps there is no such bound.
PiperDataBounded ==
  Trusted /\ "piper" \in world.stamped /\ up > SettleTime =>
    AnyWithin(box["piper"].data, PiperLimit)

\* D1's IMU data is younger, its snapshot being stamped when the change was
\* noticed (D1Backend.read).
ImuDataBounded ==
  Trusted /\ "d1" \in world.stamped /\ up > Gap + StateTimeout =>
    box["d1"].data["imu"] <= ImuLimit

\* With a stamp or without, no D1 data outlives the library's own timeout by
\* more than the longest read and the supervisor's timeout.
D1DataBounded ==
  Trusted /\ up > StateTimeout => AllWithin(box["d1"].data, D1Limit)

\* Regular streams and readers never trip the check, however samples, reads and
\* checks interleave within an instant and however irregularly the loop checks
\* within its watchdog.
NoFalseTrip == world.irregular = {} => ~fault

\* Both count to the same limit; past it nothing is known of the time since.
Saturated(b) == box[b].stamp > StampLimit
Forgotten(b) == noticed[b] > StampLimit

\* The loop was entered on valid snapshots, so it has stamps to compare with.
PhaseInv ==
  /\ phase # "loop" => up = 0 /\ idle = 0
  /\ phase # "gate" => world.stamped \subseteq known
  /\ ~draft["d1"].new
  /\ \A b \in world.stamped : box[b].valid => b \in known

\* A read of D1 that is under way began after the snapshot in the box was put
\* there, which a live loop has seen fresh at its last check: so the data it
\* fetched within the library's timeouts is at most a gap older when it is put.
LegsInv ==
  /\ draft["d1"].open /\ draft["d1"].timely =>
       /\ \/ Saturated("d1")
          \/ AllWithin(draft["d1"].data, VendorTimeout + box["d1"].stamp)
       /\ Alive => AllWithin(draft["d1"].data, VendorTimeout + StateTimeout + idle)
  /\ Alive /\ box["d1"].valid =>
       \/ Saturated("d1") \/ up <= box["d1"].stamp
       \/ AllWithin(box["d1"].data, VendorTimeout + Gap + box["d1"].stamp)

\* What the library or a read holds of the IMU is at most a gap older than the
\* stamp noticed last, or than the loop's last check can have seen it.
ImuLagging(age) ==
  Alive =>
    /\ Forgotten("d1") \/ up <= noticed["d1"] \/ age <= noticed["d1"] + Gap
    /\ up <= StateTimeout + idle \/ age <= StateTimeout + idle + Gap

\* In the same way a new stamp is at most a gap old when it is noticed, and the
\* data fetched before that at most another.
ImuInv ==
  "d1" \in world.stamped =>
    /\ box["d1"].valid => noticed["d1"] <= box["d1"].stamp
    /\ "d1" \in news =>
         /\ box["d1"].valid => Saturated("d1") \/ sample["imu"] <= box["d1"].stamp
         /\ Alive => sample["imu"] <= StateTimeout + idle
    /\ ImuLagging(sample["imu"])
    /\ draft["d1"].open => ImuLagging(draft["d1"].data["imu"])
    /\ Alive /\ box["d1"].valid =>
         \/ Saturated("d1") \/ up <= box["d1"].stamp + Gap
         \/ box["d1"].data["imu"] <= box["d1"].stamp + 2 * Gap

\* A stamp that waits to be noticed is at most a gap older than the snapshot in
\* the box, or than the loop's last check can have seen that.
PiperWaiting(data) ==
  Alive =>
    /\ box["piper"].valid =>
         \/ Saturated("piper") \/ up <= box["piper"].stamp
         \/ AnyWithin(data, box["piper"].stamp + Gap)
    /\ \/ up <= StateTimeout + idle
       \/ AnyWithin(data, StateTimeout + idle + Gap)

PiperLagging(data) ==
  Alive => \/ Forgotten("piper") \/ up <= noticed["piper"] + Gap
           \/ AnyWithin(data, noticed["piper"] + 2 * Gap)

\* Piper's stamps are fetched with the data, when the read begins, so a new one
\* waits for up to two gaps: that read may have begun a gap after the stamp and
\* may last another.
PiperInv ==
  "piper" \in world.stamped =>
    /\ draft["piper"].open =>
         \A s \in PiperStreams : sample[s] <= draft["piper"].data[s]
    /\ draft["piper"].open /\ "piper" \in news =>
         /\ Saturated("piper") \/ AnyWithin(sample, box["piper"].stamp)
         /\ Alive => AnyWithin(sample, StateTimeout + idle)
    /\ ~draft["piper"].open /\ "piper" \in news => PiperWaiting(sample)
    /\ draft["piper"].open /\ draft["piper"].new => PiperWaiting(draft["piper"].data)
    /\ PiperLagging(sample)
    /\ draft["piper"].open => PiperLagging(draft["piper"].data)
    /\ Alive /\ box["piper"].valid =>
         \/ Saturated("piper") \/ up <= FeedbackTimeout + Gap + box["piper"].stamp
         \/ AnyWithin(box["piper"].data, FeedbackTimeout + 2 * Gap + box["piper"].stamp)

\* It is inductive.
FeedbackInv == TypeOK /\ PhaseInv /\ LegsInv /\ ImuInv /\ PiperInv

\* The timeouts leave a regular reader the one instant by which its sample, and
\* the two by which its snapshot, may be old.
TimeoutsTolerate ==
  FeedbackTimeout >= 1 /\ StateTimeout >= 2 /\ VendorTimeout >= 1

\* What regular streams and readers keep up.
RegularInv ==
  /\ ~fault /\ ~Late /\ known \subseteq world.stamped
  /\ \A s \in AllStreams : sample[s] <= 1
  /\ \A b \in known \ news : ~draft[b].new =>
       /\ noticed[b] <= 1
       /\ (\E s \in StampedStreams[b] : sample[s] = 0) => noticed[b] = 0
  /\ \A b \in Bus : (draft[b].open => draft[b].timely) /\ (draft[b].new => draft[b].open)
  /\ draft["piper"].open /\ ~draft["piper"].new /\ "piper" \in world.stamped =>
       "piper" \in known /\ noticed["piper"] <= 1
  /\ \A b \in Bus :
       /\ box[b].valid => box[b].stamp <= 2
       /\ b \in polled => box[b].valid /\ box[b].stamp <= 1
       /\ phase # "gate" => box[b].valid

\* docs/hardware_deployment.md: a receive timestamp older than 20 ms stops the
\* policy at once.
OldStreamStops ==
  Trusted /\ "piper" \in world.stamped /\ up > SettleTime =>
    \A s \in PiperStreams : box["piper"].data[s] <= PiperLimit
=============================================================================
