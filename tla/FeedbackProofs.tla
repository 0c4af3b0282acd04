--------------------------- MODULE FeedbackProofs ---------------------------
(* Proofs about Feedback: how old the data is that the runtime acts on, for *)
(* every set of Piper's streams, every timeout and every irregular world.   *)
EXTENDS Feedback, TLAPS

\* The limits are numbers, and cover what is compared with them.
LEMMA Limits ==
  /\ FeedbackTimeout \in Nat /\ StateTimeout \in Nat
  /\ CommandTimeout \in Nat /\ VendorTimeout \in Nat
  /\ Gap \in Nat /\ Gap = StateTimeout + CommandTimeout
  /\ DataLimit \in Nat /\ SettleTime \in Nat
  /\ StampLimit \in Nat /\ FeedbackTimeout <= StampLimit /\ StateTimeout <= StampLimit
  /\ SettleTime = FeedbackTimeout + Gap + StateTimeout
  /\ PiperLimit = FeedbackTimeout + 2 * Gap + StateTimeout
  /\ ImuLimit = 2 * Gap + StateTimeout
  /\ D1Limit = VendorTimeout + Gap + StateTimeout
BY TimeoutsAssumption
DEF Gap, DataLimit, StampLimit, SettleTime, PiperLimit, ImuLimit, D1Limit, Larger

\* What an instant does to an age.
LEMMA OlderAge ==
  ASSUME NEW limit \in Nat, NEW a \in 0 .. limit + 1
  PROVE  /\ Older(a, limit) \in 0 .. limit + 1 /\ a \in Nat /\ Older(a, limit) \in Nat
         /\ Older(a, limit) <= a + 1 /\ a <= Older(a, limit)
         /\ a <= limit => Older(a, limit) = a + 1
         /\ ~(a <= limit) => Older(a, limit) = limit + 1 /\ a = limit + 1
BY DEF Older

\* The streams of a bus are streams, and the loop is no bus.
LEMMA BusStreams ==
  /\ Streams["d1"] = D1Streams /\ Streams["piper"] = PiperStreams
  /\ D1Streams = {"legs", "imu"}
  /\ StampedStreams["d1"] = {"imu"} /\ StampedStreams["piper"] = PiperStreams
  /\ \A b \in Bus : Streams[b] \subseteq AllStreams
  /\ \A b \in Bus : StampedStreams[b] \subseteq AllStreams /\ StampedStreams[b] # {}
  /\ PiperStreams \subseteq AllStreams /\ D1Streams \subseteq AllStreams
  /\ "imu" \in AllStreams /\ "legs" \in AllStreams /\ "imu" \notin PiperStreams
  /\ "d1" \in Bus /\ "piper" \in Bus
BY StreamsAssumption DEF Streams, StampedStreams, Bus, AllStreams, D1Streams

\* What the types say of every age and flag.
Ages(b) ==
  /\ box[b].valid \in BOOLEAN /\ box[b].stamp \in Nat /\ noticed[b] \in Nat
  /\ draft[b].open \in BOOLEAN /\ draft[b].timely \in BOOLEAN /\ draft[b].new \in BOOLEAN
  /\ \A s \in Streams[b] : box[b].data[s] \in Nat /\ draft[b].data[s] \in Nat

LEMMA Numbers ==
  ASSUME TypeOK
  PROVE  /\ \A b \in Bus : Ages(b)
         /\ \A s \in AllStreams : sample[s] \in Nat
         /\ idle \in Nat /\ up \in Nat
         /\ world.stamped \subseteq Bus /\ known \subseteq Bus /\ news \subseteq Bus
<1>1. ASSUME NEW b \in Bus PROVE Ages(b)
  <2>1. box[b] \in Snapshot(b) /\ draft[b] \in Draft(b) /\ noticed[b] \in StampAge
    BY DEF TypeOK
  <2> QED
    BY <2>1, Limits DEF Ages, Snapshot, Draft, DataAge, StampAge
<1>2. \A s \in AllStreams : sample[s] \in Nat
  BY Limits DEF TypeOK, DataAge
<1>3. idle \in Nat /\ up \in Nat
  BY Limits DEF TypeOK
<1>4. world.stamped \subseteq Bus /\ known \subseteq Bus /\ news \subseteq Bus
  BY WorldsAssumption DEF TypeOK
<1> QED
  BY <1>1, <1>2, <1>3, <1>4

\* A merged snapshot is stale as soon as one of its parts is.
LEMMA FreshParts ==
  ASSUME TypeOK, ~Stale
  PROVE  box["d1"].stamp <= StateTimeout /\ box["piper"].stamp <= StateTimeout
<1>1. box["d1"].stamp \in Nat /\ box["piper"].stamp \in Nat
  BY Numbers, BusStreams DEF Ages
<1> QED
  BY <1>1, Limits DEF Stale, MergedStamp, Larger

\* What reaches the loop's check and passes it is within the limits.
LEMMA TrustedData ==
  ASSUME FeedbackInv
  PROVE  PiperDataBounded /\ ImuDataBounded /\ D1DataBounded
<1>1. TypeOK /\ LegsInv /\ ImuInv /\ PiperInv
  BY DEF FeedbackInv
<1> SUFFICES ASSUME Trusted PROVE PiperDataBounded /\ ImuDataBounded /\ D1DataBounded
  BY DEF PiperDataBounded, ImuDataBounded, D1DataBounded
<1>2. Ages("d1") /\ Ages("piper") /\ up \in Nat
  BY <1>1, Numbers, BusStreams
<1>3. /\ Alive /\ box["d1"].valid /\ box["piper"].valid
      /\ box["d1"].stamp <= StateTimeout /\ box["piper"].stamp <= StateTimeout
  BY <1>1, FreshParts DEF Trusted, MergedValid
<1>4. ~Saturated("d1") /\ ~Saturated("piper")
  BY <1>2, <1>3, Limits DEF Saturated, Ages
<1>5. PiperDataBounded
  <2>1. SUFFICES ASSUME "piper" \in world.stamped, up > SettleTime
                 PROVE  AnyWithin(box["piper"].data, PiperLimit)
    BY DEF PiperDataBounded
  <2>2. ~(up <= FeedbackTimeout + Gap + box["piper"].stamp)
    BY <1>2, <1>3, <2>1, Limits DEF Ages
  <2>3. AnyWithin(box["piper"].data, FeedbackTimeout + 2 * Gap + box["piper"].stamp)
    BY <1>1, <1>3, <1>4, <2>1, <2>2 DEF PiperInv
  <2> QED
    BY <1>2, <1>3, <2>3, Limits, BusStreams DEF AnyWithin, Ages
<1>6. ImuDataBounded
  BY <1>1, <1>2, <1>3, <1>4, Limits, BusStreams DEF ImuInv, ImuDataBounded, Ages
<1>7. D1DataBounded
  <2>1. SUFFICES ASSUME up > StateTimeout PROVE AllWithin(box["d1"].data, D1Limit)
    BY DEF D1DataBounded
  <2>2. ~(up <= box["d1"].stamp)
    BY <1>2, <1>3, <2>1, Limits DEF Ages
  <2>3. AllWithin(box["d1"].data, VendorTimeout + Gap + box["d1"].stamp)
    BY <1>1, <1>3, <1>4, <2>2 DEF LegsInv
  <2>4. ASSUME NEW s \in D1Streams PROVE box["d1"].data[s] <= D1Limit
    <3>1. box["d1"].data[s] <= VendorTimeout + Gap + box["d1"].stamp
      BY <2>3 DEF AllWithin
    <3>2. box["d1"].data[s] \in Nat /\ box["d1"].stamp \in Nat
      BY <1>2, BusStreams DEF Ages
    <3> QED
      BY <1>3, <3>1, <3>2, Limits
  <2> QED
    BY <2>4 DEF AllWithin
<1> QED
  BY <1>5, <1>6, <1>7

-----------------------------------------------------------------------------
(* What each step does *)

LEMMA ArriveFacts ==
  ASSUME TypeOK, NEW z \in AllStreams, Arrive(z)
  PROVE  /\ UNCHANGED <<world, known, noticed, draft, box, polled, idle, phase, up, fault>>
         /\ ~fault
         /\ sample' \in [AllStreams -> DataAge] /\ news' \subseteq Bus
         /\ \A s \in AllStreams : sample'[s] = IF s = z THEN 0 ELSE sample[s]
         /\ "d1" \in news' /\ "d1" \in world.stamped => "d1" \in news \/ z = "imu"
         /\ "piper" \in news' => "piper" \in news \/ z \in PiperStreams
         /\ \A b \in world.stamped : z \in StampedStreams[b] => b \in news'
         /\ news \subseteq news'
<1>1. 0 \in DataAge
  BY Limits DEF DataAge
<1>2. /\ sample' = [sample EXCEPT ![z] = 0]
      /\ news' = news \cup {b \in world.stamped : z \in StampedStreams[b]}
      /\ sample \in [AllStreams -> DataAge] /\ news \subseteq Bus
      /\ world.stamped \subseteq Bus
  BY Numbers DEF Arrive, TypeOK
<1>3. sample' \in [AllStreams -> DataAge] /\ news' \subseteq Bus
  BY <1>1, <1>2
<1>4. \A s \in AllStreams : sample'[s] = IF s = z THEN 0 ELSE sample[s]
  BY <1>2
<1>5. UNCHANGED <<world, known, noticed, draft, box, polled, idle, phase, up, fault>> /\ ~fault
  BY DEF Arrive, backendVars, runtimeVars
<1> QED
  BY <1>2, <1>3, <1>4, <1>5, BusStreams

LEMMA BeginFacts ==
  ASSUME TypeOK, NEW b \in Bus, Begin(b)
  PROVE  /\ UNCHANGED <<world, sample, known, noticed, box, polled, idle, phase, up, fault>>
         /\ ~fault /\ ~draft[b].open
         /\ DOMAIN draft' = Bus /\ \A c \in Bus : draft'[c] \in Draft(c)
         /\ \A c \in Bus : c # b => draft'[c] = draft[c]
         /\ draft'[b].open /\ draft'[b].timely = (b = "d1" => ~VendorTimesOut)
         /\ draft'[b].new = (b = "piper" /\ b \in world.stamped /\ Changed(b))
         /\ \A s \in Streams[b] : draft'[b].data[s] = sample[s]
         /\ news' \subseteq news
         /\ "d1" \in news' <=> "d1" \in news
         /\ "piper" \in news' <=> "piper" \in news /\ b # "piper"
<1> DEFINE taken == [open |-> TRUE, timely |-> (b = "d1" => ~VendorTimesOut),
                     new |-> b = "piper" /\ b \in world.stamped /\ Changed(b),
                     data |-> [s \in Streams[b] |-> sample[s]]]
<1>1. /\ draft' = [draft EXCEPT ![b] = taken]
      /\ DOMAIN draft = Bus /\ \A c \in Bus : draft[c] \in Draft(c)
  BY DEF Begin, TypeOK
<1>2. taken \in Draft(b)
  <2>1. [s \in Streams[b] |-> sample[s]] \in [Streams[b] -> DataAge]
    BY BusStreams DEF TypeOK
  <2> QED
    BY <2>1 DEF Draft, VendorTimesOut, Changed
<1>3. /\ taken.open /\ taken.timely = (b = "d1" => ~VendorTimesOut)
      /\ taken.new = (b = "piper" /\ b \in world.stamped /\ Changed(b))
      /\ \A s \in Streams[b] : taken.data[s] = sample[s]
  OBVIOUS
<1> HIDE DEF taken
<1>4. /\ DOMAIN draft' = Bus /\ draft'[b] = taken
      /\ \A c \in Bus : c # b => draft'[c] = draft[c]
  BY <1>1
<1>5. \A c \in Bus : draft'[c] \in Draft(c)
  BY <1>1, <1>2, <1>4
<1>6. /\ UNCHANGED <<world, sample, known, noticed, box, polled, idle, phase, up, fault>>
      /\ ~fault /\ ~draft[b].open /\ news' = news \ ({b} \cap {"piper"})
  BY DEF Begin, runtimeVars
<1>7. /\ news' \subseteq news
      /\ "d1" \in news' <=> "d1" \in news
      /\ "piper" \in news' <=> "piper" \in news /\ b # "piper"
  BY <1>6
<1> QED
  BY <1>3, <1>4, <1>5, <1>6, <1>7

\* What a reader's box holds after it has put a snapshot into it.
LEMMA PutResult ==
  ASSUME TypeOK, NEW b \in Bus, NEW v \in BOOLEAN, NEW st \in StampAge, Put(b, v, st)
  PROVE  /\ DOMAIN box' = Bus /\ \A c \in Bus : box'[c] \in Snapshot(c)
         /\ box'[b].valid = v /\ box'[b].stamp = st
         /\ v => box'[b].data = draft[b].data
         /\ \A c \in Bus : c # b => box'[c] = box[c]
<1> DEFINE new == [valid |-> v, stamp |-> st, data |-> IF v THEN draft[b].data ELSE NoData(b)]
<1>1. DOMAIN box = Bus /\ \A c \in Bus : box[c] \in Snapshot(c)
  BY DEF TypeOK
<1>2. box' = [box EXCEPT ![b] = new]
  BY DEF Put
<1>3. draft[b].data \in [Streams[b] -> DataAge]
  BY DEF TypeOK, Draft
<1>4. NoData(b) \in [Streams[b] -> DataAge]
  BY Limits DEF NoData, DataAge
<1>5. new \in Snapshot(b)
  BY <1>3, <1>4 DEF Snapshot
<1>6. new.valid = v /\ new.stamp = st /\ (v => new.data = draft[b].data)
  OBVIOUS
<1> HIDE DEF new
<1>7. DOMAIN box' = Bus /\ box'[b] = new /\ \A c \in Bus : c # b => box'[c] = box[c]
  BY <1>1, <1>2
<1> QED
  BY <1>1, <1>5, <1>6, <1>7

\* The three outcomes of a read: nothing, a comparison of stamps, no stamps.
NothingRead(b) ==
  /\ ~box'[b].valid /\ box'[b].stamp = 0
  /\ news' = news \cup {c \in {b} : draft[b].new}
  /\ UNCHANGED <<known, noticed>>

Compared(b, new) ==
  /\ b \in world.stamped
  /\ known' = known \cup {b}
  /\ noticed' \in [Bus -> StampAge]
  /\ noticed'[b] = IF new THEN 0 ELSE noticed[b]
  /\ \A c \in Bus : c # b => noticed'[c] = noticed[c]
  /\ box'[b].valid => noticed'[b] <= FeedbackTimeout /\ box'[b].data = draft[b].data

ComparedD1 ==
  /\ Compared("d1", Changed("d1")) /\ draft["d1"].timely
  /\ news' = news \ {"d1"}
  /\ box'["d1"].stamp = IF box'["d1"].valid THEN noticed'["d1"] ELSE 0
  /\ noticed'["d1"] <= FeedbackTimeout => box'["d1"].valid

ComparedPiper ==
  /\ Compared("piper", draft["piper"].new)
  /\ UNCHANGED news /\ box'["piper"].stamp = 0
  /\ noticed'["piper"] <= FeedbackTimeout => box'["piper"].valid

WithoutStamps(b) ==
  /\ b \notin world.stamped /\ (b = "d1" => draft[b].timely)
  /\ UNCHANGED <<known, news, noticed>>
  /\ box'[b].valid /\ box'[b].stamp = 0 /\ box'[b].data = draft[b].data

LEMMA CompareResult ==
  ASSUME TypeOK, NEW b \in Bus, NEW new \in BOOLEAN, Compare(b, new)
  PROVE  /\ known' = known \cup {b} /\ noticed' \in [Bus -> StampAge]
         /\ noticed'[b] = IF new THEN 0 ELSE noticed[b]
         /\ \A c \in Bus : c # b => noticed'[c] = noticed[c]
<1>1. 0 \in StampAge
  BY Limits DEF StampAge
<1> QED
  BY <1>1 DEF Compare, TypeOK

LEMMA FinishFacts ==
  ASSUME TypeOK, NEW b \in Bus, Finish(b)
  PROVE  /\ UNCHANGED <<world, sample, idle, phase, up, fault>>
         /\ ~fault /\ draft[b].open /\ polled' = polled \cup {b}
         /\ DOMAIN draft' = Bus /\ \A c \in Bus : draft'[c] \in Draft(c)
         /\ ~draft'[b].open /\ ~draft'[b].new
         /\ \A c \in Bus : c # b => draft'[c] = draft[c] /\ box'[c] = box[c]
         /\ DOMAIN box' = Bus /\ \A c \in Bus : box'[c] \in Snapshot(c)
         /\ \/ NothingRead(b) /\ (b \in world.irregular \/ ~draft[b].timely)
            \/ WithoutStamps(b)
            \/ b = "d1" /\ ComparedD1
            \/ b = "piper" /\ ComparedPiper
<1>1. /\ UNCHANGED <<world, sample, idle, phase, up, fault>>
      /\ ~fault /\ draft[b].open /\ polled' = polled \cup {b}
      /\ draft' = [draft EXCEPT ![b] = NoDraft(b)]
      /\ DOMAIN draft = Bus /\ \A c \in Bus : draft[c] \in Draft(c)
  BY DEF Finish, runtimeVars, TypeOK
<1>2. NoDraft(b) \in Draft(b) /\ ~NoDraft(b).open /\ ~NoDraft(b).new
  <2>1. NoData(b) \in [Streams[b] -> DataAge]
    BY Limits DEF NoData, DataAge
  <2> QED
    BY <2>1 DEF NoDraft, Draft
<1>3. /\ DOMAIN draft' = Bus /\ \A c \in Bus : draft'[c] \in Draft(c)
      /\ ~draft'[b].open /\ ~draft'[b].new
      /\ \A c \in Bus : c # b => draft'[c] = draft[c]
  BY <1>1, <1>2
<1>4. 0 \in StampAge
  BY Limits DEF StampAge
<1> DEFINE Holds == /\ DOMAIN box' = Bus /\ \A c \in Bus : box'[c] \in Snapshot(c)
                    /\ \A c \in Bus : c # b => box'[c] = box[c]
<1>5. CASE ReadFails(b)
  <2>1. Put(b, FALSE, 0)
    BY <1>5 DEF ReadFails
  <2>2. Holds /\ ~box'[b].valid /\ box'[b].stamp = 0
    BY <1>4, <2>1, PutResult
  <2>3. NothingRead(b) /\ (b \in world.irregular \/ ~draft[b].timely)
    BY <1>5, <2>2 DEF ReadFails, NothingRead
  <2> QED
    BY <1>1, <1>3, <2>2, <2>3
<1>6. CASE b = "d1" /\ ReadD1 /\ "d1" \in world.stamped
  <2>1. /\ Compare("d1", Changed("d1")) /\ draft["d1"].timely
        /\ news' = news \ {"d1"}
        /\ IF noticed'["d1"] > FeedbackTimeout THEN Put("d1", FALSE, 0)
           ELSE Put("d1", TRUE, StampNoticed)
    BY <1>6 DEF ReadD1
  <2>2. /\ known' = known \cup {"d1"} /\ noticed' \in [Bus -> StampAge]
        /\ noticed'["d1"] = IF Changed("d1") THEN 0 ELSE noticed["d1"]
        /\ \A c \in Bus : c # "d1" => noticed'[c] = noticed[c]
    <3>1. Changed("d1") \in BOOLEAN
      BY DEF Changed
    <3> QED
      BY <2>1, <3>1, CompareResult, BusStreams
  <2>3. noticed'["d1"] \in StampAge /\ noticed'["d1"] \in Nat
    BY <2>2, Limits, BusStreams DEF StampAge
  <2>4. CASE noticed'["d1"] > FeedbackTimeout
    <3>1. Holds /\ ~box'["d1"].valid /\ box'["d1"].stamp = 0
      BY <1>4, <1>6, <2>1, <2>4, PutResult, BusStreams
    <3>2. ComparedD1
      BY <1>6, <2>1, <2>2, <2>3, <2>4, <3>1, Limits DEF ComparedD1, Compared
    <3> QED
      BY <1>1, <1>3, <1>6, <3>1, <3>2
  <2>5. CASE ~(noticed'["d1"] > FeedbackTimeout)
    <3>1. Put("d1", TRUE, noticed'["d1"])
      BY <2>1, <2>5 DEF StampNoticed
    <3>2. /\ Holds /\ box'["d1"].valid /\ box'["d1"].stamp = noticed'["d1"]
          /\ box'["d1"].data = draft["d1"].data
      BY <1>6, <2>3, <3>1, PutResult, BusStreams
    <3>3. noticed'["d1"] <= FeedbackTimeout
      BY <2>3, <2>5, Limits
    <3>4. ComparedD1
      BY <1>6, <2>1, <2>2, <3>2, <3>3 DEF ComparedD1, Compared
    <3> QED
      BY <1>1, <1>3, <1>6, <3>2, <3>4
  <2> QED
    BY <2>4, <2>5
<1>7. CASE b = "d1" /\ ReadD1 /\ "d1" \notin world.stamped
  <2>1. Put("d1", TRUE, 0) /\ draft["d1"].timely /\ UNCHANGED <<known, news, noticed>>
    BY <1>7 DEF ReadD1
  <2>2. /\ Holds /\ box'["d1"].valid /\ box'["d1"].stamp = 0
        /\ box'["d1"].data = draft["d1"].data
    BY <1>4, <1>7, <2>1, PutResult, BusStreams
  <2>3. WithoutStamps(b)
    BY <1>7, <2>1, <2>2 DEF WithoutStamps
  <2> QED
    BY <1>1, <1>3, <2>2, <2>3
<1>8. CASE b = "piper" /\ ReadPiper /\ "piper" \in world.stamped
  <2>1. /\ Compare("piper", draft["piper"].new) /\ UNCHANGED news
        /\ Put("piper", noticed'["piper"] <= FeedbackTimeout, 0)
    BY <1>8 DEF ReadPiper
  <2>2. /\ known' = known \cup {"piper"} /\ noticed' \in [Bus -> StampAge]
        /\ noticed'["piper"] = IF draft["piper"].new THEN 0 ELSE noticed["piper"]
        /\ \A c \in Bus : c # "piper" => noticed'[c] = noticed[c]
    <3>1. draft["piper"].new \in BOOLEAN
      BY Numbers, BusStreams DEF Ages
    <3> QED
      BY <2>1, <3>1, CompareResult, BusStreams
  <2> DEFINE v == noticed'["piper"] <= FeedbackTimeout
  <2>3. v \in BOOLEAN
    OBVIOUS
  <2>4. /\ Holds /\ box'["piper"].valid = v /\ box'["piper"].stamp = 0
        /\ v => box'["piper"].data = draft["piper"].data
    <3>1. CASE v
      <4>1. Put("piper", TRUE, 0)
        BY <2>1, <3>1 DEF Put
      <4> QED
        BY <1>4, <1>8, <3>1, <4>1, PutResult, BusStreams
    <3>2. CASE ~v
      <4>1. (noticed'["piper"] <= FeedbackTimeout) = FALSE
        BY <3>2
      <4>2. Put("piper", FALSE, 0)
        BY <2>1, <4>1
      <4>3. Holds /\ box'["piper"].valid = FALSE /\ box'["piper"].stamp = 0
        BY <1>4, <1>8, <4>2, PutResult, BusStreams
      <4>4. box'["piper"].valid = v
        BY <4>1, <4>3
      <4> QED
        BY <3>2, <4>3, <4>4
    <3> QED
      BY <3>1, <3>2
  <2>5. ComparedPiper
    BY <1>8, <2>1, <2>2, <2>4 DEF ComparedPiper, Compared
  <2> QED
    BY <1>1, <1>3, <1>8, <2>4, <2>5
<1>9. CASE b = "piper" /\ ReadPiper /\ "piper" \notin world.stamped
  <2>1. Put("piper", TRUE, 0) /\ UNCHANGED <<known, news, noticed>>
    BY <1>9 DEF ReadPiper
  <2>2. /\ Holds /\ box'["piper"].valid /\ box'["piper"].stamp = 0
        /\ box'["piper"].data = draft["piper"].data
    BY <1>4, <1>9, <2>1, PutResult, BusStreams
  <2>3. WithoutStamps(b)
    BY <1>9, <2>1, <2>2 DEF WithoutStamps
  <2> QED
    BY <1>1, <1>3, <2>2, <2>3
<1> QED
  BY <1>5, <1>6, <1>7, <1>8, <1>9 DEF Finish

LEMMA CheckFacts ==
  ASSUME TypeOK, Check
  PROVE  /\ UNCHANGED <<world, sample, news, known, noticed, draft, box, polled, up>>
         /\ ~fault /\ fault' \in BOOLEAN
         /\ \/ phase = "gate" /\ phase' \in {"gate", "start"} /\ UNCHANGED idle
            \/ phase \in {"start", "loop"} /\ UNCHANGED <<phase, idle>>
            \/ phase \in {"start", "loop"} /\ phase' = "loop" /\ idle' = 0
         /\ phase' # "gate" /\ ~fault' => MergedValid /\ ~Stale
         /\ phase' = "loop" /\ phase = "loop" /\ ~fault' /\ idle' # idle => ~Late
<1>1. /\ UNCHANGED <<world, sample, news, known, noticed, draft, box, polled, up>>
      /\ ~fault
  BY DEF Check, streamVars, backendVars
<1>2. CASE GateCheck
  BY <1>1, <1>2 DEF GateCheck, MergedValid, Stale
<1>3. CASE PolicyCheck
  BY <1>1, <1>3 DEF PolicyCheck
<1>4. CASE CommandCheck
  BY <1>1, <1>4 DEF CommandCheck
<1> QED
  BY <1>2, <1>3, <1>4 DEF Check

LEMMA AdvanceFacts ==
  ASSUME TypeOK, Advance
  PROVE  /\ UNCHANGED <<world, known, phase, fault>> /\ ~fault /\ polled' = {}
         /\ sample' \in [AllStreams -> DataAge]
         /\ \A s \in AllStreams :
              /\ sample'[s] \in Nat /\ sample'[s] <= sample[s] + 1
              /\ s \in world.steady => sample'[s] = 0
              /\ s \notin world.steady => sample'[s] = Older(sample[s], DataLimit)
         /\ news' = news \cup {b \in world.stamped : StampedStreams[b] \cap world.steady # {}}
         /\ noticed' \in [Bus -> StampAge]
         /\ DOMAIN draft' = Bus /\ \A b \in Bus : draft'[b] \in Draft(b)
         /\ DOMAIN box' = Bus /\ \A b \in Bus : box'[b] \in Snapshot(b)
         /\ \A b \in Bus :
              /\ noticed'[b] = Older(noticed[b], StampLimit)
              /\ draft'[b].open = draft[b].open /\ draft'[b].timely = draft[b].timely
              /\ draft'[b].new = draft[b].new
              /\ box'[b].valid = box[b].valid
              /\ box'[b].stamp = Older(box[b].stamp, StampLimit)
              /\ \A s \in Streams[b] :
                   /\ draft'[b].data[s] = Older(draft[b].data[s], DataLimit)
                   /\ box'[b].data[s] = Older(box[b].data[s], DataLimit)
         /\ idle' = IF phase = "loop" THEN Older(idle, CommandTimeout) ELSE idle
         /\ up' = IF phase = "loop" THEN Older(up, SettleTime) ELSE up
<1>1. /\ UNCHANGED <<world, known, phase, fault>> /\ ~fault /\ polled' = {}
      /\ sample' = [s \in AllStreams |->
           IF s \in world.steady THEN 0 ELSE Older(sample[s], DataLimit)]
      /\ news' = news \cup {b \in world.stamped : StampedStreams[b] \cap world.steady # {}}
      /\ noticed' = [b \in Bus |-> Older(noticed[b], StampLimit)]
      /\ draft' = [b \in Bus |-> [draft[b] EXCEPT !.data = OlderData(b, @)]]
      /\ box' = [b \in Bus |-> [box[b] EXCEPT !.stamp = Older(@, StampLimit),
                                              !.data = OlderData(b, @)]]
      /\ idle' = IF phase = "loop" THEN Older(idle, CommandTimeout) ELSE idle
      /\ up' = IF phase = "loop" THEN Older(up, SettleTime) ELSE up
  BY DEF Advance
<1>2. \A a \in DataAge : Older(a, DataLimit) \in DataAge /\ Older(a, DataLimit) \in Nat
                           /\ Older(a, DataLimit) <= a + 1 /\ a \in Nat
  BY Limits, OlderAge DEF DataAge
<1>3. \A a \in StampAge : Older(a, StampLimit) \in StampAge
  BY Limits, OlderAge DEF StampAge
<1>4. 0 \in DataAge
  BY Limits DEF DataAge
<1>5. sample' \in [AllStreams -> DataAge]
  BY <1>1, <1>2, <1>4 DEF TypeOK
<1>6. \A s \in AllStreams :
        /\ sample'[s] \in Nat /\ sample'[s] <= sample[s] + 1
        /\ s \in world.steady => sample'[s] = 0
        /\ s \notin world.steady => sample'[s] = Older(sample[s], DataLimit)
  <2>1. SUFFICES ASSUME NEW s \in AllStreams
                 PROVE  /\ sample'[s] \in Nat /\ sample'[s] <= sample[s] + 1
                        /\ s \in world.steady => sample'[s] = 0
                        /\ s \notin world.steady => sample'[s] = Older(sample[s], DataLimit)
    OBVIOUS
  <2>2. sample[s] \in DataAge
    BY DEF TypeOK
  <2>3. sample'[s] = IF s \in world.steady THEN 0 ELSE Older(sample[s], DataLimit)
    BY <1>1
  <2> QED
    BY <1>2, <2>2, <2>3
<1>7. noticed' \in [Bus -> StampAge] /\ \A b \in Bus : noticed'[b] = Older(noticed[b], StampLimit)
  BY <1>1, <1>3 DEF TypeOK
<1>8. ASSUME NEW b \in Bus
      PROVE  /\ draft'[b] \in Draft(b) /\ box'[b] \in Snapshot(b)
             /\ draft'[b].open = draft[b].open /\ draft'[b].timely = draft[b].timely
             /\ draft'[b].new = draft[b].new
             /\ box'[b].valid = box[b].valid
             /\ box'[b].stamp = Older(box[b].stamp, StampLimit)
             /\ \A s \in Streams[b] :
                  /\ draft'[b].data[s] = Older(draft[b].data[s], DataLimit)
                  /\ box'[b].data[s] = Older(box[b].data[s], DataLimit)
  <2>1. draft[b] \in Draft(b) /\ box[b] \in Snapshot(b)
    BY DEF TypeOK
  <2>2. OlderData(b, draft[b].data) \in [Streams[b] -> DataAge]
    BY <1>2, <2>1 DEF OlderData, Draft
  <2>3. OlderData(b, box[b].data) \in [Streams[b] -> DataAge]
    BY <1>2, <2>1 DEF OlderData, Snapshot
  <2>4. Older(box[b].stamp, StampLimit) \in StampAge
    BY <1>3, <2>1 DEF Snapshot
  <2>5. /\ \A s \in Streams[b] : OlderData(b, draft[b].data)[s] = Older(draft[b].data[s], DataLimit)
        /\ \A s \in Streams[b] : OlderData(b, box[b].data)[s] = Older(box[b].data[s], DataLimit)
    BY DEF OlderData
  <2> DEFINE fetched == OlderData(b, draft[b].data)
             held == OlderData(b, box[b].data)
             stamp == Older(box[b].stamp, StampLimit)
  <2>6. /\ draft'[b] = [draft[b] EXCEPT !.data = fetched]
        /\ box'[b] = [box[b] EXCEPT !.stamp = stamp, !.data = held]
    BY <1>1
  <2>7. fetched \in [Streams[b] -> DataAge] /\ held \in [Streams[b] -> DataAge] /\ stamp \in StampAge
    BY <2>2, <2>3, <2>4
  <2> HIDE DEF fetched, held, stamp
  <2>8. /\ draft'[b] \in Draft(b) /\ draft'[b].data = fetched
        /\ draft'[b].open = draft[b].open /\ draft'[b].timely = draft[b].timely
        /\ draft'[b].new = draft[b].new
    BY <2>1, <2>6, <2>7 DEF Draft
  <2>9. /\ box'[b] \in Snapshot(b) /\ box'[b].data = held
        /\ box'[b].valid = box[b].valid /\ box'[b].stamp = stamp
    BY <2>1, <2>6, <2>7 DEF Snapshot
  <2> QED
    BY <2>5, <2>8, <2>9 DEF fetched, held, stamp
<1>9. DOMAIN draft' = Bus /\ DOMAIN box' = Bus
  BY <1>1
<1> QED
  BY <1>1, <1>5, <1>6, <1>7, <1>8, <1>9

-----------------------------------------------------------------------------
(* The types and the phases *)

LEMMA TypeStep ==
  ASSUME TypeOK, [Next]_vars
  PROVE  TypeOK'
<1>1. ASSUME NEW s \in AllStreams, Arrive(s) PROVE TypeOK'
  BY <1>1, ArriveFacts DEF TypeOK
<1>2. ASSUME NEW b \in Bus, Begin(b) PROVE TypeOK'
  <2>1. news' \subseteq Bus
    BY <1>2, BeginFacts DEF TypeOK
  <2> QED
    BY <1>2, <2>1, BeginFacts DEF TypeOK
<1>3. ASSUME NEW b \in Bus, Finish(b) PROVE TypeOK'
  <2>1. known' \subseteq Bus /\ news' \subseteq Bus /\ noticed' \in [Bus -> StampAge]
    BY <1>3, FinishFacts
    DEF TypeOK, NothingRead, WithoutStamps, ComparedD1, ComparedPiper, Compared
  <2> QED
    BY <1>3, <2>1, FinishFacts DEF TypeOK
<1>4. CASE Check
  <2>1. idle' \in 0 .. CommandTimeout + 1 /\ phase' \in {"gate", "start", "loop"}
    BY <1>4, CheckFacts, Limits DEF TypeOK
  <2> QED
    BY <1>4, <2>1, CheckFacts DEF TypeOK
<1>5. CASE Advance
  <2>1. idle' \in 0 .. CommandTimeout + 1 /\ up' \in 0 .. SettleTime + 1
    <3>1. idle \in 0 .. CommandTimeout + 1 /\ up \in 0 .. SettleTime + 1
      BY DEF TypeOK
    <3>2. /\ Older(idle, CommandTimeout) \in 0 .. CommandTimeout + 1
          /\ Older(up, SettleTime) \in 0 .. SettleTime + 1
      BY <3>1, OlderAge, Limits
    <3> QED
      BY <1>5, <3>1, <3>2, AdvanceFacts
  <2>2. news' \subseteq Bus
    BY <1>5, AdvanceFacts, Numbers
  <2> QED
    BY <1>5, <2>1, <2>2, AdvanceFacts DEF TypeOK
<1>6. CASE UNCHANGED vars
  BY <1>6 DEF vars, streamVars, backendVars, runtimeVars, TypeOK
<1> QED
  BY <1>1, <1>2, <1>3, <1>4, <1>5, <1>6 DEF Next, Halted

LEMMA PhaseStep ==
  ASSUME TypeOK, PhaseInv, [Next]_vars
  PROVE  PhaseInv'
<1>1. ASSUME NEW s \in AllStreams, Arrive(s) PROVE PhaseInv'
  BY <1>1, ArriveFacts DEF PhaseInv
<1>2. ASSUME NEW b \in Bus, Begin(b) PROVE PhaseInv'
  BY <1>2, BeginFacts, BusStreams DEF PhaseInv
<1>3. ASSUME NEW b \in Bus, Finish(b) PROVE PhaseInv'
  <2>1. known \subseteq known' /\ ~draft'["d1"].new
    BY <1>3, FinishFacts, BusStreams
    DEF PhaseInv, NothingRead, WithoutStamps, ComparedD1, ComparedPiper, Compared
  <2>2. b \in world.stamped /\ box'[b].valid => b \in known'
    BY <1>3, FinishFacts
    DEF PhaseInv, NothingRead, WithoutStamps, ComparedD1, ComparedPiper, Compared
  <2>3. \A c \in world.stamped : box'[c].valid => c \in known'
    BY <1>3, <2>1, <2>2, FinishFacts, Numbers DEF PhaseInv
  <2> QED
    BY <1>3, <2>1, <2>3, FinishFacts DEF PhaseInv
<1>4. CASE Check
  <2>1. phase = "gate" /\ phase' # "gate" => MergedValid
    BY <1>4 DEF Check, GateCheck, PolicyCheck, CommandCheck
  <2>2. MergedValid => world.stamped \subseteq known
    BY Numbers DEF MergedValid, PhaseInv, Bus
  <2> QED
    BY <1>4, <2>1, <2>2, CheckFacts DEF PhaseInv
<1>5. CASE Advance
  BY <1>5, AdvanceFacts, Numbers, BusStreams DEF PhaseInv
<1>6. CASE UNCHANGED vars
  BY <1>6 DEF vars, streamVars, backendVars, runtimeVars, PhaseInv
<1> QED
  BY <1>1, <1>2, <1>3, <1>4, <1>5, <1>6 DEF Next, Halted

-----------------------------------------------------------------------------
(* The ages *)

AgesInv == LegsInv /\ ImuInv /\ PiperInv

\* Data that is younger has a member as young, and so for an instant later.
LEMMA YoungerData ==
  ASSUME NEW data, NEW later, NEW m \in Nat, NEW n \in Nat, NEW k \in Nat,
         \A s \in PiperStreams :
           data[s] \in Nat /\ later[s] \in Nat /\ later[s] <= data[s] + k,
         AnyWithin(data, m), m + k <= n
  PROVE  AnyWithin(later, n)
BY DEF AnyWithin

LEMMA ArriveStep ==
  ASSUME TypeOK, AgesInv, NEW z \in AllStreams, Arrive(z)
  PROVE  AgesInv'
<1>1. /\ UNCHANGED <<world, known, noticed, draft, box, idle, phase, up, fault>>
      /\ \A s \in AllStreams : sample'[s] \in Nat /\ sample'[s] <= sample[s]
      /\ sample'[z] = 0 /\ \A s \in AllStreams : sample[s] \in Nat
      /\ Ages("d1") /\ Ages("piper") /\ idle \in Nat /\ up \in Nat
  BY ArriveFacts, Numbers, BusStreams
<1>2. LegsInv'
  BY <1>1 DEF AgesInv, LegsInv, Saturated, Alive, Late
<1>3. ImuInv'
  <2>1. /\ Alive' = Alive /\ Saturated("d1")' = Saturated("d1")
        /\ Forgotten("d1")' = Forgotten("d1")
    BY <1>1 DEF Alive, Late, Saturated, Forgotten
  <2>2. SUFFICES ASSUME "d1" \in world.stamped PROVE ImuInv'
    BY <1>1 DEF ImuInv
  <2>3. ImuInv /\ sample["imu"] \in Nat /\ sample'["imu"] \in Nat
        /\ sample'["imu"] <= sample["imu"]
    BY <1>1, BusStreams DEF AgesInv
  <2>4. ImuLagging(sample["imu"])'
    <3>1. ImuLagging(sample["imu"]) /\ noticed["d1"] \in Nat
      BY <1>1, <2>2, <2>3 DEF ImuInv, Ages
    <3> QED
      BY <1>1, <2>1, <2>3, <3>1, Limits DEF ImuLagging
  <2>5. draft'["d1"].open => ImuLagging(draft["d1"].data["imu"])'
    BY <1>1, <2>1, <2>2, <2>3 DEF ImuInv, ImuLagging
  <2>6. "d1" \in news' =>
          /\ box["d1"].valid => Saturated("d1") \/ sample'["imu"] <= box["d1"].stamp
          /\ Alive => sample'["imu"] <= StateTimeout + idle
    <3>1. CASE "d1" \in news
      <4>1. box["d1"].stamp \in Nat /\ StateTimeout + idle \in Nat
        BY <1>1, Limits DEF Ages
      <4> QED
        BY <2>2, <2>3, <3>1, <4>1 DEF ImuInv
    <3>2. CASE z = "imu"
      <4>1. 0 <= box["d1"].stamp /\ 0 <= StateTimeout + idle
        BY <1>1, Limits DEF Ages
      <4> QED
        BY <1>1, <3>2, <4>1
    <3> QED
      BY <2>2, <3>1, <3>2, ArriveFacts
  <2>7. /\ box["d1"].valid => noticed["d1"] <= box["d1"].stamp
        /\ Alive /\ box["d1"].valid =>
             \/ Saturated("d1") \/ up <= box["d1"].stamp + Gap
             \/ box["d1"].data["imu"] <= box["d1"].stamp + 2 * Gap
    BY <2>2, <2>3 DEF ImuInv
  <2>8. UNCHANGED <<noticed, draft, box, up, idle>>
    BY <1>1
  <2> QED
    BY <2>1, <2>4, <2>5, <2>6, <2>7, <2>8 DEF ImuInv
<1>4. PiperInv'
  <2>1. ASSUME NEW n \in Nat, AnyWithin(sample, n) \/ z \in PiperStreams
        PROVE  AnyWithin(sample', n)
    <3>1. \A s \in PiperStreams : /\ sample'[s] \in Nat /\ sample[s] \in Nat
                                  /\ sample'[s] <= sample[s]
      BY <1>1, BusStreams
    <3>2. z \in PiperStreams => sample'[z] <= n
      BY <1>1
    <3> QED
      BY <2>1, <3>1, <3>2 DEF AnyWithin
  <2>2. "piper" \in news' => "piper" \in news \/ z \in PiperStreams
    BY ArriveFacts
  <2>3. PiperLagging(sample) => PiperLagging(sample)'
    BY <1>1, <2>1, Limits DEF PiperLagging, Alive, Late, Forgotten, Ages
  <2>4. PiperWaiting(sample) \/ z \in PiperStreams => PiperWaiting(sample)'
    BY <1>1, <2>1, Limits DEF PiperWaiting, Alive, Late, Saturated, Ages
  <2> QED
    BY <1>1, <2>1, <2>2, <2>3, <2>4, Limits, BusStreams
    DEF AgesInv, PiperInv, PiperWaiting, PiperLagging, Saturated, Forgotten, Alive, Late, Ages
<1> QED
  BY <1>2, <1>3, <1>4 DEF AgesInv

LEMMA BeginStep ==
  ASSUME TypeOK, PhaseInv, AgesInv, NEW b \in Bus, Begin(b)
  PROVE  AgesInv'
<1>1. /\ UNCHANGED <<world, sample, known, noticed, box, idle, phase, up, fault>>
      /\ \A s \in AllStreams : sample[s] \in Nat
      /\ Ages("d1") /\ Ages("piper") /\ idle \in Nat /\ up \in Nat
      /\ \A s \in Streams[b] : draft'[b].data[s] = sample[s]
      /\ \A c \in Bus : c # b => draft'[c] = draft[c]
      /\ "d1" \in news' <=> "d1" \in news
      /\ "piper" \in news' <=> "piper" \in news /\ b # "piper"
  BY BeginFacts, Numbers, BusStreams
<1>2. Alive' = Alive /\ Saturated("d1")' = Saturated("d1") /\ Saturated("piper")' = Saturated("piper")
  BY <1>1 DEF Alive, Late, Saturated
<1>3. CASE b = "d1"
  <2>1. LegsInv'
    <3>1. draft'["d1"].timely => ~VendorTimesOut
      BY <1>3, BeginFacts
    <3>2. ~VendorTimesOut => sample["legs"] <= VendorTimeout /\ sample["imu"] <= VendorTimeout
      BY <1>1, BusStreams, Limits DEF VendorTimesOut
    <3>3. \A s \in D1Streams : draft'["d1"].data[s] = sample[s] /\ sample[s] \in Nat
      BY <1>1, <1>3, BusStreams
    <3>4. ASSUME NEW n \in Nat, draft'["d1"].timely
          PROVE  AllWithin(draft'["d1"].data, VendorTimeout + n)
      BY <3>1, <3>2, <3>3, <3>4, BusStreams, Limits DEF AllWithin
    <3>5. /\ draft'["d1"].timely => AllWithin(draft'["d1"].data, VendorTimeout + box["d1"].stamp)
          /\ draft'["d1"].timely => AllWithin(draft'["d1"].data, VendorTimeout + (StateTimeout + idle))
      <4>1. box["d1"].stamp \in Nat /\ StateTimeout + idle \in Nat
        BY <1>1, Limits DEF Ages
      <4> QED
        BY <3>4, <4>1
    <3>6. VendorTimeout + (StateTimeout + idle) = VendorTimeout + StateTimeout + idle
      BY <1>1, Limits
    <3> QED
      BY <1>1, <1>2, <3>5, <3>6 DEF AgesInv, LegsInv
  <2>2. ImuInv'
    <3>1. draft'["d1"].data["imu"] = sample["imu"]
      BY <1>1, <1>3, BusStreams
    <3> QED
      BY <1>1, <1>2, <3>1 DEF AgesInv, ImuInv, ImuLagging, Alive, Late, Saturated, Forgotten
  <2>3. PiperInv'
    BY <1>1, <1>2, <1>3, BusStreams
    DEF AgesInv, PiperInv, PiperWaiting, PiperLagging, Alive, Late, Saturated, Forgotten
  <2> QED
    BY <2>1, <2>2, <2>3 DEF AgesInv
<1>4. CASE b = "piper"
  <2>1. LegsInv' /\ ImuInv'
    BY <1>1, <1>2, <1>4, BusStreams
    DEF AgesInv, LegsInv, ImuInv, ImuLagging, Alive, Late, Saturated, Forgotten
  <2>2. PiperInv'
    <3>1. ASSUME NEW n, AnyWithin(sample, n) PROVE AnyWithin(draft'["piper"].data, n)
      BY <1>1, <1>4, <3>1, BusStreams DEF AnyWithin
    <3>2. ~draft["piper"].open /\ draft'["piper"].open
      BY <1>4, BeginFacts
    <3>3. \A s \in PiperStreams : sample[s] <= draft'["piper"].data[s]
      <4>1. \A s \in PiperStreams : draft'["piper"].data[s] = sample[s] /\ sample[s] \in Nat
        BY <1>1, <1>4, BusStreams
      <4> QED
        BY <4>1
    <3>4. Alive /\ "piper" \in world.stamped /\ draft'["piper"].new => "piper" \in news
      BY <1>4, BeginFacts DEF Changed, PhaseInv, Alive
    <3>5. PiperWaiting(sample) => PiperWaiting(draft["piper"].data)'
      BY <1>1, <1>2, <3>1 DEF PiperWaiting, Saturated
    <3>6. PiperLagging(sample) => PiperLagging(draft["piper"].data)' /\ PiperLagging(sample)'
      BY <1>1, <1>2, <3>1 DEF PiperLagging, Forgotten
    <3>7. "piper" \in world.stamped /\ draft'["piper"].new => PiperWaiting(draft["piper"].data)'
      <4>1. CASE Alive
        BY <3>2, <3>4, <3>5, <4>1 DEF AgesInv, PiperInv
      <4>2. CASE ~Alive
        BY <1>2, <4>2 DEF PiperWaiting
      <4> QED
        BY <4>1, <4>2
    <3> QED
      BY <1>1, <1>2, <1>4, <3>2, <3>3, <3>6, <3>7 DEF AgesInv, PiperInv, Saturated
  <2> QED
    BY <2>1, <2>2 DEF AgesInv
<1> QED
  BY <1>3, <1>4 DEF Bus

\* What a read of D1 puts into its box.
LEMMA FinishD1Step ==
  ASSUME TypeOK, PhaseInv, AgesInv, Finish("d1")
  PROVE  AgesInv'
<1>1. /\ UNCHANGED <<world, sample, idle, phase, up, fault>>
      /\ \A s \in AllStreams : sample[s] \in Nat
      /\ Ages("d1") /\ Ages("piper") /\ idle \in Nat /\ up \in Nat
      /\ draft'["piper"] = draft["piper"] /\ box'["piper"] = box["piper"]
      /\ draft["d1"].open /\ ~draft'["d1"].open /\ ~draft["d1"].new
  BY FinishFacts, Numbers, BusStreams DEF PhaseInv, Bus
<1>2. Alive' = Alive /\ Saturated("piper")' = Saturated("piper")
      /\ (Alive => idle <= CommandTimeout)
  BY <1>1, Limits DEF Alive, Late, Saturated
<1>3. \/ NothingRead("d1") \/ WithoutStamps("d1") \/ ComparedD1
  BY FinishFacts, BusStreams
<1>4. /\ "piper" \in news' <=> "piper" \in news
      /\ noticed'["piper"] = noticed["piper"]
  BY <1>1, <1>3, BusStreams DEF NothingRead, WithoutStamps, ComparedD1, Compared
<1>5. PiperInv'
  BY <1>1, <1>2, <1>4
  DEF AgesInv, PiperInv, PiperWaiting, PiperLagging, Saturated, Forgotten
<1>6. LegsInv'
  <2>1. SUFFICES ASSUME Alive, box'["d1"].valid
                 PROVE  AllWithin(box'["d1"].data, VendorTimeout + Gap + box'["d1"].stamp)
    BY <1>1, <1>2 DEF LegsInv
  <2>2. /\ draft["d1"].timely /\ box'["d1"].data = draft["d1"].data
        /\ box'["d1"].stamp \in Nat
    <3>1. noticed'["d1"] \in Nat \/ ~ComparedD1
      BY Limits, BusStreams DEF ComparedD1, Compared, StampAge
    <3> QED
      BY <1>3, <2>1, <3>1 DEF NothingRead, WithoutStamps, ComparedD1, Compared
  <2>3. AllWithin(draft["d1"].data, VendorTimeout + StateTimeout + idle)
    BY <1>1, <2>1, <2>2 DEF AgesInv, LegsInv
  <2>4. \A s \in D1Streams : draft["d1"].data[s] \in Nat
    BY <1>1, BusStreams DEF Ages
  <2> QED
    BY <1>1, <1>2, <2>1, <2>2, <2>3, <2>4, Limits DEF AllWithin
<1>7. ImuInv'
  <2>1. SUFFICES ASSUME "d1" \in world.stamped PROVE ImuInv'
    BY <1>1 DEF ImuInv
  <2>2. CASE NothingRead("d1")
    BY <1>1, <1>2, <2>1, <2>2
    DEF AgesInv, ImuInv, ImuLagging, NothingRead, Saturated, Forgotten
  <2>3. CASE ComparedD1
    <3>1. /\ noticed'["d1"] = IF Changed("d1") THEN 0 ELSE noticed["d1"]
          /\ noticed'["d1"] \in Nat /\ "d1" \notin news'
          /\ box'["d1"].valid => /\ noticed'["d1"] <= FeedbackTimeout
                                 /\ box'["d1"].data = draft["d1"].data
                                 /\ box'["d1"].stamp = noticed'["d1"]
      BY <1>1, <2>3 DEF ComparedD1, Compared, Ages
    <3>2. Alive /\ Changed("d1") => sample["imu"] <= StateTimeout + idle
      BY <2>1 DEF AgesInv, ImuInv, PhaseInv, Alive, Changed
    <3>3. ImuLagging(sample["imu"])'
      BY <1>1, <1>2, <2>1, <3>1, <3>2, Limits, BusStreams
      DEF AgesInv, ImuInv, ImuLagging, Forgotten, Ages
    <3>4. ASSUME Alive, box'["d1"].valid
          PROVE  \/ up <= box'["d1"].stamp + Gap
                 \/ box'["d1"].data["imu"] <= box'["d1"].stamp + 2 * Gap
      <4>1. ImuLagging(draft["d1"].data["imu"])
        BY <1>1, <2>1 DEF AgesInv, ImuInv
      <4>2. draft["d1"].data["imu"] \in Nat
        BY <1>1, BusStreams DEF Ages
      <4>3. CASE Changed("d1")
        BY <1>1, <1>2, <3>1, <3>4, <4>1, <4>2, <4>3, Limits DEF ImuLagging
      <4>4. CASE ~Changed("d1")
        <5>1. ~Forgotten("d1")
          BY <1>1, <3>1, <3>4, <4>4, Limits DEF Forgotten, Ages
        <5> QED
          BY <1>1, <3>1, <3>4, <4>1, <4>2, <4>4, <5>1, Limits DEF ImuLagging, Ages
      <4> QED
        BY <4>3, <4>4
    <3>5. box'["d1"].valid => noticed'["d1"] <= box'["d1"].stamp
      BY <3>1
    <3> QED
      BY <1>1, <1>2, <3>1, <3>3, <3>4, <3>5 DEF ImuInv
  <2> QED
    BY <1>3, <2>1, <2>2, <2>3 DEF WithoutStamps
<1> QED
  BY <1>5, <1>6, <1>7 DEF AgesInv

\* And what a read of Piper puts.
LEMMA FinishPiperStep ==
  ASSUME TypeOK, PhaseInv, AgesInv, Finish("piper")
  PROVE  AgesInv'
<1>1. /\ UNCHANGED <<world, sample, idle, phase, up, fault>>
      /\ \A s \in AllStreams : sample[s] \in Nat
      /\ Ages("d1") /\ Ages("piper") /\ idle \in Nat /\ up \in Nat
      /\ draft'["d1"] = draft["d1"] /\ box'["d1"] = box["d1"]
      /\ draft["piper"].open /\ ~draft'["piper"].open
  BY FinishFacts, Numbers, BusStreams DEF Bus
<1>2. Alive' = Alive /\ Saturated("d1")' = Saturated("d1")
      /\ (Alive => idle <= CommandTimeout)
  BY <1>1, Limits DEF Alive, Late, Saturated
<1>3. \/ NothingRead("piper") \/ WithoutStamps("piper") \/ ComparedPiper
  BY FinishFacts, BusStreams
<1>4. /\ "d1" \in news' <=> "d1" \in news
      /\ noticed'["d1"] = noticed["d1"]
  BY <1>1, <1>3, BusStreams DEF NothingRead, WithoutStamps, ComparedPiper, Compared
<1>5. LegsInv' /\ ImuInv'
  BY <1>1, <1>2, <1>4
  DEF AgesInv, LegsInv, ImuInv, ImuLagging, Saturated, Forgotten
<1>6. PiperInv'
  <2> SUFFICES ASSUME "piper" \in world.stamped PROVE PiperInv'
    BY <1>1 DEF PiperInv
  <2>1. \A s \in PiperStreams : /\ sample[s] \in Nat /\ draft["piper"].data[s] \in Nat
                                /\ sample[s] <= draft["piper"].data[s]
    BY <1>1, BusStreams DEF AgesInv, PiperInv, Ages
  <2>2. ASSUME NEW m \in Nat, NEW n \in Nat, m <= n
        PROVE  /\ AnyWithin(draft["piper"].data, m) => AnyWithin(draft["piper"].data, n)
               /\ AnyWithin(draft["piper"].data, m) => AnyWithin(sample, n)
               /\ AnyWithin(sample, m) => AnyWithin(sample, n)
    BY <2>1, <2>2 DEF AnyWithin
  <2>3. draft["piper"].new => PiperWaiting(draft["piper"].data)
    BY <1>1 DEF AgesInv, PiperInv
  <2>4. PiperLagging(sample) /\ PiperLagging(draft["piper"].data)
    BY <1>1 DEF AgesInv, PiperInv
  <2>5. Alive /\ "piper" \in news => AnyWithin(sample, StateTimeout + idle)
    BY <1>1 DEF AgesInv, PiperInv
  <2>6. Alive /\ draft["piper"].new =>
          /\ up <= StateTimeout + idle \/ AnyWithin(draft["piper"].data, StateTimeout + idle + Gap)
          /\ up <= Gap \/ AnyWithin(draft["piper"].data, 2 * Gap)
    <3>1. SUFFICES ASSUME Alive, draft["piper"].new
                   PROVE  up <= Gap \/ AnyWithin(draft["piper"].data, 2 * Gap)
      BY <2>3 DEF PiperWaiting
    <3>2. up <= StateTimeout + idle \/ AnyWithin(draft["piper"].data, StateTimeout + idle + Gap)
      BY <2>3, <3>1 DEF PiperWaiting
    <3>3. /\ StateTimeout + idle + Gap \in Nat /\ 2 * Gap \in Nat
          /\ StateTimeout + idle + Gap <= 2 * Gap /\ StateTimeout + idle <= Gap
      BY <1>1, <1>2, <3>1, Limits
    <3> QED
      BY <1>1, <2>2, <3>2, <3>3, Limits
  <2>7. CASE NothingRead("piper")
    <3>1. Alive /\ "piper" \in news' =>
            up <= StateTimeout + idle \/ AnyWithin(sample, StateTimeout + idle + Gap)
      <4>1. SUFFICES ASSUME Alive, "piper" \in news'
                     PROVE  up <= StateTimeout + idle \/ AnyWithin(sample, StateTimeout + idle + Gap)
        OBVIOUS
      <4>2. /\ StateTimeout + idle \in Nat /\ StateTimeout + idle + Gap \in Nat
            /\ StateTimeout + idle <= StateTimeout + idle + Gap
            /\ StateTimeout + idle + Gap <= StateTimeout + idle + Gap
        BY <1>1, Limits
      <4>3. "piper" \in news \/ draft["piper"].new
        BY <2>7, <4>1 DEF NothingRead
      <4> QED
        BY <2>2, <2>5, <2>6, <4>1, <4>2, <4>3
    <3> QED
      BY <1>1, <1>2, <2>4, <2>7, <3>1
      DEF PiperInv, PiperWaiting, PiperLagging, NothingRead, Forgotten
  <2>8. CASE ComparedPiper
    <3>1. /\ noticed'["piper"] = IF draft["piper"].new THEN 0 ELSE noticed["piper"]
          /\ noticed'["piper"] \in Nat /\ noticed["piper"] \in Nat
          /\ news' = news /\ box'["piper"].stamp = 0
          /\ box'["piper"].valid => /\ noticed'["piper"] <= FeedbackTimeout
                                    /\ box'["piper"].data = draft["piper"].data
      BY <1>1, <2>8 DEF ComparedPiper, Compared, Ages
    <3>2. "piper" \in news' => PiperWaiting(sample)'
      <4>1. SUFFICES ASSUME Alive, "piper" \in news
                     PROVE  /\ AnyWithin(sample, 0 + Gap)
                            /\ AnyWithin(sample, StateTimeout + idle + Gap)
        BY <1>1, <1>2, <3>1 DEF PiperWaiting
      <4>2. /\ StateTimeout + idle \in Nat /\ StateTimeout + idle + Gap \in Nat /\ 0 + Gap \in Nat
            /\ StateTimeout + idle <= StateTimeout + idle + Gap
            /\ StateTimeout + idle <= 0 + Gap
        BY <1>1, <1>2, <4>1, Limits
      <4> QED
        BY <2>2, <2>5, <4>1, <4>2
    <3>3. PiperLagging(sample)'
      <4>1. SUFFICES ASSUME Alive
                     PROVE  \/ Forgotten("piper")' \/ up <= noticed'["piper"] + Gap
                            \/ AnyWithin(sample, noticed'["piper"] + 2 * Gap)
        BY <1>1, <1>2 DEF PiperLagging
      <4>2. CASE draft["piper"].new
        <5>1. 2 * Gap \in Nat /\ 2 * Gap <= 2 * Gap /\ noticed'["piper"] + 2 * Gap = 2 * Gap
              /\ noticed'["piper"] + Gap = Gap
          BY <3>1, <4>2, Limits
        <5>2. up <= Gap \/ AnyWithin(sample, 2 * Gap)
          BY <2>2, <2>6, <4>1, <4>2, <5>1
        <5> QED
          BY <5>1, <5>2
      <4>3. CASE ~draft["piper"].new
        BY <2>4, <3>1, <4>1, <4>3 DEF PiperLagging, Forgotten
      <4> QED
        BY <4>2, <4>3
    <3>4. ASSUME Alive, box'["piper"].valid
          PROVE  \/ up <= FeedbackTimeout + Gap + box'["piper"].stamp
                 \/ AnyWithin(box'["piper"].data, FeedbackTimeout + 2 * Gap + box'["piper"].stamp)
      <4> DEFINE limit == FeedbackTimeout + 2 * Gap + box'["piper"].stamp
      <4>1. /\ 2 * Gap \in Nat /\ limit \in Nat /\ 2 * Gap <= limit
            /\ Gap <= FeedbackTimeout + Gap + box'["piper"].stamp
        BY <3>1, Limits
      <4>2. CASE draft["piper"].new
        <5>1. up <= Gap \/ AnyWithin(draft["piper"].data, 2 * Gap)
          BY <2>6, <3>4, <4>2
        <5>2. AnyWithin(draft["piper"].data, 2 * Gap) => AnyWithin(draft["piper"].data, limit)
          BY <2>2, <4>1
        <5> QED
          BY <1>1, <3>1, <3>4, <4>1, <5>1, <5>2, Limits
      <4>3. CASE ~draft["piper"].new
        <5>1. ~Forgotten("piper") /\ noticed["piper"] <= FeedbackTimeout
          BY <3>1, <3>4, <4>3, Limits DEF Forgotten
        <5>2. \/ up <= noticed["piper"] + Gap
              \/ AnyWithin(draft["piper"].data, noticed["piper"] + 2 * Gap)
          BY <2>4, <3>4, <5>1 DEF PiperLagging
        <5>3. noticed["piper"] + 2 * Gap \in Nat /\ noticed["piper"] + 2 * Gap <= limit
          BY <3>1, <5>1, Limits
        <5>4. AnyWithin(draft["piper"].data, noticed["piper"] + 2 * Gap)
                => AnyWithin(draft["piper"].data, limit)
          BY <2>2, <4>1, <5>3
        <5> QED
          BY <1>1, <3>1, <3>4, <5>1, <5>2, <5>4, Limits
      <4> QED
        BY <4>2, <4>3
    <3> QED
      BY <1>1, <1>2, <3>1, <3>2, <3>3, <3>4 DEF PiperInv
  <2> QED
    BY <1>3, <2>7, <2>8 DEF WithoutStamps
<1> QED
  BY <1>5, <1>6 DEF AgesInv

\* A check that the loop survives has seen both boxes valid and fresh.
LEMMA CheckStep ==
  ASSUME TypeOK, PhaseInv, AgesInv, Check
  PROVE  AgesInv'
<1>1. /\ UNCHANGED <<world, sample, news, known, noticed, draft, box, up>>
      /\ \A s \in AllStreams : sample[s] \in Nat
      /\ Ages("d1") /\ Ages("piper") /\ idle \in Nat /\ up \in Nat
  BY CheckFacts, Numbers, BusStreams
<1>2. CASE ~Alive'
  BY <1>1, <1>2
  DEF AgesInv, LegsInv, ImuInv, ImuLagging, PiperInv, PiperWaiting, PiperLagging, Saturated
<1>3. CASE Alive' /\ Alive /\ idle' = idle
  BY <1>1, <1>3
  DEF AgesInv, LegsInv, ImuInv, ImuLagging, PiperInv, PiperWaiting, PiperLagging, Saturated,
      Forgotten
<1>4. CASE Alive' /\ ~(Alive /\ idle' = idle)
  <2>1. /\ MergedValid /\ ~Stale /\ idle' = 0
        /\ Alive \/ up = 0
    <3>1. MergedValid /\ ~Stale
      BY <1>4, CheckFacts DEF Alive
    <3>2. CASE phase = "loop"
      BY <1>4, <3>2, CheckFacts DEF Alive, Late
    <3>3. CASE phase # "loop"
      BY <1>4, <3>3, CheckFacts DEF Alive, PhaseInv
    <3> QED
      BY <3>1, <3>2, <3>3
  <2>2. /\ box["d1"].valid /\ box["piper"].valid
        /\ box["d1"].stamp <= StateTimeout /\ box["piper"].stamp <= StateTimeout
        /\ ~Saturated("d1") /\ ~Saturated("piper")
    <3>1. box["d1"].stamp <= StateTimeout /\ box["piper"].stamp <= StateTimeout
      BY <2>1, FreshParts
    <3> QED
      BY <1>1, <2>1, <3>1, Limits DEF MergedValid, Saturated, Ages
  <2>3. LegsInv'
    <3>1. ASSUME draft["d1"].open, draft["d1"].timely
          PROVE  AllWithin(draft["d1"].data, VendorTimeout + StateTimeout + 0)
      <4>1. AllWithin(draft["d1"].data, VendorTimeout + box["d1"].stamp)
        BY <2>2, <3>1 DEF AgesInv, LegsInv
      <4>2. \A s \in D1Streams : draft["d1"].data[s] \in Nat
        BY <1>1, BusStreams DEF Ages
      <4> QED
        BY <1>1, <2>2, <4>1, <4>2, Limits DEF AllWithin, Ages
    <3>2. \/ up <= box["d1"].stamp
          \/ AllWithin(box["d1"].data, VendorTimeout + Gap + box["d1"].stamp)
      BY <1>1, <2>1, <2>2 DEF AgesInv, LegsInv, Ages
    <3> QED
      BY <1>1, <2>1, <3>1, <3>2 DEF AgesInv, LegsInv, Saturated
  <2>4. ImuInv'
    <3>1. SUFFICES ASSUME "d1" \in world.stamped PROVE ImuInv'
      BY <1>1 DEF ImuInv
    <3>2. noticed["d1"] <= StateTimeout /\ ~Forgotten("d1")
      BY <1>1, <2>2, <3>1, Limits DEF AgesInv, ImuInv, Forgotten, Ages
    <3>3. ASSUME NEW a \in Nat, ImuLagging(a) PROVE ImuLagging(a)'
      BY <1>1, <2>1, <3>2, <3>3, Limits DEF ImuLagging, Forgotten, Ages
    <3>4. ImuLagging(sample["imu"])'
      BY <1>1, <3>1, <3>3, BusStreams DEF AgesInv, ImuInv
    <3>5. draft["d1"].open => ImuLagging(draft["d1"].data["imu"])'
      <4>1. draft["d1"].data["imu"] \in Nat
        BY <1>1, BusStreams DEF Ages
      <4> QED
        BY <1>1, <3>1, <3>3, <4>1 DEF AgesInv, ImuInv
    <3>6. "d1" \in news => sample["imu"] <= StateTimeout + 0
      BY <1>1, <2>2, <3>1, BusStreams, Limits DEF AgesInv, ImuInv, Ages
    <3>7. \/ up <= box["d1"].stamp + Gap
          \/ box["d1"].data["imu"] <= box["d1"].stamp + 2 * Gap
      BY <1>1, <2>1, <2>2, <3>1, Limits DEF AgesInv, ImuInv, Ages
    <3>8. box["d1"].valid => noticed["d1"] <= box["d1"].stamp
      BY <3>1 DEF AgesInv, ImuInv
    <3>9. "d1" \in news => sample["imu"] <= box["d1"].stamp
      BY <2>2, <3>1 DEF AgesInv, ImuInv
    <3> QED
      BY <1>1, <2>1, <3>4, <3>5, <3>6, <3>7, <3>8, <3>9 DEF ImuInv
  <2>5. PiperInv'
    <3>1. SUFFICES ASSUME "piper" \in world.stamped PROVE PiperInv'
      BY <1>1 DEF PiperInv
    <3>2. ASSUME NEW data, \A s \in PiperStreams : data[s] \in Nat,
                 NEW m \in Nat, NEW n \in Nat, m <= n, AnyWithin(data, m)
          PROVE  AnyWithin(data, n)
      BY <3>2 DEF AnyWithin
    <3>3. /\ \A s \in PiperStreams : sample[s] \in Nat
          /\ \A s \in PiperStreams : draft["piper"].data[s] \in Nat
          /\ box["piper"].stamp \in Nat
      BY <1>1, BusStreams DEF Ages
    <3>4. ASSUME NEW data, \A s \in PiperStreams : data[s] \in Nat, PiperWaiting(data)
          PROVE  /\ \/ up <= box["piper"].stamp
                    \/ AnyWithin(data, box["piper"].stamp + Gap)
                 /\ \/ up <= StateTimeout + 0
                    \/ AnyWithin(data, StateTimeout + 0 + Gap)
      <4>1. \/ up <= box["piper"].stamp
            \/ AnyWithin(data, box["piper"].stamp + Gap)
        BY <1>1, <2>1, <2>2, <3>3, <3>4 DEF PiperWaiting
      <4>2. /\ box["piper"].stamp + Gap \in Nat /\ StateTimeout + 0 + Gap \in Nat
            /\ box["piper"].stamp + Gap <= StateTimeout + 0 + Gap
        BY <2>2, <3>3, Limits
      <4>3. up <= StateTimeout + 0 \/ AnyWithin(data, StateTimeout + 0 + Gap)
        BY <1>1, <2>2, <3>2, <3>3, <3>4, <4>1, <4>2, Limits
      <4> QED
        BY <4>1, <4>3
    <3>5. ASSUME NEW data, PiperLagging(data)
          PROVE  \/ Forgotten("piper") \/ up <= noticed["piper"] + Gap
                 \/ AnyWithin(data, noticed["piper"] + 2 * Gap)
      BY <1>1, <2>1, <3>5, Limits DEF PiperLagging, Ages
    <3>6. draft["piper"].open /\ "piper" \in news => AnyWithin(sample, StateTimeout + 0)
      <4>1. SUFFICES ASSUME draft["piper"].open, "piper" \in news
                     PROVE  AnyWithin(sample, StateTimeout + 0)
        OBVIOUS
      <4>2. AnyWithin(sample, box["piper"].stamp)
        BY <2>2, <3>1, <4>1 DEF AgesInv, PiperInv
      <4>3. StateTimeout + 0 \in Nat /\ box["piper"].stamp <= StateTimeout + 0
        BY <2>2, <3>3, Limits
      <4> QED
        BY <3>2, <3>3, <4>2, <4>3
    <3>7. \/ up <= FeedbackTimeout + Gap + box["piper"].stamp
          \/ AnyWithin(box["piper"].data, FeedbackTimeout + 2 * Gap + box["piper"].stamp)
      BY <1>1, <2>1, <2>2, <3>1, <3>3, Limits DEF AgesInv, PiperInv
    <3>8. /\ ~draft["piper"].open /\ "piper" \in news => PiperWaiting(sample)'
          /\ draft["piper"].open /\ draft["piper"].new => PiperWaiting(draft["piper"].data)'
      <4>1. /\ ~draft["piper"].open /\ "piper" \in news => PiperWaiting(sample)
            /\ draft["piper"].open /\ draft["piper"].new => PiperWaiting(draft["piper"].data)
        BY <3>1 DEF AgesInv, PiperInv
      <4>2. PiperWaiting(sample) => PiperWaiting(sample)'
        BY <1>1, <2>1, <3>3, <3>4 DEF PiperWaiting
      <4>3. PiperWaiting(draft["piper"].data) => PiperWaiting(draft["piper"].data)'
        BY <1>1, <2>1, <3>3, <3>4 DEF PiperWaiting
      <4> QED
        BY <4>1, <4>2, <4>3
    <3>9. /\ PiperLagging(sample)'
          /\ draft["piper"].open => PiperLagging(draft["piper"].data)'
      <4>1. /\ PiperLagging(sample)
            /\ draft["piper"].open => PiperLagging(draft["piper"].data)
        BY <3>1 DEF AgesInv, PiperInv
      <4>2. PiperLagging(sample) => PiperLagging(sample)'
        BY <1>1, <3>5 DEF PiperLagging, Forgotten
      <4>3. PiperLagging(draft["piper"].data) => PiperLagging(draft["piper"].data)'
        BY <1>1, <3>5 DEF PiperLagging, Forgotten
      <4> QED
        BY <4>1, <4>2, <4>3
    <3> QED
      BY <1>1, <2>1, <3>1, <3>6, <3>7, <3>8, <3>9 DEF AgesInv, PiperInv, PiperWaiting, PiperLagging, Saturated, Forgotten
  <2> QED
    BY <2>3, <2>4, <2>5 DEF AgesInv
<1> QED
  BY <1>2, <1>3, <1>4

\* An instant that passes: every age grows by one, or stays past its limit.
LEMMA InstantFacts ==
  ASSUME TypeOK, Advance
  PROVE  /\ Alive' => Alive /\ idle' = idle + 1
         /\ idle' \in Nat /\ up' \in Nat /\ up' <= up + 1
         /\ \A b \in Bus :
              /\ box'[b].valid = box[b].valid /\ draft'[b].open = draft[b].open
              /\ draft'[b].timely = draft[b].timely /\ draft'[b].new = draft[b].new
              /\ box'[b].stamp \in Nat /\ noticed'[b] \in Nat
              /\ ~Saturated(b)' => ~Saturated(b) /\ box'[b].stamp = box[b].stamp + 1
              /\ ~Forgotten(b)' => ~Forgotten(b) /\ noticed'[b] = noticed[b] + 1
              /\ noticed[b] <= box[b].stamp => noticed'[b] <= box'[b].stamp
              /\ \A s \in Streams[b] :
                   /\ box'[b].data[s] \in Nat /\ draft'[b].data[s] \in Nat
                   /\ box'[b].data[s] <= box[b].data[s] + 1
                   /\ draft'[b].data[s] <= draft[b].data[s] + 1
                   /\ sample[s] <= draft[b].data[s] => sample'[s] <= draft'[b].data[s]
         /\ "d1" \in news' => "d1" \in news \/ sample'["imu"] = 0
         /\ "piper" \in news' => "piper" \in news \/ \E s \in PiperStreams : sample'[s] = 0
<1>1. /\ idle \in 0 .. CommandTimeout + 1 /\ up \in 0 .. SettleTime + 1
      /\ idle' = IF phase = "loop" THEN Older(idle, CommandTimeout) ELSE idle
      /\ up' = IF phase = "loop" THEN Older(up, SettleTime) ELSE up
      /\ UNCHANGED <<phase, fault>>
  BY AdvanceFacts DEF TypeOK
<1>2. /\ Alive' => Alive /\ idle' = idle + 1
      /\ idle' \in Nat /\ up' \in Nat /\ up' <= up + 1
  <2>1. /\ Older(idle, CommandTimeout) \in Nat
        /\ idle <= CommandTimeout => Older(idle, CommandTimeout) = idle + 1
        /\ ~(idle <= CommandTimeout) => Older(idle, CommandTimeout) = CommandTimeout + 1
        /\ Older(up, SettleTime) \in Nat /\ Older(up, SettleTime) <= up + 1
        /\ idle \in Nat /\ up \in Nat
    BY <1>1, OlderAge, Limits
  <2> QED
    BY <1>1, <2>1, Limits DEF Alive, Late
<1>3. ASSUME NEW b \in Bus
      PROVE  /\ box'[b].valid = box[b].valid /\ draft'[b].open = draft[b].open
             /\ draft'[b].timely = draft[b].timely /\ draft'[b].new = draft[b].new
             /\ box'[b].stamp \in Nat /\ noticed'[b] \in Nat
             /\ ~Saturated(b)' => ~Saturated(b) /\ box'[b].stamp = box[b].stamp + 1
             /\ ~Forgotten(b)' => ~Forgotten(b) /\ noticed'[b] = noticed[b] + 1
             /\ noticed[b] <= box[b].stamp => noticed'[b] <= box'[b].stamp
  <2>1. box[b].stamp \in 0 .. StampLimit + 1 /\ noticed[b] \in 0 .. StampLimit + 1
    BY DEF TypeOK, Snapshot, StampAge
  <2>2. ASSUME NEW a \in 0 .. StampLimit + 1
        PROVE  /\ Older(a, StampLimit) \in Nat /\ a \in Nat
               /\ a <= StampLimit => Older(a, StampLimit) = a + 1
               /\ ~(a <= StampLimit) => Older(a, StampLimit) = StampLimit + 1
                                        /\ a = StampLimit + 1
    BY OlderAge, Limits
  <2>3. /\ box'[b].stamp = Older(box[b].stamp, StampLimit)
        /\ noticed'[b] = Older(noticed[b], StampLimit)
        /\ box'[b].valid = box[b].valid /\ draft'[b].open = draft[b].open
        /\ draft'[b].timely = draft[b].timely /\ draft'[b].new = draft[b].new
    BY AdvanceFacts
  <2>4. /\ box[b].stamp \in Nat /\ noticed[b] \in Nat
        /\ box'[b].stamp \in Nat /\ noticed'[b] \in Nat
        /\ box[b].stamp <= StampLimit => box'[b].stamp = box[b].stamp + 1
        /\ ~(box[b].stamp <= StampLimit) => box'[b].stamp = StampLimit + 1
        /\ noticed[b] <= StampLimit => noticed'[b] = noticed[b] + 1
        /\ ~(noticed[b] <= StampLimit) =>
             noticed'[b] = StampLimit + 1 /\ noticed[b] = StampLimit + 1
    BY <2>1, <2>2, <2>3
  <2>5. /\ ~Saturated(b)' => ~Saturated(b) /\ box'[b].stamp = box[b].stamp + 1
        /\ ~Forgotten(b)' => ~Forgotten(b) /\ noticed'[b] = noticed[b] + 1
    BY <2>4, Limits DEF Saturated, Forgotten
  <2>6. noticed[b] <= box[b].stamp => noticed'[b] <= box'[b].stamp
    BY <2>4, Limits
  <2>7. /\ box'[b].valid = box[b].valid /\ draft'[b].open = draft[b].open
        /\ draft'[b].timely = draft[b].timely /\ draft'[b].new = draft[b].new
    BY <2>3
  <2>8. box'[b].stamp \in Nat /\ noticed'[b] \in Nat
    BY <2>4
  <2> QED
    BY <2>5, <2>6, <2>7, <2>8
<1>4. ASSUME NEW b \in Bus, NEW s \in Streams[b]
      PROVE  /\ box'[b].data[s] \in Nat /\ draft'[b].data[s] \in Nat
             /\ box'[b].data[s] <= box[b].data[s] + 1
             /\ draft'[b].data[s] <= draft[b].data[s] + 1
             /\ sample[s] <= draft[b].data[s] => sample'[s] <= draft'[b].data[s]
  <2>1. /\ box[b].data[s] \in 0 .. DataLimit + 1 /\ draft[b].data[s] \in 0 .. DataLimit + 1
        /\ s \in AllStreams /\ sample[s] \in 0 .. DataLimit + 1
    <3>1. /\ box[b] \in Snapshot(b) /\ draft[b] \in Draft(b)
          /\ sample \in [AllStreams -> DataAge] /\ s \in AllStreams
      BY BusStreams DEF TypeOK
    <3> QED
      BY <3>1 DEF Snapshot, Draft, DataAge
  <2>2. ASSUME NEW a \in 0 .. DataLimit + 1
        PROVE  /\ Older(a, DataLimit) \in Nat /\ Older(a, DataLimit) <= a + 1 /\ a \in Nat
               /\ a <= DataLimit => Older(a, DataLimit) = a + 1
               /\ ~(a <= DataLimit) => Older(a, DataLimit) = DataLimit + 1
                                       /\ a = DataLimit + 1
    BY OlderAge, Limits
  <2>3. /\ box'[b].data[s] = Older(box[b].data[s], DataLimit)
        /\ draft'[b].data[s] = Older(draft[b].data[s], DataLimit)
        /\ sample'[s] = 0 \/ sample'[s] = Older(sample[s], DataLimit)
    BY <2>1, AdvanceFacts
  <2> QED
    BY <2>1, <2>2, <2>3, Limits
<1>5. ASSUME NEW b \in Bus, b \in news', b \notin news
      PROVE  \E s \in StampedStreams[b] : sample'[s] = 0
  <2>1. PICK s \in StampedStreams[b] : s \in world.steady
    BY <1>5, AdvanceFacts
  <2> QED
    BY <2>1, AdvanceFacts, BusStreams
<1> QED
  BY <1>2, <1>3, <1>4, <1>5, BusStreams

LEMMA AdvanceStep ==
  ASSUME TypeOK, AgesInv, Advance
  PROVE  AgesInv'
<1>1. /\ UNCHANGED world
      /\ \A s \in AllStreams : sample[s] \in Nat /\ sample'[s] \in Nat
                               /\ sample'[s] <= sample[s] + 1
      /\ Ages("d1") /\ Ages("piper") /\ idle \in Nat /\ up \in Nat
  BY AdvanceFacts, Numbers, BusStreams
<1>2. /\ Alive' => Alive /\ idle' = idle + 1
      /\ idle' \in Nat /\ up' \in Nat /\ up' <= up + 1
  BY InstantFacts
<1>7. /\ box'["d1"].stamp \in Nat /\ box'["piper"].stamp \in Nat
      /\ box'["piper"].stamp + Gap \in Nat
      /\ StateTimeout + idle' \in Nat /\ StateTimeout + idle' + Gap \in Nat
      /\ 0 <= box'["d1"].stamp /\ 0 <= StateTimeout + idle'
  <2>1. box'["d1"].stamp \in Nat /\ box'["piper"].stamp \in Nat
    BY InstantFacts, BusStreams
  <2>2. StateTimeout \in Nat /\ Gap \in Nat
    BY Limits
  <2>3. idle' \in Nat
    BY <1>2
  <2>4. ASSUME NEW n \in Nat
        PROVE  /\ StateTimeout + n \in Nat /\ StateTimeout + n + Gap \in Nat
               /\ 0 <= StateTimeout + n
    BY <2>2
  <2>5. box'["piper"].stamp + Gap \in Nat /\ 0 <= box'["d1"].stamp
    BY <2>1, <2>2
  <2> QED
    BY <2>1, <2>3, <2>4, <2>5
<1> DEFINE Later(b) ==
      /\ box'[b].valid = box[b].valid /\ draft'[b].open = draft[b].open
      /\ draft'[b].timely = draft[b].timely /\ draft'[b].new = draft[b].new
      /\ box'[b].stamp \in Nat /\ noticed'[b] \in Nat
      /\ ~Saturated(b)' => ~Saturated(b) /\ box'[b].stamp = box[b].stamp + 1
      /\ ~Forgotten(b)' => ~Forgotten(b) /\ noticed'[b] = noticed[b] + 1
      /\ noticed[b] <= box[b].stamp => noticed'[b] <= box'[b].stamp
<1>3. Later("d1") /\ Later("piper")
  BY InstantFacts, BusStreams
<1>4. LegsInv'
  <2>1. \A s \in D1Streams : /\ box'["d1"].data[s] \in Nat /\ draft'["d1"].data[s] \in Nat
                             /\ box["d1"].data[s] \in Nat /\ draft["d1"].data[s] \in Nat
                             /\ box'["d1"].data[s] <= box["d1"].data[s] + 1
                             /\ draft'["d1"].data[s] <= draft["d1"].data[s] + 1
    BY <1>1, InstantFacts, BusStreams DEF Ages
  <2>2. ASSUME NEW m \in Nat, NEW n \in Nat, m + 1 <= n
        PROVE  /\ AllWithin(draft["d1"].data, m) => AllWithin(draft'["d1"].data, n)
               /\ AllWithin(box["d1"].data, m) => AllWithin(box'["d1"].data, n)
    BY <2>1, <2>2 DEF AllWithin
  <2>3. ASSUME draft'["d1"].open, draft'["d1"].timely, ~Saturated("d1")'
        PROVE  AllWithin(draft'["d1"].data, VendorTimeout + box'["d1"].stamp)
    <3>1. /\ VendorTimeout + box["d1"].stamp \in Nat /\ VendorTimeout + box'["d1"].stamp \in Nat
          /\ VendorTimeout + box["d1"].stamp + 1 <= VendorTimeout + box'["d1"].stamp
      BY <1>1, <1>3, <2>3, Limits DEF Ages
    <3>2. AllWithin(draft["d1"].data, VendorTimeout + box["d1"].stamp)
      BY <1>3, <2>3 DEF AgesInv, LegsInv
    <3> QED
      BY <2>2, <3>1, <3>2
  <2>4. ASSUME draft'["d1"].open, draft'["d1"].timely, Alive'
        PROVE  AllWithin(draft'["d1"].data, VendorTimeout + StateTimeout + idle')
    <3>1. /\ VendorTimeout + StateTimeout + idle \in Nat
          /\ VendorTimeout + StateTimeout + idle' \in Nat
          /\ VendorTimeout + StateTimeout + idle + 1 <= VendorTimeout + StateTimeout + idle'
      BY <1>1, <1>2, <2>4, Limits
    <3>2. AllWithin(draft["d1"].data, VendorTimeout + StateTimeout + idle)
      BY <1>2, <1>3, <2>4 DEF AgesInv, LegsInv
    <3> QED
      BY <2>2, <3>1, <3>2
  <2>5. ASSUME Alive', box'["d1"].valid, ~Saturated("d1")', ~(up' <= box'["d1"].stamp)
        PROVE  AllWithin(box'["d1"].data, VendorTimeout + Gap + box'["d1"].stamp)
    <3>1. /\ VendorTimeout + Gap + box["d1"].stamp \in Nat
          /\ VendorTimeout + Gap + box'["d1"].stamp \in Nat
          /\ VendorTimeout + Gap + box["d1"].stamp + 1 <= VendorTimeout + Gap + box'["d1"].stamp
          /\ ~(up <= box["d1"].stamp)
      BY <1>1, <1>2, <1>3, <2>5, Limits DEF Ages
    <3>2. AllWithin(box["d1"].data, VendorTimeout + Gap + box["d1"].stamp)
      BY <1>2, <1>3, <2>5, <3>1 DEF AgesInv, LegsInv
    <3> QED
      BY <2>2, <3>1, <3>2
  <2> QED
    BY <2>3, <2>4, <2>5 DEF LegsInv
<1>5. ImuInv'
  <2>1. SUFFICES ASSUME "d1" \in world.stamped PROVE ImuInv'
    BY <1>1 DEF ImuInv
  <2>2. ASSUME NEW a \in Nat, NEW c \in Nat, c <= a + 1, ImuLagging(a)
        PROVE  Alive' => /\ \/ Forgotten("d1")' \/ up' <= noticed'["d1"]
                            \/ c <= noticed'["d1"] + Gap
                         /\ \/ up' <= StateTimeout + idle'
                            \/ c <= StateTimeout + idle' + Gap
    <3>1. SUFFICES ASSUME Alive'
                   PROVE  /\ \/ Forgotten("d1")' \/ up' <= noticed'["d1"]
                             \/ c <= noticed'["d1"] + Gap
                          /\ \/ up' <= StateTimeout + idle'
                             \/ c <= StateTimeout + idle' + Gap
      OBVIOUS
    <3>2. /\ Forgotten("d1") \/ up <= noticed["d1"] \/ a <= noticed["d1"] + Gap
          /\ up <= StateTimeout + idle \/ a <= StateTimeout + idle + Gap
      BY <1>2, <2>2, <3>1 DEF ImuLagging
    <3> QED
      BY <1>1, <1>2, <1>3, <2>2, <3>1, <3>2, Limits DEF Ages
  <2>3. ImuLagging(sample["imu"])'
    <3>1. ImuLagging(sample["imu"])
      BY <2>1 DEF AgesInv, ImuInv
    <3>2. sample["imu"] \in Nat /\ sample'["imu"] \in Nat /\ sample'["imu"] <= sample["imu"] + 1
      BY <1>1, BusStreams
    <3> QED
      BY <2>2, <3>1, <3>2 DEF ImuLagging
  <2>4. draft'["d1"].open => ImuLagging(draft["d1"].data["imu"])'
    <3>1. draft["d1"].open => ImuLagging(draft["d1"].data["imu"])
      BY <2>1 DEF AgesInv, ImuInv
    <3>2. /\ draft["d1"].data["imu"] \in Nat /\ draft'["d1"].data["imu"] \in Nat
          /\ draft'["d1"].data["imu"] <= draft["d1"].data["imu"] + 1
      BY <1>1, InstantFacts, BusStreams DEF Ages
    <3> QED
      BY <1>3, <2>2, <3>1, <3>2 DEF ImuLagging
  <2>5. box'["d1"].valid => noticed'["d1"] <= box'["d1"].stamp
    BY <1>3, <2>1 DEF AgesInv, ImuInv
  <2>6. ASSUME "d1" \in news'
        PROVE  /\ box'["d1"].valid => Saturated("d1")' \/ sample'["imu"] <= box'["d1"].stamp
               /\ Alive' => sample'["imu"] <= StateTimeout + idle'
    <3>1. CASE sample'["imu"] = 0
      BY <1>7, <3>1
    <3>2. CASE "d1" \in news
      <4>1. /\ box["d1"].valid => Saturated("d1") \/ sample["imu"] <= box["d1"].stamp
            /\ Alive => sample["imu"] <= StateTimeout + idle
        BY <2>1, <3>2 DEF AgesInv, ImuInv
      <4> QED
        BY <1>1, <1>2, <1>3, <4>1, BusStreams, Limits DEF Ages
    <3> QED
      BY <2>6, <3>1, <3>2, InstantFacts
  <2>7. ASSUME Alive', box'["d1"].valid
        PROVE  \/ Saturated("d1")' \/ up' <= box'["d1"].stamp + Gap
               \/ box'["d1"].data["imu"] <= box'["d1"].stamp + 2 * Gap
    <3>1. \/ Saturated("d1") \/ up <= box["d1"].stamp + Gap
          \/ box["d1"].data["imu"] <= box["d1"].stamp + 2 * Gap
      BY <1>2, <1>3, <2>1, <2>7 DEF AgesInv, ImuInv
    <3>2. /\ box["d1"].data["imu"] \in Nat /\ box'["d1"].data["imu"] \in Nat
          /\ box'["d1"].data["imu"] <= box["d1"].data["imu"] + 1
      BY <1>1, InstantFacts, BusStreams DEF Ages
    <3> QED
      BY <1>1, <1>2, <1>3, <3>1, <3>2, Limits DEF Ages
  <2> QED
    BY <2>3, <2>4, <2>5, <2>6, <2>7 DEF ImuInv
<1>6. PiperInv'
  <2>1. SUFFICES ASSUME "piper" \in world.stamped PROVE PiperInv'
    BY <1>1 DEF PiperInv
  <2>2. \A s \in PiperStreams :
          /\ sample[s] \in Nat /\ sample'[s] \in Nat /\ sample'[s] <= sample[s] + 1
          /\ draft["piper"].data[s] \in Nat /\ draft'["piper"].data[s] \in Nat
          /\ draft'["piper"].data[s] <= draft["piper"].data[s] + 1
          /\ box["piper"].data[s] \in Nat /\ box'["piper"].data[s] \in Nat
          /\ box'["piper"].data[s] <= box["piper"].data[s] + 1
          /\ sample[s] <= draft["piper"].data[s] => sample'[s] <= draft'["piper"].data[s]
    BY <1>1, InstantFacts, BusStreams DEF Ages
  <2>3. ASSUME NEW data, NEW later,
               \A s \in PiperStreams :
                 data[s] \in Nat /\ later[s] \in Nat /\ later[s] <= data[s] + 1,
               NEW m \in Nat, NEW n \in Nat, m + 1 <= n, AnyWithin(data, m)
        PROVE  AnyWithin(later, n)
    BY <2>3, YoungerData
  <2>4. ASSUME NEW data, NEW later,
               \A s \in PiperStreams :
                 data[s] \in Nat /\ later[s] \in Nat /\ later[s] <= data[s] + 1,
               PiperWaiting(data), Alive'
        PROVE  /\ box'["piper"].valid =>
                    \/ Saturated("piper")' \/ up' <= box'["piper"].stamp
                    \/ AnyWithin(later, box'["piper"].stamp + Gap)
               /\ \/ up' <= StateTimeout + idle'
                  \/ AnyWithin(later, StateTimeout + idle' + Gap)
    <3>1. /\ box["piper"].valid =>
               \/ Saturated("piper") \/ up <= box["piper"].stamp
               \/ AnyWithin(data, box["piper"].stamp + Gap)
          /\ up <= StateTimeout + idle \/ AnyWithin(data, StateTimeout + idle + Gap)
      BY <1>2, <2>4 DEF PiperWaiting
    <3>2. ASSUME box'["piper"].valid, ~Saturated("piper")', ~(up' <= box'["piper"].stamp)
          PROVE  AnyWithin(later, box'["piper"].stamp + Gap)
      <4>1. /\ ~(up <= box["piper"].stamp) /\ box["piper"].stamp + Gap \in Nat
            /\ box'["piper"].stamp + Gap \in Nat
            /\ box["piper"].stamp + Gap + 1 <= box'["piper"].stamp + Gap
        BY <1>1, <1>2, <1>3, <3>2, Limits DEF Ages
      <4>2. AnyWithin(data, box["piper"].stamp + Gap)
        BY <1>3, <3>1, <3>2, <4>1
      <4> QED
        BY <2>3, <2>4, <4>1, <4>2
    <3>3. ASSUME ~(up' <= StateTimeout + idle')
          PROVE  AnyWithin(later, StateTimeout + idle' + Gap)
      <4>1. /\ ~(up <= StateTimeout + idle) /\ StateTimeout + idle + Gap \in Nat
            /\ StateTimeout + idle' + Gap \in Nat
            /\ StateTimeout + idle + Gap + 1 <= StateTimeout + idle' + Gap
        BY <1>1, <1>2, <2>4, <3>3, Limits
      <4> QED
        BY <2>3, <2>4, <3>1, <4>1
    <3> QED
      BY <3>2, <3>3
  <2>5. ASSUME NEW data, NEW later,
               \A s \in PiperStreams :
                 data[s] \in Nat /\ later[s] \in Nat /\ later[s] <= data[s] + 1,
               PiperLagging(data), Alive', ~Forgotten("piper")',
               ~(up' <= noticed'["piper"] + Gap)
        PROVE  AnyWithin(later, noticed'["piper"] + 2 * Gap)
    <3>1. /\ ~(up <= noticed["piper"] + Gap) /\ noticed["piper"] + 2 * Gap \in Nat
          /\ noticed'["piper"] + 2 * Gap \in Nat
          /\ noticed["piper"] + 2 * Gap + 1 <= noticed'["piper"] + 2 * Gap
      BY <1>1, <1>2, <1>3, <2>5, Limits DEF Ages
    <3>2. AnyWithin(data, noticed["piper"] + 2 * Gap)
      BY <1>2, <1>3, <2>5, <3>1 DEF PiperLagging
    <3> QED
      BY <2>3, <2>5, <3>1, <3>2
  <2>6. draft'["piper"].open =>
          \A s \in PiperStreams : sample'[s] <= draft'["piper"].data[s]
    BY <1>3, <2>1, <2>2 DEF AgesInv, PiperInv
  <2>7. ASSUME "piper" \in news', "piper" \notin news, NEW n \in Nat
        PROVE  AnyWithin(sample', n)
    BY <2>2, <2>7, InstantFacts DEF AnyWithin
  <2>8. ASSUME draft'["piper"].open, "piper" \in news'
        PROVE  /\ Saturated("piper")' \/ AnyWithin(sample', box'["piper"].stamp)
               /\ Alive' => AnyWithin(sample', StateTimeout + idle')
    <3>1. box'["piper"].stamp \in Nat /\ StateTimeout + idle' \in Nat
      BY <1>7
    <3>2. CASE "piper" \notin news
      BY <2>7, <2>8, <3>1, <3>2
    <3>3. CASE "piper" \in news
      <4>1. /\ Saturated("piper") \/ AnyWithin(sample, box["piper"].stamp)
            /\ Alive => AnyWithin(sample, StateTimeout + idle)
        BY <1>3, <2>1, <2>8, <3>3 DEF AgesInv, PiperInv
      <4>2. /\ ~Saturated("piper")' => box["piper"].stamp + 1 <= box'["piper"].stamp
            /\ Alive' => StateTimeout + idle + 1 <= StateTimeout + idle'
            /\ box["piper"].stamp \in Nat /\ StateTimeout + idle \in Nat
        <5>1. box["piper"].stamp \in Nat /\ StateTimeout \in Nat
          BY <1>1, Limits DEF Ages
        <5>2. StateTimeout + idle \in Nat
          BY <1>1, <5>1
        <5>3. ~Saturated("piper")' => box["piper"].stamp + 1 <= box'["piper"].stamp
          BY <1>3, <5>1
        <5>4. Alive' => StateTimeout + idle + 1 <= StateTimeout + idle'
          BY <1>1, <1>2, <5>1
        <5> QED
          BY <5>1, <5>2, <5>3, <5>4
      <4>3. ASSUME ~Saturated("piper")' PROVE AnyWithin(sample', box'["piper"].stamp)
        <5>1. AnyWithin(sample, box["piper"].stamp)
          BY <1>3, <4>1, <4>3
        <5> QED
          BY <2>2, <2>3, <3>1, <4>2, <4>3, <5>1
      <4>4. Alive' => AnyWithin(sample', StateTimeout + idle')
        BY <1>2, <2>2, <2>3, <3>1, <4>1, <4>2
      <4> QED
        BY <4>3, <4>4
    <3> QED
      BY <3>2, <3>3
  <2>9. ~draft'["piper"].open /\ "piper" \in news' => PiperWaiting(sample)'
    <3>1. SUFFICES ASSUME ~draft'["piper"].open, "piper" \in news', Alive'
                   PROVE  /\ box'["piper"].valid =>
                               \/ Saturated("piper")' \/ up' <= box'["piper"].stamp
                               \/ AnyWithin(sample', box'["piper"].stamp + Gap)
                          /\ \/ up' <= StateTimeout + idle'
                             \/ AnyWithin(sample', StateTimeout + idle' + Gap)
      BY DEF PiperWaiting
    <3>2. CASE "piper" \notin news
      <4>1. box'["piper"].stamp + Gap \in Nat /\ StateTimeout + idle' + Gap \in Nat
        BY <1>7
      <4> QED
        BY <2>7, <3>1, <3>2, <4>1
    <3>3. CASE "piper" \in news
      <4>1. PiperWaiting(sample)
        BY <1>3, <2>1, <3>1, <3>3 DEF AgesInv, PiperInv
      <4> QED
        BY <2>2, <2>4, <3>1, <4>1
    <3> QED
      BY <3>2, <3>3
  <2>10. draft'["piper"].open /\ draft'["piper"].new => PiperWaiting(draft["piper"].data)'
    <3>1. draft["piper"].open /\ draft["piper"].new => PiperWaiting(draft["piper"].data)
      BY <2>1 DEF AgesInv, PiperInv
    <3> QED
      BY <1>3, <2>2, <2>4, <3>1 DEF PiperWaiting
  <2>11. PiperLagging(sample)'
    <3>1. PiperLagging(sample)
      BY <2>1 DEF AgesInv, PiperInv
    <3> QED
      BY <2>2, <2>5, <3>1 DEF PiperLagging
  <2>12. draft'["piper"].open => PiperLagging(draft["piper"].data)'
    <3>1. draft["piper"].open => PiperLagging(draft["piper"].data)
      BY <2>1 DEF AgesInv, PiperInv
    <3> QED
      BY <1>3, <2>2, <2>5, <3>1 DEF PiperLagging
  <2>13. ASSUME Alive', box'["piper"].valid, ~Saturated("piper")',
                ~(up' <= FeedbackTimeout + Gap + box'["piper"].stamp)
         PROVE  AnyWithin(box'["piper"].data, FeedbackTimeout + 2 * Gap + box'["piper"].stamp)
    <3> DEFINE before == FeedbackTimeout + 2 * Gap + box["piper"].stamp
               after == FeedbackTimeout + 2 * Gap + box'["piper"].stamp
    <3>1. /\ ~(up <= FeedbackTimeout + Gap + box["piper"].stamp)
          /\ before \in Nat /\ after \in Nat /\ before + 1 <= after
      BY <1>1, <1>2, <1>3, <2>13, Limits DEF Ages
    <3>2. AnyWithin(box["piper"].data, before)
      BY <1>2, <1>3, <2>1, <2>13, <3>1 DEF AgesInv, PiperInv
    <3> HIDE DEF before, after
    <3>3. AnyWithin(box'["piper"].data, after)
      BY <2>2, <2>3, <3>1, <3>2
    <3> QED
      BY <3>3 DEF after
  <2> QED
    BY <2>6, <2>8, <2>9, <2>10, <2>11, <2>12, <2>13 DEF PiperInv
<1> QED
  BY <1>4, <1>5, <1>6 DEF AgesInv

-----------------------------------------------------------------------------
(* The theorems *)

LEMMA InitInv == Init => FeedbackInv
<1> SUFFICES ASSUME Init PROVE FeedbackInv
  OBVIOUS
<1>1. /\ DataLimit + 1 \in DataAge /\ 0 \in DataAge
      /\ StampLimit + 1 \in StampAge /\ 0 \in StampAge
      /\ StampLimit + 1 > StampLimit
      /\ 0 \in 0 .. CommandTimeout + 1 /\ 0 \in 0 .. SettleTime + 1
  BY Limits DEF DataAge, StampAge
<1>2. ASSUME NEW b \in Bus
      PROVE  /\ draft[b] \in Draft(b) /\ ~draft[b].open /\ ~draft[b].new
             /\ box[b] \in Snapshot(b) /\ ~box[b].valid
  <2>1. NoData(b) \in [Streams[b] -> DataAge]
    BY <1>1 DEF NoData
  <2>2. /\ box[b] = [valid |-> FALSE, stamp |-> StampLimit + 1, data |-> NoData(b)]
        /\ draft[b] = [open |-> FALSE, timely |-> FALSE, new |-> FALSE, data |-> NoData(b)]
    BY DEF Init, NoDraft
  <2> QED
    BY <1>1, <2>1, <2>2 DEF Snapshot, Draft
<1>3. TypeOK
  <2>1. sample \in [AllStreams -> DataAge] /\ noticed \in [Bus -> StampAge]
    BY <1>1 DEF Init
  <2>2. DOMAIN draft = Bus /\ DOMAIN box = Bus
    BY DEF Init
  <2> QED
    BY <1>1, <1>2, <2>1, <2>2 DEF Init, TypeOK
<1>4. PhaseInv
  BY <1>2, <1>3, BusStreams, Numbers DEF Init, PhaseInv
<1>5. LegsInv /\ ImuInv /\ PiperInv
  <2>1. ~Alive /\ news = {}
    BY DEF Init, Alive
  <2> QED
    BY <1>2, <2>1, BusStreams
    DEF LegsInv, ImuInv, ImuLagging, PiperInv, PiperWaiting, PiperLagging
<1> QED
  BY <1>3, <1>4, <1>5 DEF FeedbackInv

LEMMA InvStep ==
  ASSUME FeedbackInv, [Next]_vars
  PROVE  FeedbackInv'
<1>1. TypeOK /\ PhaseInv /\ AgesInv
  BY DEF FeedbackInv, AgesInv
<1>2. ASSUME NEW z \in AllStreams, Arrive(z) PROVE AgesInv'
  BY <1>1, <1>2, ArriveStep
<1>3. ASSUME NEW b \in Bus, Begin(b) PROVE AgesInv'
  BY <1>1, <1>3, BeginStep
<1>4. ASSUME NEW b \in Bus, Finish(b) PROVE AgesInv'
  BY <1>1, <1>4, FinishD1Step, FinishPiperStep DEF Bus
<1>5. ASSUME Check PROVE AgesInv'
  BY <1>1, <1>5, CheckStep
<1>6. ASSUME Advance PROVE AgesInv'
  BY <1>1, <1>6, AdvanceStep
<1>7. ASSUME UNCHANGED vars PROVE AgesInv'
  BY <1>1, <1>7
  DEF vars, streamVars, backendVars, runtimeVars, AgesInv, LegsInv, ImuInv, ImuLagging,
      PiperInv, PiperWaiting, PiperLagging, Alive, Late, Saturated, Forgotten
<1>8. AgesInv'
  BY <1>2, <1>3, <1>4, <1>5, <1>6, <1>7 DEF Next, Halted
<1> QED
  BY <1>1, <1>8, TypeStep, PhaseStep DEF FeedbackInv, AgesInv

\* In every reachable state the stamps of the readers and of their boxes, and
\* the time since the loop's last command, bound the ages of the samples behind
\* them (D1Backend.read, PiperBackend.read, limit_command).
THEOREM AgesInductive == Spec => []FeedbackInv
<1>1. Init => FeedbackInv
  BY InitInv
<1>2. FeedbackInv /\ [Next]_vars => FeedbackInv'
  BY InvStep
<1> QED
  BY <1>1, <1>2, PTL DEF Spec

\* Once it has settled, the loop acts on data of a stamped Piper of which some is
\* younger than PiperLimit, however long reads and checks take (_read_locked,
\* check_state, limit_command).
THEOREM PiperSilenceIsNoticed == Spec => []PiperDataBounded
<1>1. FeedbackInv => PiperDataBounded
  BY TrustedData
<1> QED
  BY <1>1, AgesInductive, PTL

\* And on IMU data of a stamped D1 younger than ImuLimit (D1Backend.read).
THEOREM ImuSilenceIsNoticed == Spec => []ImuDataBounded
<1>1. FeedbackInv => ImuDataBounded
  BY TrustedData
<1> QED
  BY <1>1, AgesInductive, PTL

\* No D1 data outlives the vendor's timeout by more than a gap and the
\* supervisor's timeout, with stamps or without.
THEOREM D1DataOutlivesNoTimeout == Spec => []D1DataBounded
<1>1. FeedbackInv => D1DataBounded
  BY TrustedData
<1> QED
  BY <1>1, AgesInductive, PTL

-----------------------------------------------------------------------------
(* Regular feedback *)

\* What RegularInv says of the stamps that were compared.
Noted(b) ==
  /\ noticed[b] <= 1
  /\ (\E s \in StampedStreams[b] : sample[s] = 0) => noticed[b] = 0

LEMMA RegularBeginStep ==
  ASSUME TypeOK, RegularInv, TimeoutsTolerate, NEW b \in Bus, Begin(b)
  PROVE  RegularInv'
<1>1. /\ UNCHANGED <<world, sample, known, noticed, box, polled, idle, phase, fault>>
      /\ ~draft[b].open /\ draft'[b].open
      /\ \A c \in Bus : c # b => draft'[c] = draft[c] /\ (c \in news' <=> c \in news)
  BY BeginFacts DEF Bus
<1>2. \A c \in Bus : /\ draft'[c].open => draft'[c].timely
                     /\ draft'[c].new => draft'[c].open
  <2>1. ~VendorTimesOut
    <3>1. sample["legs"] \in Nat /\ sample["imu"] \in Nat
          /\ sample["legs"] <= 1 /\ sample["imu"] <= 1
      BY Numbers, BusStreams DEF RegularInv
    <3> QED
      BY <3>1, Limits DEF VendorTimesOut, TimeoutsTolerate
  <2> QED
    BY <1>1, <2>1, BeginFacts DEF RegularInv
<1>3. ASSUME NEW c \in known' \ news', ~draft'[c].new PROVE Noted(c)
  <2>1. c \in known /\ c \in Bus
    BY <1>1, <1>3, Numbers
  <2>2. c \in world.stamped
    BY <2>1 DEF RegularInv
  <2>3. ~draft[c].new /\ c \notin news
    <3>1. CASE c # b
      BY <1>1, <1>3, <2>1, <3>1
    <3>2. CASE c = b
      <4>1. ~draft[c].new
        BY <1>1, <3>2 DEF RegularInv
      <4>2. c = "d1" => c \notin news
        BY <1>3, BeginFacts
      <4>3. c = "piper" => c \notin news
        BY <1>3, <2>2, <3>2, BeginFacts DEF Changed
      <4> QED
        BY <2>1, <4>1, <4>2, <4>3 DEF Bus
    <3> QED
      BY <3>1, <3>2
  <2> QED
    BY <2>1, <2>3 DEF RegularInv, Noted
<1>4. draft'["piper"].open /\ ~draft'["piper"].new /\ "piper" \in world'.stamped =>
        "piper" \in known' /\ noticed'["piper"] <= 1
  <2>1. CASE b = "d1"
    BY <1>1, <2>1, BusStreams DEF RegularInv
  <2>2. CASE b = "piper"
    <3>1. SUFFICES ASSUME ~draft'["piper"].new, "piper" \in world.stamped
                   PROVE  "piper" \in known' /\ noticed'["piper"] <= 1
      BY <1>1
    <3>2. "piper" \in known \ news
      BY <2>2, <3>1, BeginFacts DEF Changed
    <3>3. ~draft["piper"].new
      BY <1>1, <2>2 DEF RegularInv
    <3> QED
      BY <1>1, <3>2, <3>3 DEF RegularInv
  <2> QED
    BY <2>1, <2>2 DEF Bus
<1>5. Late' = Late
  BY <1>1 DEF Late
<1> QED
  BY <1>1, <1>2, <1>3, <1>4, <1>5 DEF RegularInv, Noted

LEMMA RegularFinishStep ==
  ASSUME TypeOK, PhaseInv, RegularInv, TimeoutsTolerate, world.irregular = {},
         NEW b \in Bus, Finish(b)
  PROVE  RegularInv'
<1>1. /\ UNCHANGED <<world, sample, idle, phase, fault>>
      /\ draft[b].open /\ polled' = polled \cup {b}
      /\ ~draft'[b].open /\ ~draft'[b].new
      /\ \A c \in Bus : c # b => draft'[c] = draft[c] /\ box'[c] = box[c]
  BY FinishFacts
<1>2. /\ WithoutStamps(b) \/ (b = "d1" /\ ComparedD1) \/ (b = "piper" /\ ComparedPiper)
      /\ noticed[b] \in Nat
  BY <1>1, FinishFacts, Numbers DEF RegularInv, Ages
<1>3. /\ known' \subseteq world.stamped
      /\ b \in known' => b \in world.stamped
      /\ \A c \in Bus : c # b => /\ noticed'[c] = noticed[c]
                                 /\ c \in known' => c \in known
                                 /\ c \in news <=> c \in news'
  BY <1>2, BusStreams
  DEF RegularInv, WithoutStamps, ComparedD1, ComparedPiper, Compared, Bus
<1>4. /\ b \in known' \ news' =>
           /\ noticed'[b] <= 1
           /\ (\E s \in StampedStreams[b] : sample[s] = 0) => noticed'[b] = 0
      /\ box'[b].valid /\ box'[b].stamp <= 1
  <2>1. CASE WithoutStamps(b)
    BY <1>3, <2>1 DEF WithoutStamps
  <2>2. CASE b = "d1" /\ ComparedD1
    <3>1. ~draft["d1"].new
      BY DEF PhaseInv
    <3>2. ~Changed("d1") => Noted("d1")
      BY <3>1 DEF Changed, RegularInv, Noted
    <3>3. noticed'["d1"] = IF Changed("d1") THEN 0 ELSE noticed["d1"]
      BY <2>2 DEF ComparedD1, Compared
    <3>4. /\ noticed'["d1"] <= 1 /\ noticed'["d1"] <= FeedbackTimeout
          /\ (\E s \in StampedStreams["d1"] : sample[s] = 0) => noticed'["d1"] = 0
      BY <1>2, <2>2, <3>2, <3>3, Limits DEF Noted, TimeoutsTolerate
    <3> QED
      BY <2>2, <3>4 DEF ComparedD1
  <2>3. CASE b = "piper" /\ ComparedPiper
    <3>1. "piper" \in world.stamped /\ news' = news
          /\ noticed'["piper"] = IF draft["piper"].new THEN 0 ELSE noticed["piper"]
      BY <2>3 DEF ComparedPiper, Compared
    <3>2. ~draft["piper"].new => "piper" \in known /\ noticed["piper"] <= 1
      BY <1>1, <2>3, <3>1 DEF RegularInv
    <3>3. noticed'["piper"] <= 1 /\ noticed'["piper"] <= FeedbackTimeout
      BY <1>2, <2>3, <3>1, <3>2, Limits DEF TimeoutsTolerate
    <3>4. ASSUME "piper" \notin news, \E s \in StampedStreams["piper"] : sample[s] = 0
          PROVE  noticed'["piper"] = 0
      BY <3>1, <3>2, <3>4 DEF RegularInv
    <3> QED
      BY <2>3, <3>1, <3>3, <3>4 DEF ComparedPiper
  <2> QED
    BY <1>2, <2>1, <2>2, <2>3
<1>5. \A c \in known' \ news' : ~draft'[c].new =>
        /\ noticed'[c] <= 1
        /\ (\E s \in StampedStreams[c] : sample[s] = 0) => noticed'[c] = 0
  <2>1. SUFFICES ASSUME NEW c \in known' \ news', ~draft'[c].new, c # b
                 PROVE  /\ noticed'[c] <= 1
                        /\ (\E s \in StampedStreams[c] : sample[s] = 0) => noticed'[c] = 0
    BY <1>4
  <2>2. c \in Bus
    BY <1>3, Numbers
  <2> QED
    BY <1>1, <1>3, <2>1, <2>2 DEF RegularInv
<1>6. draft'["piper"].open /\ ~draft'["piper"].new /\ "piper" \in world'.stamped =>
        "piper" \in known' /\ noticed'["piper"] <= 1
  <2>1. b # "piper" => ("piper" \in known => "piper" \in known')
    BY <1>2 DEF WithoutStamps, ComparedD1, Compared
  <2> QED
    BY <1>1, <1>3, <2>1, BusStreams DEF RegularInv
<1>7. \A c \in Bus : /\ box'[c].valid => box'[c].stamp <= 2
                     /\ c \in polled' => box'[c].valid /\ box'[c].stamp <= 1
                     /\ phase' # "gate" => box'[c].valid
  <2>1. box'[b].stamp <= 2
    <3>1. box'[b].stamp \in Nat
      BY FinishFacts, Limits DEF Snapshot, StampAge
    <3> QED
      BY <1>4, <3>1
  <2> QED
    BY <1>1, <1>4, <2>1 DEF RegularInv
<1>8. Late' = Late
  BY <1>1 DEF Late
<1> QED
  BY <1>1, <1>3, <1>5, <1>6, <1>7, <1>8 DEF RegularInv

LEMMA RegularArriveStep ==
  ASSUME TypeOK, RegularInv, NEW z \in AllStreams, Arrive(z)
  PROVE  RegularInv'
<1>1. /\ UNCHANGED <<world, known, noticed, draft, box, polled, idle, phase, fault>>
      /\ \A s \in AllStreams : sample'[s] = IF s = z THEN 0 ELSE sample[s]
      /\ \A b \in world.stamped : z \in StampedStreams[b] => b \in news'
      /\ news \subseteq news'
  BY ArriveFacts
<1>2. \A s \in AllStreams : sample'[s] <= 1
  BY <1>1 DEF RegularInv
<1>3. ASSUME NEW c \in known' \ news', ~draft'[c].new
      PROVE  /\ noticed'[c] <= 1
             /\ (\E s \in StampedStreams[c] : sample'[s] = 0) => noticed'[c] = 0
  <2>1. c \in known \ news /\ c \in Bus /\ z \notin StampedStreams[c] /\ ~draft[c].new
    BY <1>1, <1>3, Numbers DEF RegularInv
  <2>2. \A s \in StampedStreams[c] : sample'[s] = sample[s]
    BY <1>1, <2>1, BusStreams
  <2> QED
    BY <1>1, <2>1, <2>2 DEF RegularInv
<1>4. Late' = Late
  BY <1>1 DEF Late
<1> QED
  BY <1>1, <1>2, <1>3, <1>4 DEF RegularInv

LEMMA RegularCheckStep ==
  ASSUME TypeOK, RegularInv, TimeoutsTolerate, Check
  PROVE  RegularInv'
<1>1. UNCHANGED <<world, sample, news, known, noticed, draft, box, polled>>
  BY CheckFacts
<1>2. MergedValid => ~Stale
  <2>1. SUFFICES ASSUME MergedValid PROVE ~Stale
    OBVIOUS
  <2>2. box["d1"].stamp <= 2 /\ box["piper"].stamp <= 2
    BY <2>1, BusStreams DEF MergedValid, RegularInv
  <2>3. box["d1"].stamp \in Nat /\ box["piper"].stamp \in Nat
    BY Numbers, BusStreams DEF Ages
  <2> QED
    BY <2>2, <2>3, Limits DEF Stale, MergedStamp, Larger, TimeoutsTolerate
<1>3. phase # "gate" => MergedValid
  BY BusStreams DEF RegularInv, MergedValid
<1>4. ~fault' /\ (phase' # "gate" => MergedValid)
  BY <1>2, <1>3 DEF Check, GateCheck, PolicyCheck, CommandCheck, RegularInv
<1>5. ~Late'
  <2>1. idle' = idle \/ idle' = 0
    BY CheckFacts
  <2> QED
    BY <2>1, Limits DEF RegularInv, Late
<1>6. \A b \in Bus : phase' # "gate" => box[b].valid
  BY <1>4 DEF MergedValid, Bus
<1> QED
  BY <1>1, <1>4, <1>5, <1>6 DEF RegularInv

LEMMA RegularAdvanceStep ==
  ASSUME TypeOK, RegularInv, world.irregular = {}, Advance
  PROVE  RegularInv'
<1>1. /\ UNCHANGED <<world, known, phase, fault>> /\ polled' = {}
      /\ \A s \in AllStreams : sample[s] = 0
      /\ \A b \in Bus : b \in polled /\ ~draft[b].open
      /\ phase = "loop" => idle < CommandTimeout
      /\ idle' = IF phase = "loop" THEN Older(idle, CommandTimeout) ELSE idle
      /\ news' = news \cup {b \in world.stamped : StampedStreams[b] \cap world.steady # {}}
  BY DEF Advance
<1>2. \A s \in AllStreams : /\ sample'[s] <= 1
                            /\ s \notin world.steady => sample'[s] = 1
  <2>1. SUFFICES ASSUME NEW s \in AllStreams
                 PROVE  sample'[s] <= 1 /\ (s \notin world.steady => sample'[s] = 1)
    OBVIOUS
  <2>2. sample[s] = 0 /\ Older(0, DataLimit) = 1
    BY <1>1, Limits DEF Older
  <2>3. sample'[s] = 0 \/ sample'[s] = 1
    BY <2>2, AdvanceFacts
  <2> QED
    BY <2>2, <2>3, AdvanceFacts
<1>3. \A b \in Bus :
        /\ draft'[b].open = draft[b].open /\ draft'[b].new = draft[b].new
        /\ draft'[b].timely = draft[b].timely
        /\ box'[b].valid = box[b].valid
        /\ noticed'[b] = Older(noticed[b], StampLimit)
        /\ box'[b].stamp = Older(box[b].stamp, StampLimit)
  BY AdvanceFacts
<1>4. ASSUME NEW c \in known' \ news', ~draft'[c].new
      PROVE  /\ noticed'[c] <= 1
             /\ (\E s \in StampedStreams[c] : sample'[s] = 0) => noticed'[c] = 0
  <2>1. /\ c \in known \ news /\ c \in Bus /\ c \in world.stamped /\ ~draft[c].new
        /\ StampedStreams[c] \cap world.steady = {}
    BY <1>1, <1>3, <1>4, Numbers DEF RegularInv
  <2>2. \A s \in StampedStreams[c] : sample'[s] = 1
    BY <1>2, <2>1, BusStreams
  <2>3. noticed[c] = 0
    BY <1>1, <2>1, BusStreams DEF RegularInv
  <2>4. noticed'[c] = 1
    BY <1>3, <2>1, <2>3, Limits DEF Older
  <2> QED
    BY <2>2, <2>4
<1>5. ASSUME NEW b \in Bus
      PROVE  box'[b].valid /\ box'[b].stamp <= 2
  <2>1. box[b].valid /\ box[b].stamp <= 1
    BY <1>1 DEF RegularInv
  <2>2. /\ box[b].stamp \in 0 .. StampLimit + 1
        /\ box[b].stamp \in Nat /\ Older(box[b].stamp, StampLimit) \in Nat
        /\ Older(box[b].stamp, StampLimit) <= box[b].stamp + 1
    BY OlderAge, Limits DEF TypeOK, Snapshot, StampAge
  <2> QED
    BY <1>3, <2>1, <2>2
<1>6. ~Late'
  <2>1. idle \in Nat
    BY Numbers
  <2> QED
    BY <1>1, <2>1, Limits DEF RegularInv, Late, Older
<1>7. \A b \in Bus : ~draft'[b].open /\ ~draft'[b].new
  BY <1>1, <1>3 DEF RegularInv
<1> QED
  BY <1>1, <1>2, <1>4, <1>5, <1>6, <1>7, BusStreams DEF RegularInv

\* Regular feedback never trips the latch, if the timeouts leave its readers the
\* instants they take (check_state, the two read functions, limit_command).
THEOREM RegularFeedbackRuns ==
  ASSUME TimeoutsTolerate
  PROVE  Spec => []NoFalseTrip
<1> DEFINE Regular == world.irregular = {} => RegularInv
<1>1. Init => Regular
  <2>1. SUFFICES ASSUME Init, world.irregular = {} PROVE RegularInv
    OBVIOUS
  <2>2. \A s \in AllStreams : sample[s] = 0
    BY <2>1 DEF Init
  <2>3. \A b \in Bus : ~box[b].valid /\ ~draft[b].open /\ ~draft[b].new
    BY <2>1 DEF Init, NoDraft
  <2>4. ~Late
    BY <2>1, Limits DEF Init, Late
  <2> QED
    BY <2>1, <2>2, <2>3, <2>4, BusStreams DEF Init, RegularInv
<1>2. FeedbackInv /\ Regular /\ [Next]_vars => Regular'
  <2>1. SUFFICES ASSUME TypeOK, PhaseInv, Regular, [Next]_vars, world'.irregular = {}
                 PROVE  RegularInv'
    BY DEF FeedbackInv
  <2>2. world.irregular = {} /\ RegularInv
    BY <2>1 DEF Next, Arrive, Begin, Finish, Check, Advance, Halted, vars
  <2>3. CASE UNCHANGED vars
    BY <2>2, <2>3 DEF vars, streamVars, backendVars, runtimeVars, RegularInv, Late
  <2>4. CASE Next
    BY <2>1, <2>2, <2>3, <2>4, TimeoutsTolerate, RegularArriveStep, RegularBeginStep,
       RegularFinishStep, RegularCheckStep, RegularAdvanceStep DEF Next, Halted
  <2> QED
    BY <2>1, <2>3, <2>4
<1>3. Regular => NoFalseTrip
  BY DEF RegularInv, NoFalseTrip
<1> HIDE DEF Regular
<1> QED
  BY <1>1, <1>2, <1>3, AgesInductive, PTL DEF Spec
=============================================================================
