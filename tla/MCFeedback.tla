----------------------------- MODULE MCFeedback -----------------------------
(* Instances of Feedback for TLC *)
EXTENDS Feedback

World(irregular, steady, stamped) ==
  [irregular |-> irregular, steady |-> steady, stamped |-> stamped]

\* Everything regular, with stamps and without; or one bus's streams, its reader
\* and the loop irregular while the other bus is steady.
OneBus ==
  { World({}, {}, Bus),
    World({}, {}, {}),
    World({"loop", "d1", "imu"}, AllStreams \ {"imu"}, {"d1"}),
    World({"loop", "d1", "legs"}, AllStreams \ {"legs"}, {}),
    World({"loop", "piper"} \cup PiperStreams, D1Streams, {"piper"}) }

\* One of Piper's streams alone may pause.
OneStream == { World({"joints"}, AllStreams \ {"joints"}, Bus) }
=============================================================================
