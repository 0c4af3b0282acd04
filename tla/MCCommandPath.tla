--------------------------- MODULE MCCommandPath ---------------------------
(* Instances of CommandPath for TLC *)
EXTENDS CommandPath

Setup(w, c, d) == [writer |-> w, consumer |-> c, diskFails |-> d]

\* Every writer with every consumer it is meant for, and every disk.
AllSetups ==
  {Setup("keyboard", c, d) : c \in {"topics", "file", "runtime"}, d \in BOOLEAN}
  \cup {Setup("bridge", "runtime", d) : d \in BOOLEAN}

\* The repeated twist, the disk that fails, and a velocity held by topics.
BridgeSetup == {Setup("bridge", "runtime", FALSE)}
OrphanSetup == {Setup("keyboard", "file", TRUE)}
LostSetups == BridgeSetup \cup OrphanSetup
TopicsSetup == {Setup("keyboard", "topics", FALSE)}
=============================================================================
