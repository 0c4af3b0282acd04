-------------------------- MODULE MCMujocoRollout --------------------------
(* Instances of MujocoRollout for TLC *)
EXTENDS MujocoRollout

NoActions == [given |-> FALSE, width |-> "other", header |-> FALSE,
              ordered |-> FALSE, finite |-> FALSE, rows |-> 0]
ActionFiles ==
  {NoActions}
  \cup {[given |-> TRUE, width |-> "timed", header |-> FALSE, ordered |-> o,
         finite |-> TRUE, rows |-> r] : o \in BOOLEAN, r \in {0, 2, 5}}

\* A row every d / n physics steps.
RowsPerStep(n, d) == [num |-> n, den |-> d]
NoRate == RowsPerStep(0, 1)

NoCommands == [given |-> FALSE, finite |-> FALSE, rows |-> 0, rate |-> NoRate]
CommandTraces ==
  {NoCommands}
  \cup {[given |-> TRUE, finite |-> TRUE, rows |-> 3, rate |-> r] :
        r \in {NoRate, RowsPerStep(1, 3), RowsPerStep(2, 5)}}

\* Delays up to two steps, YAML and command line; 4 is the default decimation;
\* traces at the policy's rate, slower, faster and at rates that do not divide.
MCLaunches ==
  {[config |-> c, delay |-> d, yamlDelay |-> 1, decimation |-> m,
    yamlDecimation |-> 3, steps |-> 10, actions |-> a, commands |-> k,
    rate |-> r, live |-> l, dump |-> u, mayStop |-> u] :
     c \in BOOLEAN, d \in {0, 2, 5}, m \in {2, 4}, a \in ActionFiles,
     k \in CommandTraces, l \in BOOLEAN, u \in BOOLEAN,
     r \in {RowsPerStep(1, 2), RowsPerStep(3, 4)}}
=============================================================================
