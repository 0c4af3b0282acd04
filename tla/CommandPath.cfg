SPECIFICATION Spec
CONSTANTS
  Setups <- AllSetups
  FileTimeout = 6
  TopicTimeout = 1
  Heartbeat = 2
  MaxKeys = 2
INVARIANTS SilenceInv DeadWriterStops VelocityFollows
