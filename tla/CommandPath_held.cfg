SPECIFICATION Spec
CONSTANTS
  Setups <- TopicsSetup
  FileTimeout = 6
  TopicTimeout = 1
  Heartbeat = 2
  MaxKeys = 2
INVARIANTS VelocityHeld
