SPECIFICATION FairSpec
CONSTANTS
  Setups <- LostSetups
  FileTimeout = 6
  TopicTimeout = 1
  Heartbeat = 2
  MaxKeys = 2
PROPERTIES LostOperatorStops
