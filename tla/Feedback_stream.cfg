SPECIFICATION Spec
CONSTANTS
  PiperStreams = {"joints", "motor1"}
  FeedbackTimeout = 1
  StateTimeout = 2
  CommandTimeout = 2
  VendorTimeout = 5
  Worlds <- OneStream
INVARIANTS OldStreamStops
