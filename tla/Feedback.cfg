SPECIFICATION Spec
CONSTANTS
  PiperStreams = {"joints"}
  FeedbackTimeout = 1
  StateTimeout = 2
  CommandTimeout = 2
  VendorTimeout = 5
  Worlds <- OneBus
INVARIANTS
  
  PiperDataBounded
  ImuDataBounded
  
  NoFalseTrip
