CONSTANTS
  Launches <- PlainSend
  Readings = {"ok", "bad"}
  Hanging = {"d1"}
SPECIFICATION FairSpec
PROPERTIES
  PiperStopIndependent
CHECK_DEADLOCK FALSE
