CONSTANTS
  Launches <- PlainSend
  Readings = {"ok", "bad"}
  Hanging = {}
SPECIFICATION FairSpec
PROPERTIES
  StopReleasesBuses
  LaunchDecides
INVARIANTS
  OnlyLocksBlock
