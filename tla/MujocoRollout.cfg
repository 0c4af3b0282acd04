SPECIFICATION Spec
CONSTANTS
  Launches <- MCLaunches
  HistoryLen = 3
  MaxDelay = 4
INVARIANTS
  ArmDelayExact
  HistoryAligned
  ReplayInOrder
  TraceAligned
  RawOnlyInDump
