CONSTANTS
  Launches <- AllLaunches
  Readings = {"ok", "limit", "tilt", "bad"}
  Hanging = {}
SPECIFICATION Spec
INVARIANTS
  ActuationGated
  BoundedAfterStop
  DisarmBeforeRelease
  DriversClosedOnce
  FaultReachesExitStatus
  IInv
PROPERTIES
  FirstFaultKept
  LatchSilences
  PreparedBeforePolicy
  ContractSpec
