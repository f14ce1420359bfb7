SPECIFICATION FairSpec
CONSTANTS
  N = 3
  Conns = {c1, c2}
  Faults <- AllFaults
  MaxRetries = 2
INVARIANTS
  ExitIsQuiet
  OnlyOrphansCut
  StopsOnlyWhenTold
  TelemetryOutlivesMain
PROPERTIES
  ShutdownCompletes
  FailedStartExits
  WorkersServe
CHECK_DEADLOCK FALSE
