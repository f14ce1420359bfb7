SPECIFICATION FairSpec
CONSTANTS
  N = 2
  Conns = {c1}
  Faults = {"telemetry"}
  MaxRetries = 0
PROPERTIES
  TelemetryFailureExits
CHECK_DEADLOCK FALSE
