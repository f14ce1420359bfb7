SPECIFICATION FairSpec
CONSTANTS
  N = 2
  Conns = {c1}
  Faults = {"build"}
  MaxRetries = 0
PROPERTIES
  BuildFailureExits
CHECK_DEADLOCK FALSE
