SPECIFICATION Spec
CONSTANTS
  Workers = {w1, w2}
  Requests = {r1, r2, r3}
  Peers = {p1, p2}
  Buckets = {b1, b2}
  p1 = p1
  p2 = p2
  b1 = b1
  b2 = b2
  PeerTimeout = 1
  Payloads = {"Gz"}
  Unidentified = {}
  MaxTime = 2
  Nobody = Nobody
  NoRecord = NoRecord
  NoInstant = NoInstant
  NoKind = NoKind
  BucketOf <- TwoBuckets
  Config <- SoftHardSpicy
  Headers <- NoHeader
SYMMETRY Symmetry
INVARIANTS
  LocksReleasedOnAwait
  EntryMatchesTable
  CountsEveryVisit
  SweepForgetsStale
PROPERTIES
  ForgetsOnlyIdle
  PruneSpacing
CHECK_DEADLOCK FALSE
