SPECIFICATION Spec
CONSTANTS
  Workers = {w1, w2}
  Requests = {r1, r2}
  Peers = {p1}
  Buckets = {b1}
  p1 = p1
  p2 = p2
  b1 = b1
  b2 = b2
  PeerTimeout = 1
  Payloads = {"Gz"}
  Unidentified = {}
  MaxTime = 2
  Nobody = Nobody
  NoRecord = NoRecord
  NoInstant = NoInstant
  NoKind = NoKind
  BucketOf <- OneBucket
  Config <- SoftOnly
  Headers <- NoHeader
PROPERTIES
  ResetsAfterIdle
CHECK_DEADLOCK FALSE
