SPECIFICATION FairSpec
CONSTANTS
  Requests = {r1, r2}
  r1 = r1
  r2 = r2
  Arrivals <- OneAndOther
  Proxies <- ProxyAddresses
  Opaque = Opaque
  Nobody = Nobody
  NoId = NoId
  OpaqueId = OpaqueId
INVARIANTS
  WorkUnderOwnSpans
  PageWithinRequest
  IdsLeadToSpans
  PeerIsRemotestNamed
  ClientIsOnePeer
PROPERTY SpansClose
CHECK_DEADLOCK FALSE
