SPECIFICATION Spec
CONSTANTS
  ann = ann
  bob = bob
  c1 = c1
  c2 = c2
  c3 = c3
  c4 = c4
  c5 = c5
  rp1 = rp1
  rp2 = rp2
  p1 = p1
  p2 = p2
  NoPin = NoPin
  Nobody = Nobody
  LongPin = LongPin
  NoCred = NoCred
  NoRp = NoRp
  Callers = {ann}
  Credentials = {c1, c2, c3, c4, c5}
  RpOf <- MCRpOf
  Requests <- VerifiedRequests
  Profiles <- MCProfiles
  maxRetries = 2
  maxFaults = 1
INVARIANTS
  RequiredIsVerified
