SPECIFICATION WireSpec
CONSTANTS
  reportSize = 8
  maxContinuationPackets = 6
  Byte = 4
  Own = 1
  Other = 2
  command = 144
  hidCommandKeepalive = 187
  hidCommandError = 191
  Payloads <- FittingPayloads
  MaxKeepalives = 1
  maxChunkSize = 2
  mtu = 3
  maxTotal = 4
  pieceSize = 2
  channel = 1
  cmd = 144
  ann = ann
  bob = bob
  Callers = {ann, bob}
  Nobody = Nobody
  Lengths = {0, 2, 4, 5}
  maxFailures = 1
  Readers = {r1, r2}
  Users = {ann, bob}
  Free = Free
  Fragments <- MCFragments
  maxFragments = 4
  MaxReportSize = 2
  maxUsages = 1
  maxDepth = 2
  maxCollections = 3
INVARIANTS
  ReadsItsAnswer
  AnswerIsOwn
  NothingHeld
  ReadingsAgree
  SupportedAreUnambiguous
