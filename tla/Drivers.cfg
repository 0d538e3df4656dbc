SPECIFICATION MCSpec
CONSTANTS
  maxReports = 3
  HID_QUEUE_SIZE = 2
  Attributes <- MCAttributes
  expected <- Key
INVARIANTS
  NativeEnds
  OpensThePinned
PROPERTIES
  Contract
  CallsReturn
