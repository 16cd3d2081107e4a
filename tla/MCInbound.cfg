SPECIFICATION Spec
CONSTANTS
  MaxMessages = 3
  MaxBytes = 6
  MaxSeqNum = 3
INVARIANTS
  InboundTypeOK
  NothingWithheld
  NoticesGaps
PROPERTY
  ImplementsStream
CHECK_DEADLOCK FALSE
