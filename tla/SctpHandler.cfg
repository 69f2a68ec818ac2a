CONSTANTS
  Handler = h
  Pollers = {p, q}
  MaxMessages = 4
  NoMessage = none
SPECIFICATION FairSpec
INVARIANTS OneOutstandingCall BufferHasOwner
PROPERTIES InOrder EventuallyDelivered FailureReported DestructorReturns
CHECK_DEADLOCK FALSE
