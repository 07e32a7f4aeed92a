CONSTANTS
  Slots = 2
  MaxRequests = 4
  MaxSends = 3
SPECIFICATION Spec
CHECK_DEADLOCK FALSE
INVARIANT EpochOrder
PROPERTIES ImplementsCalls FailureReported CloseReturns
