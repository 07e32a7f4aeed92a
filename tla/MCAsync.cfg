SPECIFICATION AsyncFairSpec
CONSTANTS
  N = 2
  DrainPasses = 2
  Faults <- AllFaults
INVARIANTS
  FreedOnlyWhenReturned
  
PROPERTY
  CancelEndsStream
CHECK_DEADLOCK FALSE
