SPECIFICATION Spec
CONSTANTS
  Roles = {"single", "dual", "master"}
  Faults = {"lost", "recovery"}
  MaxCalls = 4
INVARIANTS
  ResourcesMatch
  BuffersOutliveStream
  
  FailedCallKeeps
PROPERTY CallsReturn
CHECK_DEADLOCK FALSE
