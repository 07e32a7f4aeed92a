SPECIFICATION Spec
CONSTANTS
  Roles = {"single"}
  Faults = {}
  MaxCalls = 4
PROPERTY SwapKeepsAgc
CHECK_DEADLOCK FALSE
