CONSTANTS
  Tuners = {1, 2}
  Categories = {1, 2}
  Modulus = 8
  Samples = {2, 7}
  Periods = {0, 3}
  LongIdle = FALSE
  Horizon = 10
  MaxSkew = 2
  MaxCalls = 3
SPECIFICATION Spec
CHECK_DEADLOCK FALSE
INVARIANT WaitsForBoundary
PROPERTY NeitherEarly
