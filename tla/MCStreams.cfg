SPECIFICATION Spec
CONSTANTS
  Capacity = 2
  FrameSamples = 2
  CallbackSamples = 1
  Modulus = 16
  Skips = {0, 1}
  Modes = {"single", "dual", "slave", "master"}
  Calls = {"start", "stop", "update", "swap_tuner", "swap_mode", "swap_rate"}
  MaxFrames = 3
  MaxCalls = 3
CHECK_DEADLOCK FALSE
INVARIANTS GapsMarked MappingKept PausedIsSilent
PROPERTY WaitsReturn
