SPECIFICATION Spec
CONSTANTS
  Capacity = 2
  Posts = {"DeviceRemoved", "DeviceFailure", "GainChange", "RspDuoModeChange"}
  MaxPosts = 4
CHECK_DEADLOCK FALSE
INVARIANT SilentAfterUninit
PROPERTIES FailureHeard WaitsReturn
