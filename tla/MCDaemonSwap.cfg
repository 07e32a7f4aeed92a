SPECIFICATION Spec
CONSTANTS
  c1 = c1
  c2 = c2
  NoClient = NoClient
  Clients <- MCClients
  SingleConfigs <- TunerConfigs
  DualConfigs <- BothConfigs
  Commands <- SwapCommands
  Faults = {"open", "absent", "configure", "stop", "stream", "drain", "close", "create", "signal"}
CHECK_DEADLOCK FALSE
SYMMETRY Symmetry
INVARIANTS StreamHasClient EndsClosed ModeMatchesHandle 
