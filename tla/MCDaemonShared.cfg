SPECIFICATION Spec
CONSTANTS
  c1 = c1
  c2 = c2
  NoClient = NoClient
  Clients <- MCClients
  SingleConfigs <- TunerConfigs
  DualConfigs = {}
  Commands <- SharedCommands
  Faults = {"write", "stream", "drain", "update", "create", "signal"}
CHECK_DEADLOCK FALSE
SYMMETRY Symmetry
INVARIANTS SessionsExclusive MasterHasReceiver
 
