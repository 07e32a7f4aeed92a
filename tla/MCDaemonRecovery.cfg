SPECIFICATION FairSpec
CONSTANTS
  c1 = c1
  c2 = c2
  NoClient = NoClient
  Clients <- MCClients
  SingleConfigs <- RetuneConfigs
  DualConfigs = {}
  Commands <- SingleCommands
  Faults = {"stream"}
  
PROPERTIES RecoveryRestarts
