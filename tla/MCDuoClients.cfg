SPECIFICATION Spec
CONSTANTS
  Clients = {c1, c2, c3}
  NoClient = NoClient
  TunerArgs <- MCTunerArgs
  RateArgs <- MCRateArgs
INVARIANTS
  SessionConsistent
  RolesKnown
  PendingSlaveIsWoken
PROPERTY
  ImplementsLease
CHECK_DEADLOCK TRUE
