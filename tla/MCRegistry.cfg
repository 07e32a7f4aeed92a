SPECIFICATION Spec
CONSTANTS
  r1 = r1
  r2 = r2
  c1 = c1
  c2 = c2
  c3 = c3
  Receivers = {r1, r2}
  Serial <- MCSerial
  Callers = {c1, c2, c3}
  Process <- MCProcess
  Grace = 1
  MaxEvents = 3
  NoOne = NoOne
  Stray = Stray
INVARIANTS
  RightReceiver
  RemovalToldOnce
  LockExclusive
PROPERTIES
  RemovalTold
  LockReturns
