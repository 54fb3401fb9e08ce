SPECIFICATION Spec
CONSTANTS
  Clients = {1, 2}
  MaxHold = 2
  Minimum = 1
  MaxAcquires = 3
  MaxKills = 2
  MaxFaults = 1
INVARIANTS PromiseKept Undisturbed Exclusive
PROPERTIES WriterReturns
CHECK_DEADLOCK FALSE
