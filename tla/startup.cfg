SPECIFICATION Spec
CONSTANTS
  None = None
  MaxHold = 3
  Deadlines = {0, 2, 3, 4}
  Minimums = {1, 2}
  Starts = {s1, s2, s3, s4, s5}
  s1 = s1
  s2 = s2
  s3 = s3
  s4 = s4
  s5 = s5
  Clients <- AllClients
  FixtureHold = 3
  MaxSteps = 2
  MaxKills = 2
  MaxRollouts = 2
  MaxFaults = 1
INVARIANTS
  PromiseKept
  Undisturbed
  DeadlineHolds
  NoFalseAlarm
PROPERTIES
  WriterReturns
