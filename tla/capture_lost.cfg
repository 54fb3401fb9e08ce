SPECIFICATION Spec
CONSTANTS
  Apps = {"viking"}
  p1 = p1
  Procs = {p1}
  Scheduled = p1
  None = None
  MaxFaults = 2
  MaxChanges = 0
INVARIANTS
  KeepsPriorComplete
