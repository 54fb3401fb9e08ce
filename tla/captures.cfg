SPECIFICATION Spec
CONSTANTS
  Apps = {"stash", "tube", "viking", "metrics", "home"}
  p1 = p1
  p2 = p2
  Procs = {p1, p2}
  Scheduled = p1
  None = None
  MaxFaults = 2
  MaxChanges = 1
INVARIANTS
  AcceptedIsOneMoment
  PriorKept
  NothingLeftOpen
PROPERTIES
  RetriesPublish
