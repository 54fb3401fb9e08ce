SPECIFICATION Spec
CONSTANTS
  OldRuns = {1, 2}
  RecentRuns = {3, 4}
  PageSize = 1
  RecentLimit = 3
  MaxActive = 2
  MinRemaining = 1
  Heads = {1, 2}
  Quota = 9
  MaxOthers = 1
  MaxMoves = 2
  MaxPushes = 3
INVARIANTS
  ActiveCounted
  QuotaReserve
  CandidateGreen
CHECK_DEADLOCK FALSE
