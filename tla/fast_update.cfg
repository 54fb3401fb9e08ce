SPECIFICATION Spec
CONSTANTS
  Duration = 6
  MinRemaining = 5
  MergeLimit = 1
  VerifyLimit = 2
  RoundLimit = 3
  HelperLimit = 1
  Heads = {1, 2, 3}
  SeveralFiles = {1}
  OtherContent = {3}
  MaxCommits = 1
  MaxFaults = 2
INVARIANTS MergedIsVetted CoveredRounds VerifiedStands
PROPERTIES ReadyIsMerged
CHECK_DEADLOCK FALSE
