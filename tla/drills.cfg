SPECIFICATION DrillSpec
CONSTANTS
  Scripts = {"radarr", "pds", "original", "grimmory", "bazarr", "fence"}
  NoSweep = NoSweep
  MaxFaults = 3
INVARIANTS
  NothingLeft
  ReceiptHonest
  BootsAlone
  MountsExist
CHECK_DEADLOCK FALSE
