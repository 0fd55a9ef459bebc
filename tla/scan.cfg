SPECIFICATION FairSpec
CONSTANTS
  Workers = {w1, w2}
  Deployed = 1
  Mints = {1, 3}
  Refusals = {{}, {3}}
  SliceBlocks = 2
  Codes = {t1, t2}
  MaxHead = 3
  MaxRequests = 2
  MaxCrashes = 1
  MaxErrors = 1
CHECK_DEADLOCK FALSE
INVARIANTS
  NoGaps
  CompletedIsWhole
  StrandedExplained
  StatusShown
PROPERTIES
  NothingUndone
  ScanCompletes
  ShowsProgress
  WarningsKept
