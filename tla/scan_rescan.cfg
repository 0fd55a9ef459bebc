SPECIFICATION Spec
CONSTANTS
  Workers = {w1, w2}
  Deployed = 1
  Mints = {1, 2, 3}
  Refusals = {{}}
  SliceBlocks = 2
  Codes = {}
  MaxHead = 3
  MaxRequests = 2
  MaxCrashes = 0
  MaxErrors = 0
CHECK_DEADLOCK FALSE
INVARIANTS
  CompletedIsShown
