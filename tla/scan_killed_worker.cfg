SPECIFICATION Spec
CONSTANTS
  Workers = {w1}
  Deployed = 1
  Mints = {1, 2, 3}
  Refusals = {{}}
  SliceBlocks = 2
  Codes = {}
  MaxHead = 3
  MaxRequests = 1
  MaxCrashes = 1
  MaxErrors = 0
CHECK_DEADLOCK FALSE
INVARIANTS
  EveryMintEnriched
