SPECIFICATION MCSpec
CONSTANTS
  Start = 1
  End = 6
  MaximumChunk = 5
  DenseThreshold = 4
  Limit = 2
  MaxLogs = 6
  Finalized = 6
  FromBlock = 1
  ToBlock = 3
  Implementations = {i1, i2}
  None = None
  MaxEvents = 2
CHECK_DEADLOCK FALSE
INVARIANTS
  BoundaryFound
  HistoryFollowsSlot
PROPERTIES
  Contiguous
  ScanTerminates
  ServedScanCompletes
