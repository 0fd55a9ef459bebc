SPECIFICATION FairSpec
CONSTANTS
  Handlers = {h1}
  Trackers = {t1, t2}
  Spans = {1}
  Codes = {c}
  MaxRequests = 2
  MaxFailures = 1
CHECK_DEADLOCK FALSE
INVARIANTS
  EndTold
  InStep
PROPERTIES
  ReportsAdvance
  TrackingEnds
