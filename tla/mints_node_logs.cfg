SPECIFICATION Spec
CONSTANTS
  Positions <- MCPositions
  Forms <- MCNodeForms
  MaxRange = 2
CHECK_DEADLOCK FALSE
INVARIANTS
  NodeLogsRecorded
