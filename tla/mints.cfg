SPECIFICATION Spec
CONSTANTS
  Positions <- MCPositions
  Forms <- MCForms
  MaxRange = 2
CHECK_DEADLOCK FALSE
INVARIANTS
  RowsOfEvidence
  SupplyRecorded
PROPERTIES
  IdentityKept
