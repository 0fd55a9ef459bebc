SPECIFICATION Spec
CONSTANTS
  Workspaces = {w1}
  Keys = {k1, k2}
  Calls = {c1, c2}
  Limit = 1
  MaxInFlight = 2
  NoAddress = NoAddress
SYMMETRY Symmetry
CHECK_DEADLOCK FALSE
INVARIANTS
  WithinLimit
