SPECIFICATION MCSpec
CONSTANTS
  Workspaces = {w1}
  Keys = {k1, k2, k3}
  Calls = {c1, c2, c3, c4}
  Limit = 1
  MaxInFlight = 2
  NoAddress = NoAddress
  Wallets = {a1, a2}
  Workers = {p1, p2}
  MaxBlock = 2
  MaxMessages = 1
SYMMETRY Symmetry
CHECK_DEADLOCK FALSE
INVARIANTS
  WalletsHaveKeys
  OrphansExplained
  ExcessBounded
  SnapshotIsNewest
PROPERTIES
  Idempotent
