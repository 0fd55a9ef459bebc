SPECIFICATION MCSpec
CONSTANTS
  Updates = {m1, m2}
  Deliveries = {d1, d2}
  MaxFailures = 2
  MaxDeaths = 1
  Calls = {c1, c2}
  UserLimit = 2
  WorkspaceLimit = 1
  Window = 2
  Ticks = 2
  MaxLost = 1
  Challenges = {h1}
  Presses = {p1, p2}
  SignerTasks = {s1, s2}
  TTL = 2
  MaxAge = 2
  Early = 1
  MaxSkew = 2
  MaxCopies = 2
  Workspaces = {w1, w2}
  NoWorkspace = NoWorkspace
  Connections = {x1, x2}
  Roles = {"subject", "exempt"}
CHECK_DEADLOCK FALSE
INVARIANTS
  EffectsExplained
  LostExplained
  BurstBounded
  RetryKept
  ExecutedOnce
  AdmittedToOwn
  OwnRowsReached
PROPERTIES
  UpdateHandledUnlessLost
  ConfirmedIsExecuted
