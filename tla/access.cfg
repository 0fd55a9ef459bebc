SPECIFICATION Spec
CONSTANTS
  o1 = o1  o2 = o2  u1 = u1
  People <- OwnersAndOne
  Owners <- TwoOwners
  Askers = {u1}
  Handlers = {h1, h2}
  MaxRequests = 2
  MaxCards = 2
  MaxCommands = 1
  MaxClock = 2
SYMMETRY Symmetry
INVARIANTS
  OnePendingRequest
  AccessConsistent
  AuditExplainsRequests
  ConfirmedOnce
PROPERTIES
  DecisionsFinal
  RevokedStayOut
