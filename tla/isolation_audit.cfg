SPECIFICATION IsolationSpec
CONSTANTS
  Workspaces = {w1, w2}
  NoWorkspace = NoWorkspace
  Connections = {x1, x2}
  Roles = {"subject"}
CHECK_DEADLOCK FALSE
INVARIANTS
  RejectionsRecorded
