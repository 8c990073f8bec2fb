SPECIFICATION Spec
CONSTANTS
  s1 = s1  s2 = s2  c1 = c1  c2 = c2  a = a  b = b
  Slots = {s1, s2}
  Rows = {1, 2}
  Codes = {a, b}
  Handlers = {"h", "k"}
  Operators = {1, 2}
  Clients = {c1, c2}
  Viewers = {v1}
  Admin = root
  SandboxLimit = 1
  MaxViewers = 1
  Second = 3
  MaxClock = 5
  MaxRequests = 3
  NoOne = NoOne  NoRow = NoRow
SYMMETRY Symmetry
INVARIANTS TypeOK VisibleLegsWereEarned
PROPERTIES GrantsWithinOwnership
CHECK_DEADLOCK FALSE
