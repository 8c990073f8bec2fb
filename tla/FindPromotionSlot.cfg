SPECIFICATION Spec
CONSTANTS
  s1 = s1  s2 = s2  c1 = c1  c2 = c2  a = a  b = b
  Slots = {s1}
  Rows = {1, 2, 3}
  Codes = {a, b}
  Handlers = {"h"}
  Operators = {1, 2}
  Clients = {c1}
  Viewers = {v1}
  Admin = root
  SandboxLimit = 1
  MaxViewers = 1
  Second = 3
  MaxClock = 3
  MaxRequests = 3
  NoOne = NoOne  NoRow = NoRow
INVARIANTS PromotionFreesSlot
CHECK_DEADLOCK FALSE
