SPECIFICATION Spec
SYMMETRY Symmetry
CONSTANTS
  u1 = u1  u2 = u2  s1 = s1  s2 = s2  j1 = j1
  Clients = {u1, u2}
  Shortcodes = {s1, s2}
  Exports = {j1}
  Ttl = 2
  MaxClock = 4
  MaxHandOvers = 2
  NoOne = NoOne
INVARIANTS TypeOK ReachIsEarned
CHECK_DEADLOCK FALSE
