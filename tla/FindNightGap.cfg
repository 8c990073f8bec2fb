SPECIFICATION Spec
CONSTANTS
  u = u
  v = v
  a = a
  b = b
  Sessions = {u, v}
  Shortcodes = {a, b}
  Windows = {0, 1}
  Second = 3
  DayLength = 6
  Eat = 3
  Due = 2
  Pad = 3
  DetailPad = 3
  MaxLegs = 2
  MaxClock = 14
  Instants = {0, 3, 4, 6, 8, 14}
  Punctual = TRUE
  NoSession = NoSession
  Null = Null
INVARIANT CountNeverUnderReports
CHECK_DEADLOCK FALSE
