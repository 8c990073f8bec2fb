SPECIFICATION Spec
CONSTANTS
  u1 = u1  u2 = u2  u3 = u3
  b1 = b1  b2 = b2
  Users = {u1, u2, u3}
  Casts <- MCCasts
  Browsers = {b1, b2}
  Tokens = {t1, t2}
  GivenRoles = {"super_admin", "auditor"}
  People <- MCPeople
  MaxFailures = 1
  MaxRequests = 3
  NoUser = NoUser  NoToken = NoToken  NoOne = NoOne
INVARIANTS TypeOK LastAdminKept SessionsFollowCredentials WritesAreOwn NavigationOpens
  LinksDieTogether
PROPERTIES ChangeProvesCurrent RequestsEnd
CHECK_DEADLOCK FALSE
