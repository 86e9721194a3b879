SPECIFICATION PostSpec
CONSTANTS
  r1 = r1 r2 = r2 u1 = u1
  Tokens = {t1, t2}
  Calls = {c1, c2}
  Admins = {a1, a2}
  Scopes <- MCScopes
  Passwords = {p1}
  NoToken = NoToken
  NoSession = NoSession
  SeedScope <- MCSeedScope
  SeedPassword = p1
  Roles = {r1, r2}
  Units = {u1}
  Keep = Keep
  AccessTTL = 2
  MaxTime = 4
  MaxCalls = 4
  NoAccess = NoAccess
  Nothing = Nothing
  Posts = {i1, i2}
  Days = {1, 2, 3}
  NoPost = NoPost
  NoDay = 0
SYMMETRY MCSymmetry
INVARIANTS
  PostTypeOK
  LogoutLasts
  StalePowersEnd
  LockShutsOut
PROPERTIES
  HistoryIsSettled
  UnnamedRolesAreCurrent
CHECK_DEADLOCK FALSE
