SPECIFICATION Spec
CONSTANTS
  Tokens = {t1, t2, t3}
  Calls = {c1, c2}
  Admins = {a1}
  Scopes = {s1, s2}
  Passwords = {p1, p2}
  NoToken = NoToken
  NoSession = NoSession
  SeedScope = s1
  SeedPassword = p1
SYMMETRY MCSymmetry
INVARIANTS
  TypeOK
  RotationRetiresTheParent
  OneSuccessorUnlessRaced
  SealedAccountHasNoStaleSession
PROPERTIES
  SpentTokensStaySpent
CHECK_DEADLOCK FALSE
