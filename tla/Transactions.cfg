SPECIFICATION Spec
CONSTANTS
  h1 = h1 h2 = h2
  w1 = w1 w2 = w2
  d1 = d1 p1 = p1
  c1 = c1
  r1 = r1 r2 = r2
  k1 = k1 k2 = k2 k3 = k3
  Households = {h1, h2}
  Units = {w1, w2, d1, p1}
  NoUnit = NoUnit
  Ward <- MCWard
  District <- MCDistrict
  Province <- MCProvince
  Citizens = {c1}
  Requests = {r1, r2}
  Transfer <- MCTransfer
  Calls = {k1, k2, k3}
  Scenarios <- MCScenarios
  Seeds <- MCSeeds
  MaxOpenConns = 3
INVARIANTS
  TypeOK
  NoLostDecision
PROPERTIES
  StepsAreAtomic
  CallsEnd
CHECK_DEADLOCK FALSE
