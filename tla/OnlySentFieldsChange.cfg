SPECIFICATION Spec
CONSTANTS
  h1 = h1
  h2 = h2
  h3 = h3
  w1 = w1
  w2 = w2
  w3 = w3
  d1 = d1
  d2 = d2
  p1 = p1
  p2 = p2
  NoUnit = NoUnit
  NoRequest = NoRequest
  NoTransfer = NoTransfer
  NoPatch = NoPatch
  Households = {h1, h2}
  Units = {w1, w2, w3, d1, d2, p1, p2}
  Ward <- MCWard
  District <- MCDistrict
  Province <- MCProvince
  Citizens = {c1}
  Requests = {r1}
  Officers <- MCOfficers
  Admins = {a1}
  Editors = {e1}
  Patches <- MCPatches
  SeedHouseholds = {h1, h2}
  SeedMembers <- MCSeedMembers
  SeedAddress <- MCSeedAddress
  MaxMoves = 2
PROPERTIES
  OnlySentFieldsChange
CHECK_DEADLOCK FALSE
