SPECIFICATION ListSpec
CONSTANTS
  c1 = c1 c2 = c2 c3 = c3 c4 = c4 c5 = c5
  m1 = m1 m2 = m2 m3 = m3 m4 = m4
  p1 = p1 p2 = p2
  k1 = k1 k2 = k2 k3 = k3
  Citizens = {c1, c2, c3, c4, c5}
  Ids = {m1, m2, m3, m4}
  Places = {p1, p2}
  Mask <- MCMask
  Keep = Keep
  NoRow = NoRow
  SeedRows <- MCSeedRows
  Movers = {c1}
  Calls = {k1, k2, k3}
  Scenarios <- MCScenarios
  Queries <- MCQueries
  SeedLog <- MCSeedLog
  MaxPageSize = 3
  DefaultPageSize = 2
INVARIANTS
  TypeOK
  AuditIsTrue
  AuditReplays
  PagesMissNothing
PROPERTIES
  TwinsComeFromRaces
  DeletedIsFinal
  EveryUpdateIsAudited
CHECK_DEADLOCK FALSE
