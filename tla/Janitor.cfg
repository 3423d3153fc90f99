SPECIFICATION FairSpec
CONSTANTS
  s1 = s1
  s2 = s2
  Objects = {1, 2, 3, 4}
  Scopes = {s1, s2}
  ScopeOf <- CrossedScopes
  Jobs = {j1, j2}
  BatchLimit = 2
  MaxFailures = 1
  Nobody = nobody
INVARIANTS
  TypeOK
  SlotsAreExact
  RowsHeldOnce
PROPERTIES
  BacklogDrains
