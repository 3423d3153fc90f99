SPECIFICATION Spec
CONSTANTS
  a = a
  b = b
  x = x
  y = y
  Names = {a, b}
  Paths <- RootPath
  Chunks = {x}
  Inputs <- OneByte
  Keys = {k1, k2, k3}
  Retention = 2
  Ttl = 2
  MaxDocumentBytes = 2
  MaxScopeBytes = 3
  MaxDocuments = 2
  MaxPhysicalObjects = 4
  MaxVersions = 3
  BatchLimit = 1
  ObjectBound = 4
  VersionBound = 5
  TimeBound = 5
SYMMETRY KeySymmetry
INVARIANTS
  HistoryShape
  KeyRecords
PROPERTIES
  HistoryNeverReturns
  NothingLostEarly
  KeyAppliesOncePerTtl
