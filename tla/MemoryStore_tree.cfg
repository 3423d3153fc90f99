SPECIFICATION Spec
CONSTANTS
  a = a
  b = b
  x = x
  y = y
  Names = {a, b}
  Paths <- TreePaths
  Chunks = {x}
  Inputs <- OneByte
  Keys = {k1}
  Retention = 1
  Ttl = 1
  MaxDocumentBytes = 2
  MaxScopeBytes = 3
  MaxDocuments = 2
  MaxPhysicalObjects = 5
  MaxVersions = 2
  BatchLimit = 1
  ObjectBound = 6
  VersionBound = 2
  TimeBound = 5
INVARIANTS
  TypeOK
  QuotaCounts
  QuotaBytes
  TreeShape
PROPERTIES
  ImplementsDocumentMap
