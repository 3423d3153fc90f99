SPECIFICATION ReadersSpec
CONSTANTS
  a = a
  b = b
  x = x
  Names = {a, b}
  Paths <- TwoPaths
  Chunks = {x}
  Inputs <- OneByte
  Keys = {k1}
  Retention = 1
  Ttl = 1
  MaxDocumentBytes = 2
  MaxScopeBytes = 4
  MaxDocuments = 2
  MaxPhysicalObjects = 5
  MaxVersions = 2
  BatchLimit = 1
  ObjectBound = 5
  VersionBound = 2
  TimeBound = 4
INVARIANTS
  IntegrityFailureMeansDamage
