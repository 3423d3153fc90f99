SPECIFICATION ClientsSpec
CONSTANTS
  a = a
  x = x
  Names = {a}
  Paths <- RootPath
  Chunks = {x}
  Inputs <- OneText
  Keys = {c1, c2, other}
  Clients = {c1, c2}
  Retention = 1
  Ttl = 1
  MaxDocumentBytes = 2
  MaxScopeBytes = 3
  MaxDocuments = 1
  MaxPhysicalObjects = 3
  MaxVersions = 3
  BatchLimit = 1
  ObjectBound = 3
  VersionBound = 3
  TimeBound = 3
SYMMETRY ClientSymmetry
INVARIANTS
  OneWritePerVersion
