CONSTANTS
  a = a
  b = b
  c = c
  Deleted = Deleted
  NoEntry = NoEntry
  Partial = Partial
  NoWrite = NoWrite
  Keys = {1, 2}
  Values = {a}
  KeyRoundTrip <- KeysSurvive
  RoundTrip <- AllSurviveJSON
  TooLong = {}
  MaxMemtableEntries = 1
  MaxOperations = 2
  Journaled = TRUE
  MaxSSTableID = 2
  MaxLogLength = 2
  MaxOperationCount = 1
SPECIFICATION Spec
INVARIANTS TypeOK NegativeCacheSound ListedTablesReadable FreshIDs DirectoryConsistent AckedWritesDurable
PROPERTY MaintenanceInvisible
