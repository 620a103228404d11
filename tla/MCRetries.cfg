CONSTANTS
  a = a
  b = b
  c = c
  Deleted = Deleted
  NoEntry = NoEntry
  Partial = Partial
  NoWrite = NoWrite
  Keys = {1}
  Values = {a, b}
  KeyRoundTrip <- KeysSurvive
  RoundTrip <- AllSurviveJSON
  TooLong = {}
  MaxMemtableEntries = 1
  MaxOperations = 1
  Journaled = TRUE
  MaxSSTableID = 3
  MaxLogLength = 0
  MaxOperationCount = 1
SPECIFICATION FairSpec
INVARIANTS OnlyTheDiskFails AckedWritesDurable
PROPERTIES MaintenanceInvisible ImplementsKVStore CallsReturn
