CONSTANTS
  a = a
  b = b
  c = c
  Deleted = Deleted
  NoEntry = NoEntry
  Partial = Partial
  NoWrite = NoWrite
  Keys = {1}
  Values = {a}
  KeyRoundTrip <- KeysSurvive
  RoundTrip <- AllSurviveJSON
  TooLong = {}
  MaxMemtableEntries = 1
  MaxOperations = 1
  Journaled = FALSE
  MaxSSTableID = 2
  MaxLogLength = 2
  MaxOperationCount = 2
SPECIFICATION Spec
INVARIANT ListedTablesReadable
