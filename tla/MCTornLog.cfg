CONSTANTS
  a = a
  b = b
  c = c
  Deleted = Deleted
  NoEntry = NoEntry
  Partial = Partial
  NoWrite = NoWrite
  Keys = {1}
  Values = {a, b}
  KeyRoundTrip <- KeysSurvive
  RoundTrip <- AllSurviveJSON
  TooLong <- BIsTooLong
  MaxMemtableEntries = 1
  MaxOperations = 2
  Journaled = TRUE
  MaxSSTableID = 2
  MaxLogLength = 2
  MaxOperationCount = 2
SPECIFICATION Spec
INVARIANT CanReopen
