CONSTANTS
  a = a
  b = b
  c = c
  Deleted = Deleted
  NoEntry = NoEntry
  Empty = Empty
  Partial = Partial
  NoWrite = NoWrite
  Keys = {1}
  Values = {a}
  KeyRoundTrip <- KeysSurvive
  RoundTrip <- AllSurviveJSON
  TooLong = {}
  MaxMemtableEntries = 2
  MaxOperations = 2
  Journaled = TRUE
  MaxSSTableID = 2
  MaxLogLength = 2
  MaxOperationCount = 2
SPECIFICATION Spec
INVARIANT DeletedNotReturned
