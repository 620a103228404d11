CONSTANTS
  a = a
  b = b
  c = c
  Deleted = Deleted
  NoEntry = NoEntry
  Partial = Partial
  NoWrite = NoWrite
  Keys = {0, 1, 2}
  Values = {a, b, c}
  KeyRoundTrip <- BadKeyReplaced
  RoundTrip <- BadUTF8Replaced
  TooLong = {}
  MaxMemtableEntries = 3
  MaxOperations = 3
  Journaled = TRUE
  MaxSSTableID = 2
  MaxLogLength = 2
  MaxOperationCount = 2
SPECIFICATION Spec
INVARIANT AckedWritesRestored
