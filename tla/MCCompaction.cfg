CONSTANTS
  a = a
  b = b
  c = c
  Deleted = Deleted
  NoEntry = NoEntry
  Keys = {0, 1, 2}
  Values = {a}
  KeyRoundTrip <- KeysSurvive
  RoundTrip <- AllSurviveJSON
  TooLong = {}
  MaxMemtableEntries = 2
  MaxSSTables = 3
SPECIFICATION FairSpec
INVARIANTS TypeOK HeapIsFrontier OutputSorted MergeCorrect
PROPERTY MergeEnds
CHECK_DEADLOCK FALSE
