CONSTANTS
  Empty = Empty
  Absent = Absent
  NoWrite = NoWrite
  Nobody = Nobody
  NoKey = NoKey
  c1 = c1
  c2 = c2
  v = v
  Connections = {c1, c2}
  Keys = {1}
  Values = {v}
SPECIFICATION FairSpec
INVARIANTS TypeOK StoreHasOneCaller
PROPERTIES ImplementsKVService MetricsAnswered AnsweredIfBodiesArrive ShutdownEnds
