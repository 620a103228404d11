CONSTANTS
  Empty = Empty
  Deleted = Deleted
  Absent = Absent
  NotFound = NotFound
  NoLine = NoLine
  v = v
  w = w
  Mode = "put-delete-scan"
  Letters = 2
  KeyLength = 3
  RangeLimit = 2
  Values = {v, w}
SPECIFICATION Spec
SYMMETRY ValuesSymmetry
INVARIANTS TypeOK GeneratorAgrees StopsAtTombstones ScanIsExact
CHECK_DEADLOCK FALSE
