CONSTANTS
  RingSize = 100
  Durations = {999, 1000, 9500}
  Usual = 1000
  MaxRecords = 104
  UnusualAt = {1, 2, 100, 101, 102}
  MaxLag = 2
SPECIFICATION Spec
INVARIANTS TypeOK RingHoldsLatest PercentilesOfAMoment
CHECK_DEADLOCK FALSE
