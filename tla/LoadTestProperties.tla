------------------------- MODULE LoadTestProperties -------------------------
(***************************************************************************)
(* What the load test relies on.                                           *)
(***************************************************************************)
EXTENDS LoadTest

Line ==
  [method : {"GET"}, key : Keys, expected : Values \cup {NotFound}]
    \cup [method : {"PUT"}, key : Keys, value : Values]
    \cup [method : {"DELETE"}, key : Keys]

Scan ==
  [method : {"SCAN"}, from : Keys, to : Seq(1 .. Letters), keys : Seq(Keys)]

ASSUME NoLineAssumption == NoLine \notin Line \cup Scan

\* Types: the generator writes lines the client can read.
TypeOK ==
  /\ state \in [Keys -> Values \cup {Absent}]
  /\ store \in [Keys -> Values \cup {Deleted, Absent}]
  /\ line \in Line \cup Scan \cup {NoLine}
  /\ line \in Scan => Len(line.keys) <= RangeLimit
  /\ client \in {"waiting", "running", "stopped"}

\* Between two lines the generator's map is what the server has stored, so that
\* every answer it writes down is the right one (gen/main.go:65-205).
GeneratorAgrees ==
  client # "waiting" /\ line = NoLine =>
    \A k \in Keys : state[k] = IF store[k] = Deleted THEN Absent ELSE store[k]

\* The client stops for one reason only: the server does not answer 404 for a key
\* whose tombstone it still has (client/main.go:158-210, get_value.go:86).
StopsAtTombstones ==
  client = "stopped" => store[line.key] = Deleted /\ line.expected = NotFound

\* The keys a SCAN lists are those of the range it names, by the definition of
\* rangeKeys, although to is computed from the last of them and may be shorter
\* or longer than a key (gen/main.go:248-298).
RangeKeys(from, to) == {k \in Known : NotBefore(k, from) /\ Before(k, to)}

ScanIsExact ==
  line # NoLine /\ line.method = "SCAN" =>
    /\ Range(line.keys) = RangeKeys(line.from, line.to)
    /\ \A i \in 1 .. Len(line.keys) - 1 : Before(line.keys[i], line.keys[i + 1])
=============================================================================
