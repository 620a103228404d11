------------------------------ MODULE LoadTest ------------------------------
(***************************************************************************)
(* The load test: scripts/reset.sh empties the store, cmd/gen writes the   *)
(* lines of a test with the answers it expects, cmd/client replays them    *)
(* one by one and stops at the first answer that differs.                  *)
(*                                                                         *)
(* The generator does not look at the store, so its next line may as well  *)
(* be written when the client comes to it.  Random choices are arbitrary.  *)
(* No call fails here; the store is what the engine makes of such calls:   *)
(* values, tombstones, and compactions that drop tombstones.               *)
(***************************************************************************)
EXTENDS Handlers, Integers, FiniteSetsExt, SequencesExt

CONSTANTS
  Mode,        \* the argument of gen: put, put-delete or put-delete-scan
  Letters,     \* the letters of a key: 1 .. Letters for a .. z
  KeyLength,   \* keyLength (5)
  RangeLimit,  \* the keys a SCAN lists at most (10)
  Values,
  Deleted,     \* the store holds a tombstone for the key
  Absent,      \* the store, or the generator's map, has no entry for the key
  NotFound,    \* the answer NOT_FOUND
  NoLine       \* the client waits for a line

ASSUME LoadTestAssumption ==
  /\ Mode \in {"put", "put-delete", "put-delete-scan"}
  /\ Letters \in Nat \ {0} /\ KeyLength \in Nat \ {0}
  /\ RangeLimit \in Nat \ {0}
  /\ Deleted \notin Values /\ Absent \notin Values /\ NotFound \notin Values

VARIABLES
  state,   \* the generator's map
  line,    \* the line the client works on
  store,   \* what the store holds for every key
  client   \* "waiting" for reset.sh, "running", or stopped by log.Fatal

vars == <<state, line, store, client>>

-----------------------------------------------------------------------------
(* Keys *)

Keys == [1 .. KeyLength -> 1 .. Letters]

\* The order of Go strings.
Before(s, t) ==
  \/ \E i \in DOMAIN s \cap DOMAIN t :
       s[i] < t[i] /\ \A j \in 1 .. i - 1 : s[j] = t[j]
  \/ Len(s) < Len(t) /\ \A j \in DOMAIN s : s[j] = t[j]

NotBefore(s, t) == ~ Before(s, t)

SuccessorOfLast(s) ==   \* mutant: only the last letter is looked at
  IF s[Len(s)] < Letters THEN [s EXCEPT ![Len(s)] = @ + 1] ELSE s

\* nextKey: the last letter that is not z is raised and the rest cut off.
NextKey(s) ==
  LET raisable == {i \in DOMAIN s : s[i] < Letters}
  IN  IF raisable = {} THEN Append(s, 1)
      ELSE Append(SubSeq(s, 1, Max(raisable) - 1), s[Max(raisable)] + 1)

\* existingKey and unknownKey pick one of these at random.
Known == {k \in Keys : state[k] # Absent}
Unknown == Keys \ Known

\* sort.Strings
Sorted(keys) ==
  [i \in 1 .. Cardinality(keys) |->
    CHOOSE k \in keys : Cardinality({j \in keys : Before(j, k)}) = i - 1]

AllCandidates(from) ==   \* mutant: the keys of a SCAN are not limited
  Sorted({k \in Known : NotBefore(k, from)})

\* The first RangeLimit keys that are not before from.
Candidates(from) ==
  LET sorted == Sorted({k \in Known : NotBefore(k, from)})
  IN  SubSeq(sorted, 1, Min({RangeLimit, Len(sorted)}))

ScanLine(from, to, keys) ==
  [method |-> "SCAN", from |-> from, to |-> to, keys |-> keys]

\* boundedRange
BoundedRange(from) ==
  LET keys == Candidates(from)
  IN  ScanLine(from, NextKey(IF keys = <<>> THEN from ELSE Last(keys)), keys)

-----------------------------------------------------------------------------
(* gen *)

GetLine(k, expected) == [method |-> "GET", key |-> k, expected |-> expected]
PutLine(k, v) == [method |-> "PUT", key |-> k, value |-> v]
DeleteLine(k) == [method |-> "DELETE", key |-> k]

Emit(l) ==
  /\ client = "running" /\ line = NoLine
  /\ line' = l
  /\ UNCHANGED <<store, client>>

\* A key the map does not have; also when there is nothing to get or delete.
GenNotFound ==
  \E k \in Unknown : Emit(GetLine(k, NotFound)) /\ UNCHANGED state

GenGet ==
  \E k \in Known : Emit(GetLine(k, state[k])) /\ UNCHANGED state

StalePut(k, v) ==   \* mutant: an update leaves the old value in the map
  IF state[k] = Absent THEN [state EXCEPT ![k] = v] ELSE state

AfterPut(k, v) == [state EXCEPT ![k] = v]

\* An update of a known key, or a new one.
GenPut ==
  \E k \in Keys, v \in Values : Emit(PutLine(k, v)) /\ state' = AfterPut(k, v)

WithoutKey(k) == [state EXCEPT ![k] = Absent]

GenDelete ==
  /\ Mode # "put"
  /\ \E k \in Known : Emit(DeleteLine(k)) /\ state' = WithoutKey(k)

\* With an empty map, both ends are random.
GenScan ==
  /\ Mode = "put-delete-scan"
  /\ \E from \in Keys :
       IF Known = {} THEN \E to \in Keys : Emit(ScanLine(from, to, <<>>))
                     ELSE Emit(BoundedRange(from))
  /\ UNCHANGED state

-----------------------------------------------------------------------------
(* client *)

LogKept == UNCHANGED store   \* mutant: a file of the store is not removed

EmptyStore == store' = [k \in Keys |-> Absent]

\* reset.sh, then the server and the client are started.
Reset ==
  /\ client = "waiting"
  /\ client' = "running"
  /\ EmptyStore
  /\ UNCHANGED <<state, line>>

\* What the engine replies to a Get, in the form of KVStore.
StoreReply(k) ==
  CASE store[k] = Absent  -> [status |-> "notfound", key |-> k]
    [] store[k] = Deleted -> [status |-> "deleted", key |-> k]
    [] OTHER -> [status |-> "found", key |-> k, content |-> store[k]]

\* get() of the client is content.
Accepts(answer, expected) ==
  IF expected = NotFound THEN answer.status = 404
  ELSE answer.status = 200 /\ answer.content = expected

NextLine == line' = NoLine /\ UNCHANGED <<state, client>>

ClientGet ==
  /\ line # NoLine /\ line.method = "GET"
  /\ client = "running"
  /\ UNCHANGED store
  /\ IF Accepts(GetAnswer(StoreReply(line.key)), line.expected)
       THEN NextLine
       ELSE client' = "stopped" /\ UNCHANGED <<state, line>>

ClientPut ==
  /\ line # NoLine /\ line.method = "PUT"
  /\ store' = [store EXCEPT ![line.key] = line.value]
  /\ NextLine

ClientDelete ==
  /\ line # NoLine /\ line.method = "DELETE"
  /\ store' = [store EXCEPT ![line.key] = Deleted]
  /\ NextLine

\* The server has no scans: the client reads the line and goes on.
ClientScan ==
  /\ line # NoLine /\ line.method = "SCAN"
  /\ UNCHANGED store
  /\ NextLine

\* A compaction drops the tombstones that have reached the SSTables.
Forget ==
  /\ client = "running"
  /\ \E k \in Keys :
       store[k] = Deleted /\ store' = [store EXCEPT ![k] = Absent]
  /\ UNCHANGED <<state, line, client>>

-----------------------------------------------------------------------------
\* The store of an earlier test may be there.
Init ==
  /\ state = [k \in Keys |-> Absent]
  /\ line = NoLine
  /\ store \in {[k \in Keys |-> e] : e \in Values \cup {Absent, Deleted}}
  /\ client = "waiting"

Generate == GenNotFound \/ GenGet \/ GenPut \/ GenDelete \/ GenScan
Replay == ClientGet \/ ClientPut \/ ClientDelete \/ ClientScan

Next == Reset \/ Generate \/ Replay \/ Forget

Spec == Init /\ [][Next]_vars
=============================================================================
