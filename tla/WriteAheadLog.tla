--------------------------- MODULE WriteAheadLog ---------------------------
(***************************************************************************)
(* The write-ahead log file wal.db (internal/kvstore/write_ahead_log.go).  *)
(*                                                                         *)
(* log() writes one entry with two calls to writeFile: the JSON of the     *)
(* entry, then the record terminator.  The file is therefore modelled as   *)
(* the sequence of what those calls appended (the fragments), not as a     *)
(* sequence of lines: a line is what lies between two terminators, and it  *)
(* is a log entry only when it holds exactly one record.                   *)
(*                                                                         *)
(* This module has no variables: it says what the calls append and what    *)
(* replayWriteAheadLog makes of a file.  LSMTreeStore owns the file.       *)
(***************************************************************************)
EXTENDS Integers, Sequences, FiniteSetsExt

CONSTANTS
  Keys,          \* the keys; numbers, ordered as the code orders strings
  Values,        \* the values clients store
  Deleted,       \* the tombstone
  NoEntry,       \* what a table holds for a key that is not in it
  KeyRoundTrip,  \* KeyRoundTrip[k] is what reading the JSON of key k gives back
  RoundTrip,     \* RoundTrip[v] is what reading the JSON of value v gives back
  TooLong        \* the <<key, entry>> whose log line is longer than
                 \* bufio.Scanner reads

ASSUME KeysAssumption == Keys \subseteq Nat /\ IsFiniteSet(Keys)

ASSUME EntriesAssumption ==
  /\ Deleted \notin Values
  /\ NoEntry \notin Values
  /\ Deleted # NoEntry

\* encoding/json replaces every invalid UTF-8 byte of a string by U+FFFD, so a
\* key or a value comes back unchanged or as one that survives the next round trip.
ASSUME RoundTripAssumption ==
  /\ RoundTrip \in [Values -> Values]
  /\ \A v \in Values : RoundTrip[RoundTrip[v]] = RoundTrip[v]

ASSUME KeyRoundTripAssumption ==
  /\ KeyRoundTrip \in [Keys -> Keys]
  /\ \A k \in Keys : KeyRoundTrip[KeyRoundTrip[k]] = KeyRoundTrip[k]

\* Keys may become one key, but not change places, which would leave the entries
\* of an SSTable file out of order (as "\x80" and a letter with an accent do);
\* compact() merges files in key order, and only those are modelled.
ASSUME KeyOrderAssumption ==
  \A j, k \in Keys : j < k => KeyRoundTrip[j] <= KeyRoundTrip[k]

ASSUME TooLongAssumption == TooLong \subseteq Keys \X (Values \cup {Deleted})

-----------------------------------------------------------------------------
\* What a memtable or an SSTable says of a key: a value, a tombstone, nothing.
Entry == Values \cup {Deleted}
Slot  == Entry \cup {NoEntry}
Table == [Keys -> Slot]

EmptyTable == [k \in Keys |-> NoEntry]

\* The key and the entry that reading the JSON of key k and entry e gives back.
DecodedKey(k) == KeyRoundTrip[k]
Decoded(e) == IF e \in Values THEN RoundTrip[e] ELSE e

\* What is found in the SSTable file that was written for a table.  Its entries
\* are in the order of the keys as they were; of those whose keys have become
\* one, sstable.Get and compact() take the first.
ReadBack(table) ==
  [k \in Keys |->
    LET hits == {j \in Keys : DecodedKey(j) = k /\ table[j] # NoEntry}
    IN  IF hits = {} THEN NoEntry ELSE Decoded(table[Min(hits)])]

-----------------------------------------------------------------------------
\* A record keeps the key and the entry its JSON decodes to and, as its checksum,
\* those the CRC was computed over (CRC32 collisions are left out).
Record(k, e) ==
  [kind |-> "record", key |-> DecodedKey(k), entry |-> Decoded(e),
   checksum |-> <<k, e>>]

Terminator == [kind |-> "terminator"]
Torn       == [kind |-> "torn"]       \* a proper prefix of a record's JSON

Fragment ==
  [kind : {"record"}, key : Keys, entry : Entry, checksum : Keys \X Entry]
    \cup {Terminator, Torn}

IsRecord(f) == f.kind = "record"
Matches(f)  == f.checksum = <<f.key, f.entry>>

-----------------------------------------------------------------------------
\* Replay breaks out of its loop at the first line whose checksum does not
\* match.  Fragment i is scanned unless such a line was terminated before it.
Scanned(w, i) ==
  \A j \in 1 .. i - 1 :
    IsRecord(w[j]) /\ ~ Matches(w[j]) =>
      \A m \in j .. i - 1 : w[m] # Terminator

\* Fragment i belongs to a line json.Unmarshal and the scanner accept: a whole
\* record at the start of its line, or the terminator after one.
WellPlaced(w, i) ==
  CASE w[i].kind = "record"     -> /\ w[i].checksum \notin TooLong
                                   /\ i > 1 => w[i - 1] = Terminator
    [] w[i].kind = "terminator" -> i > 1 /\ IsRecord(w[i - 1])
    [] w[i].kind = "torn"       -> FALSE

\* Replay returns no error.  Otherwise newLSMTreeStore fails, and the server
\* exits: the store stays closed until somebody repairs the file.
Replayable(w) == \A i \in DOMAIN w : Scanned(w, i) => WellPlaced(w, i)

\* The records replay applies to the memtable, by position.
Applied(w) ==
  {i \in DOMAIN w : /\ IsRecord(w[i])
                    /\ \A j \in 1 .. i : IsRecord(w[j]) => Matches(w[j])}

FirstWins(w) ==   \* mutant: a later record does not replace an earlier one
  LET applied == Applied(w)
  IN  [k \in Keys |->
        LET hits == {i \in applied : w[i].key = k}
        IN  IF hits = {} THEN NoEntry ELSE w[Min(hits)].entry]

\* The memtable after replay: for each key, the last record applied wins.
Replay(w) ==
  LET applied == Applied(w)
  IN  [k \in Keys |->
        LET hits == {i \in applied : w[i].key = k}
        IN  IF hits = {} THEN NoEntry ELSE w[Max(hits)].entry]
=============================================================================
