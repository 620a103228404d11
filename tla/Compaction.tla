----------------------------- MODULE Compaction -----------------------------
(***************************************************************************)
(* The k-way merge of compact() (internal/kvstore/lsm_tree_store.go) with  *)
(* the iterators of sstable_iterator.go and the order of                   *)
(* sstable_item_heap.go: a step is one round of a loop.  LSMTreeStore uses *)
(* only the result of the merge; CompactionProperties says that this is    *)
(* what the code computes.                                                 *)
(*                                                                         *)
(* container/heap is external: heap.Pop returns the least item by Less.    *)
(***************************************************************************)
EXTENDS WriteAheadLog, SequencesExt

CONSTANTS
  MaxMemtableEntries,  \* maxMemtableEntries (2000)
  MaxSSTables          \* bound: the SSTables compacted together

ASSUME CompactionAssumption ==
  MaxMemtableEntries \in Nat \ {0} /\ MaxSSTables \in Nat

VARIABLES
  tables,      \* what the SSTables of the manifest hold, newest first
  index,       \* the positions of the iterators
  h,           \* the items in the heap
  item,        \* the item popped in this round
  newSSTable,  \* the entries of the SSTable being filled
  saved,       \* the SSTables saved so far
  pc

vars == <<tables, index, h, item, newSSTable, saved, pc>>

-----------------------------------------------------------------------------
\* The entries of an SSTable file, in the order of newSSTable's sort.
Entries(table) ==
  [i \in 1 .. Cardinality({k \in Keys : table[k] # NoEntry}) |->
    LET k == CHOOSE k \in Keys :
               /\ table[k] # NoEntry
               /\ Cardinality({j \in Keys : table[j] # NoEntry /\ j <= k}) = i
    IN  [key |-> k, entry |-> table[k]]]

\* The item for the entry the iterator of SSTable i is at.
ItemAt(i, position) ==
  LET e == Entries(tables[i])[position]
  IN  [sstableIndex |-> i, key |-> e.key, entry |-> e.entry]

OldestFirst(x, y) ==   \* mutant: of two entries of a key the oldest comes first
  IF x.key = y.key THEN x.sstableIndex > y.sstableIndex ELSE x.key < y.key

\* Of two entries of a key the one of the newest SSTable comes first.
Less(x, y) ==
  IF x.key = y.key THEN x.sstableIndex < y.sstableIndex ELSE x.key < y.key

\* heap.Pop, and h[0].
Least(items) == CHOOSE x \in items : \A y \in items \ {x} : Less(x, y)

SkipsLast(i) ==   \* mutant: an iterator stops one entry early
  index[i] + 1 < Len(Entries(tables[i]))

HasNext(i) == index[i] < Len(Entries(tables[i]))

\* The heap without x, which was popped, and with the next item of its SSTable.
Advanced(x) ==
  (h \ {x}) \cup
    (IF HasNext(x.sstableIndex)
       THEN {ItemAt(x.sstableIndex, index[x.sstableIndex] + 1)} ELSE {})

StuckIterator(x) ==   \* mutant: next() returns the next entry but stays
  index' = index

UncheckedNext(x) ==   \* mutant: the iterator moves past its last entry
  index' = [index EXCEPT ![x.sstableIndex] = @ + 1]

\* next() moves the iterator unless it is at its last entry.
AdvanceIterator(x) ==
  LET i == x.sstableIndex
  IN  index' = IF HasNext(i) THEN [index EXCEPT ![i] = @ + 1] ELSE index

\* What the file of an SSTable holds when it is read again.
Written(entries) ==
  [i \in DOMAIN entries |->
    [key |-> DecodedKey(entries[i].key), entry |-> Decoded(entries[i].entry)]]

-----------------------------------------------------------------------------
\* Every iterator is at its first entry; those of empty SSTables have none.
Load ==
  /\ pc = "load"
  /\ h' = {ItemAt(i, 1) : i \in {j \in DOMAIN tables : Entries(tables[j]) # <<>>}}
  /\ pc' = "pop"
  /\ UNCHANGED <<tables, index, item, newSSTable, saved>>

Pop ==
  /\ pc = "pop"
  /\ h # {}
  /\ item' = Least(h)
  /\ h' = Advanced(item')
  /\ AdvanceIterator(item')
  /\ pc' = "drain"
  /\ UNCHANGED <<tables, newSSTable, saved>>

SameEntry(x) ==   \* mutant: only the next older SSTable is drained
  x.key = item.key /\ x.sstableIndex = item.sstableIndex + 1

\* The drain loop goes on: the least item of the heap has the same key.
SameKey(x) == x.key = item.key

Drain ==
  /\ pc = "drain"
  /\ h # {}
  /\ LET x == Least(h)
     IN  /\ SameKey(x)
         /\ h' = Advanced(x)
         /\ AdvanceIterator(x)
  /\ UNCHANGED <<tables, item, newSSTable, saved, pc>>

IsFull(entries) == Len(entries) = MaxMemtableEntries

\* A tombstone is dropped; a full SSTable is saved and a new one started.
Keep ==
  /\ pc = "drain"
  /\ h # {} => ~ SameKey(Least(h))
  /\ LET entries == IF item.entry = Deleted THEN newSSTable
                    ELSE Append(newSSTable, [key |-> item.key, entry |-> item.entry])
     IN  IF IsFull(entries)
           THEN /\ saved' = Append(saved, Written(entries))
                /\ newSSTable' = <<>>
           ELSE /\ newSSTable' = entries
                /\ UNCHANGED saved
  /\ pc' = "pop"
  /\ UNCHANGED <<tables, index, h, item>>

\* The last SSTable holds what is left, if anything is.
Finish ==
  /\ pc = "pop"
  /\ h = {}
  /\ saved' = IF newSSTable = <<>> THEN saved
              ELSE Append(saved, Written(newSSTable))
  /\ newSSTable' = <<>>
  /\ pc' = "done"
  /\ UNCHANGED <<tables, index, h, item>>

-----------------------------------------------------------------------------
\* Before the first round: less than every key.
NoItem == [sstableIndex |-> 0, key |-> -1, entry |-> NoEntry]

\* The SSTables as they are read: any that a flush or a compaction may have written.
\* (Of entries whose keys have become one, Drain would take all but the first.)
Files == {ReadBack(table) : table \in Table}

Init ==
  /\ tables \in UNION {[1 .. n -> Files] : n \in 0 .. MaxSSTables}
  /\ index = [i \in DOMAIN tables |-> 1]
  /\ h = {} /\ item = NoItem
  /\ newSSTable = <<>> /\ saved = <<>>
  /\ pc = "load"

Next == Load \/ Pop \/ Drain \/ Keep \/ Finish

Spec == Init /\ [][Next]_vars

\* Nothing in the merge waits for anything.
FairSpec == Spec /\ WF_vars(Next)
=============================================================================
