------------------------ MODULE CompactionProperties ------------------------
(***************************************************************************)
(* What the merge of compact() guarantees.                                 *)
(***************************************************************************)
EXTENDS Compaction

Item == [sstableIndex : DOMAIN tables, key : Keys, entry : Entry]

Contents == Seq([key : Keys, entry : Entry])

\* Types: iterators, heap and output hold what the code can put there.
TypeOK ==
  /\ tables \in Seq(Files)
  /\ index \in [DOMAIN tables -> Nat]
  /\ \A i \in DOMAIN index :
       index[i] = 1 \/ index[i] \in DOMAIN Entries(tables[i])
  /\ h \subseteq Item
  /\ item \in Item \cup {NoItem}
  /\ newSSTable \in Contents /\ saved \in Seq(Contents)
  /\ pc \in {"load", "pop", "drain", "done"}

\* The positions of the entries of SSTable i that the merge has not passed.
Unmerged(i) ==
  {p \in DOMAIN Entries(tables[i]) : Entries(tables[i])[p].key > item.key}

\* The heap holds the least entry of every SSTable that the merge has not
\* passed, and nothing else: no entry is skipped and none comes twice
\* (lsm_tree_store.go:243-273).  Between a pop and the end of the drain the
\* entries of the popped key are still on their way.
HeapIsFrontier ==
  pc = "pop" =>
    h = {ItemAt(i, Min(Unmerged(i))) :
           i \in {j \in DOMAIN tables : Unmerged(j) # {}}}

\* The output is in key order with one entry per key, in an SSTable and from one
\* to the next, or the heap of a later merge would lose entries
\* (lsm_tree_store.go:258); it holds no tombstone.
OutputSorted ==
  LET output == Append(saved, newSSTable)
  IN  \A c \in DOMAIN output : \A p \in DOMAIN output[c] :
        /\ output[c][p].entry # Deleted
        /\ \A d \in DOMAIN output : \A q \in DOMAIN output[d] :
             c < d \/ (c = d /\ p < q) => output[c][p].key < output[d][q].key

-----------------------------------------------------------------------------
\* The result that LSMTreeStore uses for a compaction of the same SSTables, none
\* of which is Partial.
Store ==
  INSTANCE LSMTreeStore WITH
    MaxOperations <- 1, Journaled <- TRUE, NoWrite <- NoEntry,
    Partial <- [k \in {-1} |-> NoEntry],
    MaxSSTableID <- 0, MaxLogLength <- 0, MaxOperationCount <- 0,
    dir <- [manifest |-> <<>>, tables |-> tables], images <- {},
    wal <- <<>>, walSynced <- <<>>, walLinked <- TRUE,
    mt <- EmptyTable, sstables <- [i \in DOMAIN tables |-> i],
    nextSSTableID <- 1, negativeCache <- {}, operationCount <- 0,
    request <- NoEntry, reply <- NoEntry, task <- "compact", fresh <- <<>>,
    old <- <<>>

\* The merge saves what LSMTreeStore says a compaction saves: the newest entry
\* of every key, without the tombstones, in SSTables that are full but the last.
MergeCorrect ==
  pc = "done" =>
    saved = [c \in 1 .. Store!ChunkCount |-> Entries(Store!Chunk(c))]

\* The loops end (under the fairness that the goroutine keeps running).
MergeEnds == <>(pc = "done")
=============================================================================
