------------------------- MODULE StoreContentProofs -------------------------
(***************************************************************************)
(* Theorems about what LSMTreeStore holds for a key: in the negative       *)
(* cache, in the memtable and the SSTables, and on the disk; and that it   *)
(* implements KVStore.                                                     *)
(***************************************************************************)
EXTENDS LSMTreeStoreProofs

-----------------------------------------------------------------------------
(* Lookups *)

\* A lookup finds nothing when no SSTable has an entry, and otherwise the entry
\* of the first that has one.
LEMMA LookupFinds ==
  ASSUME NEW d, NEW ids \in Seq(SSTableIDs), NEW k \in Keys
  PROVE  \/ /\ TablesEntry(d, ids, k) = NoEntry
            /\ \A i \in DOMAIN ids : Contents(d, ids[i])[k] = NoEntry
         \/ \E i \in DOMAIN ids :
              /\ TablesEntry(d, ids, k) = Contents(d, ids[i])[k]
              /\ Contents(d, ids[i])[k] # NoEntry
              /\ \A h \in 1 .. i - 1 : Contents(d, ids[h])[k] = NoEntry
<1> DEFINE hits == {i \in DOMAIN ids : Contents(d, ids[i])[k] # NoEntry}
<1>1. CASE hits = {}
  BY <1>1 DEF TablesEntry
<1>2. CASE hits # {}
  <2>1. TablesEntry(d, ids, k) = Contents(d, ids[Min(hits)])[k]
    BY <1>2 DEF TablesEntry
  <2>2. hits \subseteq Nat /\ DOMAIN ids = 1 .. Len(ids) /\ Len(ids) \in Nat
    OBVIOUS
  <2>3. Min(hits) \in hits /\ \A i \in hits : Min(hits) <= i
    BY <1>2, <2>2, MinOfNats
  <2> DEFINE m == Min(hits)
  <2>4. m \in DOMAIN ids /\ Contents(d, ids[m])[k] # NoEntry /\ m \in Nat
    BY <2>2, <2>3
  <2>5. \A h \in 1 .. m - 1 : h \in DOMAIN ids /\ ~ (m <= h)
    BY <2>2, <2>4
  <2>6. \A h \in 1 .. m - 1 : Contents(d, ids[h])[k] = NoEntry
    BY <2>3, <2>5
  <2> QED
    BY <2>1, <2>4, <2>6
<1> QED
  BY <1>1, <1>2

\* A lookup finds nothing exactly when no SSTable has an entry.
LEMMA LookupNothing ==
  ASSUME NEW d, NEW ids \in Seq(SSTableIDs), NEW k \in Keys
  PROVE  TablesEntry(d, ids, k) = NoEntry
           <=> \A id \in Range(ids) : Contents(d, id)[k] = NoEntry
<1>1. CASE \E i \in DOMAIN ids :
              /\ TablesEntry(d, ids, k) = Contents(d, ids[i])[k]
              /\ Contents(d, ids[i])[k] # NoEntry
  BY <1>1 DEF Range
<1>2. CASE /\ TablesEntry(d, ids, k) = NoEntry
           /\ \A i \in DOMAIN ids : Contents(d, ids[i])[k] = NoEntry
  BY <1>2 DEF Range
<1> QED
  BY <1>1, <1>2, LookupFinds

\* What a lookup finds is determined by the first SSTable with an entry.
LEMMA LookupFirst ==
  ASSUME NEW d, NEW ids \in Seq(SSTableIDs), NEW k \in Keys,
         NEW i \in DOMAIN ids, Contents(d, ids[i])[k] # NoEntry,
         \A h \in 1 .. i - 1 : Contents(d, ids[h])[k] = NoEntry
  PROVE  TablesEntry(d, ids, k) = Contents(d, ids[i])[k]
<1>1. PICK j \in DOMAIN ids :
        /\ TablesEntry(d, ids, k) = Contents(d, ids[j])[k]
        /\ Contents(d, ids[j])[k] # NoEntry
        /\ \A h \in 1 .. j - 1 : Contents(d, ids[h])[k] = NoEntry
  BY LookupFinds
<1>2. DOMAIN ids = 1 .. Len(ids) /\ Len(ids) \in Nat
  OBVIOUS
<1>3. ~ (i < j) /\ ~ (j < i)
  BY <1>1, <1>2
<1> QED
  BY <1>1, <1>2, <1>3

\* Two lookups that meet the same entries find the same.
LEMMA LookupSame ==
  ASSUME NEW d, NEW e, NEW ids \in Seq(SSTableIDs), NEW k \in Keys,
         \A id \in Range(ids) : Contents(d, id)[k] = Contents(e, id)[k]
  PROVE  TablesEntry(d, ids, k) = TablesEntry(e, ids, k)
<1>1. \A i \in DOMAIN ids : Contents(d, ids[i])[k] = Contents(e, ids[i])[k]
  BY DEF Range
<1>2. CASE TablesEntry(d, ids, k) = NoEntry
  BY <1>2, LookupNothing
<1>3. CASE \E i \in DOMAIN ids :
             /\ TablesEntry(d, ids, k) = Contents(d, ids[i])[k]
             /\ Contents(d, ids[i])[k] # NoEntry
             /\ \A h \in 1 .. i - 1 : Contents(d, ids[h])[k] = NoEntry
  <2>1. PICK i \in DOMAIN ids :
             /\ TablesEntry(d, ids, k) = Contents(d, ids[i])[k]
             /\ Contents(d, ids[i])[k] # NoEntry
             /\ \A h \in 1 .. i - 1 : Contents(d, ids[h])[k] = NoEntry
    BY <1>3
  <2>2. \A h \in 1 .. i - 1 : h \in DOMAIN ids
    OBVIOUS
  <2>3. TablesEntry(e, ids, k) = Contents(e, ids[i])[k]
    BY <1>1, <2>1, <2>2, LookupFirst
  <2> QED
    BY <1>1, <2>1, <2>3
<1> QED
  BY <1>2, <1>3, LookupFinds

\* An SSTable put in front shadows the others.
LEMMA LookupInFront ==
  ASSUME NEW d, NEW ids \in Seq(SSTableIDs), NEW new \in SSTableIDs, NEW k \in Keys
  PROVE  TablesEntry(d, <<new>> \o ids, k) =
           IF Contents(d, new)[k] # NoEntry THEN Contents(d, new)[k]
                                            ELSE TablesEntry(d, ids, k)
<1> DEFINE all == <<new>> \o ids
<1>1. /\ all \in Seq(SSTableIDs) /\ DOMAIN all = 1 .. Len(ids) + 1
      /\ DOMAIN ids = 1 .. Len(ids) /\ Len(ids) \in Nat
      /\ all[1] = new /\ \A i \in DOMAIN ids : all[i + 1] = ids[i]
  OBVIOUS
<1> HIDE DEF all
<1>2. CASE Contents(d, new)[k] # NoEntry
  <2>1. 1 \in DOMAIN all /\ \A h \in 1 .. 1 - 1 : Contents(d, all[h])[k] = NoEntry
    BY <1>1
  <2>2. TablesEntry(d, all, k) = Contents(d, all[1])[k]
    BY <1>1, <1>2, <2>1, LookupFirst
  <2> QED
    BY <1>1, <1>2, <2>2 DEF all
<1>3. CASE Contents(d, new)[k] = NoEntry
  <2>1. CASE TablesEntry(d, ids, k) = NoEntry
    <3>0. \A i \in DOMAIN ids : Contents(d, ids[i])[k] = NoEntry
      BY <2>1, LookupNothing DEF Range
    <3>1. \A i \in DOMAIN all : Contents(d, all[i])[k] = NoEntry
      <4> SUFFICES ASSUME NEW i \in DOMAIN all, i # 1
                   PROVE  Contents(d, all[i])[k] = NoEntry
        BY <1>1, <1>3
      <4>1. i - 1 \in DOMAIN ids /\ all[i] = ids[i - 1]
        BY <1>1
      <4> QED
        BY <3>0, <4>1
    <3>2. TablesEntry(d, all, k) = NoEntry
      BY <1>1, <3>1, LookupNothing DEF Range
    <3> QED
      BY <1>3, <2>1, <3>2 DEF all
  <2>2. CASE \E i \in DOMAIN ids :
               /\ TablesEntry(d, ids, k) = Contents(d, ids[i])[k]
               /\ Contents(d, ids[i])[k] # NoEntry
               /\ \A h \in 1 .. i - 1 : Contents(d, ids[h])[k] = NoEntry
    <3>1. PICK i \in DOMAIN ids :
               /\ TablesEntry(d, ids, k) = Contents(d, ids[i])[k]
               /\ Contents(d, ids[i])[k] # NoEntry
               /\ \A h \in 1 .. i - 1 : Contents(d, ids[h])[k] = NoEntry
      BY <2>2
    <3>2. i + 1 \in DOMAIN all /\ all[i + 1] = ids[i]
      BY <1>1
    <3>3. ASSUME NEW h \in 1 .. (i + 1) - 1
          PROVE  Contents(d, all[h])[k] = NoEntry
      <4>1. CASE h = 1
        BY <1>1, <1>3, <4>1
      <4>2. CASE h # 1
        <5>1. h - 1 \in 1 .. i - 1 /\ h - 1 \in DOMAIN ids /\ all[(h - 1) + 1] = ids[h - 1]
              /\ (h - 1) + 1 = h
          BY <1>1, <4>2
        <5> QED
          BY <3>1, <5>1
      <4> QED
        BY <4>1, <4>2
    <3>4. TablesEntry(d, all, k) = Contents(d, all[i + 1])[k]
      BY <1>1, <3>1, <3>2, <3>3, LookupFirst
    <3> QED
      BY <1>3, <3>1, <3>2, <3>4 DEF all
  <2> QED
    BY <2>1, <2>2, LookupFinds
<1> QED
  BY <1>2, <1>3

\* When at most one entry for a key is to be met, it is found wherever it is.
LEMMA LookupOnly ==
  ASSUME NEW d, NEW ids \in Seq(SSTableIDs), NEW k \in Keys, NEW e,
         \A id \in Range(ids) : Contents(d, id)[k] \in {NoEntry, e},
         NEW id \in Range(ids), Contents(d, id)[k] = e
  PROVE  TablesEntry(d, ids, k) = e
<1>1. PICK j \in DOMAIN ids : id = ids[j]
  BY DEF Range
<1>2. \A i \in DOMAIN ids : Contents(d, ids[i])[k] \in {NoEntry, e}
  BY DEF Range
<1> QED
  BY <1>1, <1>2, LookupFinds

\* What writing an SSTable file does to the contents of the SSTables.
LEMMA SavedContents ==
  ASSUME NEW d, IsDirectory(d), NEW id, NEW contents, NEW j
  PROVE  Contents(Saved(d, id, contents), j) =
           IF j = id THEN IF contents = Partial THEN EmptyTable ELSE contents
                     ELSE Contents(d, j)
BY DEF IsDirectory, Saved, Contents, Readable

\* What removing one does.
LEMMA RemovedContents ==
  ASSUME NEW d, IsDirectory(d), NEW id, NEW j
  PROVE  Contents(Removed(d, id), j) = IF j = id THEN EmptyTable ELSE Contents(d, j)
BY DEF IsDirectory, Removed, Contents, Readable

\* A new MANIFEST does nothing to them.
LEMMA RenamedContents ==
  ASSUME NEW d, IsDirectory(d), NEW lines, NEW j
  PROVE  Contents(Renamed(d, lines), j) = Contents(d, j)
BY DEF IsDirectory, Renamed, Contents, Readable

-----------------------------------------------------------------------------
(* Where a step comes from *)

\* Every label of a call is reached by the steps before it only.
LEMMA Destinations ==
  ASSUME [Next]_vars, ~ UNCHANGED vars
  PROVE  /\ pc' \in {"open", "clearing"} => Open \/ RemoveDangling
         /\ pc \in NotServing /\ pc' \notin NotServing => FinishOpen
         /\ pc' = "terminate" => WriteRecord
         /\ pc' = "create" => WriteTerminator \/ EncodeSSTable \/ Compact
         /\ pc' = "encode" => CreateSSTable
         /\ pc' = "rename" => EncodeSSTable \/ Compact
         /\ pc' = "syncdir" => RenameManifest
         /\ pc' = "truncate" => SyncManifest
         /\ pc' = "remove" => SyncManifest \/ RemoveOld
         /\ pc' = "compact" => WriteTerminator \/ TruncateLog
         /\ pc' = "down" => Crash \/ PowerLoss
BY DEF Next, Opening, Open, RemoveDangling, FinishOpen, Get, Write, Logging, WriteRecord,
   WriteTerminator, Flushing, CreateSSTable, EncodeSSTable, RenameManifest,
   SyncManifest, TruncateLog, Compacting, Compact, RemoveOld, FinishCompaction,
   Failing, WriteRecordFails, WriteTerminatorFails, CreateSSTableFails,
   EncodeSSTableFails, RenameManifestFails, SyncManifestFails, TruncateLogFails,
   CompactFails, RemoveOldFails, GetFails, Crash, PowerLoss, LoseMemory,
   AfterFlush, ReturnStored, Return, GoTo, StartSaving, NotServing

\* The other steps leave the directory and the list of SSTables alone.
LEMMA QuietSteps ==
  ASSUME [Next]_vars,
         ~ Open, ~ RemoveDangling, ~ FinishOpen, ~ CreateSSTable, ~ EncodeSSTable,
         ~ RenameManifest, ~ SyncManifest, ~ RemoveOld, ~ Crash, ~ PowerLoss
  PROVE  UNCHANGED <<dir, images, walLinked, sstables>>
BY DEF Next, Opening, Get, Write, Logging, WriteRecord, WriteTerminator, Flushing,
   TruncateLog, Compacting, Compact, FinishCompaction,
   Failing, WriteRecordFails, WriteTerminatorFails, CreateSSTableFails,
   EncodeSSTableFails, RenameManifestFails, SyncManifestFails, TruncateLogFails,
   CompactFails, RemoveOldFails, GetFails, vars, dirVars, memoryVars

-----------------------------------------------------------------------------
(* The negative cache, if every key survives JSON *)

\* Every key is valid UTF-8: it comes back from JSON as it went in.
KeysSurviveJSON == \A k \in Keys : KeyRoundTrip[k] = k

\* Then an SSTable file holds the entries of the table it was written for under
\* their own keys.
LEMMA NothingRenamed ==
  ASSUME KeysSurviveJSON, NEW table, NEW k \in Keys
  PROVE  ReadBack(table)[k] = Decoded(table[k])
<1> DEFINE hits == {j \in Keys : DecodedKey(j) = k /\ table[j] # NoEntry}
<1>1. ReadBack(table)[k] = IF hits = {} THEN NoEntry ELSE Decoded(table[Min(hits)])
  BY DEF ReadBack
<1>2. hits \subseteq {k} /\ (table[k] # NoEntry => k \in hits)
  BY DEF KeysSurviveJSON, DecodedKey
<1>3. CASE table[k] = NoEntry
  <2>1. hits = {}
    BY <1>2, <1>3
  <2>2. Decoded(NoEntry) = NoEntry
    BY EntriesAssumption DEF Decoded
  <2> QED
    BY <1>1, <1>3, <2>1, <2>2
<1>4. CASE table[k] # NoEntry
  <2>1. hits = {k} /\ hits \subseteq Nat
    BY <1>2, <1>4, KeysAssumption
  <2>2. Min(hits) = k
    BY <2>1, MinOfNats
  <2> QED
    BY <1>1, <2>1, <2>2
<1> QED
  BY <1>3, <1>4

\* The inductive invariant: a key of the cache is in neither the memtable nor an
\* SSTable of the list, nor in one that is saved and will be on the list.
CacheConsistent ==
  \A k \in negativeCache :
    /\ mt[k] = NoEntry
    /\ \A id \in Range(sstables) \cup Range(fresh) : Contents(dir, id)[k] = NoEntry

\* The invariant says what NegativeCacheSound says, and more.
LEMMA CacheSound ==
  ASSUME TypeInvariant, CacheConsistent
  PROVE  NegativeCacheSound
<1> SUFFICES ASSUME NEW k \in negativeCache PROVE Current(k) = NoEntry
  BY DEF NegativeCacheSound
<1>1. k \in Keys /\ sstables \in Seq(SSTableIDs)
  BY DEF TypeInvariant, TypeOK, MemoryType
<1>2. TablesEntry(dir, sstables, k) = NoEntry
  BY <1>1, LookupNothing DEF CacheConsistent
<1> QED
  BY <1>2 DEF CacheConsistent, Current, StoreEntry

\* Steps that add no entry anywhere and no key to the cache.
LEMMA CacheKept ==
  ASSUME CacheConsistent,
         negativeCache' \subseteq negativeCache,
         \A k \in negativeCache' : mt'[k] = NoEntry,
         \A k \in negativeCache' :
           \A id \in Range(sstables') \cup Range(fresh') : Contents(dir', id)[k] = NoEntry
  PROVE  CacheConsistent'
BY DEF CacheConsistent, Contents, Readable

\* An SSTable that is created is empty, and what is then saved in it holds no key
\* that the memtable and the SSTables of the list have no entry for.
LEMMA CacheSaving ==
  ASSUME KeysSurviveJSON, TypeInvariant, TypeInvariant', CacheConsistent,
         CreateSSTable \/ EncodeSSTable
  PROVE  CacheConsistent'
<1>1. /\ IsDirectory(dir) /\ fresh \in Seq(SSTableIDs) /\ sstables \in Seq(SSTableIDs)
      /\ negativeCache \subseteq Keys /\ nextSSTableID \in SSTableIDs
  BY DEF TypeInvariant, TypeOK, DirectoryType, CallType, MemoryType
<1>2. UNCHANGED <<negativeCache, mt, sstables>>
  BY DEF CreateSSTable, EncodeSSTable, memoryVars
<1>3. CASE CreateSSTable
  <2>1. /\ dir' = Saved(dir, nextSSTableID, Partial)
        /\ fresh' = Append(fresh, nextSSTableID)
    BY <1>3 DEF CreateSSTable, ChangeName
  <2>2. Range(fresh') = Range(fresh) \cup {nextSSTableID}
    BY <1>1, <2>1, AppendKeeps
  <2>3. ASSUME NEW k \in negativeCache, NEW id \in Range(sstables') \cup Range(fresh')
        PROVE  Contents(dir', id)[k] = NoEntry
    <3>1. Contents(dir', id) =
            IF id = nextSSTableID THEN EmptyTable ELSE Contents(dir, id)
      BY <1>1, <2>1, SavedContents
    <3> QED
      BY <1>1, <1>2, <2>2, <3>1 DEF CacheConsistent, EmptyTable
  <2> QED
    BY <1>2, <2>3, CacheKept DEF CacheConsistent
<1>4. CASE EncodeSSTable
  <2>1. dir' = Saved(dir, Last(fresh), SavedTable) /\ fresh' = fresh
    BY <1>4 DEF EncodeSSTable, SyncDirectory, GoTo, callVars
  <2>2. SavedTable # Partial
    BY SavedTableType, StoreAssumption DEF TypeInvariant, TypeOK
  <2>3. ASSUME NEW k \in negativeCache, NEW id \in Range(sstables') \cup Range(fresh')
        PROVE  Contents(dir', id)[k] = NoEntry
    <3>1. Contents(dir', id) =
            IF id = Last(fresh) THEN SavedTable ELSE Contents(dir, id)
      BY <1>1, <2>1, <2>2, SavedContents
    <3>2. SavedTable[k] = NoEntry
      <4>1. mt[k] = NoEntry /\ k \in Keys
        BY <1>1 DEF CacheConsistent
      <4>2. Decoded(NoEntry) = NoEntry /\ ReadBack(mt)[k] = NoEntry
        BY <4>1, EntriesAssumption, NothingRenamed DEF Decoded
      <4>3. TablesEntry(dir, sstables, k) = NoEntry
        BY <1>1, <4>1, LookupNothing DEF CacheConsistent
      <4>4. \A c : Chunk(c)[k] = NoEntry
        BY <4>1, <4>2, <4>3, NothingRenamed DEF Chunk
      <4> QED
        BY <4>2, <4>4 DEF SavedTable
    <3> QED
      BY <1>2, <2>1, <3>1, <3>2 DEF CacheConsistent
  <2> QED
    BY <1>2, <2>3, CacheKept DEF CacheConsistent
<1> QED
  BY <1>3, <1>4

\* A new list is made of SSTables of the old list and of those saved.
LEMMA CacheListing ==
  ASSUME TypeInvariant, CacheConsistent, SyncManifest
  PROVE  CacheConsistent'
<1>1. UNCHANGED <<negativeCache, fresh, dir>> /\ sstables' = NewSSTables
  BY DEF SyncManifest, SyncDirectory, callVars
<1>2. Range(sstables') \subseteq Range(fresh) \cup Range(sstables)
  BY <1>1, NewSSTablesRange
<1>3. \A k \in negativeCache : mt'[k] = NoEntry
  <2>1. negativeCache \subseteq Keys /\ mt' \in {mt, EmptyTable}
    BY DEF TypeInvariant, TypeOK, MemoryType, SyncManifest
  <2> QED
    BY <2>1 DEF EmptyTable, CacheConsistent
<1> QED
  BY <1>1, <1>2, <1>3, CacheKept DEF CacheConsistent

\* An SSTable that is removed has no entries left.
LEMMA CacheRemoving ==
  ASSUME TypeInvariant, CacheConsistent,
         NEW gone, dir' = Removed(dir, gone),
         UNCHANGED <<negativeCache, mt, sstables, fresh>>
  PROVE  CacheConsistent'
<1>1. IsDirectory(dir) /\ negativeCache \subseteq Keys
  BY DEF TypeInvariant, TypeOK, DirectoryType, MemoryType
<1>2. \A id : Contents(dir', id) = IF id = gone THEN EmptyTable ELSE Contents(dir, id)
  BY <1>1, RemovedContents
<1> QED
  BY <1>1, <1>2, CacheKept DEF CacheConsistent, EmptyTable

\* Every step keeps the negative cache sound.
LEMMA CacheStep ==
  ASSUME KeysSurviveJSON, TypeInvariant, CacheConsistent, [Next]_vars
  PROVE  CacheConsistent'
<1>0. TypeInvariant'
  BY TypeStep
<1>a. negativeCache \subseteq Keys /\ IsDirectory(dir) /\ mt \in Table
  BY DEF TypeInvariant, TypeOK, MemoryType, DirectoryType
<1>1. CASE UNCHANGED vars
  BY <1>1 DEF CacheConsistent, vars, dirVars, memoryVars, callVars
<1>2. CASE Opening
  <2>1. CASE Open
    BY <2>1 DEF Open, CacheConsistent
  <2>2. CASE RemoveDangling
    BY <2>2, CacheRemoving DEF RemoveDangling, ChangeName, GoTo, callVars, memoryVars
  <2>3. CASE FinishOpen
    <3>1. UNCHANGED <<dir, negativeCache, mt, sstables, fresh>>
      BY <2>3 DEF FinishOpen, SyncDirectory, GoTo, callVars, memoryVars, dirVars
    <3> QED
      BY <3>1 DEF CacheConsistent
  <2> QED
    BY <1>2, <2>1, <2>2, <2>3 DEF Opening
<1>3. ASSUME NEW k \in Keys, Get(k) PROVE CacheConsistent'
  <2>1. UNCHANGED <<dir, mt, sstables>> /\ fresh' = <<>>
    BY <1>3 DEF Get, Return, dirVars
  <2>2. ASSUME NEW j \in negativeCache'
        PROVE  /\ mt[j] = NoEntry
               /\ \A id \in Range(sstables) : Contents(dir, id)[j] = NoEntry
    <3>1. CASE j \in negativeCache
      BY <3>1 DEF CacheConsistent
    <3>2. CASE j \notin negativeCache
      <4>1. j \in Keys /\ Current(j) = NoEntry
        BY <1>3, <3>2 DEF Get
      <4>2. mt[j] = NoEntry /\ TablesEntry(dir, sstables, j) = NoEntry
        BY <4>1 DEF Current, StoreEntry
      <4>3. sstables \in Seq(SSTableIDs)
        BY DEF TypeInvariant, TypeOK, MemoryType
      <4> QED
        BY <4>1, <4>2, <4>3, LookupNothing
    <3> QED
      BY <3>1, <3>2
  <2> QED
    BY <2>1, <2>2, EmptyRange DEF CacheConsistent
<1>4. ASSUME NEW k \in Keys, NEW e \in Entry, Write(k, e) PROVE CacheConsistent'
  BY <1>4 DEF Write, CacheConsistent, dirVars, memoryVars
<1>5. CASE Logging
  <2>1. CASE WriteRecord
    BY <2>1 DEF WriteRecord, CacheConsistent, dirVars, memoryVars, GoTo, callVars
  <2>2. CASE WriteTerminator
    <3>1. /\ UNCHANGED <<dir, sstables>> /\ fresh' \in {fresh, <<>>}
          /\ negativeCache' = negativeCache \ {request.key}
          /\ mt' = [mt EXCEPT ![request.key] = request.entry]
      BY <2>2 DEF WriteTerminator, Uncached, AfterFlush, ReturnStored, Return, GoTo,
         StartSaving, callVars, dirVars
    <3>2. \A k \in negativeCache' : k \in negativeCache /\ mt'[k] = mt[k]
      BY <1>a, <3>1 DEF Table
    <3> QED
      BY <3>1, <3>2, EmptyRange DEF CacheConsistent
  <2> QED
    BY <1>5, <2>1, <2>2 DEF Logging
<1>6. CASE RenameManifest
  <2>1. dir' = Renamed(dir, Reverse(NewSSTables))
        /\ UNCHANGED <<negativeCache, mt, sstables, fresh>>
    BY <1>6 DEF RenameManifest, ChangeName, GoTo, callVars, memoryVars
  <2>2. \A id : Contents(dir', id) = Contents(dir, id)
    BY <1>a, <2>1, RenamedContents
  <2> QED
    BY <2>1, <2>2 DEF CacheConsistent
<1>7. CASE RemoveOld
  BY <1>7, CacheRemoving DEF RemoveOld, ChangeName, memoryVars
<1>8. CASE TruncateLog \/ Compact \/ FinishCompaction \/ Failing
  <2>1. UNCHANGED <<dir, negativeCache, mt, sstables>> /\ fresh' \in {fresh, <<>>}
    BY <1>8 DEF TruncateLog, Compact, FinishCompaction, Failing, WriteRecordFails,
       WriteTerminatorFails, CreateSSTableFails, EncodeSSTableFails,
       RenameManifestFails, SyncManifestFails, TruncateLogFails, CompactFails,
       RemoveOldFails, GetFails, AfterFlush, ReturnStored, Return, GoTo, StartSaving,
       callVars, dirVars, memoryVars
  <2> QED
    BY <2>1, EmptyRange DEF CacheConsistent
<1>9. CASE Crash \/ PowerLoss
  BY <1>9 DEF Crash, PowerLoss, LoseMemory, CacheConsistent
<1> QED
  BY <1>0, <1>1, <1>2, <1>3, <1>4, <1>5, <1>6, <1>7, <1>8, <1>9, CacheSaving, CacheListing
     DEF Next, Flushing, Compacting

\* Get may answer from the negative cache: no write, flush, compaction, failed
\* call or stop ever leaves an entry for a key that is in it, if every key is
\* valid UTF-8 (lsm_tree_store.go:122).
THEOREM CacheNeverHides ==
  ASSUME KeysSurviveJSON
  PROVE  Spec => []NegativeCacheSound
<1>1. Init => TypeInvariant /\ CacheConsistent
  BY InitType DEF Init, CacheConsistent
<1>2. TypeInvariant /\ CacheConsistent /\ [Next]_vars
        => (TypeInvariant /\ CacheConsistent)'
  BY TypeStep, CacheStep
<1>3. TypeInvariant /\ CacheConsistent => NegativeCacheSound
  BY CacheSound
<1> QED
  BY <1>1, <1>2, <1>3, PTL DEF Spec

-----------------------------------------------------------------------------
(* What is saved *)

\* A step that leaves the list and the contents of its SSTables alone leaves the
\* result of every lookup, and of the merge.
LEMMA SameTables ==
  ASSUME TypeInvariant, sstables' = sstables,
         \A id \in Range(sstables) : Contents(dir', id) = Contents(dir, id)
  PROVE  /\ \A k \in Keys : TablesEntry(dir', sstables', k) = TablesEntry(dir, sstables, k)
         /\ Live' = Live /\ ChunkCount' = ChunkCount
         /\ \A c : Chunk(c)' = Chunk(c)
<1>1. \A k \in Keys : TablesEntry(dir', sstables', k) = TablesEntry(dir, sstables, k)
  BY LookupSame DEF TypeInvariant, TypeOK, MemoryType
<1>2. Live' = Live
  BY <1>1 DEF Live
<1>3. ChunkCount' = ChunkCount
  BY <1>2 DEF ChunkCount
<1>4. \A c : Chunk(c)' = Chunk(c)
  <2>1. \A k \in Keys : ChunkOf(k)' = ChunkOf(k)
    BY <1>2 DEF ChunkOf
  <2> QED
    BY <1>1, <1>2, <2>1 DEF Chunk
<1> QED
  BY <1>1, <1>2, <1>3, <1>4

\* Live keys are counted.
LEMMA LiveCounted ==
  /\ IsFiniteSet(Live) /\ Live \subseteq Keys
  /\ Cardinality(Live) \in Nat /\ ChunkCount \in Nat
<1>1. IsFiniteSet(Live) /\ Live \subseteq Keys
  BY KeysAssumption, FS_Subset DEF Live
<1>2. Cardinality(Live) \in Nat
  BY <1>1, FS_CardinalityType
<1>3. ChunkCount \in Nat
  BY <1>2, StoreAssumption DEF ChunkCount
<1> QED
  BY <1>1, <1>2, <1>3

\* The files of the list are there, those being saved are others.
LEMMA FreshApart ==
  ASSUME Consistent, pc \in Saving
  PROVE  /\ \A id \in Range(sstables) : id \in DOMAIN dir.tables /\ id \notin Range(fresh)
         /\ \A i \in DOMAIN fresh : fresh[i] \in DOMAIN dir.tables
<1>1. \A id \in Range(sstables) : id \in DOMAIN dir.tables /\ id \notin Range(fresh)
  BY DEF Consistent, DirectoryConsistent, ListedTablesReadable, Readable, FreshConsistent
<1>2. ASSUME NEW i \in DOMAIN fresh PROVE fresh[i] \in DOMAIN dir.tables
  <2>1. CASE pc = "encode" /\ i = Len(fresh)
    BY <2>1 DEF Consistent, DirectoryConsistent, CallConsistent, Last
  <2>2. CASE ~ (pc = "encode" /\ i = Len(fresh))
    BY <2>2 DEF Consistent, DirectoryConsistent, FreshConsistent, Readable
  <2> QED
    BY <2>1, <2>2
<1> QED
  BY <1>1, <1>2

\* Creating a file changes no SSTable of the list and none saved before.
LEMMA SavedCreate ==
  ASSUME Consistent, SavedConsistent, CreateSSTable
  PROVE  /\ SavedConsistent'
         /\ \A id \in Range(sstables) : Contents(dir', id) = Contents(dir, id)
<1>1. /\ IsDirectory(dir) /\ fresh \in Seq(SSTableIDs) /\ nextSSTableID \in SSTableIDs
      /\ TypeInvariant
  BY DEF Consistent, TypeInvariant, TypeOK, DirectoryType, CallType, MemoryType
<1>2. /\ pc = "create" /\ pc' = "encode" /\ UNCHANGED <<sstables, mt, task>>
      /\ dir' = Saved(dir, nextSSTableID, Partial)
      /\ nextSSTableID \notin DOMAIN dir.tables
      /\ fresh' = Append(fresh, nextSSTableID)
  BY DEF CreateSSTable, ChangeName
<1>3. \A id : id \in DOMAIN dir.tables => Contents(dir', id) = Contents(dir, id)
  BY <1>1, <1>2, SavedContents
<1>4. /\ \A id \in Range(sstables) : Contents(dir', id) = Contents(dir, id)
      /\ \A i \in DOMAIN fresh : /\ Contents(dir', fresh[i]) = Contents(dir, fresh[i])
                                 /\ fresh[i] # nextSSTableID
  BY <1>2, <1>3, FreshApart DEF Saving
<1>5. \A i : TableFor(i)' = TableFor(i)
  BY <1>1, <1>2, <1>4, SameTables DEF TableFor
<1>6. ChunkCount' = ChunkCount /\ ChunkCount \in Nat
  BY <1>1, <1>2, <1>4, SameTables, LiveCounted
<1>7. /\ DOMAIN fresh' = 1 .. Len(fresh) + 1 /\ Len(fresh') = Len(fresh) + 1
      /\ DOMAIN fresh = 1 .. Len(fresh) /\ Len(fresh) \in Nat
      /\ \A i \in DOMAIN fresh : fresh'[i] = fresh[i]
      /\ fresh'[Len(fresh) + 1] = nextSSTableID
  BY <1>1, <1>2
<1>8. \A i, j \in DOMAIN fresh' : fresh'[i] = fresh'[j] => i = j
  <2>1. \A i, j \in DOMAIN fresh : fresh[i] = fresh[j] => i = j
    BY <1>2 DEF SavedConsistent, Saving
  <2> QED
    BY <1>4, <1>7, <2>1
<1>9. \A i \in DOMAIN fresh' : i # Len(fresh') => Contents(dir', fresh'[i]) = TableFor(i)'
  <2>1. \A i \in DOMAIN fresh : Contents(dir, fresh[i]) = TableFor(i)
    BY <1>2 DEF SavedConsistent, Saving
  <2> QED
    BY <1>4, <1>5, <1>7, <2>1
<1>10. \/ task = "flush" /\ Len(fresh) = 0
       \/ task = "compact" /\ Len(fresh) < ChunkCount
  BY <1>2 DEF SavedConsistent, Saving
<1>11. SavedConsistent'
  BY <1>2, <1>6, <1>7, <1>8, <1>9, <1>10 DEF SavedConsistent
<1> QED
  BY <1>4, <1>11

\* Writing it completes what was to be saved.
LEMMA SavedEncode ==
  ASSUME Consistent, SavedConsistent, EncodeSSTable
  PROVE  /\ SavedConsistent'
         /\ \A id \in Range(sstables) : Contents(dir', id) = Contents(dir, id)
<1>1. IsDirectory(dir) /\ fresh \in Seq(SSTableIDs) /\ TypeInvariant
  BY DEF Consistent, TypeInvariant, TypeOK, DirectoryType, CallType
<1> DEFINE n == Len(fresh)
<1>2. /\ pc = "encode" /\ UNCHANGED <<sstables, mt, task, fresh>>
      /\ dir' = Saved(dir, fresh[n], SavedTable)
      /\ pc' = IF task = "compact" /\ n < ChunkCount THEN "create" ELSE "rename"
  BY DEF EncodeSSTable, SyncDirectory, GoTo, callVars, memoryVars, Last
<1>3. DOMAIN fresh = 1 .. n /\ n \in Nat
  BY <1>1
<1>4. n \in DOMAIN fresh
  BY <1>2, <1>3 DEF Consistent, DirectoryConsistent, CallConsistent
<1>5. SavedTable = TableFor(n) /\ SavedTable # Partial
  <2>1. SavedTable # Partial
    BY SavedTableType, StoreAssumption DEF Consistent, TypeInvariant, TypeOK
  <2> QED
    BY <2>1 DEF SavedTable, TableFor
<1>6. /\ \A i, j \in DOMAIN fresh : fresh[i] = fresh[j] => i = j
      /\ \A i \in DOMAIN fresh : i # n => Contents(dir, fresh[i]) = TableFor(i)
  BY <1>2 DEF SavedConsistent, Saving
<1>7. \A id : Contents(dir', id) = IF id = fresh[n] THEN TableFor(n) ELSE Contents(dir, id)
  BY <1>1, <1>2, <1>5, SavedContents
<1>8. \A id \in Range(sstables) : Contents(dir', id) = Contents(dir, id)
  <2>1. fresh[n] \in Range(fresh)
    BY <1>4 DEF Range
  <2> QED
    BY <1>2, <1>7, <2>1, FreshApart DEF Saving
<1>9. /\ \A i : TableFor(i)' = TableFor(i)
      /\ ChunkCount' = ChunkCount /\ ChunkCount \in Nat
  BY <1>1, <1>2, <1>8, SameTables, LiveCounted DEF TableFor
<1>10. \A i \in DOMAIN fresh : Contents(dir', fresh[i]) = TableFor(i)'
  BY <1>4, <1>6, <1>7, <1>9
<1>11. \/ task = "flush" /\ n = 1
       \/ task = "compact" /\ n <= ChunkCount
  BY <1>2 DEF SavedConsistent, Saving
<1>12. SavedConsistent'
  <2>1. pc' \in {"create", "rename"}
    BY <1>2
  <2>2. \/ task' = "flush" /\ Len(fresh') = IF pc' = "create" THEN 0 ELSE 1
        \/ /\ task' = "compact"
           /\ Len(fresh') <= ChunkCount'
           /\ pc' = "create" => Len(fresh') < ChunkCount'
           /\ pc' \in {"rename", "syncdir"} => Len(fresh') = ChunkCount'
    <3>1. CASE task = "flush" /\ n = 1
      BY <1>2, <3>1
    <3>2. CASE task = "compact" /\ n <= ChunkCount
      <4>1. n \in Nat /\ ChunkCount \in Nat /\ ChunkCount' = ChunkCount
        BY <1>3, <1>9
      <4> HIDE DEF n
      <4>2. n < ChunkCount \/ n = ChunkCount
        BY <3>2, <4>1
      <4> QED
        BY <1>2, <3>2, <4>1, <4>2 DEF n
    <3> QED
      BY <1>11, <3>1, <3>2
  <2> HIDE DEF n
  <2> QED
    BY <1>2, <1>6, <1>10, <2>1, <2>2 DEF SavedConsistent
<1> QED
  BY <1>8, <1>12

\* Renaming keeps what was saved, and the new MANIFEST is the list to be.
LEMMA SavedRename ==
  ASSUME Consistent, SavedConsistent, RenameManifest
  PROVE  SavedConsistent' /\ \A id : Contents(dir', id) = Contents(dir, id)
<1>1. IsDirectory(dir) /\ TypeInvariant
  BY DEF Consistent, TypeInvariant, TypeOK, DirectoryType
<1>2. /\ pc = "rename" /\ pc' = "syncdir" /\ UNCHANGED <<sstables, mt, task, fresh>>
      /\ dir' = Renamed(dir, Reverse(NewSSTables))
  BY DEF RenameManifest, ChangeName, GoTo, callVars, memoryVars
<1>3. \A id : Contents(dir', id) = Contents(dir, id)
  BY <1>1, <1>2, RenamedContents
<1>4. (\A i : TableFor(i)' = TableFor(i)) /\ ChunkCount' = ChunkCount
  BY <1>1, <1>2, <1>3, SameTables DEF TableFor
<1>5. dir'.manifest = Reverse(NewSSTables')
  BY <1>1, <1>2, RenamedReadable DEF NewSSTables
<1> QED
  BY <1>2, <1>3, <1>4, <1>5 DEF SavedConsistent, Saving

\* Every step keeps it.
LEMMA SavedStep ==
  ASSUME Consistent, SavedConsistent, [Next]_vars
  PROVE  SavedConsistent'
<1>1. CASE UNCHANGED vars
  BY <1>1 DEF SavedConsistent, TableFor, Chunk, ChunkOf, ChunkCount, Live, NewSSTables,
     vars, dirVars, memoryVars, callVars
<1>2. CASE pc' \notin Saving
  BY <1>2 DEF SavedConsistent, Saving
<1>3. CASE pc' \in Saving /\ WriteTerminator
  BY <1>3 DEF WriteTerminator, AfterFlush, ReturnStored, Return, GoTo, StartSaving,
     SavedConsistent, Saving
<1>4. CASE pc' \in Saving /\ Compact
  <2>1. /\ task' = "compact" /\ fresh' = <<>> /\ UNCHANGED <<dir, sstables>>
        /\ pc' = IF ChunkCount = 0 THEN "rename" ELSE "create"
    BY <1>4 DEF Compact, StartSaving, dirVars, memoryVars
  <2>2. ChunkCount' = ChunkCount /\ ChunkCount \in Nat
    BY <2>1, LiveCounted DEF ChunkCount, Live
  <2> QED
    BY <2>1, <2>2 DEF SavedConsistent, Saving
<1> QED
  BY <1>1, <1>2, <1>3, <1>4, Destinations, SavedCreate, SavedEncode, SavedRename
     DEF Saving

-----------------------------------------------------------------------------
(* What is listed and removed once *)

\* No element occurs twice.
Distinct(s) == \A i, j \in DOMAIN s : s[i] = s[j] => i = j

\* The inductive invariant: no list names an SSTable twice, and every old SSTable
\* that is still to be removed is there.
ListsConsistent ==
  /\ Distinct(sstables) /\ \A d \in images : Distinct(d.manifest)
  /\ pc = "remove" => Distinct(old) /\ \A i \in DOMAIN old : old[i] \in DOMAIN dir.tables

LEMMA ReverseDistinct ==
  ASSUME NEW S, NEW s \in Seq(S), Distinct(s)
  PROVE  Distinct(Reverse(s))
<1> DEFINE n == Len(s)
           r == Reverse(s)
<1>1. n \in Nat /\ DOMAIN s = 1 .. n
  OBVIOUS
<1>2. r = [i \in 1 .. n |-> s[(n - i) + 1]]
  BY DEF Reverse
<1> HIDE DEF n, r
<1>3. ASSUME NEW i \in 1 .. n, NEW j \in 1 .. n, r[i] = r[j]
      PROVE  i = j
  <2>1. (n - i) + 1 \in 1 .. n /\ (n - j) + 1 \in 1 .. n
    BY <1>1
  <2>2. s[(n - i) + 1] = s[(n - j) + 1]
    BY <1>2, <1>3
  <2>3. (n - i) + 1 = (n - j) + 1
    BY <1>1, <2>1, <2>2 DEF Distinct
  <2> QED
    BY <1>1, <2>3
<1> QED
  BY <1>2, <1>3 DEF Distinct, r

LEMMA ConcatDistinct ==
  ASSUME NEW S, NEW s \in Seq(S), NEW t \in Seq(S), Distinct(s), Distinct(t),
         Range(s) \cap Range(t) = {}
  PROVE  Distinct(s \o t)
<1> DEFINE c == s \o t
           m == Len(s)
           n == Len(t)
<1>1. /\ m \in Nat /\ n \in Nat /\ DOMAIN s = 1 .. m /\ DOMAIN t = 1 .. n
      /\ DOMAIN c = 1 .. m + n
      /\ \A i \in 1 .. m : c[i] = s[i]
      /\ \A i \in m + 1 .. m + n : c[i] = t[i - m]
  OBVIOUS
<1> HIDE DEF c, m, n
<1>2. \A i \in 1 .. m : c[i] \in Range(s)
  BY <1>1 DEF Range
<1>3. \A i \in m + 1 .. m + n : i - m \in 1 .. n /\ c[i] \in Range(t)
  BY <1>1 DEF Range
<1>4. ASSUME NEW i \in 1 .. m + n, NEW j \in 1 .. m + n, c[i] = c[j]
      PROVE  i = j
  <2>1. CASE i \in 1 .. m /\ j \in 1 .. m
    BY <1>1, <1>4, <2>1 DEF Distinct
  <2>2. CASE i \in m + 1 .. m + n /\ j \in m + 1 .. m + n
    <3>1. t[i - m] = t[j - m] /\ i - m \in DOMAIN t /\ j - m \in DOMAIN t
      BY <1>1, <1>3, <1>4, <2>2
    <3>2. i - m = j - m
      BY <3>1 DEF Distinct
    <3> QED
      BY <1>1, <3>2
  <2>3. CASE \/ i \in 1 .. m /\ j \in m + 1 .. m + n
             \/ j \in 1 .. m /\ i \in m + 1 .. m + n
    BY <1>2, <1>3, <1>4, <2>3
  <2> QED
    BY <1>1, <2>1, <2>2, <2>3
<1> QED
  BY <1>1, <1>4 DEF Distinct, c

LEMMA TailDistinct ==
  ASSUME NEW S, NEW s \in Seq(S), s # <<>>, Distinct(s)
  PROVE  /\ Distinct(Tail(s)) /\ Head(s) = s[1] /\ 1 \in DOMAIN s
         /\ \A i \in DOMAIN Tail(s) :
              i + 1 \in DOMAIN s /\ Tail(s)[i] = s[i + 1] /\ Tail(s)[i] # Head(s)
<1> DEFINE t == Tail(s)
<1>1. /\ Len(s) \in Nat \ {0} /\ DOMAIN s = 1 .. Len(s) /\ Head(s) = s[1]
      /\ DOMAIN t = 1 .. Len(s) - 1
      /\ \A i \in 1 .. Len(s) - 1 : t[i] = s[i + 1]
  OBVIOUS
<1> HIDE DEF t
<1>2. 1 \in DOMAIN s /\ \A i \in DOMAIN t : i \in Nat /\ i + 1 \in DOMAIN s /\ i + 1 # 1
  BY <1>1
<1>3. \A i \in DOMAIN t : t[i] = s[i + 1] /\ t[i] # s[1]
  BY <1>1, <1>2 DEF Distinct
<1>4. ASSUME NEW i \in DOMAIN t, NEW j \in DOMAIN t, t[i] = t[j]
      PROVE  i = j
  <2>1. i + 1 = j + 1
    BY <1>2, <1>3, <1>4 DEF Distinct
  <2> QED
    BY <1>2, <2>1
<1> QED
  BY <1>1, <1>2, <1>3, <1>4 DEF Distinct, t

\* The list that a flush or a compaction is to install has none twice either.
LEMMA NewListDistinct ==
  ASSUME Consistent, SavedConsistent, ListsConsistent, pc \in Saving
  PROVE  Distinct(NewSSTables) /\ Distinct(Reverse(NewSSTables))
<1>1. fresh \in Seq(SSTableIDs) /\ sstables \in Seq(SSTableIDs)
      /\ NewSSTables \in Seq(SSTableIDs)
  BY NewSSTablesType DEF Consistent, TypeInvariant, TypeOK, CallType, MemoryType
<1>2. Distinct(fresh) /\ Distinct(sstables) /\ Range(fresh) \cap Range(sstables) = {}
  BY DEF SavedConsistent, ListsConsistent, Consistent, DirectoryConsistent,
     FreshConsistent, Distinct
<1>3. Distinct(NewSSTables)
  BY <1>1, <1>2, ConcatDistinct, ReverseDistinct DEF NewSSTables
<1> QED
  BY <1>1, <1>3, ReverseDistinct

\* Every step keeps it.
LEMMA ListsStep ==
  ASSUME Journaled, Consistent, SavedConsistent, ListsConsistent, [Next]_vars
  PROVE  ListsConsistent'
<1> USE DEF ListsConsistent
<1>1. /\ IsDirectory(dir) /\ dir \in images
      /\ \A id \in Range(sstables) : id \in DOMAIN dir.tables
      /\ sstables \in Seq(SSTableIDs) /\ old \in Seq(SSTableIDs)
  BY DEF Consistent, TypeInvariant, TypeOK, DirectoryType, MemoryType, CallType,
     DirectoryConsistent, ListedTablesReadable, Readable
<1>2. Distinct(<<>>)
  BY DEF Distinct
<1>3. CASE UNCHANGED vars
  BY <1>3 DEF vars, dirVars, memoryVars, callVars
<1>4. CASE Open
  <2>1. sstables' = Reverse(dir.manifest) /\ images' = images /\ pc' # "remove"
    BY <1>4 DEF Open, dirVars, GoTo
  <2> QED
    BY <1>1, <2>1, ReverseDistinct DEF IsDirectory
<1>5. ASSUME NEW new, images' \subseteq images \cup {new}, new.manifest = dir.manifest,
             sstables' = sstables, pc' # "remove"
      PROVE  ListsConsistent'
  BY <1>1, <1>5
<1>6. CASE RemoveDangling
  <2>1. PICK id : images' = images \cup {Removed(dir, id)}
    BY <1>6 DEF RemoveDangling, ChangeName
  <2>2. sstables' = sstables /\ pc' # "remove"
    BY <1>6 DEF RemoveDangling, memoryVars, GoTo
  <2>3. Removed(dir, id).manifest = dir.manifest
    BY <1>1 DEF IsDirectory, Removed
  <2> QED
    BY <1>5, <2>1, <2>2, <2>3
<1>7. CASE FinishOpen
  <2>1. images' \subseteq images \cup {dir} /\ sstables' = sstables /\ pc' # "remove"
    BY <1>7 DEF FinishOpen, SyncDirectory, dirVars, memoryVars, GoTo
  <2> QED
    BY <1>5, <2>1
<1>8. CASE CreateSSTable
  <2>1. /\ images' = images \cup {Saved(dir, nextSSTableID, Partial)}
        /\ sstables' = sstables /\ pc' # "remove"
    BY <1>8 DEF CreateSSTable, ChangeName
  <2>2. Saved(dir, nextSSTableID, Partial).manifest = dir.manifest
    BY <1>1 DEF IsDirectory, Saved
  <2> QED
    BY <1>5, <2>1, <2>2
<1>9. CASE EncodeSSTable
  <2>1. /\ images' = {Saved(dir, Last(fresh), SavedTable)}
        /\ sstables' = sstables /\ pc' # "remove"
    BY <1>9 DEF EncodeSSTable, SyncDirectory, memoryVars, GoTo
  <2>2. Saved(dir, Last(fresh), SavedTable).manifest = dir.manifest
    BY <1>1 DEF IsDirectory, Saved
  <2> QED
    BY <1>5, <2>1, <2>2
<1>10. CASE RenameManifest
  <2>1. /\ images' = images \cup {Renamed(dir, Reverse(NewSSTables))}
        /\ sstables' = sstables /\ pc' # "remove" /\ pc \in Saving
    BY <1>10 DEF RenameManifest, ChangeName, memoryVars, GoTo, Saving
  <2>2. Renamed(dir, Reverse(NewSSTables)).manifest = Reverse(NewSSTables)
    BY <1>1 DEF IsDirectory, Renamed
  <2> QED
    BY <2>1, <2>2, NewListDistinct
<1>11. CASE SyncManifest
  <2>1. /\ images' = {dir} /\ dir' = dir /\ sstables' = NewSSTables /\ pc \in Saving
        /\ pc' = "remove" => old' = sstables
    BY <1>11 DEF SyncManifest, SyncDirectory, Replaced, Saving
  <2>2. \A i \in DOMAIN sstables : sstables[i] \in DOMAIN dir.tables
    BY <1>1 DEF Range
  <2> QED
    BY <1>1, <2>1, <2>2, NewListDistinct
<1>12. CASE RemoveOld
  <2> DEFINE id == Head(old)
  <2>1. /\ pc = "remove" /\ old # <<>> /\ old' = Tail(old)
        /\ dir' = Removed(dir, id) /\ images' = images \cup {Removed(dir, id)}
        /\ sstables' = sstables
    BY <1>12 DEF RemoveOld, ChangeName, memoryVars
  <2>2. /\ Distinct(Tail(old))
        /\ \A i \in DOMAIN Tail(old) : Tail(old)[i] \in DOMAIN dir.tables \ {id}
    BY <1>1, <2>1, TailDistinct
  <2> HIDE DEF id
  <2>3. /\ Removed(dir, id).manifest = dir.manifest
        /\ DOMAIN Removed(dir, id).tables = DOMAIN dir.tables \ {id}
    BY <1>1 DEF IsDirectory, Removed
  <2> QED
    BY <1>1, <2>1, <2>2, <2>3
<1>13. CASE Crash \/ PowerLoss
  <2>1. sstables' = <<>> /\ images' \subseteq images /\ pc' = "down"
    BY <1>13 DEF Crash, PowerLoss, LoseMemory, dirVars
  <2> QED
    BY <1>2, <2>1
<1>14. CASE /\ ~ UNCHANGED vars
            /\ ~ Open /\ ~ RemoveDangling /\ ~ FinishOpen /\ ~ CreateSSTable
            /\ ~ EncodeSSTable /\ ~ RenameManifest /\ ~ SyncManifest /\ ~ RemoveOld
            /\ ~ Crash /\ ~ PowerLoss
  BY <1>14, QuietSteps, Destinations
<1> QED
  BY <1>3, <1>4, <1>6, <1>7, <1>8, <1>9, <1>10, <1>11, <1>12, <1>13, <1>14

\* What earlier failures, crashes and power failures left in a journaled directory
\* makes no later call fail: an open, a create with O_EXCL and a removal always
\* find the directory as they expect it, whatever the keys and the values.
THEOREM NothingLeftFails ==
  ASSUME Journaled
  PROVE  Spec => []OnlyTheDiskFails
<1> DEFINE IInv == Consistent /\ SavedConsistent /\ ListsConsistent
<1>1. ASSUME Init PROVE IInv
  <2>1. pc = "down" /\ sstables = <<>> /\ images = {dir} /\ dir.manifest = <<>>
    BY <1>1 DEF Init, EmptyDirectory
  <2>2. Distinct(<<>>)
    BY DEF Distinct
  <2>3. SavedConsistent /\ ListsConsistent
    BY <2>1, <2>2 DEF SavedConsistent, ListsConsistent, Saving
  <2> QED
    BY <1>1, <2>3, ConsistentInit
<1>2. IInv /\ [Next]_vars => IInv'
  BY ConsistentStep, SavedStep, ListsStep
<1>3. ASSUME IInv PROVE OnlyTheDiskFails
  <2>1. \A i \in DOMAIN sstables : Readable(dir, sstables[i])
    BY <1>3 DEF Consistent, DirectoryConsistent, ListedTablesReadable, Range
  <2>2. pc = "create" => nextSSTableID \notin DOMAIN dir.tables
    <3>1. nextSSTableID \in Nat
      BY <1>3 DEF Consistent, TypeInvariant, TypeOK, MemoryType, SSTableIDs
    <3> QED
      BY <1>3, <3>1 DEF Consistent, DirectoryConsistent, FreshIDs, NotServing
  <2>3. pc = "remove" /\ old # <<>> => Head(old) \in DOMAIN dir.tables
    <3>1. old \in Seq(SSTableIDs)
      BY <1>3 DEF Consistent, TypeInvariant, TypeOK, CallType
    <3> QED
      BY <1>3, <3>1, TailDistinct DEF ListsConsistent
  <2> QED
    BY <2>1, <2>2, <2>3 DEF OnlyTheDiskFails, LookupSucceeds
<1> QED
  BY <1>1, <1>2, <1>3, PTL DEF Spec

-----------------------------------------------------------------------------
(* What Get finds, if every key and value survives JSON *)

\* Every value is valid UTF-8: it comes back from JSON as it went in.
ValuesSurviveJSON == \A v \in Values : RoundTrip[v] = v

\* Then nothing changes an entry, nor a table that is written to an SSTable file.
LEMMA NothingDecoded ==
  ASSUME ValuesSurviveJSON, NEW e
  PROVE  Decoded(e) = e
BY DEF ValuesSurviveJSON, Decoded

LEMMA NothingRewritten ==
  ASSUME KeysSurviveJSON, ValuesSurviveJSON, NEW table, NEW k \in Keys
  PROVE  ReadBack(table)[k] = table[k]
BY NothingDecoded, NothingRenamed

\* Every key that lives belongs to one of the SSTables that compact() cuts.
LEMMA ChunksCover ==
  ASSUME NEW k \in Live
  PROVE  ChunkOf(k) \in 1 .. ChunkCount
<1> DEFINE less == {j \in Live : j < k}
           n == Cardinality(less)
           l == Cardinality(Live)
           m == MaxMemtableEntries
<1>1. IsFiniteSet(Live) /\ Live \subseteq Nat /\ l \in Nat
  BY LiveCounted, KeysAssumption
<1>2. less \subseteq Live /\ k \notin less
  BY <1>1
<1>3. n \in Nat /\ n <= l /\ n # l
  BY <1>1, <1>2, FS_Subset, FS_CardinalityType
<1>4. m \in Nat \ {0}
  BY StoreAssumption
<1>5. ChunkOf(k) = (n \div m) + 1 /\ ChunkCount = (l + m - 1) \div m
  BY DEF ChunkOf, ChunkCount
<1> HIDE DEF n, l, m
<1>6. n < l
  BY <1>1, <1>3
<1>7. n \div m \in Nat /\ (l + m - 1) \div m \in Nat
  BY <1>1, <1>3, <1>4
<1>8. (n \div m) + 1 <= (l + m - 1) \div m
  BY <1>1, <1>3, <1>4, <1>6
<1> QED
  BY <1>5, <1>7, <1>8

\* The SSTables about to be listed hold what the memtable and the list held: a
\* flush to the entry, a compaction to the content.
LEMMA NewListFinds ==
  ASSUME KeysSurviveJSON, ValuesSurviveJSON, Consistent, SavedConsistent,
         pc \in {"rename", "syncdir"}, NEW k \in Keys
  PROVE  /\ task \in {"flush", "compact"}
         /\ task = "flush" =>
              TablesEntry(dir, NewSSTables, k) = StoreEntry(mt, dir, sstables, k)
         /\ task = "compact" =>
              ContentOf(TablesEntry(dir, NewSSTables, k))
                = ContentOf(TablesEntry(dir, sstables, k))
<1>1. /\ fresh \in Seq(SSTableIDs) /\ sstables \in Seq(SSTableIDs)
      /\ IsDirectory(dir) /\ mt \in Table
  BY DEF Consistent, TypeInvariant, TypeOK, CallType, MemoryType, DirectoryType
<1>2. \A i \in DOMAIN fresh : Contents(dir, fresh[i]) = TableFor(i)
  BY DEF SavedConsistent, Saving
<1>3. \/ task = "flush" /\ Len(fresh) = 1
      \/ task = "compact" /\ Len(fresh) = ChunkCount
  BY DEF SavedConsistent, Saving
<1>4. CASE task = "flush" /\ Len(fresh) = 1
  <2>1. fresh = <<fresh[1]>> /\ 1 \in DOMAIN fresh /\ fresh[1] \in SSTableIDs
    <3>1. fresh \in Seq(SSTableIDs) /\ Len(fresh) = 1
      BY <1>1, <1>4
    <3>2. 1 \in DOMAIN fresh /\ fresh[1] \in SSTableIDs
      BY <3>1
    <3>3. fresh = <<fresh[1]>>
      BY <3>1
    <3> QED
      BY <3>2, <3>3
  <2>2. NewSSTables = <<fresh[1]>> \o sstables
    BY <1>4, <2>1 DEF NewSSTables
  <2>3. Contents(dir, fresh[1])[k] = mt[k]
    BY <1>2, <1>4, <2>1, NothingRewritten DEF TableFor
  <2>4. TablesEntry(dir, NewSSTables, k) =
          IF Contents(dir, fresh[1])[k] # NoEntry THEN Contents(dir, fresh[1])[k]
                                                  ELSE TablesEntry(dir, sstables, k)
    BY <1>1, <2>1, <2>2, LookupInFront
  <2> QED
    BY <1>4, <2>3, <2>4 DEF StoreEntry
<1>5. CASE task = "compact" /\ Len(fresh) = ChunkCount
  <2> DEFINE found == TablesEntry(dir, sstables, k)
  <2>1. NewSSTables \in Seq(SSTableIDs) /\ Range(NewSSTables) = Range(fresh)
    BY <1>1, <1>5, ReverseKeeps DEF NewSSTables
  <2>2. ASSUME NEW i \in DOMAIN fresh
        PROVE  Contents(dir, fresh[i])[k] =
                 IF k \in Live /\ ChunkOf(k) = i THEN found ELSE NoEntry
    BY <1>2, <1>5, NothingRewritten DEF TableFor, Chunk
  <2>3. CASE k \in Live
    <3>1. ChunkOf(k) \in DOMAIN fresh
      BY <1>1, <1>5, <2>3, ChunksCover
    <3>2. \A id \in Range(NewSSTables) : Contents(dir, id)[k] \in {NoEntry, found}
      BY <2>1, <2>2 DEF Range
    <3>3. /\ fresh[ChunkOf(k)] \in Range(NewSSTables)
          /\ Contents(dir, fresh[ChunkOf(k)])[k] = found
      BY <2>1, <2>2, <2>3, <3>1 DEF Range
    <3>4. TablesEntry(dir, NewSSTables, k) = found
      BY <2>1, <3>2, <3>3, LookupOnly
    <3> QED
      BY <1>5, <3>4
  <2>4. CASE k \notin Live
    <3>1. \A id \in Range(NewSSTables) : Contents(dir, id)[k] = NoEntry
      BY <2>1, <2>2, <2>4 DEF Range
    <3>2. TablesEntry(dir, NewSSTables, k) = NoEntry
      BY <2>1, <3>1, LookupNothing
    <3>3. found \in {NoEntry, Deleted}
      BY <2>4 DEF Live
    <3> QED
      BY <1>5, <3>2, <3>3, EntriesAssumption DEF ContentOf
  <2> QED
    BY <2>3, <2>4
<1> QED
  BY <1>3, <1>4, <1>5

\* While calls are served every step but the last of manifest.save leaves the
\* list, and what its SSTables hold, alone.
LEMMA TablesKept ==
  ASSUME Consistent, SavedConsistent, [Next]_vars, pc \notin NotServing,
         pc' \notin NotServing, ~ SyncManifest
  PROVE  /\ sstables' = sstables
         /\ \A id \in Range(sstables) : Contents(dir', id) = Contents(dir, id)
<1>1. CASE CreateSSTable \/ EncodeSSTable
  BY <1>1, SavedCreate, SavedEncode DEF CreateSSTable, EncodeSSTable, memoryVars
<1>2. CASE RenameManifest
  BY <1>2, SavedRename DEF RenameManifest, memoryVars
<1>3. CASE RemoveOld
  <2>1. dir' = Removed(dir, Head(old)) /\ sstables' = sstables /\ pc = "remove" /\ old # <<>>
    BY <1>3 DEF RemoveOld, ChangeName, memoryVars
  <2>2. IsDirectory(dir) /\ old \in Seq(SSTableIDs)
    BY DEF Consistent, TypeInvariant, TypeOK, DirectoryType, CallType
  <2>3. Head(old) \notin Range(sstables)
    <3>1. Range(sstables) = Range(fresh) /\ Range(old) \cap Range(fresh) = {}
      BY <2>1 DEF Consistent, DirectoryConsistent, ManifestConsistent
    <3> QED
      BY <2>1, <2>2, <3>1, TailKeeps
  <2> QED
    BY <2>1, <2>2, <2>3, RemovedContents
<1>4. CASE \/ \E k \in Keys : Get(k)
           \/ \E k \in Keys, e \in Entry : Write(k, e)
           \/ Logging \/ TruncateLog \/ Compact \/ FinishCompaction \/ Failing
           \/ UNCHANGED vars
  BY <1>4 DEF Get, Write, Logging, WriteRecord, WriteTerminator, TruncateLog, Compact,
     FinishCompaction, Failing, WriteRecordFails, WriteTerminatorFails,
     CreateSSTableFails, EncodeSSTableFails, RenameManifestFails, SyncManifestFails,
     TruncateLogFails, CompactFails, RemoveOldFails, GetFails, vars, dirVars, memoryVars
<1>5. CASE Opening \/ Crash \/ PowerLoss
  BY <1>5 DEF Opening, Open, RemoveDangling, FinishOpen, Crash, PowerLoss, LoseMemory,
     NotServing
<1> QED
  BY <1>1, <1>2, <1>3, <1>4, <1>5 DEF Next, Flushing, Compacting

\* What Get finds for a key changes only when its own write reaches the memtable.
LEMMA ContentKept ==
  ASSUME KeysSurviveJSON, ValuesSurviveJSON, Consistent, SavedConsistent, [Next]_vars,
         pc \notin NotServing, pc' \notin NotServing, NEW k \in Keys,
         ~ (pc = "terminate" /\ k = request.key)
  PROVE  ContentOf(Current(k)') = ContentOf(Current(k))
<1>0. sstables \in Seq(SSTableIDs) /\ mt \in Table
  BY DEF Consistent, TypeInvariant, TypeOK, MemoryType
<1>1. CASE SyncManifest
  <2>1. pc = "syncdir" /\ dir' = dir /\ sstables' = NewSSTables
        /\ mt' = IF task = "flush" THEN EmptyTable ELSE mt
    BY <1>1 DEF SyncManifest, SyncDirectory
  <2>2. CASE task = "flush"
    BY <2>1, <2>2, NewListFinds DEF Current, StoreEntry, EmptyTable
  <2>3. CASE task = "compact"
    BY <2>1, <2>3, NewListFinds DEF Current, StoreEntry
  <2> QED
    BY <2>1, <2>2, <2>3, NewListFinds
<1>2. CASE ~ SyncManifest
  <2>1. TablesEntry(dir', sstables', k) = TablesEntry(dir, sstables, k)
    BY <1>2, TablesKept, SameTables DEF Consistent
  <2>2. mt'[k] = mt[k]
    <3>1. CASE WriteTerminator
      BY <1>0, <3>1 DEF WriteTerminator, Table
    <3>2. CASE ~ WriteTerminator
      <4>1. mt' = mt
        BY <1>2, <3>2 DEF Next, Opening, Open, RemoveDangling, FinishOpen, Get, Write,
           Logging, WriteRecord, Flushing, CreateSSTable, EncodeSSTable, RenameManifest,
           TruncateLog, Compacting, Compact, RemoveOld, FinishCompaction, Failing,
           WriteRecordFails, WriteTerminatorFails, CreateSSTableFails,
           EncodeSSTableFails, RenameManifestFails, SyncManifestFails,
           TruncateLogFails, CompactFails, RemoveOldFails, GetFails, Crash, PowerLoss,
           LoseMemory, NotServing, vars, memoryVars
      <4> QED
        BY <4>1
    <3> QED
      BY <3>1, <3>2
  <2> QED
    BY <2>1, <2>2 DEF Current, StoreEntry
<1> QED
  BY <1>1, <1>2

\* Flushes and compactions are invisible to Get, and so are their failures, for
\* any number of keys, SSTables and operations: only the write of a key changes
\* what is found for it (lsm_tree_store.go:183-337).
THEOREM MaintenanceIsInvisible ==
  ASSUME Journaled, KeysSurviveJSON, ValuesSurviveJSON
  PROVE  Spec => MaintenanceInvisible
<1>1. Init => Consistent /\ SavedConsistent
  BY ConsistentInit DEF Init, SavedConsistent, Saving
<1>2. Consistent /\ SavedConsistent /\ [Next]_vars => (Consistent /\ SavedConsistent)'
  BY ConsistentStep, SavedStep
<1>3. Consistent /\ SavedConsistent /\ [Next]_vars =>
        [pc \notin NotServing /\ pc' \notin NotServing =>
           \A k \in Keys :
             \/ ContentOf(Current(k)') = ContentOf(Current(k))
             \/ pc = "terminate" /\ k = request.key]_vars
  BY ContentKept
<1> QED
  BY <1>1, <1>2, <1>3, PTL DEF Spec, MaintenanceInvisible

-----------------------------------------------------------------------------
(* What a replay of the log restores *)

IsRecordOf(w, i, k) == IsRecord(w[i]) /\ w[i].key = k

\* A replay finds the last record of a key, or nothing.
LEMMA ReplayFinds ==
  ASSUME NEW w \in Seq(Fragment), AllMatch(w), NEW k \in Keys
  PROVE  \/ /\ Replay(w)[k] = NoEntry
            /\ \A i \in DOMAIN w : ~ IsRecordOf(w, i, k)
         \/ \E i \in DOMAIN w :
              /\ Replay(w)[k] = w[i].entry /\ IsRecordOf(w, i, k)
              /\ \A j \in DOMAIN w : IsRecordOf(w, j, k) => j <= i
<1> DEFINE hits == {i \in Applied(w) : w[i].key = k}
<1>1. DOMAIN w = 1 .. Len(w) /\ Len(w) \in Nat
  OBVIOUS
<1>2. Applied(w) = {i \in DOMAIN w : IsRecord(w[i])}
  <2>1. \A i \in DOMAIN w : \A j \in 1 .. i : j \in DOMAIN w
    BY <1>1
  <2> QED
    BY <2>1 DEF Applied, AllMatch
<1>3. hits = {i \in DOMAIN w : IsRecordOf(w, i, k)}
  BY <1>2 DEF IsRecordOf
<1>4. Replay(w)[k] = IF hits = {} THEN NoEntry ELSE w[Max(hits)].entry
  BY DEF Replay
<1>5. CASE hits = {}
  BY <1>3, <1>4, <1>5
<1>6. CASE hits # {}
  <2>1. hits \subseteq Nat /\ \A i \in hits : i <= Len(w)
    BY <1>1, <1>3
  <2>2. Max(hits) \in hits /\ \A i \in hits : i <= Max(hits)
    BY <1>1, <1>6, <2>1, MaxOfNats
  <2> DEFINE m == Max(hits)
  <2>3. m \in DOMAIN w /\ IsRecordOf(w, m, k)
    BY <1>3, <2>2
  <2>4. \A j \in DOMAIN w : IsRecordOf(w, j, k) => j <= m
    BY <1>3, <2>2
  <2> QED
    BY <1>4, <1>6, <2>3, <2>4
<1> QED
  BY <1>5, <1>6

\* A record that is appended is what the next replay finds for its key; nothing
\* else that is appended changes what it finds.
LEMMA ReplayAppend ==
  ASSUME NEW w \in Seq(Fragment), NEW f \in Fragment, AllMatch(w),
         IsRecord(f) => Matches(f), NEW k \in Keys
  PROVE  /\ AllMatch(Append(w, f))
         /\ Replay(Append(w, f))[k] =
              IF IsRecord(f) /\ f.key = k THEN f.entry ELSE Replay(w)[k]
<1> DEFINE v == Append(w, f)
           n == Len(w)
<1>1. /\ v \in Seq(Fragment) /\ DOMAIN v = 1 .. n + 1 /\ n \in Nat
      /\ DOMAIN w = 1 .. n /\ v[n + 1] = f
      /\ \A i \in DOMAIN w : v[i] = w[i]
  OBVIOUS
<1> HIDE DEF v, n
<1>2. \A i \in DOMAIN v : i = n + 1 \/ i \in DOMAIN w
  BY <1>1
<1>3. AllMatch(v)
  BY <1>1, <1>2 DEF AllMatch
<1>4. n + 1 \in DOMAIN v /\ \A i \in DOMAIN w : i \in DOMAIN v /\ ~ (n + 1 <= i)
  BY <1>1
<1>5. \A i \in DOMAIN w : IsRecordOf(v, i, k) <=> IsRecordOf(w, i, k)
  BY <1>1 DEF IsRecordOf
<1>6. IsRecordOf(v, n + 1, k) <=> IsRecord(f) /\ f.key = k
  BY <1>1 DEF IsRecordOf
<1>7. CASE IsRecord(f) /\ f.key = k
  <2>1. PICK i \in DOMAIN v :
          /\ Replay(v)[k] = v[i].entry /\ IsRecordOf(v, i, k)
          /\ \A j \in DOMAIN v : IsRecordOf(v, j, k) => j <= i
    BY <1>1, <1>3, <1>4, <1>6, <1>7, ReplayFinds
  <2>2. i = n + 1
    BY <1>2, <1>4, <1>6, <1>7, <2>1
  <2> QED
    BY <1>1, <1>3, <1>7, <2>1, <2>2 DEF v
<1>8. CASE ~ (IsRecord(f) /\ f.key = k)
  <2>1. CASE \A i \in DOMAIN w : ~ IsRecordOf(w, i, k)
    <3>1. \A i \in DOMAIN v : ~ IsRecordOf(v, i, k)
      BY <1>2, <1>5, <1>6, <1>8, <2>1
    <3>2. Replay(v)[k] = NoEntry
      BY <1>1, <1>3, <3>1, ReplayFinds
    <3>3. Replay(w)[k] = NoEntry
      BY <2>1, ReplayFinds
    <3> QED
      BY <1>3, <1>8, <3>2, <3>3 DEF v
  <2>2. CASE \E i \in DOMAIN w : IsRecordOf(w, i, k)
    <3>1. PICK i \in DOMAIN w :
            /\ Replay(w)[k] = w[i].entry /\ IsRecordOf(w, i, k)
            /\ \A j \in DOMAIN w : IsRecordOf(w, j, k) => j <= i
      BY <2>2, ReplayFinds
    <3>2. PICK h \in DOMAIN v :
            /\ Replay(v)[k] = v[h].entry /\ IsRecordOf(v, h, k)
            /\ \A j \in DOMAIN v : IsRecordOf(v, j, k) => j <= h
      BY <1>1, <1>3, <1>4, <1>5, <2>2, ReplayFinds
    <3>3. h \in DOMAIN w /\ IsRecordOf(w, h, k)
      BY <1>2, <1>5, <1>6, <1>8, <3>2
    <3>4. h <= i /\ i <= h /\ i \in Nat /\ h \in Nat
      BY <1>1, <1>4, <1>5, <3>1, <3>2, <3>3
    <3>5. i = h
      BY <3>4
    <3> QED
      BY <1>1, <1>3, <1>8, <3>1, <3>2, <3>5 DEF v
  <2> QED
    BY <2>1, <2>2
<1> QED
  BY <1>7, <1>8

\* An empty log restores nothing.
LEMMA ReplayEmpty ==
  /\ AllMatch(<<>>)
  /\ \A k \in Keys : Replay(<<>>)[k] = NoEntry
<1>1. AllMatch(<<>>)
  BY DEF AllMatch
<1>2. <<>> \in Seq(Fragment) /\ DOMAIN <<>> = {}
  OBVIOUS
<1> QED
  BY <1>1, <1>2, ReplayFinds

\* The record at the end of a log is what a replay finds for its key.
LEMMA ReplayEnd ==
  ASSUME NEW w \in Seq(Fragment), AllMatch(w), w # <<>>,
         NEW k \in Keys, IsRecord(Last(w)), Last(w).key = k
  PROVE  Replay(w)[k] = Last(w).entry
<1>1. Len(w) \in DOMAIN w /\ Last(w) = w[Len(w)] /\ \A i \in DOMAIN w : i <= Len(w)
  BY DEF Last
<1>2. IsRecordOf(w, Len(w), k)
  BY <1>1 DEF IsRecordOf
<1>3. PICK i \in DOMAIN w :
        /\ Replay(w)[k] = w[i].entry
        /\ \A j \in DOMAIN w : IsRecordOf(w, j, k) => j <= i
  BY <1>1, <1>2, ReplayFinds
<1>4. i = Len(w)
  BY <1>1, <1>2, <1>3
<1> QED
  BY <1>1, <1>3, <1>4

\* The fragments that are appended to a log match, if every key and value
\* survives JSON.
LEMMA FragmentsMatch ==
  ASSUME KeysSurviveJSON, ValuesSurviveJSON, NEW k \in Keys, NEW e
  PROVE  /\ IsRecord(Record(k, e)) /\ Matches(Record(k, e))
         /\ Record(k, e).key = k /\ Record(k, e).entry = e
BY NothingDecoded DEF KeysSurviveJSON, DecodedKey, Record, IsRecord, Matches

LEMMA OtherFragments ==
  /\ ~ IsRecord(Torn) /\ ~ IsRecord(Terminator)
  /\ Torn \in Fragment /\ Terminator \in Fragment
BY DEF IsRecord, Torn, Terminator, Fragment

\* How a step may change the log.
LEMMA LogSteps ==
  ASSUME TypeInvariant, [Next]_vars
  PROVE  \/ UNCHANGED walVars
         \/ /\ WriteRecord \/ WriteRecordFails
            /\ request.key \in Keys /\ request.entry \in Entry
            /\ AppendToLog(Record(request.key, request.entry))
         \/ (WriteTerminator \/ WriteTerminatorFails) /\ AppendToLog(Terminator)
         \/ WriteRecordFails /\ AppendToLog(Torn)
         \/ /\ TruncateLog \/ TruncateLogFails
            /\ wal' \in {wal, <<>>} /\ walSynced' = walSynced
         \/ PowerLoss /\ wal' \in LogImages /\ walSynced' = wal'
<1>1. WriteRecord \/ WriteRecordFails => request.key \in Keys /\ request.entry \in Entry
  BY DEF TypeInvariant, CallConsistent, WriteRecord, WriteRecordFails, WritePath
<1>2. CASE Opening \/ Compacting \/ Crash \/ UNCHANGED vars
            \/ (\E k \in Keys : Get(k))
            \/ (\E k \in Keys, e \in Entry : Write(k, e))
  BY <1>2 DEF Opening, Open, RemoveDangling, FinishOpen, Compacting, Compact, RemoveOld,
     FinishCompaction, Crash, Get, Write, vars
<1>3. CASE Logging
  BY <1>1, <1>3 DEF Logging, WriteRecord, WriteTerminator
<1>4. CASE Flushing
  BY <1>4 DEF Flushing, CreateSSTable, EncodeSSTable, RenameManifest, SyncManifest,
     TruncateLog
<1>5. CASE Failing
  <2>1. CASE WriteRecordFails
    BY <1>1, <2>1 DEF WriteRecordFails
  <2>2. CASE WriteTerminatorFails
    BY <2>2 DEF WriteTerminatorFails
  <2>3. CASE TruncateLogFails
    BY <2>3 DEF TruncateLogFails
  <2>4. CASE \/ CreateSSTableFails \/ EncodeSSTableFails \/ RenameManifestFails
             \/ SyncManifestFails \/ CompactFails \/ RemoveOldFails
             \/ \E k \in Keys : GetFails(k)
    BY <2>4 DEF CreateSSTableFails, EncodeSSTableFails, RenameManifestFails,
       SyncManifestFails, CompactFails, RemoveOldFails, GetFails
  <2> QED
    BY <1>5, <2>1, <2>2, <2>3, <2>4 DEF Failing
<1>6. CASE PowerLoss
  BY <1>6 DEF PowerLoss
<1> QED
  BY <1>2, <1>3, <1>4, <1>5, <1>6 DEF Next

\* Every step keeps the log readable.
LEMMA LogStep ==
  ASSUME KeysSurviveJSON, ValuesSurviveJSON, TypeInvariant, LogConsistent, [Next]_vars
  PROVE  LogConsistent'
<1>1. wal \in Seq(Fragment) /\ walSynced \in Seq(Fragment)
  BY DEF TypeInvariant, TypeOK, LogType
<1>2. /\ wal' \in {walSynced', <<>>}
      /\ AllMatch(wal') /\ AllMatch(walSynced')
  <2>1. ASSUME NEW f \in Fragment, AppendToLog(f), IsRecord(f) => Matches(f)
        PROVE  wal' = walSynced' /\ AllMatch(wal')
    <3>1. AllMatch(Append(wal, f))
      BY <1>1, <2>1 DEF LogConsistent, AllMatch
    <3> QED
      BY <2>1, <3>1 DEF AppendToLog
  <2>2. CASE UNCHANGED walVars
    BY <2>2 DEF walVars, LogConsistent
  <2>3. CASE /\ request.key \in Keys /\ request.entry \in Entry
             /\ AppendToLog(Record(request.key, request.entry))
    BY <2>1, <2>3, RecordType, FragmentsMatch
  <2>4. CASE AppendToLog(Terminator) \/ AppendToLog(Torn)
    BY <2>1, <2>4, OtherFragments
  <2>5. CASE wal' \in {wal, <<>>} /\ walSynced' = walSynced
    BY <2>5, ReplayEmpty DEF LogConsistent
  <2>6. CASE wal' \in LogImages /\ walSynced' = wal'
    <3>1. AllMatch(Append(wal, Torn))
      BY <1>1, OtherFragments DEF LogConsistent, AllMatch
    <3> QED
      BY <2>6, <3>1, ReplayEmpty DEF LogImages, LogConsistent
  <2> QED
    BY <2>2, <2>3, <2>4, <2>5, <2>6, LogSteps
<1>3. ASSUME pc' = "terminate"
      PROVE  wal' # <<>> /\ Last(wal') = Record(request'.key, request'.entry)
  <2>1. CASE UNCHANGED vars
    BY <1>3, <2>1 DEF vars, walVars, callVars, LogConsistent
  <2>2. CASE WriteRecord
    <3>1. /\ wal' = Append(wal, Record(request.key, request.entry)) /\ request' = request
      BY <2>2 DEF WriteRecord, AppendToLog, GoTo, callVars
    <3>2. request.key \in Keys /\ request.entry \in Entry
      BY <2>2 DEF WriteRecord, TypeInvariant, CallConsistent, WritePath
    <3> DEFINE r == Record(request.key, request.entry)
    <3>3. r \in Fragment
      BY <3>2, RecordType
    <3> HIDE DEF r
    <3>4. Append(wal, r) # <<>> /\ Last(Append(wal, r)) = r
      BY <1>1, <3>3, AppendKeeps
    <3> QED
      BY <3>1, <3>4 DEF r
  <2>3. CASE ~ WriteRecord /\ ~ UNCHANGED vars
    BY <1>3, <2>3, Destinations
  <2> QED
    BY <2>1, <2>2, <2>3
<1> QED
  BY <1>2, <1>3 DEF LogConsistent

\* A key in the log stays there until the log is truncated.
LEMMA InLogKept ==
  ASSUME KeysSurviveJSON, ValuesSurviveJSON, TypeInvariant, LogConsistent, [Next]_vars,
         ~ TruncateLog, ~ TruncateLogFails, ~ PowerLoss, NEW k \in Keys, InLog(k)
  PROVE  InLog(k)'
<1>1. wal \in Seq(Fragment) /\ AllMatch(wal)
  BY DEF TypeInvariant, TypeOK, LogType, LogConsistent
<1>2. ASSUME NEW f \in Fragment, AppendToLog(f), IsRecord(f) => Matches(f)
      PROVE  InLog(k)'
  <2>1. Replay(wal')[k] = IF IsRecord(f) /\ f.key = k THEN f.entry ELSE Replay(wal)[k]
    BY <1>1, <1>2, ReplayAppend DEF AppendToLog
  <2>2. IsRecord(f) => f.entry # NoEntry
    BY EntriesAssumption DEF Fragment, IsRecord, Entry, Terminator, Torn
  <2> QED
    BY <2>1, <2>2 DEF InLog
<1>3. CASE UNCHANGED walVars
  BY <1>3 DEF walVars, InLog
<1>4. CASE /\ request.key \in Keys /\ request.entry \in Entry
           /\ AppendToLog(Record(request.key, request.entry))
  BY <1>2, <1>4, RecordType, FragmentsMatch
<1>5. CASE AppendToLog(Terminator) \/ AppendToLog(Torn)
  BY <1>2, <1>5, OtherFragments
<1> QED
  BY <1>3, <1>4, <1>5, LogSteps

-----------------------------------------------------------------------------
(* What the images of the directory hold *)

\* A file that MANIFEST does not list does not matter to a restart.
LEMMA OnDiskUnlisted ==
  ASSUME NEW d, IsDirectory(d), NEW id, id \notin Range(d.manifest),
         NEW contents, NEW k \in Keys
  PROVE  /\ OnDisk(Saved(d, id, contents), k) = OnDisk(d, k)
         /\ OnDisk(Removed(d, id), k) = OnDisk(d, k)
<1>1. /\ Reverse(d.manifest) \in Seq(SSTableIDs)
      /\ Range(Reverse(d.manifest)) = Range(d.manifest)
  BY ReverseKeeps DEF IsDirectory
<1>2. /\ Saved(d, id, contents).manifest = d.manifest
      /\ Removed(d, id).manifest = d.manifest
  BY SavedReadable, RemovedReadable
<1>3. \A j \in Range(Reverse(d.manifest)) :
        /\ Contents(Saved(d, id, contents), j) = Contents(d, j)
        /\ Contents(Removed(d, id), j) = Contents(d, j)
  BY <1>1, SavedContents, RemovedContents
<1>4. /\ TablesEntry(Saved(d, id, contents), Reverse(d.manifest), k)
           = TablesEntry(d, Reverse(d.manifest), k)
      /\ TablesEntry(Removed(d, id), Reverse(d.manifest), k)
           = TablesEntry(d, Reverse(d.manifest), k)
  BY <1>1, <1>3, LookupSame
<1> QED
  BY <1>2, <1>4 DEF OnDisk

\* A restart with a new MANIFEST reads the list it was made of.
LEMMA OnDiskRenamed ==
  ASSUME NEW d, IsDirectory(d), NEW ids \in Seq(SSTableIDs), NEW k \in Keys
  PROVE  OnDisk(Renamed(d, Reverse(ids)), k) = ContentOf(TablesEntry(d, ids, k))
<1> DEFINE new == Renamed(d, Reverse(ids))
<1>1. Reverse(new.manifest) = ids
  BY RenamedReadable, ReverseTwice
<1>2. \A id : Contents(new, id) = Contents(d, id)
  BY RenamedContents
<1>3. TablesEntry(new, ids, k) = TablesEntry(d, ids, k)
  BY <1>2, LookupSame
<1> QED
  BY <1>1, <1>3 DEF OnDisk

\* Steps that change no image in what it holds keep the agreement.
LEMMA ImagesKeepAgreeing ==
  ASSUME ImagesAgree, pc # "down", pc' # "down", dir' \in images',
         \A k \in Keys : InLog(k) => InLog(k)',
         \A k \in Keys : TablesEntry(dir', sstables', k) = TablesEntry(dir, sstables, k),
         \A new \in images' : \E d \in images : \A k \in Keys : OnDisk(new, k) = OnDisk(d, k)
  PROVE  ImagesAgree'
<1> SUFFICES ASSUME NEW new \in images', NEW k \in Keys, ~ InLog(k)'
             PROVE  /\ OnDisk(new, k) = OnDisk(dir', k)
                    /\ OnDisk(new, k) = ContentOf(TablesEntry(dir', sstables', k))
  BY DEF ImagesAgree
<1>1. \A d \in images : OnDisk(d, k) = ContentOf(TablesEntry(dir, sstables, k))
  BY DEF ImagesAgree
<1>2. OnDisk(new, k) = ContentOf(TablesEntry(dir, sstables, k))
  BY <1>1
<1>3. OnDisk(dir', k) = ContentOf(TablesEntry(dir, sstables, k))
  BY <1>1
<1> QED
  BY <1>2, <1>3

\* The inductive invariant of what follows.
Faithful == Consistent /\ ContentsConsistent

\* Every step but three leaves the memtable alone while calls are served.
LEMMA MemtableSteps ==
  ASSUME [Next]_vars, pc \notin NotServing, pc' \notin NotServing, mt' # mt
  PROVE  WriteTerminator \/ SyncManifest
BY DEF Next, Opening, Open, RemoveDangling, FinishOpen, Get, Write,
   Logging, WriteRecord, Flushing, CreateSSTable, EncodeSSTable, RenameManifest,
   TruncateLog, Compacting, Compact, RemoveOld, FinishCompaction, Failing,
   WriteRecordFails, WriteTerminatorFails, CreateSSTableFails,
   EncodeSSTableFails, RenameManifestFails, SyncManifestFails,
   TruncateLogFails, CompactFails, RemoveOldFails, GetFails, Crash, PowerLoss,
   LoseMemory, NotServing, vars, memoryVars

\* The record of the write in progress is the last of the log.
LEMMA WriteLogged ==
  ASSUME KeysSurviveJSON, ValuesSurviveJSON, TypeInvariant, LogConsistent,
         pc = "terminate"
  PROVE  /\ request.key \in Keys /\ request.entry \in Entry
         /\ Replay(wal)[request.key] = request.entry /\ InLog(request.key)
<1>1. request.key \in Keys /\ request.entry \in Entry
  BY DEF TypeInvariant, CallConsistent, WritePath
<1>2. Replay(wal)[request.key] = request.entry
  BY <1>1, ReplayEnd, FragmentsMatch DEF TypeInvariant, TypeOK, LogType, LogConsistent
<1> QED
  BY <1>1, <1>2, EntriesAssumption DEF InLog, Entry

\* The log holds every key of the memtable.
LEMMA MemtableStep ==
  ASSUME KeysSurviveJSON, ValuesSurviveJSON, Faithful, [Next]_vars
  PROVE  MemtableLogged'
<1> USE DEF Faithful, Consistent, ContentsConsistent, ImagesConsistent
<1>0. mt \in Table
  BY DEF TypeInvariant, TypeOK, MemoryType
<1>1. CASE pc' \in NotServing
  <2>1. CASE pc' = "down"
    BY <2>1 DEF MemtableLogged, NotServing
  <2>2. CASE pc' # "down"
    <3>1. CASE Open
      BY <3>1 DEF Open, GoTo, walVars, MemtableLogged, NotServing, Replay, Applied
    <3>2. CASE RemoveDangling \/ UNCHANGED vars
      BY <1>1, <2>2, <3>2 DEF RemoveDangling, GoTo, vars, walVars, memoryVars,
         MemtableLogged, NotServing, Replay, Applied
    <3> QED
      BY <1>1, <2>2, <3>1, <3>2, Destinations DEF NotServing
  <2> QED
    BY <2>1, <2>2
<1>2. CASE pc' \notin NotServing /\ pc \in NotServing
  <2>1. FinishOpen
    BY <1>2, Destinations DEF vars
  <2>2. mt' = Replay(wal') /\ pc' = "idle"
    BY <2>1 DEF FinishOpen, GoTo, walVars, memoryVars, MemtableLogged
  <2> QED
    BY <2>2 DEF MemtableLogged, InLog
<1>3. CASE pc' \notin NotServing /\ pc \notin NotServing
  <2>1. CASE TruncateLog \/ TruncateLogFails
    <3>1. mt' = EmptyTable
      BY <2>1 DEF TruncateLog, TruncateLogFails, memoryVars, MemtableLogged
    <3> QED
      BY <1>3, <3>1 DEF MemtableLogged, EmptyTable, NotServing
  <2>2. CASE SyncManifest
    <3>1. mt' \in {mt, EmptyTable} /\ UNCHANGED walVars
          /\ (pc' = "truncate" => mt' = EmptyTable)
      BY <2>2 DEF SyncManifest
    <3> QED
      BY <1>3, <3>1 DEF MemtableLogged, EmptyTable, NotServing, InLog, walVars
  <2>3. CASE ~ (TruncateLog \/ TruncateLogFails) /\ ~ SyncManifest
    <3>1. \A k \in Keys : InLog(k) => InLog(k)'
      <4>1. ~ PowerLoss
        BY <1>3 DEF PowerLoss, LoseMemory, NotServing
      <4> QED
        BY <2>3, <4>1, InLogKept
    <3>2. ASSUME NEW k \in Keys, mt'[k] # NoEntry PROVE InLog(k)
      <4>1. CASE mt' = mt
        BY <1>3, <3>2, <4>1 DEF MemtableLogged
      <4>2. CASE WriteTerminator
        <5>1. mt' = [mt EXCEPT ![request.key] = request.entry] /\ pc = "terminate"
          BY <4>2 DEF WriteTerminator
        <5> QED
          BY <1>0, <1>3, <3>2, <5>1, WriteLogged DEF MemtableLogged, Table
      <4> QED
        BY <1>3, <2>3, <4>1, <4>2, MemtableSteps
    <3>3. CASE pc' # "truncate"
      BY <1>3, <3>1, <3>2, <3>3 DEF MemtableLogged, NotServing
    <3>4. CASE pc' = "truncate"
      <4>1. UNCHANGED vars
        BY <2>3, <3>4, Destinations
      <4> QED
        BY <3>1, <3>2, <3>4, <4>1 DEF MemtableLogged, vars, memoryVars, NotServing
    <3> QED
      BY <3>3, <3>4
  <2> QED
    BY <2>1, <2>2, <2>3
<1> QED
  BY <1>1, <1>2, <1>3

\* The images go on agreeing.
LEMMA AgreeStep ==
  ASSUME Journaled, KeysSurviveJSON, ValuesSurviveJSON, Faithful, [Next]_vars
  PROVE  ImagesAgree'
<1> USE DEF Faithful, ContentsConsistent, ImagesConsistent
<1>1. /\ TypeInvariant /\ DirectoryConsistent /\ dir \in images
      /\ sstables \in Seq(SSTableIDs) /\ NewSSTables \in Seq(SSTableIDs)
      /\ \A d \in images : IsDirectory(d)
      /\ dir' \in images'
  BY ConsistentStep, NewSSTablesType
     DEF Consistent, DirectoryConsistent, TypeInvariant, TypeOK, MemoryType, DirectoryType
<1>2. \A k \in Keys :
        dir.manifest = Reverse(sstables)
          => OnDisk(dir, k) = ContentOf(TablesEntry(dir, sstables, k))
  BY <1>1, ReverseTwice DEF OnDisk
<1>3. CASE TruncateLog \/ TruncateLogFails
  <2>1. UNCHANGED <<dir, images, sstables>> /\ images = {dir} /\ dir.manifest = Reverse(sstables)
    BY <1>3 DEF TruncateLog, TruncateLogFails, dirVars, memoryVars
  <2> QED
    BY <1>2, <2>1 DEF ImagesAgree
<1>4. CASE PowerLoss
  BY <1>4 DEF PowerLoss, LoseMemory, ImagesAgree
<1> DEFINE Keeps ==
      /\ ~ TruncateLog /\ ~ TruncateLogFails /\ ~ PowerLoss
      /\ \A k \in Keys : InLog(k) => InLog(k)'
<1>5. ~ TruncateLog /\ ~ TruncateLogFails /\ ~ PowerLoss => Keeps
  BY <1>1, InLogKept
<1> HIDE DEF Keeps
<1>6. CASE Crash
  <2>1. UNCHANGED <<dir, images, wal>> /\ pc' = "down"
    BY <1>6 DEF Crash, LoseMemory, dirVars, walVars
  <2> QED
    BY <2>1 DEF ImagesAgree, InLog
<1>7. CASE Open
  <2>1. UNCHANGED <<dir, images, wal>> /\ sstables' = Reverse(dir.manifest)
    BY <1>7 DEF Open, dirVars, walVars
  <2>2. \A k \in Keys : OnDisk(dir, k) = ContentOf(TablesEntry(dir, sstables', k))
    BY <2>1 DEF OnDisk
  <2> QED
    BY <2>1, <2>2 DEF ImagesAgree, InLog
<1>8. ASSUME Keeps, pc # "down", pc' # "down",
             \A id \in Range(sstables) : Contents(dir', id) = Contents(dir, id),
             sstables' = sstables,
             \A new \in images' : \E d \in images : \A k \in Keys : OnDisk(new, k) = OnDisk(d, k)
      PROVE  ImagesAgree'
  BY <1>1, <1>8, SameTables, ImagesKeepAgreeing DEF Keeps
<1>9. CASE RemoveDangling /\ Keeps
  <2>1. PICK id \in Dangling :
          ChangeName(Removed(dir, id), {Removed(d, id) : d \in images})
    BY <1>9 DEF RemoveDangling
  <2>2. /\ dir' = Removed(dir, id) /\ images' = images \cup {Removed(dir, id)}
        /\ sstables' = sstables /\ pc # "down" /\ pc' # "down"
    BY <1>9, <2>1 DEF RemoveDangling, ChangeName, memoryVars, GoTo
  <2>3. id \notin Range(sstables) /\ id \notin Range(dir.manifest)
    BY <1>1, <1>9 DEF Dangling, RemoveDangling, DirectoryConsistent, ManifestConsistent
  <2>4. \A j \in Range(sstables) : Contents(dir', j) = Contents(dir, j)
    BY <1>1, <2>2, <2>3, RemovedContents
  <2>5. \A k \in Keys : OnDisk(dir', k) = OnDisk(dir, k)
    BY <1>1, <2>2, <2>3, OnDiskUnlisted
  <2> QED
    BY <1>1, <1>8, <1>9, <2>2, <2>4, <2>5
<1>10. CASE FinishOpen /\ Keeps
  <2>1. /\ UNCHANGED <<dir, sstables>> /\ images' \in {images, {dir}}
        /\ pc # "down" /\ pc' # "down"
    BY <1>10 DEF FinishOpen, SyncDirectory, dirVars, memoryVars, GoTo
  <2> QED
    BY <1>1, <1>8, <1>10, <2>1
<1>11. CASE CreateSSTable /\ Keeps
  <2>1. /\ dir' = Saved(dir, nextSSTableID, Partial) /\ images' = images \cup {dir'}
        /\ nextSSTableID \notin DOMAIN dir.tables
        /\ sstables' = sstables /\ pc # "down" /\ pc' # "down"
    BY <1>11 DEF CreateSSTable, ChangeName
  <2>2. nextSSTableID \notin Range(dir.manifest)
    BY <1>1, <2>1 DEF DirectoryConsistent, ListedTablesReadable, Readable
  <2>3. \A k \in Keys : OnDisk(dir', k) = OnDisk(dir, k)
    BY <1>1, <2>1, <2>2, OnDiskUnlisted
  <2>4. \A id \in Range(sstables) : Contents(dir', id) = Contents(dir, id)
    BY <1>11, SavedCreate
  <2> QED
    BY <1>1, <1>8, <1>11, <2>1, <2>3, <2>4
<1>12. CASE EncodeSSTable /\ Keeps
  <2>1. /\ dir' = Saved(dir, Last(fresh), SavedTable) /\ images' = {dir'}
        /\ pc = "encode" /\ sstables' = sstables /\ pc' # "down"
    BY <1>12 DEF EncodeSSTable, SyncDirectory, GoTo, memoryVars
  <2>2. Last(fresh) \in Range(fresh)
    <3>1. fresh \in Seq(SSTableIDs) /\ fresh # <<>>
      BY <1>1, <2>1 DEF TypeInvariant, TypeOK, CallType, CallConsistent
    <3>2. Len(fresh) \in DOMAIN fresh
      BY <3>1
    <3> QED
      BY <3>2 DEF Last, Range
  <2>3. Last(fresh) \notin Range(dir.manifest)
    BY <2>1, <2>2
  <2>4. \A k \in Keys : OnDisk(dir', k) = OnDisk(dir, k)
    BY <1>1, <2>1, <2>3, OnDiskUnlisted
  <2>5. \A id \in Range(sstables) : Contents(dir', id) = Contents(dir, id)
    BY <1>12, SavedEncode
  <2> QED
    BY <1>1, <1>8, <1>12, <2>1, <2>4, <2>5
<1>13. CASE RenameManifest /\ Keeps
  <2>1. /\ dir' = Renamed(dir, Reverse(NewSSTables)) /\ images' = images \cup {dir'}
        /\ pc = "rename" /\ sstables' = sstables /\ pc' # "down"
    BY <1>13 DEF RenameManifest, ChangeName, GoTo, memoryVars
  <2>2. \A k \in Keys : OnDisk(dir', k) = ContentOf(TablesEntry(dir, NewSSTables, k))
    BY <1>1, <2>1, OnDiskRenamed
  <2>3. \A k \in Keys : TablesEntry(dir', sstables', k) = TablesEntry(dir, sstables, k)
    BY <1>1, <1>13, <2>1, SavedRename, SameTables
  <2>4. ASSUME NEW k \in Keys, ~ InLog(k)
        PROVE  OnDisk(dir', k) = ContentOf(TablesEntry(dir, sstables, k))
    <3>1. mt[k] = NoEntry
      BY <2>1, <2>4 DEF MemtableLogged, NotServing
    <3> QED
      BY <2>1, <2>2, <3>1, NewListFinds DEF StoreEntry
  <2>5. ASSUME NEW d \in images, NEW k \in Keys, ~ InLog(k)
        PROVE  OnDisk(d, k) = ContentOf(TablesEntry(dir, sstables, k))
    BY <2>1, <2>5 DEF ImagesAgree
  <2> QED
    BY <1>13, <2>1, <2>3, <2>4, <2>5 DEF ImagesAgree, Keeps
<1>14. CASE SyncManifest
  <2>1. dir' = dir /\ images' = {dir} /\ sstables' = NewSSTables /\ pc = "syncdir"
    BY <1>14 DEF SyncManifest, SyncDirectory
  <2>2. dir.manifest = Reverse(NewSSTables)
    BY <2>1 DEF SavedConsistent
  <2>3. \A k \in Keys : OnDisk(dir, k) = ContentOf(TablesEntry(dir, NewSSTables, k))
    BY <1>1, <2>2, ReverseTwice DEF OnDisk
  <2> QED
    BY <2>1, <2>3 DEF ImagesAgree
<1>15. CASE RemoveOld /\ Keeps
  <2>1. /\ dir' = Removed(dir, Head(old)) /\ images' = images \cup {dir'}
        /\ sstables' = sstables /\ pc = "remove" /\ pc' # "down" /\ old # <<>>
    BY <1>15 DEF RemoveOld, ChangeName, memoryVars
  <2>2. Head(old) \notin Range(sstables) /\ Head(old) \notin Range(dir.manifest)
    <3>1. old \in Seq(SSTableIDs)
      BY <1>1 DEF TypeInvariant, TypeOK, CallType
    <3>2. /\ Range(sstables) = Range(fresh) /\ Range(old) \cap Range(fresh) = {}
          /\ Range(dir.manifest) = Range(fresh)
      BY <1>1, <2>1 DEF DirectoryConsistent, ManifestConsistent
    <3> QED
      BY <2>1, <3>1, <3>2, TailKeeps
  <2>3. \A id \in Range(sstables) : Contents(dir', id) = Contents(dir, id)
    BY <1>1, <2>1, <2>2, RemovedContents
  <2>4. \A k \in Keys : OnDisk(dir', k) = OnDisk(dir, k)
    BY <1>1, <2>1, <2>2, OnDiskUnlisted
  <2> QED
    BY <1>1, <1>8, <1>15, <2>1, <2>3, <2>4
<1>16. CASE /\ ~ Open /\ ~ RemoveDangling /\ ~ FinishOpen /\ ~ CreateSSTable /\ ~ EncodeSSTable
            /\ ~ RenameManifest /\ ~ SyncManifest /\ ~ RemoveOld /\ ~ Crash /\ ~ PowerLoss
            /\ Keeps
  <2>1. UNCHANGED <<dir, images, sstables>>
    BY <1>16, QuietSteps
  <2>2. pc = "down" => pc' = "down"
    BY <1>16, Destinations DEF vars, NotServing
  <2> QED
    BY <1>16, <2>1, <2>2 DEF ImagesAgree, Keeps
<1> QED
  BY <1>3, <1>4, <1>5, <1>6, <1>7, <1>9, <1>10, <1>11, <1>12, <1>13, <1>14, <1>15, <1>16

\* A flush ends with one image of the directory, and files are saved under names
\* that no MANIFEST lists.
LEMMA ImagesStep ==
  ASSUME Journaled, KeysSurviveJSON, ValuesSurviveJSON, Faithful, [Next]_vars
  PROVE  ImagesConsistent'
<1> USE DEF Faithful, ContentsConsistent, ImagesConsistent
<1>1. /\ DirectoryConsistent /\ dir \in images /\ IsDirectory(dir)
      /\ fresh \in Seq(SSTableIDs) /\ nextSSTableID \in SSTableIDs
  BY DEF Consistent, DirectoryConsistent, TypeInvariant, TypeOK, DirectoryType,
     CallType, MemoryType
<1>2. ASSUME pc' \in {"create", "encode"}
      PROVE  Range(fresh') \cap Range(dir'.manifest) = {}
  <2>1. CASE UNCHANGED vars
    BY <1>2, <2>1 DEF vars, dirVars, callVars
  <2>2. CASE WriteTerminator \/ Compact
    <3>1. fresh' = <<>>
      BY <1>2, <2>2 DEF WriteTerminator, Compact, AfterFlush, ReturnStored, Return, GoTo,
         StartSaving
    <3> QED
      BY <3>1, EmptyRange
  <2>3. CASE EncodeSSTable
    <3>1. fresh' = fresh /\ dir' = Saved(dir, Last(fresh), SavedTable) /\ pc = "encode"
      BY <2>3 DEF EncodeSSTable, SyncDirectory, GoTo, callVars
    <3> QED
      BY <1>1, <3>1, SavedReadable
  <2>4. CASE CreateSSTable
    <3>1. /\ fresh' = Append(fresh, nextSSTableID) /\ pc = "create"
          /\ dir' = Saved(dir, nextSSTableID, Partial)
          /\ nextSSTableID \notin DOMAIN dir.tables
      BY <2>4 DEF CreateSSTable, ChangeName
    <3>2. nextSSTableID \notin Range(dir.manifest)
      BY <1>1, <3>1 DEF DirectoryConsistent, ListedTablesReadable, Readable
    <3>3. Range(fresh') = Range(fresh) \cup {nextSSTableID}
      BY <1>1, <3>1, AppendKeeps
    <3> QED
      BY <1>1, <3>1, <3>2, <3>3, SavedReadable
  <2> QED
    BY <1>2, <2>1, <2>2, <2>3, <2>4, Destinations
<1>3. ASSUME pc' = "truncate"
      PROVE  images' = {dir'} /\ dir'.manifest = Reverse(sstables')
  <2>1. CASE UNCHANGED vars
    BY <1>3, <2>1 DEF vars, dirVars, memoryVars
  <2>2. CASE SyncManifest
    BY <2>2 DEF SyncManifest, SyncDirectory, SavedConsistent
  <2> QED
    BY <1>3, <2>1, <2>2, Destinations
<1> QED
  BY <1>2, <1>3, MemtableStep, AgreeStep

-----------------------------------------------------------------------------
(* A write that returned nil is there to stay *)

\* From its terminator on a write is what Get finds and what the log holds.
LEMMA WriteHeld ==
  ASSUME Journaled, KeysSurviveJSON, ValuesSurviveJSON, Faithful, [Next]_vars,
         ~ UNCHANGED vars,
         NEW k, k = request.key,
         \/ WriteTerminator
         \/ pc \in WritePath \ {"log", "terminate"} /\ pc' \notin NotServing
  PROVE  /\ ContentOf(Current(k)') = ContentOf(request.entry)
         /\ Replay(walSynced')[k] = request.entry
<1> USE DEF Faithful, Consistent, ContentsConsistent
<1>1. CASE WriteTerminator
  <2>1. /\ request.key \in Keys /\ request.entry \in Entry /\ request.entry # NoEntry
        /\ Replay(wal)[request.key] = request.entry
    BY <1>1, WriteLogged, EntriesAssumption DEF WriteTerminator, Entry
  <2>2. Current(k)' = request.entry
    <3>1. mt \in Table /\ mt' = [mt EXCEPT ![request.key] = request.entry]
      BY <1>1 DEF WriteTerminator, TypeInvariant, TypeOK, MemoryType
    <3>2. mt'[request.key] = request.entry
      BY <2>1, <3>1 DEF Table
    <3> QED
      BY <2>1, <3>2 DEF Current, StoreEntry
  <2>3. Replay(walSynced')[k] = Replay(wal)[request.key]
    <3>1. wal \in Seq(Fragment) /\ AllMatch(wal)
      BY DEF TypeInvariant, TypeOK, LogType, LogConsistent
    <3>2. walSynced' = Append(wal, Terminator)
      BY <1>1 DEF WriteTerminator, AppendToLog
    <3> QED
      BY <2>1, <3>1, <3>2, ReplayAppend, OtherFragments
  <2> QED
    BY <2>1, <2>2, <2>3
<1>2. CASE pc \in WritePath \ {"log", "terminate"} /\ pc' \notin NotServing
  <2>1. request.key \in Keys /\ pc \notin NotServing
    BY <1>2 DEF TypeInvariant, CallConsistent, WritePath, Saving, NotServing
  <2>2. ContentOf(Current(k)') = ContentOf(Current(k))
    BY <1>2, <2>1, ContentKept
  <2>3. walSynced' = walSynced
    BY <1>2, LogSteps DEF walVars, WriteRecord, WriteRecordFails, WriteTerminator,
       WriteTerminatorFails, PowerLoss, LoseMemory, NotServing
  <2> QED
    BY <1>2, <2>2, <2>3 DEF WriteConsistent, Holds
<1> QED
  BY <1>1, <1>2

\* A step on the write path keeps the request until the call returns.
LEMMA RequestKept ==
  ASSUME [Next]_vars, pc' \in WritePath \ {"log"}
  PROVE  request' = request
BY DEF Next, Opening, Open, RemoveDangling, FinishOpen, Get, Write, Logging, WriteRecord,
   WriteTerminator, Flushing, CreateSSTable, EncodeSSTable, RenameManifest,
   SyncManifest, TruncateLog, Compacting, Compact, RemoveOld, FinishCompaction,
   Failing, WriteRecordFails, WriteTerminatorFails, CreateSSTableFails,
   EncodeSSTableFails, RenameManifestFails, SyncManifestFails, TruncateLogFails,
   CompactFails, RemoveOldFails, GetFails, Crash, PowerLoss, LoseMemory,
   AfterFlush, ReturnStored, Return, GoTo, StartSaving, WritePath, Saving, vars, callVars

\* Only the end of a Set or a Delete is answered with nil.
LEMMA StoredSteps ==
  ASSUME [Next]_vars, ~ UNCHANGED vars, reply'.status = "stored",
         reply.status = "stored" => pc = "idle"
  PROVE  /\ WriteTerminator \/ TruncateLog \/ FinishCompaction
         /\ pc' = "idle" /\ reply'.key = request.key /\ reply'.entry = request.entry
BY DEF Next, Opening, Open, RemoveDangling, FinishOpen, Get, Write, Logging, WriteRecord,
   WriteTerminator, Flushing, CreateSSTable, EncodeSSTable, RenameManifest,
   SyncManifest, TruncateLog, Compacting, Compact, RemoveOld, FinishCompaction,
   Failing, WriteRecordFails, WriteTerminatorFails, CreateSSTableFails,
   EncodeSSTableFails, RenameManifestFails, SyncManifestFails, TruncateLogFails,
   CompactFails, RemoveOldFails, GetFails, Crash, PowerLoss, LoseMemory,
   AfterFlush, ReturnStored, Return, GoTo, StartSaving, Failure, NoReply, vars, callVars

\* The entry that was written last stays where it was put, until the caller asks
\* for something else.
LEMMA WriteStep ==
  ASSUME Journaled, KeysSurviveJSON, ValuesSurviveJSON, Faithful, [Next]_vars
  PROVE  WriteConsistent'
<1> USE DEF Faithful, ContentsConsistent
<1>1. CASE UNCHANGED vars
  BY <1>1 DEF WriteConsistent, Holds, Current, vars, dirVars, walVars, memoryVars, callVars
<1>2. CASE ~ UNCHANGED vars
  <2>1. ASSUME pc' \in WritePath \ {"log", "terminate"}
        PROVE  Holds(request.key, request.entry)'
    <3>1. request' = request
      BY <2>1, RequestKept
    <3>2. \/ WriteTerminator
          \/ pc \in WritePath \ {"log", "terminate"} /\ pc' \notin NotServing
      BY <1>2, <2>1, Destinations
         DEF WritePath, Saving, NotServing, EncodeSSTable, Compact, CreateSSTable,
             RenameManifest, SyncManifest, RemoveOld, TruncateLog
    <3> DEFINE k == request.key
    <3>3. /\ ContentOf(StoreEntry(mt', dir', sstables', k)) = ContentOf(request.entry)
          /\ Replay(walSynced')[k] = request.entry
      BY <1>2, <3>2, WriteHeld DEF Current
    <3> QED
      BY <3>1, <3>3 DEF Holds, Current
  <2>2. ASSUME reply'.status = "stored"
        PROVE  pc' = "idle" /\ Holds(reply.key, reply.entry)'
    <3>1. /\ WriteTerminator \/ TruncateLog \/ FinishCompaction
          /\ pc' = "idle" /\ reply'.key = request.key /\ reply'.entry = request.entry
      BY <1>2, <2>2, StoredSteps DEF WriteConsistent
    <3>2. \/ WriteTerminator
          \/ pc \in WritePath \ {"log", "terminate"} /\ pc' \notin NotServing
      BY <3>1 DEF TruncateLog, FinishCompaction, WritePath, NotServing
    <3> DEFINE k == request.key
    <3>3. /\ ContentOf(StoreEntry(mt', dir', sstables', k)) = ContentOf(request.entry)
          /\ Replay(walSynced')[k] = request.entry
      BY <1>2, <3>2, WriteHeld DEF Current
    <3> QED
      BY <3>1, <3>3 DEF Holds, Current
  <2> QED
    BY <2>1, <2>2 DEF WriteConsistent
<1> QED
  BY <1>1, <1>2

\* Every step keeps the inductive invariant.
LEMMA FaithfulStep ==
  ASSUME Journaled, KeysSurviveJSON, ValuesSurviveJSON, Faithful, [Next]_vars
  PROVE  Faithful'
BY ConsistentStep, SavedStep, LogStep, ImagesStep, WriteStep
   DEF Faithful, Consistent, ContentsConsistent

\* A store that was never opened holds nothing anywhere.
LEMMA FaithfulInit ==
  ASSUME Init
  PROVE  Faithful
<1>1. Consistent
  BY ConsistentInit
<1>2. SavedConsistent /\ LogConsistent
  BY ReplayEmpty DEF Init, SavedConsistent, Saving, LogConsistent
<1>3. ImagesConsistent
  BY DEF Init, ImagesConsistent, MemtableLogged, NotServing, ImagesAgree
<1>4. WriteConsistent
  BY DEF Init, WriteConsistent, WritePath, Saving, NoReply
<1> QED
  BY <1>1, <1>2, <1>3, <1>4 DEF Faithful, ContentsConsistent

\* What the log, the directory and its images hold goes on fitting what the
\* memory holds, through every call, failure, crash and power failure.
THEOREM ContentsStayConsistent ==
  ASSUME Journaled, KeysSurviveJSON, ValuesSurviveJSON
  PROVE  Spec => []ContentsConsistent
<1>1. Init => Faithful
  BY FaithfulInit
<1>2. Faithful /\ [Next]_vars => Faithful'
  BY FaithfulStep
<1>3. Faithful => ContentsConsistent
  BY DEF Faithful
<1> QED
  BY <1>1, <1>2, <1>3, PTL DEF Spec

\* What a restart finds on a directory, if the log says nothing of a key.
LEMMA RecoveredContent ==
  ASSUME NEW w, NEW d, NEW k \in Keys
  PROVE  Recovered(w, d)[k] =
           IF Replay(w)[k] # NoEntry THEN Replay(w)[k]
                                     ELSE TablesEntry(d, Reverse(d.manifest), k)
BY DEF Recovered, StoreEntry

\* Once a write has reached the log, every restart finds it.
LEMMA HeldIsDurable ==
  ASSUME Journaled, Faithful, pc \notin NotServing \cup {"log"},
         NEW k \in Keys, NEW e \in Entry, Holds(k, e),
         NEW w \in LogImages, NEW d \in images
  PROVE  /\ ContentOf(Recovered(w, d)[k]) = ContentOf(e)
         /\ Recovered(w, d)[k] \in Slot
         /\ e \in Values => Recovered(w, d)[k] = e
<1> USE DEF Faithful, Consistent, ContentsConsistent, ImagesConsistent
<1>1. e # NoEntry /\ e \in Slot /\ NoEntry \notin Values
  BY EntriesAssumption DEF Entry, Slot
<1>2. w \in {wal, walSynced}
  BY DEF LogImages
<1>3. CASE Replay(w)[k] # NoEntry
  <2>1. w = walSynced
    BY <1>2, <1>3, ReplayEmpty DEF LogConsistent
  <2> QED
    BY <1>1, <1>3, <2>1, RecoveredContent DEF Holds
<1>4. CASE Replay(w)[k] = NoEntry
  <2>1. w = wal /\ ~ InLog(k)
    BY <1>1, <1>2, <1>4 DEF Holds, InLog
  <2>2. mt[k] = NoEntry
    BY <2>1 DEF MemtableLogged
  <2>3. OnDisk(d, k) = ContentOf(TablesEntry(dir, sstables, k))
    BY <2>1 DEF ImagesAgree, NotServing
  <2>4. OnDisk(d, k) = ContentOf(e)
    BY <2>2, <2>3 DEF Holds, Current, StoreEntry
  <2>5. TablesEntry(d, Reverse(d.manifest), k) \in Slot
    BY TablesEntryType DEF TypeInvariant, TypeOK, DirectoryType
  <2>6. Recovered(w, d)[k] = TablesEntry(d, Reverse(d.manifest), k)
    BY <1>4, RecoveredContent
  <2> QED
    BY <1>1, <2>4, <2>5, <2>6 DEF OnDisk, ContentOf
<1> QED
  BY <1>3, <1>4

\* A Set or a Delete that returned nil survives every crash and power failure,
\* whatever flushes, compactions and failed calls came before it: a restart reads
\* its entry as the newest of its key (lsm_tree_store.go:61-114, :205-231).
THEOREM AckedWritesSurvive ==
  ASSUME Journaled, KeysSurviveJSON, ValuesSurviveJSON
  PROVE  Spec => []AckedWritesDurable
<1>1. Faithful => AckedWritesDurable
  <2> SUFFICES ASSUME Faithful, reply.status = "stored",
                      NEW w \in LogImages, NEW d \in images
               PROVE  RestoresReply(w, d)
    BY DEF AckedWritesDurable
  <2>1. reply.key \in Keys /\ reply.entry \in Entry
    BY DEF Faithful, Consistent, TypeInvariant, TypeOK, CallType, Replies
  <2>2. pc = "idle" /\ Holds(reply.key, reply.entry)
    BY DEF Faithful, ContentsConsistent, WriteConsistent
  <2>3. /\ ContentOf(Recovered(w, d)[reply.key]) = ContentOf(reply.entry)
        /\ Recovered(w, d)[reply.key] \in Slot
        /\ reply.entry \in Values => Recovered(w, d)[reply.key] = reply.entry
    BY <2>1, <2>2, HeldIsDurable DEF NotServing
  <2> QED
    BY <2>1, <2>3, EntriesAssumption DEF RestoresReply, ContentOf, Entry, Slot
<1>2. Init => Faithful
  BY FaithfulInit
<1>3. Faithful /\ [Next]_vars => Faithful'
  BY FaithfulStep
<1> QED
  BY <1>1, <1>2, <1>3, PTL DEF Spec

-----------------------------------------------------------------------------
(* The maps that a stop may leave *)

\* What a restart with the log w finds: the log first, then the directory.
DiskMap(w) ==
  [k \in Keys |-> IF Replay(w)[k] # NoEntry THEN ContentOf(Replay(w)[k])
                                            ELSE OnDisk(dir, k)]

\* A restart on an image finds the same, if the image differs from the directory
\* in keys of the log only.
LEMMA RecoveredMap ==
  ASSUME NEW w, NEW d,
         \A k \in Keys : Replay(w)[k] # NoEntry \/ OnDisk(d, k) = OnDisk(dir, k)
  PROVE  MapOf(Recovered(w, d)) = DiskMap(w)
<1>1. \A k \in Keys : ContentOf(Recovered(w, d)[k]) = DiskMap(w)[k]
  BY RecoveredContent DEF DiskMap, OnDisk
<1> QED
  BY <1>1 DEF MapOf, DiskMap

\* Whatever the images, a stop leaves one of two maps: the one with the log as it
\* is, or the one with the log as it was before it was truncated.
LEMMA OutcomesAre ==
  ASSUME Journaled, Faithful
  PROVE  OutcomesNow = {DiskMap(wal), DiskMap(walSynced)}
<1> USE DEF Faithful, Consistent, ContentsConsistent, ImagesConsistent
<1>1. dir \in images /\ wal \in Seq(Fragment) /\ AllMatch(wal)
  BY DEF DirectoryConsistent, TypeInvariant, TypeOK, LogType, LogConsistent
<1>2. ASSUME NEW d \in images, NEW w \in {wal, walSynced}
      PROVE  MapOf(Recovered(w, d)) = DiskMap(w)
  <2>1. CASE w = wal
    BY <2>1, RecoveredMap DEF ImagesAgree, InLog
  <2>2. CASE wal = <<>>
    <3>1. \A k \in Keys : OnDisk(d, k) = OnDisk(dir, k)
      BY <2>2, ReplayEmpty DEF ImagesAgree, InLog
    <3> QED
      BY <3>1, RecoveredMap
  <2> QED
    BY <1>2, <2>1, <2>2 DEF LogConsistent
<1>3. ASSUME NEW d \in images
      PROVE  MapOf(Recovered(Append(wal, Torn), d)) = DiskMap(wal)
  <2>1. \A k \in Keys : Replay(Append(wal, Torn))[k] = Replay(wal)[k]
    BY <1>1, ReplayAppend DEF Torn, IsRecord, Fragment
  <2>2. MapOf(Recovered(Append(wal, Torn), d)) = MapOf(Recovered(wal, d))
    BY <2>1, RecoveredContent DEF MapOf
  <2> QED
    BY <1>2, <2>2
<1>4. OutcomesNow = {MapOf(Recovered(w, d)) : w \in LogImages, d \in images}
  BY DEF OutcomesNow
<1>5. {wal, walSynced} \subseteq LogImages
      /\ LogImages \subseteq {wal, walSynced, Append(wal, Torn)}
  BY DEF LogImages
<1>6. ASSUME NEW m \in OutcomesNow PROVE m \in {DiskMap(wal), DiskMap(walSynced)}
  <2>1. PICK w \in LogImages, d \in images : m = MapOf(Recovered(w, d))
    BY <1>4
  <2> QED
    BY <1>2, <1>3, <1>5, <2>1
<1>7. DiskMap(wal) \in OutcomesNow /\ DiskMap(walSynced) \in OutcomesNow
  <2>1. /\ MapOf(Recovered(wal, dir)) \in OutcomesNow
        /\ MapOf(Recovered(walSynced, dir)) \in OutcomesNow
    BY <1>1, <1>4, <1>5
  <2> QED
    BY <1>1, <1>2, <2>1
<1> QED
  BY <1>6, <1>7

\* A store that serves no calls holds what a restart finds.
LEMMA MapAtRest ==
  ASSUME Faithful, pc \in NotServing
  PROVE  MapNow = DiskMap(wal)
<1> USE DEF Faithful, Consistent, ContentsConsistent, ImagesConsistent
<1>1. CASE pc = "down"
  <2>1. MapOf(Recovered(wal, dir)) = DiskMap(wal)
    BY RecoveredMap
  <2> QED
    BY <1>1, <2>1 DEF MapNow
<1>2. CASE pc # "down"
  <2>1. mt = Replay(wal) /\ dir \in images
    BY <1>2 DEF MemtableLogged, NotServing, DirectoryConsistent
  <2>2. \A k \in Keys :
          InLog(k) \/ OnDisk(dir, k) = ContentOf(TablesEntry(dir, sstables, k))
    BY <1>2, <2>1 DEF ImagesAgree
  <2>3. \A k \in Keys : ContentOf(Current(k)) = DiskMap(wal)[k]
    BY <2>1, <2>2 DEF Current, StoreEntry, DiskMap, InLog
  <2>4. MapNow = [k \in Keys |-> ContentOf(Current(k))]
    BY <1>2 DEF MapNow, MapOf
  <2> QED
    BY <2>3, <2>4 DEF DiskMap
<1> QED
  BY <1>1, <1>2

-----------------------------------------------------------------------------
(* How the steps change the maps *)

\* The inductive invariant of the refinement.
Sound ==
  /\ Faithful /\ CacheConsistent
  /\ pc \notin WritePath => request = NoWrite

\* The map with the write in progress.
WithWrite(map) == [map EXCEPT ![request.key] = ContentOf(request.entry)]

\* How a step may change the directory.
LEMMA DirectorySteps ==
  ASSUME Journaled, [Next]_vars
  PROVE  \/ dir' = dir
         \/ images \subseteq images' /\ UNCHANGED walVars
         \/ EncodeSSTable \/ PowerLoss
<1>1. CASE RemoveDangling \/ CreateSSTable \/ RenameManifest \/ RemoveOld
  BY <1>1 DEF RemoveDangling, CreateSSTable, RenameManifest, RemoveOld, ChangeName
<1>2. CASE Open \/ FinishOpen \/ SyncManifest \/ Crash
  BY <1>2 DEF Open, FinishOpen, SyncManifest, SyncDirectory, Crash, dirVars
<1> QED
  BY <1>1, <1>2, QuietSteps

\* No step but a power failure changes what the directory says of a key that the
\* log says nothing of.
LEMMA DirectoryKept ==
  ASSUME Journaled, Faithful, Faithful', [Next]_vars, ~ PowerLoss,
         NEW k \in Keys, ~ InLog(k)
  PROVE  OnDisk(dir', k) = OnDisk(dir, k)
<1> USE DEF Faithful, Consistent, ContentsConsistent, ImagesConsistent
<1>0. dir \in images /\ IsDirectory(dir)
  BY DEF DirectoryConsistent, TypeInvariant, TypeOK, DirectoryType
<1>1. CASE images \subseteq images' /\ UNCHANGED walVars
  <2>1. dir \in images' /\ ~ InLog(k)'
    BY <1>0, <1>1 DEF InLog, walVars
  <2> QED
    BY <2>1 DEF ImagesAgree
<1>2. CASE EncodeSSTable
  <2>1. dir' = Saved(dir, Last(fresh), SavedTable) /\ pc = "encode"
    BY <1>2 DEF EncodeSSTable, SyncDirectory
  <2>2. Last(fresh) \in Range(fresh)
    <3>1. fresh \in Seq(SSTableIDs) /\ fresh # <<>>
      BY <2>1 DEF TypeInvariant, TypeOK, CallType, CallConsistent
    <3> QED
      BY <3>1 DEF Last, Range
  <2>3. Last(fresh) \notin Range(dir.manifest)
    BY <2>1, <2>2
  <2> QED
    BY <1>0, <2>1, <2>3, OnDiskUnlisted
<1> QED
  BY <1>1, <1>2, DirectorySteps

\* How it may change what a restart finds: a record that reaches the log puts its
\* write there, and a log that is truncated is not missed.
LEMMA DiskSteps ==
  ASSUME Journaled, KeysSurviveJSON, ValuesSurviveJSON, Sound, Faithful',
         [Next]_vars, ~ PowerLoss
  PROVE  \/ /\ DiskMap(wal)' = DiskMap(wal)
            /\ DiskMap(walSynced)' \in {DiskMap(wal), DiskMap(walSynced)}
         \/ /\ WriteRecord \/ WriteRecordFails
            /\ DiskMap(wal)' = WithWrite(DiskMap(wal))
            /\ DiskMap(walSynced)' = WithWrite(DiskMap(wal))
         \/ /\ TruncateLog \/ TruncateLogFails
            /\ DiskMap(wal)' = MapNow
            /\ DiskMap(walSynced)' = DiskMap(walSynced)
<1> USE DEF Sound, Faithful, Consistent, ContentsConsistent, ImagesConsistent
<1>1. /\ wal \in Seq(Fragment) /\ AllMatch(wal) /\ wal \in {walSynced, <<>>}
      /\ TypeInvariant /\ dir \in images
  BY DEF TypeInvariant, TypeOK, LogType, LogConsistent, DirectoryConsistent
<1>2. \A k \in Keys : InLog(k) \/ OnDisk(dir', k) = OnDisk(dir, k)
  BY DirectoryKept
<1>3. \A k \in Keys : Replay(walSynced)[k] # NoEntry \/ OnDisk(dir', k) = OnDisk(dir, k)
  BY <1>1, <1>2, ReplayEmpty DEF InLog
<1>4. CASE UNCHANGED walVars
  <2>1. DiskMap(wal)' = DiskMap(wal)
    BY <1>2, <1>4 DEF DiskMap, InLog, walVars
  <2>2. DiskMap(walSynced)' = DiskMap(walSynced)
    BY <1>3, <1>4 DEF DiskMap, walVars
  <2> QED
    BY <2>1, <2>2
<1>5. ASSUME NEW f \in {Terminator, Torn}, AppendToLog(f)
      PROVE  DiskMap(wal)' = DiskMap(wal) /\ DiskMap(walSynced)' = DiskMap(wal)
  <2>1. wal' = Append(wal, f) /\ walSynced' = wal'
    BY <1>5 DEF AppendToLog
  <2>2. f \in Fragment /\ ~ IsRecord(f)
    BY DEF Fragment, Terminator, Torn, IsRecord
  <2>3. \A k \in Keys : Replay(wal')[k] = Replay(wal)[k]
    BY <1>1, <2>1, <2>2, ReplayAppend
  <2> QED
    BY <1>2, <2>1, <2>3 DEF DiskMap, InLog
<1>6. CASE /\ WriteRecord \/ WriteRecordFails
           /\ request.key \in Keys /\ request.entry \in Entry
           /\ AppendToLog(Record(request.key, request.entry))
  <2> DEFINE r == Record(request.key, request.entry)
  <2>1. wal' = Append(wal, r) /\ walSynced' = wal' /\ r \in Fragment
    BY <1>6, RecordType DEF AppendToLog
  <2>2. /\ IsRecord(r) /\ Matches(r) /\ r.key = request.key /\ r.entry = request.entry
        /\ request.entry # NoEntry
    BY <1>6, FragmentsMatch, EntriesAssumption DEF Entry
  <2> HIDE DEF r
  <2>3. \A k \in Keys : Replay(wal')[k] =
                          IF k = request.key THEN request.entry ELSE Replay(wal)[k]
    BY <1>1, <2>1, <2>2, ReplayAppend
  <2>4. DiskMap(wal)' = WithWrite(DiskMap(wal))
    <3>1. \A k \in Keys \ {request.key} :
            Replay(wal')[k] # NoEntry \/ OnDisk(dir', k) = OnDisk(dir, k)
      BY <1>2, <2>3 DEF InLog
    <3> QED
      BY <1>6, <2>2, <2>3, <3>1 DEF DiskMap, WithWrite
  <2> QED
    BY <1>6, <2>1, <2>4 DEF DiskMap
<1>7. CASE /\ TruncateLog \/ TruncateLogFails
           /\ wal' = <<>> /\ walSynced' = walSynced
  <2>1. /\ pc = "truncate" /\ UNCHANGED dir
    BY <1>7 DEF TruncateLog, TruncateLogFails, dirVars
  <2>2. mt = EmptyTable /\ dir.manifest = Reverse(sstables) /\ sstables \in Seq(SSTableIDs)
    BY <1>1, <2>1 DEF MemtableLogged, TypeInvariant, TypeOK, MemoryType
  <2>3. \A k \in Keys : OnDisk(dir, k) = ContentOf(Current(k))
    BY <2>2, ReverseTwice DEF OnDisk, Current, StoreEntry, EmptyTable
  <2>4. MapNow = [k \in Keys |-> ContentOf(Current(k))]
    BY <2>1 DEF MapNow, MapOf
  <2>5. DiskMap(wal)' = MapNow
    BY <1>7, <2>1, <2>3, <2>4, ReplayEmpty DEF DiskMap
  <2>6. DiskMap(walSynced)' = DiskMap(walSynced)
    BY <1>3, <1>7 DEF DiskMap
  <2> QED
    BY <1>7, <2>5, <2>6
<1>8. CASE wal' = wal /\ walSynced' = walSynced
  BY <1>4, <1>8 DEF walVars
<1> QED
  BY <1>1, <1>4, <1>5, <1>6, <1>7, <1>8, LogSteps

\* The request of a call in progress, as KVStore sees it.
LEMMA PendingIs ==
  ASSUME Sound
  PROVE  /\ pc \notin WritePath => PendingNow = NoWrite
         /\ pc \in WritePath =>
              /\ PendingNow # NoWrite /\ request.key \in Keys
              /\ PendingNow = [key |-> request.key, content |-> ContentOf(request.entry)]
<1>1. CASE pc \notin WritePath
  BY <1>1 DEF Sound, PendingNow
<1>2. CASE pc \in WritePath
  <2>1. request \in [key : Keys, entry : Entry]
    BY <1>2 DEF Sound, Faithful, Consistent, TypeInvariant, CallConsistent
  <2>2. request # NoWrite /\ request.key \in Keys
    BY <2>1, NoWriteAssumption
  <2>3. ContentOf(request.entry) \in Values \cup {NoEntry}
    BY DEF ContentOf
  <2>4. [key |-> request.key, content |-> ContentOf(request.entry)]
          \in [key : Keys, content : Values \cup {NoEntry}]
    BY <2>2, <2>3
  <2> QED
    BY <1>2, <2>2, <2>4, NoWriteAssumption DEF PendingNow
<1> QED
  BY <1>1, <1>2

\* A step changes the map only by putting the write in progress there.
LEMMA MapSteps ==
  ASSUME Journaled, KeysSurviveJSON, ValuesSurviveJSON, Sound, [Next]_vars,
         pc \notin NotServing, pc' \notin NotServing
  PROVE  /\ WriteTerminator => MapNow' = WithWrite(MapNow)
         /\ ~ WriteTerminator => MapNow' = MapNow
<1> USE DEF Sound, Faithful, Consistent, ContentsConsistent
<1>1. /\ MapNow = [k \in Keys |-> ContentOf(Current(k))]
      /\ MapNow' = [k \in Keys |-> ContentOf(Current(k)')]
  BY DEF MapNow, MapOf, NotServing
<1>2. CASE WriteTerminator
  <2>1. ~ UNCHANGED vars /\ pc = "terminate" /\ request.key \in Keys
    <3>1. pc = "terminate" /\ mt \in Table
          /\ wal \in Seq(Fragment) /\ wal' = Append(wal, Terminator)
      BY <1>2 DEF WriteTerminator, AppendToLog, TypeInvariant, TypeOK, LogType, MemoryType
    <3>2. Append(wal, Terminator) # wal
      BY <3>1, FragmentsMatch, AppendKeeps
    <3> QED
      BY <3>1, <3>2, WriteLogged DEF vars, walVars
  <2>2. ContentOf(StoreEntry(mt', dir', sstables', request.key)) = ContentOf(request.entry)
    <3> DEFINE k == request.key
    <3> QED
      BY <1>2, <2>1, WriteHeld DEF Current
  <2>3. \A k \in Keys \ {request.key} : ContentOf(Current(k)') = ContentOf(Current(k))
    BY ContentKept
  <2> QED
    BY <1>1, <1>2, <2>1, <2>2, <2>3 DEF WithWrite, Current
<1>3. CASE ~ WriteTerminator
  <2>1. CASE pc = "terminate"
    <3>1. UNCHANGED <<dir, sstables, mt>>
      <4>1. WriteTerminatorFails \/ UNCHANGED vars
        BY <1>3, <2>1 DEF Next, Opening, Open, RemoveDangling, FinishOpen, Get, Write,
           Logging, WriteRecord, Flushing, CreateSSTable, EncodeSSTable, RenameManifest,
           SyncManifest, TruncateLog, Compacting, Compact, RemoveOld, FinishCompaction,
           Failing, WriteRecordFails, CreateSSTableFails, EncodeSSTableFails,
           RenameManifestFails, SyncManifestFails, TruncateLogFails, CompactFails,
           RemoveOldFails, GetFails, Crash, PowerLoss, LoseMemory, NotServing
      <4> QED
        BY <4>1 DEF WriteTerminatorFails, dirVars, memoryVars, vars
    <3> QED
      BY <1>1, <1>3, <3>1 DEF Current
  <2>2. CASE pc # "terminate"
    BY <1>1, <1>3, <2>2, ContentKept
  <2> QED
    BY <2>1, <2>2
<1> QED
  BY <1>2, <1>3

-----------------------------------------------------------------------------
(* Every step is a step of KVStore *)

\* The two facts about the maps, as state predicates.
OutcomesMatch == OutcomesNow = {DiskMap(wal), DiskMap(walSynced)}
RestMatches   == pc \in NotServing => MapNow = DiskMap(wal)

\* They hold in the next state, too.
LEMMA MatchNext ==
  ASSUME Journaled
  PROVE  Faithful' => OutcomesMatch' /\ RestMatches'
<1>1. Faithful => OutcomesMatch /\ RestMatches
  BY OutcomesAre, MapAtRest DEF OutcomesMatch, RestMatches
<1> QED
  BY <1>1, PTL

\* A step of a call changes the maps as KVStore allows.
LEMMA Progresses ==
  ASSUME Journaled, KeysSurviveJSON, ValuesSurviveJSON, Sound, Faithful', [Next]_vars,
         pc \in WritePath, pc' \notin NotServing
  PROVE  KV!Progress
<1>1. ~ PowerLoss /\ pc \notin NotServing
  BY DEF PowerLoss, LoseMemory, WritePath, Saving, NotServing
<1>2. /\ OutcomesNow = {DiskMap(wal), DiskMap(walSynced)}
      /\ OutcomesNow' = {DiskMap(wal)', DiskMap(walSynced)'}
  BY OutcomesAre, MatchNext DEF Sound, OutcomesMatch
<1>3. /\ PendingNow # NoWrite
      /\ \A map : KV!Written(map) = WithWrite(map)
  BY PendingIs DEF KV!Written, WithWrite
<1>4. MapNow' \in {MapNow, WithWrite(MapNow)}
  BY <1>1, MapSteps
<1> DEFINE before == OutcomesNow \cup {MapNow}
<1>5. OutcomesNow' \subseteq before \cup {WithWrite(map) : map \in before}
  BY <1>1, <1>2, DiskSteps
<1>6. OutcomesNow' # {}
  BY <1>2
<1> QED
  BY <1>3, <1>4, <1>5, <1>6 DEF KV!Progress, KV!SomeOf

\* How a call goes on or returns.
LEMMA CallSteps ==
  ASSUME [Next]_vars, pc \in WritePath, pc' \notin NotServing
  PROVE  \/ pc' \in WritePath /\ request' = request /\ reply' = reply
         \/ pc' = "idle" /\ Return(Failure)
         \/ /\ pc' = "idle" /\ ReturnStored
            /\ WriteTerminator \/ TruncateLog \/ FinishCompaction
BY DEF Next, Opening, Open, RemoveDangling, FinishOpen, Get, Write, Logging, WriteRecord,
   WriteTerminator, Flushing, CreateSSTable, EncodeSSTable, RenameManifest,
   SyncManifest, TruncateLog, Compacting, Compact, RemoveOld, FinishCompaction,
   Failing, WriteRecordFails, WriteTerminatorFails, CreateSSTableFails,
   EncodeSSTableFails, RenameManifestFails, SyncManifestFails, TruncateLogFails,
   CompactFails, RemoveOldFails, GetFails, Crash, PowerLoss, LoseMemory,
   AfterFlush, ReturnStored, Return, GoTo, StartSaving, WritePath, Saving, NotServing,
   vars, callVars

\* A write that is acknowledged is in the map, and in what any stop leaves.
AckedEverywhere ==
  reply.status = "stored" =>
    \A map \in {MapNow} \cup OutcomesNow : map[reply.key] = ContentOf(reply.entry)

\* It holds whenever the contents are consistent.
LEMMA AckedNext ==
  ASSUME Journaled
  PROVE  Faithful' => AckedEverywhere'
<1>1. Faithful => AckedEverywhere
  <2> SUFFICES ASSUME Faithful, reply.status = "stored",
                      NEW map \in {MapNow} \cup OutcomesNow
               PROVE  map[reply.key] = ContentOf(reply.entry)
    BY DEF AckedEverywhere
  <2>1. reply.key \in Keys /\ reply.entry \in Entry
    BY DEF Faithful, Consistent, TypeInvariant, TypeOK, CallType, Replies
  <2>2. pc = "idle" /\ Holds(reply.key, reply.entry)
    BY DEF Faithful, ContentsConsistent, WriteConsistent
  <2>3. CASE map = MapNow
    BY <2>1, <2>2, <2>3 DEF MapNow, MapOf, Holds
  <2>4. CASE map \in OutcomesNow
    <3>1. PICK w \in LogImages, d \in images : map = MapOf(Recovered(w, d))
      BY <2>4 DEF OutcomesNow
    <3>2. ContentOf(Recovered(w, d)[reply.key]) = ContentOf(reply.entry)
      BY <2>1, <2>2, HeldIsDurable DEF NotServing
    <3> QED
      BY <2>1, <3>1, <3>2 DEF MapOf
  <2> QED
    BY <2>3, <2>4
<1> QED
  BY <1>1, PTL

\* A call that goes on, fails or returns nil.
LEMMA CallRefines ==
  ASSUME Journaled, KeysSurviveJSON, ValuesSurviveJSON, Sound, Faithful', [Next]_vars,
         pc \in WritePath, pc' \notin NotServing
  PROVE  KV!Next
<1>1. KV!Progress
  BY Progresses
<1>2. /\ PendingNow # NoWrite
      /\ PendingNow = [key |-> request.key, content |-> ContentOf(request.entry)]
  BY PendingIs
<1>3. (pc \notin NotServing)' = (pc \notin NotServing)
  BY DEF WritePath, Saving, NotServing
<1>4. CASE request' = request /\ reply' = reply
  <2>1. PendingNow' = PendingNow /\ ReplyNow' = ReplyNow
    BY <1>4 DEF PendingNow, ReplyNow
  <2> QED
    BY <1>1, <1>3, <2>1 DEF KV!Next, KV!Advance
<1>5. CASE Return(Failure)
  <2>1. PendingNow' = NoWrite /\ ReplyNow' = KV!Failure
    BY <1>5 DEF Return, PendingNow, ReplyNow, Failure, KV!Failure
  <2> QED
    BY <1>1, <1>2, <1>3, <2>1 DEF KV!Next, KV!Reject
<1>6. CASE ReturnStored
  <2>1. /\ request' = NoWrite
        /\ reply' = [status |-> "stored", key |-> request.key, entry |-> request.entry]
    BY <1>6 DEF ReturnStored, Return
  <2>2. /\ PendingNow' = NoWrite
        /\ ReplyNow' = [status |-> "stored", key |-> PendingNow.key,
                        content |-> PendingNow.content]
    BY <1>2, <2>1 DEF PendingNow, ReplyNow
  <2>3. AckedEverywhere'
    BY AckedNext
  <2>4. \A map \in {MapNow'} \cup OutcomesNow' : map[PendingNow.key] = PendingNow.content
    <3>1. \A map \in {MapNow'} \cup OutcomesNow' : map[reply'.key] = ContentOf(reply'.entry)
      BY <2>1, <2>3 DEF AckedEverywhere
    <3> QED
      BY <1>2, <2>1, <3>1
  <2> QED
    BY <1>1, <1>2, <1>3, <2>2, <2>4 DEF KV!Next, KV!Acknowledge
<1> QED
  BY <1>4, <1>5, <1>6, CallSteps

\* A store that opens changes neither its map nor what a stop leaves.
LEMMA OpeningRefines ==
  ASSUME Journaled, KeysSurviveJSON, ValuesSurviveJSON, Sound, Faithful', Opening
  PROVE  [KV!Next]_KV!vars
<1>1. [Next]_vars /\ pc \in NotServing /\ ~ PowerLoss
      /\ UNCHANGED <<walVars, request, reply>>
  BY DEF Next, Opening, Open, RemoveDangling, FinishOpen, GoTo, callVars, NotServing,
     PowerLoss, LoseMemory
<1>2. \A k \in Keys : InLog(k) \/ OnDisk(dir', k) = OnDisk(dir, k)
  BY <1>1, DirectoryKept DEF Sound
<1>3. \A k \in Keys : Replay(walSynced)[k] # NoEntry \/ OnDisk(dir', k) = OnDisk(dir, k)
  BY <1>2, ReplayEmpty
     DEF InLog, Sound, Faithful, ContentsConsistent, LogConsistent
<1>4. DiskMap(wal)' = DiskMap(wal) /\ DiskMap(walSynced)' = DiskMap(walSynced)
  BY <1>1, <1>2, <1>3 DEF DiskMap, InLog, walVars
<1>5. OutcomesNow' = OutcomesNow
  BY <1>4, OutcomesAre, MatchNext DEF Sound, OutcomesMatch
<1>6. PendingNow' = PendingNow /\ ReplyNow' = ReplyNow
  BY <1>1 DEF PendingNow, ReplyNow
<1>7. CASE Open \/ RemoveDangling
  <2>1. pc' \in NotServing
    BY <1>7 DEF Open, RemoveDangling, GoTo, NotServing
  <2>2. MapNow' = MapNow
    BY <1>1, <1>4, <2>1, MapAtRest, MatchNext DEF Sound, RestMatches
  <2> QED
    BY <1>1, <1>5, <1>6, <2>1, <2>2 DEF KV!vars
<1>8. CASE FinishOpen
  <2>1. pc' = "idle" /\ pc # "down" /\ UNCHANGED <<dir, sstables, mt>>
    BY <1>8 DEF FinishOpen, GoTo, memoryVars, dirVars, SyncDirectory
  <2>2. MapNow' = MapNow
    BY <2>1 DEF MapNow, Current
  <2>3. (pc \notin NotServing) = FALSE /\ (pc \notin NotServing)' = TRUE
    BY <1>1, <2>1 DEF NotServing
  <2> QED
    BY <1>5, <1>6, <2>2, <2>3 DEF KV!Next, KV!Start
<1> QED
  BY <1>7, <1>8 DEF Opening

\* A stop leaves one of the outcomes.
LEMMA StoppingRefines ==
  ASSUME Journaled, KeysSurviveJSON, ValuesSurviveJSON, Sound, Faithful',
         Crash \/ PowerLoss
  PROVE  KV!Next
<1>1. /\ pc' = "down" /\ request' = NoWrite /\ reply' = NoReply
  BY DEF Crash, PowerLoss, LoseMemory
<1>2. /\ PendingNow' = NoWrite /\ ReplyNow' = KV!NoReply
      /\ (pc \notin NotServing)' = FALSE
  BY <1>1 DEF PendingNow, ReplyNow, NoReply, KV!NoReply, NotServing
<1>3. MapNow' \in OutcomesNow /\ OutcomesNow' \subseteq OutcomesNow /\ OutcomesNow' # {}
  <2>1. CASE Crash
    <3>1. UNCHANGED <<wal, walSynced, dir>>
      BY <2>1 DEF Crash, dirVars, walVars
    <3>2. DiskMap(wal)' = DiskMap(wal) /\ DiskMap(walSynced)' = DiskMap(walSynced)
      BY <3>1 DEF DiskMap
    <3>3. OutcomesNow' = OutcomesNow /\ DiskMap(wal) \in OutcomesNow
      BY <3>2, OutcomesAre, MatchNext DEF Sound, OutcomesMatch
    <3>4. MapNow' = DiskMap(wal)
      BY <1>1, <3>2, MatchNext DEF RestMatches, NotServing
    <3> QED
      BY <3>3, <3>4
  <2>2. CASE PowerLoss
    <3>1. /\ wal' \in LogImages /\ walSynced' = wal' /\ dir' \in images
      BY <2>2 DEF PowerLoss
    <3>2. MapNow' = MapOf(Recovered(wal', dir'))
      BY <1>1 DEF MapNow
    <3>3. MapNow' \in OutcomesNow
      BY <3>1, <3>2 DEF OutcomesNow
    <3>4. OutcomesNow' = {MapNow'}
      BY <1>1, <3>1, MatchNext DEF OutcomesMatch, RestMatches, NotServing
    <3> QED
      BY <3>3, <3>4
  <2> QED
    BY <2>1, <2>2
<1> QED
  BY <1>2, <1>3 DEF KV!Next, KV!Crash, KV!SomeOf

\* Get, and the start of Set and Delete, change no map.
LEMMA IdleRefines ==
  ASSUME Journaled, Sound, Faithful',
         \/ \E k \in Keys : Get(k) \/ GetFails(k)
         \/ \E k \in Keys, e \in Entry : Write(k, e)
  PROVE  KV!Next
<1>1. /\ pc = "idle" /\ pc' \in {"idle", "log"}
      /\ UNCHANGED <<wal, walSynced, dir, mt, sstables>>
  BY DEF Get, GetFails, Write, Return, dirVars, walVars, memoryVars
<1>2. MapNow' = MapNow
  BY <1>1 DEF MapNow, Current
<1>3. OutcomesNow' = OutcomesNow
  <2>1. DiskMap(wal)' = DiskMap(wal) /\ DiskMap(walSynced)' = DiskMap(walSynced)
    BY <1>1 DEF DiskMap
  <2> QED
    BY <2>1, OutcomesAre, MatchNext DEF Sound, OutcomesMatch
<1>4. (pc \notin NotServing) = TRUE /\ (pc \notin NotServing)' = TRUE
      /\ PendingNow = NoWrite
  BY <1>1, PendingIs DEF NotServing, WritePath, Saving
<1>5. ASSUME NEW k \in Keys, Get(k)
      PROVE  KV!Next
  <2>1. PendingNow' = NoWrite
    BY <1>5 DEF Get, Return, PendingNow
  <2>2. MapNow[k] = ContentOf(Current(k)) /\ Current(k) \in Slot
    BY <1>1, TablesEntryType
       DEF MapNow, MapOf, Sound, Faithful, Consistent, TypeInvariant, TypeOK, MemoryType,
           DirectoryType, Current, StoreEntry, Table
  <2>3. k \in negativeCache => Current(k) = NoEntry
    BY CacheSound DEF Sound, Faithful, Consistent, NegativeCacheSound
  <2>4. KV!Read(k)
    <3>1. CASE Current(k) = NoEntry
      <4>1. ReplyNow' = [status |-> "notfound", key |-> k]
        BY <1>5, <3>1, EntriesAssumption DEF Get, Return, ReplyNow
      <4> QED
        BY <1>2, <1>3, <1>4, <2>1, <2>2, <3>1, <4>1, EntriesAssumption
           DEF KV!Read, ContentOf
    <3>2. CASE Current(k) = Deleted
      <4>1. ReplyNow' = [status |-> "deleted", key |-> k]
        BY <1>5, <2>3, <3>2, EntriesAssumption DEF Get, Return, ReplyNow
      <4> QED
        BY <1>2, <1>3, <1>4, <2>1, <2>2, <3>2, <4>1, EntriesAssumption
           DEF KV!Read, ContentOf
    <3>3. CASE Current(k) \in Values
      <4>1. ReplyNow' = [status |-> "found", key |-> k, content |-> Current(k)]
        BY <1>5, <2>3, <3>3, EntriesAssumption DEF Get, Return, ReplyNow, ContentOf
      <4> QED
        BY <1>2, <1>3, <1>4, <2>1, <2>2, <3>3, <4>1, EntriesAssumption
           DEF KV!Read, ContentOf
    <3> QED
      BY <2>2, <3>1, <3>2, <3>3 DEF Slot, Entry
  <2> QED
    BY <2>4 DEF KV!Next
<1>6. ASSUME NEW k \in Keys, GetFails(k)
      PROVE  KV!Next
  <2>1. PendingNow' = NoWrite /\ ReplyNow' = KV!Failure
    BY <1>6 DEF GetFails, Return, PendingNow, ReplyNow, Failure, KV!Failure
  <2> QED
    BY <1>2, <1>3, <1>4, <2>1 DEF KV!Next, KV!ReadFails
<1>7. ASSUME NEW k \in Keys, NEW e \in Entry, Write(k, e)
      PROVE  KV!Next
  <2>1. request' = [key |-> k, entry |-> e] /\ reply' = NoReply
    BY <1>7 DEF Write
  <2>2. request' # NoWrite
    BY <2>1, NoWriteAssumption
  <2>3. PendingNow' = [key |-> k, content |-> ContentOf(e)] /\ ReplyNow' = KV!NoReply
    BY <2>1, <2>2 DEF PendingNow, ReplyNow, NoReply, KV!NoReply
  <2>4. ContentOf(e) \in KV!Content
    BY DEF ContentOf, KV!Content
  <2> QED
    BY <1>2, <1>3, <1>4, <2>3, <2>4 DEF KV!Next, KV!Begin
<1> QED
  BY <1>5, <1>6, <1>7

\* A step that changes nothing changes nothing of the map.
LEMMA StutterRefines ==
  ASSUME UNCHANGED vars
  PROVE  UNCHANGED KV!vars
BY DEF vars, dirVars, walVars, memoryVars, callVars, KV!vars, MapNow, Current, Recovered,
   OutcomesNow, LogImages, PendingNow, ReplyNow

\* Only a call in progress has a request.
LEMMA RequestStep ==
  ASSUME pc \notin WritePath => request = NoWrite, [Next]_vars
  PROVE  (pc \notin WritePath => request = NoWrite)'
BY DEF Next, Opening, Open, RemoveDangling, FinishOpen, Get, Write, Logging, WriteRecord,
   WriteTerminator, Flushing, CreateSSTable, EncodeSSTable, RenameManifest,
   SyncManifest, TruncateLog, Compacting, Compact, RemoveOld, FinishCompaction,
   Failing, WriteRecordFails, WriteTerminatorFails, CreateSSTableFails,
   EncodeSSTableFails, RenameManifestFails, SyncManifestFails, TruncateLogFails,
   CompactFails, RemoveOldFails, GetFails, Crash, PowerLoss, LoseMemory,
   AfterFlush, ReturnStored, Return, GoTo, StartSaving, WritePath, Saving,
   NotServing, vars, callVars

\* Every step keeps the inductive invariant.
LEMMA SoundStep ==
  ASSUME Journaled, KeysSurviveJSON, ValuesSurviveJSON, Sound, [Next]_vars
  PROVE  Sound'
BY FaithfulStep, CacheStep, RequestStep DEF Sound, Faithful, Consistent

\* Every step of the engine is a step of the map, or changes nothing of it.
LEMMA StepRefines ==
  ASSUME Journaled, KeysSurviveJSON, ValuesSurviveJSON, Sound, [Next]_vars
  PROVE  [KV!Next]_KV!vars
<1>1. Faithful'
  BY SoundStep DEF Sound
<1>2. CASE UNCHANGED vars
  BY <1>2, StutterRefines
<1>3. CASE Opening
  BY <1>1, <1>3, OpeningRefines
<1>4. CASE Crash \/ PowerLoss
  BY <1>1, <1>4, StoppingRefines
<1>5. CASE \/ \E k \in Keys : Get(k) \/ GetFails(k)
           \/ \E k \in Keys, e \in Entry : Write(k, e)
  BY <1>1, <1>5, IdleRefines
<1>6. CASE pc \in WritePath /\ pc' \notin NotServing
  BY <1>1, <1>6, CallRefines
<1>7. CASE \/ Logging \/ Flushing \/ Compacting
           \/ Failing /\ ~ \E k \in Keys : GetFails(k)
  <2>1. pc \in WritePath /\ pc' \notin NotServing
    BY <1>7 DEF Logging, WriteRecord,
       WriteTerminator, Flushing, CreateSSTable, EncodeSSTable, RenameManifest,
       SyncManifest, TruncateLog, Compacting, Compact, RemoveOld, FinishCompaction,
       Failing, WriteRecordFails, WriteTerminatorFails, CreateSSTableFails,
       EncodeSSTableFails, RenameManifestFails, SyncManifestFails, TruncateLogFails,
       CompactFails, RemoveOldFails, AfterFlush, ReturnStored, Return, GoTo,
       StartSaving, WritePath, Saving, NotServing
  <2> QED
    BY <1>6, <2>1
<1> QED
  BY <1>2, <1>3, <1>4, <1>5, <1>7 DEF Next

\* A store that was never opened is the empty map.
LEMMA InitRefines ==
  ASSUME Journaled, Init
  PROVE  Sound /\ KV!Init
<1>1. Sound
  BY FaithfulInit DEF Sound, Init, CacheConsistent
<1>2. pc = "down" /\ wal = <<>> /\ walSynced = <<>> /\ dir = EmptyDirectory
  BY DEF Init
<1>3. DiskMap(wal) = [k \in Keys |-> NoEntry]
  <2>1. /\ Reverse(dir.manifest) \in Seq(SSTableIDs)
        /\ Range(Reverse(dir.manifest)) = {}
    BY <1>2, ReverseKeeps, EmptyRange, <<>> \in Seq(SSTableIDs) DEF EmptyDirectory
  <2>2. \A k \in Keys : TablesEntry(dir, Reverse(dir.manifest), k) = NoEntry
    BY <2>1, LookupNothing
  <2>3. \A k \in Keys : OnDisk(dir, k) = NoEntry
    BY <2>2 DEF OnDisk, ContentOf
  <2> QED
    BY <1>2, <2>3, ReplayEmpty DEF DiskMap
<1>4. MapNow = [k \in Keys |-> NoEntry] /\ OutcomesNow = {MapNow}
  BY <1>1, <1>2, <1>3, MapAtRest, OutcomesAre DEF Sound, NotServing
<1>5. PendingNow = NoWrite /\ ReplyNow = KV!NoReply /\ (pc \notin NotServing) = FALSE
  BY DEF Init, PendingNow, ReplyNow, NoReply, KV!NoReply, NotServing
<1> QED
  BY <1>1, <1>4, <1>5 DEF KV!Init

\* The storage engine implements the map that store.go promises: every Get answers
\* from it, a Set or Delete changes it at one moment between its call and its
\* return and reaches what a stop would leave by the time it returns nil, a call
\* that fails does one or the other or neither, and flushes, compactions,
\* recoveries and their failures at any step leave it alone.
THEOREM StoreIsAMap ==
  ASSUME Journaled, KeysSurviveJSON, ValuesSurviveJSON
  PROVE  Spec => ImplementsKVStore
<1>1. Init => Sound /\ KV!Init
  BY InitRefines
<1>2. Sound /\ [Next]_vars => Sound'
  BY SoundStep
<1>3. Sound /\ [Next]_vars => [KV!Next]_KV!vars
  BY StepRefines
<1> QED
  BY <1>1, <1>2, <1>3, PTL DEF Spec, ImplementsKVStore, KV!Spec
=============================================================================
