------------------------- MODULE LSMTreeStoreProofs -------------------------
(***************************************************************************)
(* Theorems about LSMTreeStore, for every value of its constants.          *)
(***************************************************************************)
EXTENDS LSMTreeStoreProperties, DataLemmas

-----------------------------------------------------------------------------
(* What the operators of the store return *)

\* JSON turns a value into a value, and leaves tombstones and gaps alone.
LEMMA DecodedType ==
  /\ \A e \in Entry : Decoded(e) \in Entry
  /\ \A e \in Slot : Decoded(e) \in Slot
BY RoundTripAssumption, EntriesAssumption DEF Decoded, Entry, Slot

\* A log entry is a fragment of the log.
LEMMA RecordType ==
  ASSUME NEW k \in Keys, NEW e \in Entry
  PROVE  Record(k, e) \in Fragment
BY DecodedType, KeyRoundTripAssumption DEF Record, DecodedKey, Fragment

\* replayWriteAheadLog fills a memtable.
LEMMA ReplayType ==
  ASSUME NEW w \in Seq(Fragment)
  PROVE  Replay(w) \in Table
<1> DEFINE Hits(k) == {i \in Applied(w) : w[i].key = k}
<1>1. \A i \in Applied(w) : i \in 1 .. Len(w) /\ w[i].entry \in Entry
  BY DEF Applied, IsRecord, Fragment, Terminator, Torn
<1>2. ASSUME NEW k \in Keys, Hits(k) # {}
      PROVE  w[Max(Hits(k))].entry \in Entry
  <2>1. Hits(k) \subseteq Nat /\ Len(w) \in Nat /\ \A i \in Hits(k) : i <= Len(w)
    BY <1>1
  <2>2. Max(Hits(k)) \in Hits(k)
    BY <1>2, <2>1, MaxOfNats
  <2> QED
    BY <1>1, <2>2
<1> QED
  BY <1>2 DEF Replay, Table, Slot

\* An SSTable file that is read, present or not, gives a table.
LEMMA ContentsType ==
  ASSUME NEW d, IsDirectory(d), NEW id
  PROVE  Contents(d, id) \in Table
BY DEF Contents, Readable, IsDirectory, EmptyTable, Table, Slot

\* A lookup in the SSTables finds a value, a tombstone or nothing.
LEMMA TablesEntryType ==
  ASSUME NEW d, IsDirectory(d), NEW ids, NEW k \in Keys
  PROVE  TablesEntry(d, ids, k) \in Slot
BY ContentsType DEF TablesEntry, Table, Slot

\* A new memtable is a table.
LEMMA EmptyTableType == EmptyTable \in Table
BY DEF EmptyTable, Table, Slot

\* Saving, removing and renaming leave a directory.
LEMMA DirectoryChanges ==
  ASSUME NEW d, IsDirectory(d), NEW id \in SSTableIDs,
         NEW contents \in Table \cup {Partial}, NEW lines \in Seq(SSTableIDs)
  PROVE  /\ IsDirectory(Saved(d, id, contents))
         /\ IsDirectory(Removed(d, id))
         /\ IsDirectory(Renamed(d, lines))
<1>1. IsDirectory(Saved(d, id, contents))
  BY DEF IsDirectory, Saved
<1>2. IsDirectory(Removed(d, id))
  BY DEF IsDirectory, Removed
<1>3. IsDirectory(Renamed(d, lines))
  BY DEF IsDirectory, Renamed
<1> QED
  BY <1>1, <1>2, <1>3

\* memtable.len() is a number.
LEMMA SizeType ==
  ASSUME NEW table
  PROVE  Size(table) \in Nat
<1>1. IsFiniteSet({k \in Keys : table[k] # NoEntry})
  BY KeysAssumption, FS_Subset
<1> QED
  BY <1>1, FS_CardinalityType DEF Size

\* A file that was written for a table holds a table, whatever JSON makes of it.
LEMMA ReadBackType ==
  ASSUME NEW table \in Table
  PROVE  ReadBack(table) \in Table
<1> DEFINE Hits(k) == {j \in Keys : DecodedKey(j) = k /\ table[j] # NoEntry}
<1>1. ASSUME NEW k \in Keys, Hits(k) # {}
      PROVE  Decoded(table[Min(Hits(k))]) \in Slot
  <2>1. Hits(k) \subseteq Nat
    BY KeysAssumption
  <2>2. Min(Hits(k)) \in Hits(k)
    BY <1>1, <2>1, MinOfNats
  <2>3. table[Min(Hits(k))] \in Slot
    BY <2>2 DEF Table
  <2> QED
    BY <2>3, DecodedType
<1> QED
  BY <1>1 DEF ReadBack, Table, Slot

\* What a flush or a compaction saves is a table.
LEMMA SavedTableType ==
  ASSUME DirectoryType, MemoryType
  PROVE  SavedTable \in Table
<1>1. ReadBack(mt) \in Table
  BY ReadBackType DEF MemoryType
<1>2. ASSUME NEW c
      PROVE  Chunk(c) \in Table
  <2>1. [k \in Keys |-> IF k \in Live /\ ChunkOf(k) = c
                         THEN TablesEntry(dir, sstables, k) ELSE NoEntry] \in Table
    BY TablesEntryType DEF DirectoryType, Table, Slot
  <2> QED
    BY <2>1, ReadBackType DEF Chunk
<1> QED
  BY <1>1, <1>2 DEF SavedTable

\* The list a new manifest is to hold is a list of SSTable IDs.
LEMMA NewSSTablesType ==
  ASSUME MemoryType, CallType
  PROVE  NewSSTables \in Seq(SSTableIDs) /\ Reverse(NewSSTables) \in Seq(SSTableIDs)
<1>1. fresh \o sstables \in Seq(SSTableIDs) /\ Reverse(fresh) \in Seq(SSTableIDs)
  BY ReverseKeeps DEF MemoryType, CallType
<1> QED
  BY <1>1, ReverseKeeps DEF NewSSTables

-----------------------------------------------------------------------------
(* Type correctness *)

\* TypeOK is inductive once the write path is known to have a request, and the
\* SSTable being written to have an ID.
TypeInvariant == TypeOK /\ CallConsistent

\* The ways a step may change the call in progress.
LEMMA ReturnType ==
  ASSUME NEW answer \in Replies, Return(answer)
  PROVE  CallType' /\ CallConsistent'
BY DEF Return, CallType, CallConsistent, WritePath, Saving, NotServing

\* Going on to the next step of a call, other than encode.
LEMMA GoToType ==
  ASSUME CallType, NEW label, GoTo(label),
         label \in ({"idle"} \cup NotServing \cup WritePath) \ {"encode"},
         label \in WritePath => request \in [key : Keys, entry : Entry]
  PROVE  CallType' /\ CallConsistent'
BY DEF GoTo, CallType, CallConsistent, callVars

\* The answers of a failed call and of a call in progress.
LEMMA FailureType == Failure \in Replies /\ NoReply \in Replies
BY DEF Failure, NoReply, Replies

\* Set and Delete returning nil.
LEMMA ReturnStoredType ==
  ASSUME request \in [key : Keys, entry : Entry], ReturnStored
  PROVE  CallType' /\ CallConsistent'
<1>1. [status |-> "stored", key |-> request.key, entry |-> request.entry] \in Replies
  BY DEF Replies
<1> QED
  BY <1>1, ReturnType DEF ReturnStored

\* flush() returning to Set or Delete, which may compact.
LEMMA AfterFlushType ==
  ASSUME CallType, request \in [key : Keys, entry : Entry],
         NEW count, AfterFlush(count)
  PROVE  CallType' /\ CallConsistent'
<1>1. CASE ReturnStored
  BY <1>1, ReturnStoredType
<1>2. CASE GoTo("compact")
  BY <1>2, GoToType DEF WritePath
<1> QED
  BY <1>1, <1>2 DEF AfterFlush

\* Starting to save the SSTables of a flush or of a compaction.
LEMMA StartSavingType ==
  ASSUME CallType, request \in [key : Keys, entry : Entry],
         NEW label \in {"create", "rename"}, NEW what \in {"flush", "compact"},
         StartSaving(label, what)
  PROVE  CallType' /\ CallConsistent'
BY DEF StartSaving, CallType, CallConsistent, WritePath, Saving

\* The ways a step may change the files.
LEMMA AppendToLogType ==
  ASSUME LogType, NEW f \in Fragment, AppendToLog(f)
  PROVE  LogType'
BY DEF LogType, AppendToLog

\* A name changes in the directory.
LEMMA ChangeNameType ==
  ASSUME DirectoryType, NEW new, IsDirectory(new),
         NEW changed, \A d \in changed : IsDirectory(d), ChangeName(new, changed)
  PROVE  DirectoryType'
BY DEF DirectoryType, ChangeName, IsDirectory

\* The directory is synced.
LEMMA SyncDirectoryType ==
  ASSUME NEW new, IsDirectory(new), SyncDirectory(new)
  PROVE  DirectoryType'
BY DEF DirectoryType, SyncDirectory, IsDirectory

\* A failed call that changed nothing on the disk.
LEMMA NothingChangedType ==
  /\ LogType /\ UNCHANGED walVars => LogType'
  /\ DirectoryType /\ UNCHANGED dirVars => DirectoryType'
  /\ MemoryType /\ UNCHANGED memoryVars => MemoryType'
BY DEF LogType, walVars, DirectoryType, IsDirectory, dirVars, MemoryType, memoryVars

\* A call that returns an error and has no other effect.
LEMMA FailureKeepsType ==
  ASSUME TypeInvariant, Return(Failure), UNCHANGED <<dirVars, walVars, memoryVars>>
  PROVE  TypeInvariant'
BY ReturnType, FailureType, NothingChangedType DEF TypeInvariant, TypeOK

\* newLSMTreeStore keeps the types.
LEMMA OpeningType ==
  ASSUME TypeInvariant, Opening
  PROVE  TypeInvariant'
<1> USE DEF TypeInvariant, TypeOK
<1>1. CASE Open
  <2>1. CallType' /\ CallConsistent'
    BY <1>1, GoToType DEF Open, NotServing, WritePath, Saving
  <2>2. sstables' \in Seq(SSTableIDs) /\ nextSSTableID' \in SSTableIDs
    <3>1. dir.manifest \in Seq(SSTableIDs) /\ dir.manifest \in Seq(Nat)
      BY DEF DirectoryType, IsDirectory, SSTableIDs
    <3> QED
      BY <1>1, <3>1, ReverseKeeps, MaxOfRange DEF Open, FirstFreeID, SSTableIDs
  <2>3. mt' \in Table /\ operationCount' \in Nat /\ negativeCache' \subseteq Keys
    BY <1>1, ReplayType, SizeType DEF Open, LogType
  <2>4. MemoryType'
    BY <2>2, <2>3 DEF MemoryType
  <2> QED
    BY <1>1, <2>1, <2>4, NothingChangedType DEF Open
<1>2. CASE RemoveDangling
  <2>1. CallType' /\ CallConsistent'
    BY <1>2, GoToType DEF RemoveDangling, NotServing, WritePath, Saving
  <2>2. PICK id \in Dangling :
          ChangeName(Removed(dir, id), {Removed(d, id) : d \in images})
    BY <1>2 DEF RemoveDangling
  <2>3. id \in SSTableIDs
    BY DEF Dangling, DirectoryType, IsDirectory
  <2>4. \A d \in images \cup {dir} : IsDirectory(Removed(d, id))
    BY <2>3, DirectoryChanges, <<>> \in Seq(SSTableIDs), Partial \in Table \cup {Partial}
       DEF DirectoryType
  <2>5. DirectoryType'
    BY <2>2, <2>4, ChangeNameType
  <2> QED
    BY <1>2, <2>1, <2>5, NothingChangedType DEF RemoveDangling
<1>3. CASE FinishOpen
  <2>1. CallType' /\ CallConsistent'
    BY <1>3, GoToType DEF FinishOpen, NotServing, WritePath, Saving
  <2>2. DirectoryType'
    BY <1>3, SyncDirectoryType, NothingChangedType DEF FinishOpen, DirectoryType
  <2> QED
    BY <1>3, <2>1, <2>2, NothingChangedType DEF FinishOpen
<1> QED
  BY <1>1, <1>2, <1>3 DEF Opening

\* Get keeps the types.
LEMMA GetType ==
  ASSUME TypeInvariant, NEW k \in Keys, Get(k)
  PROVE  TypeInvariant'
<1> USE DEF TypeInvariant, TypeOK
<1>1. Current(k) \in Slot
  BY TablesEntryType DEF Current, StoreEntry, MemoryType, DirectoryType, Table
<1>2. PICK answer \in Replies : Return(answer)
  <2>1. [status |-> "notfound", key |-> k] \in Replies
    BY DEF Replies
  <2>2. [status |-> "deleted", key |-> k] \in Replies
    BY DEF Replies
  <2>3. Current(k) \in Values => [status |-> "found", key |-> k, entry |-> Current(k)] \in Replies
    BY DEF Replies
  <2>4. Current(k) \in Values \/ Current(k) = Deleted \/ Current(k) = NoEntry
    BY <1>1 DEF Slot, Entry
  <2> QED
    BY <2>1, <2>2, <2>3, <2>4 DEF Get
<1>3. MemoryType'
  BY DEF MemoryType, Get
<1> QED
  BY <1>2, <1>3, ReturnType, NothingChangedType DEF Get

\* The start of Set and Delete keeps the types.
LEMMA WriteType ==
  ASSUME TypeInvariant, NEW k \in Keys, NEW e \in Entry, Write(k, e)
  PROVE  TypeInvariant'
<1>1. CallType' /\ CallConsistent'
  BY FailureType DEF Write, TypeInvariant, TypeOK, CallType, CallConsistent,
     WritePath, Saving
<1> QED
  BY <1>1, NothingChangedType DEF Write, TypeInvariant, TypeOK

\* writeAheadLog.log keeps the types.
LEMMA LoggingType ==
  ASSUME TypeInvariant, Logging
  PROVE  TypeInvariant'
<1> USE DEF TypeInvariant, TypeOK
<1>1. request \in [key : Keys, entry : Entry]
  BY DEF Logging, WriteRecord, WriteTerminator, CallConsistent, WritePath
<1>2. request.key \in Keys /\ request.entry \in Entry
  BY <1>1
<1>3. CASE WriteRecord
  <2>1. CallType' /\ CallConsistent'
    BY <1>1, <1>3, GoToType DEF WriteRecord, WritePath
  <2>2. LogType'
    BY <1>2, <1>3, RecordType, AppendToLogType DEF WriteRecord
  <2> QED
    BY <1>3, <2>1, <2>2, NothingChangedType DEF WriteRecord
<1>4. CASE WriteTerminator
  <2>1. CallType' /\ CallConsistent'
    <3>1. CASE AfterFlush(operationCount')
      BY <1>1, <3>1, AfterFlushType
    <3>2. CASE StartSaving("create", "flush")
      BY <1>1, <3>2, StartSavingType
    <3> QED
      BY <1>4, <3>1, <3>2 DEF WriteTerminator
  <2>2. LogType'
    BY <1>4, AppendToLogType DEF WriteTerminator, Fragment
  <2>3. MemoryType'
    BY <1>2, <1>4 DEF WriteTerminator, MemoryType, Uncached, Table, Slot
  <2> QED
    BY <1>4, <2>1, <2>2, <2>3, NothingChangedType DEF WriteTerminator
<1> QED
  BY <1>3, <1>4 DEF Logging

\* flush, sstable.Save and manifest.save keep the types.
LEMMA FlushingType ==
  ASSUME TypeInvariant, Flushing
  PROVE  TypeInvariant'
<1> USE DEF TypeInvariant, TypeOK
<1>1. request \in [key : Keys, entry : Entry]
  BY DEF Flushing, CreateSSTable, EncodeSSTable, RenameManifest, SyncManifest,
     TruncateLog, CallConsistent, WritePath, Saving
<1>2. CASE CreateSSTable
  <2>1. nextSSTableID \in SSTableIDs /\ nextSSTableID' \in SSTableIDs
    BY <1>2 DEF CreateSSTable, MemoryType, SSTableIDs
  <2>2. DirectoryType'
    <3>1. \A d \in images \cup {dir} : IsDirectory(Saved(d, nextSSTableID, Partial))
      BY <2>1, DirectoryChanges, <<>> \in Seq(SSTableIDs) DEF DirectoryType
    <3> QED
      BY <1>2, <3>1, ChangeNameType DEF CreateSSTable
  <2>3. MemoryType'
    BY <1>2, <2>1 DEF CreateSSTable, MemoryType
  <2>4. /\ fresh' \in Seq(SSTableIDs) /\ fresh' # <<>>
        /\ Last(fresh') = nextSSTableID
    BY <1>2, <2>1, AppendKeeps DEF CreateSSTable, CallType
  <2>5. nextSSTableID \in DOMAIN dir'.tables
    BY <1>2 DEF CreateSSTable, ChangeName, Saved, DirectoryType, IsDirectory
  <2>6. CallType' /\ CallConsistent'
    BY <1>1, <1>2, <2>4, <2>5
       DEF CreateSSTable, CallType, CallConsistent, WritePath, Saving
  <2> QED
    BY <1>2, <2>2, <2>3, <2>6, NothingChangedType DEF CreateSSTable
<1>3. CASE EncodeSSTable
  <2>1. Last(fresh) \in SSTableIDs
    BY <1>3 DEF EncodeSSTable, CallConsistent, DirectoryType, IsDirectory
  <2>2. DirectoryType'
    <3>1. IsDirectory(Saved(dir, Last(fresh), SavedTable))
      BY <2>1, SavedTableType, DirectoryChanges, <<>> \in Seq(SSTableIDs)
         DEF DirectoryType
    <3> QED
      BY <1>3, <3>1, SyncDirectoryType DEF EncodeSSTable
  <2>3. CallType' /\ CallConsistent'
    BY <1>1, <1>3, GoToType DEF EncodeSSTable, WritePath, Saving
  <2> QED
    BY <1>3, <2>2, <2>3, NothingChangedType DEF EncodeSSTable
<1>4. CASE RenameManifest
  <2>1. DirectoryType'
    <3> DEFINE lines == Reverse(NewSSTables)
    <3>1. \A d \in images \cup {dir} : IsDirectory(Renamed(d, lines))
      BY NewSSTablesType DEF DirectoryType, IsDirectory, Renamed
    <3>2. ChangeName(Renamed(dir, lines), {Renamed(d, lines) : d \in images})
      BY <1>4 DEF RenameManifest
    <3> QED
      BY <3>1, <3>2, ChangeNameType
  <2>2. CallType' /\ CallConsistent'
    BY <1>1, <1>4, GoToType DEF RenameManifest, WritePath, Saving
  <2> QED
    BY <1>4, <2>1, <2>2, NothingChangedType DEF RenameManifest
<1>5. CASE SyncManifest
  <2>1. DirectoryType'
    BY <1>5, SyncDirectoryType DEF SyncManifest, DirectoryType
  <2>2. MemoryType'
    <3>1. mt' \in Table
      BY <1>5 DEF SyncManifest, MemoryType, EmptyTable, Table, Slot
    <3> QED
      BY <1>5, <3>1, NewSSTablesType DEF SyncManifest, MemoryType
  <2>3. CallType' /\ CallConsistent'
    <3>1. CASE task = "flush"
      BY <1>1, <1>5, <3>1
         DEF SyncManifest, callVars, CallType, CallConsistent, WritePath
    <3>2. CASE task # "flush"
      <4>1. Replaced \in Seq(SSTableIDs)
        BY DEF Replaced, MemoryType
      <4> QED
        BY <1>1, <1>5, <3>2, <4>1
           DEF SyncManifest, CallType, CallConsistent, WritePath
    <3> QED
      BY <3>1, <3>2
  <2> QED
    BY <1>5, <2>1, <2>2, <2>3, NothingChangedType DEF SyncManifest
<1>6. CASE TruncateLog
  <2>1. LogType'
    BY <1>6 DEF TruncateLog, LogType
  <2>2. CallType' /\ CallConsistent'
    BY <1>1, <1>6, AfterFlushType DEF TruncateLog
  <2> QED
    BY <1>6, <2>1, <2>2, NothingChangedType DEF TruncateLog
<1> QED
  BY <1>2, <1>3, <1>4, <1>5, <1>6 DEF Flushing

\* compact keeps the types.
LEMMA CompactingType ==
  ASSUME TypeInvariant, Compacting
  PROVE  TypeInvariant'
<1> USE DEF TypeInvariant, TypeOK
<1>1. request \in [key : Keys, entry : Entry]
  BY DEF Compacting, Compact, RemoveOld, FinishCompaction, CallConsistent, WritePath
<1>2. CASE Compact
  <2>1. CallType' /\ CallConsistent'
    BY <1>1, <1>2, StartSavingType DEF Compact
  <2> QED
    BY <1>2, <2>1, NothingChangedType DEF Compact
<1>3. CASE RemoveOld
  <2>1. Head(old) \in SSTableIDs
    BY <1>3 DEF RemoveOld, DirectoryType, IsDirectory
  <2>2. \A d \in images \cup {dir} : IsDirectory(Removed(d, Head(old)))
    BY <2>1, DirectoryChanges, <<>> \in Seq(SSTableIDs), Partial \in Table \cup {Partial}
       DEF DirectoryType
  <2>3. DirectoryType'
    BY <1>3, <2>2, ChangeNameType DEF RemoveOld
  <2>4. CallType' /\ CallConsistent'
    BY <1>1, <1>3, TailKeeps DEF RemoveOld, CallType, CallConsistent
  <2> QED
    BY <1>3, <2>3, <2>4, NothingChangedType DEF RemoveOld
<1>4. CASE FinishCompaction
  <2>1. CallType' /\ CallConsistent'
    BY <1>1, <1>4, ReturnStoredType DEF FinishCompaction
  <2>2. MemoryType'
    BY <1>4 DEF FinishCompaction, MemoryType
  <2> QED
    BY <1>4, <2>1, <2>2, NothingChangedType DEF FinishCompaction
<1> QED
  BY <1>2, <1>3, <1>4 DEF Compacting

\* Every call that fails keeps the types.
LEMMA FailingType ==
  ASSUME TypeInvariant, Failing
  PROVE  TypeInvariant'
<1> USE DEF TypeInvariant, TypeOK
<1>1. CASE WriteRecordFails
  <2>1. LogType'
    <3>1. CASE UNCHANGED walVars
      BY <3>1, NothingChangedType
    <3>2. CASE AppendToLog(Torn)
      BY <3>2, AppendToLogType DEF Fragment
    <3>3. CASE AppendToLog(Record(request.key, request.entry))
      <4>1. request.key \in Keys /\ request.entry \in Entry
        BY <1>1 DEF WriteRecordFails, CallConsistent, WritePath
      <4> QED
        BY <3>3, <4>1, AppendToLogType, RecordType
    <3> QED
      BY <1>1, <3>1, <3>2, <3>3 DEF WriteRecordFails
  <2> QED
    BY <1>1, <2>1, ReturnType, FailureType, NothingChangedType DEF WriteRecordFails
<1>2. CASE WriteTerminatorFails
  <2>1. LogType'
    BY <1>2, AppendToLogType, NothingChangedType DEF WriteTerminatorFails, Fragment
  <2> QED
    BY <1>2, <2>1, ReturnType, FailureType, NothingChangedType DEF WriteTerminatorFails
<1>3. CASE CreateSSTableFails
  <2>1. MemoryType'
    BY <1>3 DEF CreateSSTableFails, MemoryType, SSTableIDs
  <2> QED
    BY <1>3, <2>1, ReturnType, FailureType, NothingChangedType DEF CreateSSTableFails
<1>4. CASE TruncateLogFails
  <2>1. LogType'
    BY <1>4, <<>> \in Seq(Fragment) DEF TruncateLogFails, LogType
  <2> QED
    BY <1>4, <2>1, ReturnType, FailureType, NothingChangedType DEF TruncateLogFails
<1>5. CASE \/ EncodeSSTableFails \/ RenameManifestFails \/ SyncManifestFails
           \/ CompactFails \/ RemoveOldFails \/ \E k \in Keys : GetFails(k)
  BY <1>5, FailureKeepsType
     DEF EncodeSSTableFails, RenameManifestFails, SyncManifestFails, CompactFails,
         RemoveOldFails, GetFails
<1> QED
  BY <1>1, <1>2, <1>3, <1>4, <1>5 DEF Failing

\* The process dying and the machine losing power keep the types.
LEMMA StoppingType ==
  ASSUME TypeInvariant, Crash \/ PowerLoss
  PROVE  TypeInvariant'
<1> USE DEF TypeInvariant, TypeOK
<1>1. CallType' /\ CallConsistent' /\ MemoryType'
  <2>1. LoseMemory
    BY DEF Crash, PowerLoss
  <2>2. CallType' /\ CallConsistent'
    BY <2>1, FailureType, <<>> \in Seq(SSTableIDs)
       DEF LoseMemory, CallType, CallConsistent, NotServing, WritePath, Saving
  <2>3. MemoryType'
    BY <2>1, EmptyTableType, <<>> \in Seq(SSTableIDs)
       DEF LoseMemory, MemoryType, SSTableIDs
  <2> QED
    BY <2>2, <2>3
<1>2. CASE Crash
  BY <1>1, <1>2, NothingChangedType DEF Crash
<1>3. CASE PowerLoss
  <2>1. LogImages \subseteq Seq(Fragment)
    <3>1. Append(wal, Torn) \in Seq(Fragment) /\ <<>> \in Seq(Fragment)
      BY DEF LogType, Fragment
    <3> QED
      BY <3>1 DEF LogImages, LogType
  <2>2. LogType' /\ DirectoryType'
    BY <1>3, <2>1 DEF PowerLoss, LogType, DirectoryType, IsDirectory
  <2> QED
    BY <1>1, <2>2
<1> QED
  BY <1>2, <1>3

\* Every step keeps the types.
LEMMA TypeStep == TypeInvariant /\ [Next]_vars => TypeInvariant'
<1> SUFFICES ASSUME TypeInvariant, [Next]_vars PROVE TypeInvariant'
  OBVIOUS
<1>1. CASE UNCHANGED vars
  BY <1>1, NothingChangedType
     DEF vars, callVars, TypeInvariant, TypeOK, CallType, CallConsistent, dirVars
<1> QED
  BY <1>1, OpeningType, GetType, WriteType, LoggingType, FlushingType,
     CompactingType, FailingType, StoppingType DEF Next

\* An empty directory and a stopped store have the types.
LEMMA InitType ==
  ASSUME Init
  PROVE  TypeInvariant
<1>1. <<>> \in Seq(Fragment) /\ <<>> \in Seq(SSTableIDs)
  OBVIOUS
<1>2. LogType
  BY <1>1 DEF Init, LogType
<1>3. DirectoryType
  <2>1. <<>> \in [{} -> Table \cup {Partial}] /\ DOMAIN <<>> = {}
    OBVIOUS
  <2>2. IsDirectory(EmptyDirectory)
    BY <1>1, <2>1 DEF IsDirectory, EmptyDirectory
  <2> QED
    BY <2>2 DEF Init, DirectoryType
<1>4. MemoryType
  BY <1>1, EmptyTableType DEF Init, MemoryType, SSTableIDs
<1>5. CallType /\ CallConsistent
  BY <1>1, FailureType
     DEF Init, CallType, CallConsistent, NotServing, WritePath, Saving
<1> QED
  BY <1>2, <1>3, <1>4, <1>5 DEF TypeInvariant, TypeOK

\* The store never leaves its types: every step of every call, and every stop,
\* leaves files, memory and call as TypeOK says.
THEOREM TypeCorrect == Spec => []TypeOK
<1>1. Init => TypeInvariant
  BY InitType
<1> QED
  BY <1>1, TypeStep, PTL DEF Spec, TypeInvariant

-----------------------------------------------------------------------------
(* The SSTables a MANIFEST lists, in a journaled directory *)

\* The inductive invariant of ManifestsReliable.
Consistent == TypeInvariant /\ DirectoryConsistent

\* The empty list has no elements.
LEMMA EmptyRange == Range(<<>>) = {}
BY DEF Range

\* What the changes of a directory do to its MANIFEST and to the SSTables that
\* can be read.
LEMMA SavedReadable ==
  ASSUME NEW d, IsDirectory(d), NEW id, NEW contents
  PROVE  /\ Saved(d, id, contents).manifest = d.manifest
         /\ DOMAIN Saved(d, id, contents).tables = DOMAIN d.tables \cup {id}
         /\ contents # Partial => Readable(Saved(d, id, contents), id)
         /\ \A j : j # id => (Readable(Saved(d, id, contents), j) <=> Readable(d, j))
BY DEF IsDirectory, Saved, Readable

\* Removing an SSTable leaves the others as they are.
LEMMA RemovedReadable ==
  ASSUME NEW d, IsDirectory(d), NEW id
  PROVE  /\ Removed(d, id).manifest = d.manifest
         /\ DOMAIN Removed(d, id).tables = DOMAIN d.tables \ {id}
         /\ \A j : j # id => (Readable(Removed(d, id), j) <=> Readable(d, j))
BY DEF IsDirectory, Removed, Readable

\* A new MANIFEST leaves every SSTable as it is.
LEMMA RenamedReadable ==
  ASSUME NEW d, IsDirectory(d), NEW lines
  PROVE  /\ Renamed(d, lines).manifest = lines
         /\ Renamed(d, lines).tables = d.tables
         /\ \A j : Readable(Renamed(d, lines), j) <=> Readable(d, j)
BY DEF IsDirectory, Renamed, Readable

\* A step that leaves the directory and the list of SSTables alone, and is not
\* in the middle of a save when it is done.
LEMMA QuietStep ==
  ASSUME Consistent, TypeInvariant', UNCHANGED <<dir, images, sstables>>,
         nextSSTableID' >= nextSSTableID,
         fresh' = <<>> \/ (fresh' = fresh /\ pc # "encode" /\ pc' \notin Saving),
         pc \notin NotServing,
         pc' \notin NotServing \cup {"encode", "syncdir", "remove"}
  PROVE  Consistent'
<1> USE DEF Consistent, DirectoryConsistent
<1>1. ListedTablesReadable' /\ (dir \in images)'
  BY DEF ListedTablesReadable, Readable
<1>2. FreshIDs'
  <2>1. \A id \in DOMAIN dir.tables : id < nextSSTableID /\ id \in Nat
    BY DEF FreshIDs, TypeInvariant, TypeOK, DirectoryType, IsDirectory, SSTableIDs
  <2>2. nextSSTableID \in Nat /\ nextSSTableID' \in Nat
    BY DEF TypeInvariant, TypeOK, MemoryType, SSTableIDs
  <2> QED
    BY <2>1, <2>2 DEF FreshIDs
<1>3. FreshConsistent'
  BY EmptyRange DEF FreshConsistent, Readable
<1>4. ManifestConsistent'
  BY DEF ManifestConsistent, NotServing
<1>5. CallConsistent'
  BY DEF TypeInvariant
<1> QED
  BY <1>1, <1>2, <1>3, <1>4, <1>5

\* A stop leaves one of the images, each of which was consistent.
LEMMA StoppingConsistent ==
  ASSUME Consistent, TypeInvariant', Crash \/ PowerLoss
  PROVE  Consistent'
<1> USE DEF Consistent, DirectoryConsistent
<1>1. /\ pc' = "down" /\ sstables' = <<>> /\ fresh' = <<>>
      /\ dir' \in images' /\ images' \subseteq images
  BY DEF Crash, PowerLoss, LoseMemory, dirVars
<1>2. ListedTablesReadable'
  BY <1>1, EmptyRange DEF ListedTablesReadable, Readable
<1>3. FreshIDs' /\ FreshConsistent' /\ ManifestConsistent'
  BY <1>1, EmptyRange DEF FreshIDs, NotServing, FreshConsistent, Saving,
     ManifestConsistent
<1> QED
  BY <1>1, <1>2, <1>3 DEF TypeInvariant

\* Recovery hands out IDs above every listed one and then removes what no
\* MANIFEST lists.
LEMMA OpeningConsistent ==
  ASSUME Journaled, Consistent, TypeInvariant', Opening
  PROVE  Consistent'
<1> USE DEF Consistent, DirectoryConsistent
<1>0. /\ pc \in NotServing /\ fresh' = fresh
      /\ pc' \in {"open", "clearing", "idle"}
  BY DEF Opening, Open, RemoveDangling, FinishOpen, GoTo, callVars, NotServing
<1>a. CallConsistent' /\ FreshConsistent'
  BY <1>0 DEF TypeInvariant, FreshConsistent, Saving
<1>1. CASE Open
  <2>1. /\ sstables' = Reverse(dir.manifest) /\ UNCHANGED <<dir, images>>
        /\ nextSSTableID' = FirstFreeID(dir.manifest) /\ pc' = "open"
    BY <1>1 DEF Open, dirVars, GoTo
  <2>2. dir.manifest \in Seq(SSTableIDs) /\ dir.manifest \in Seq(Nat)
    BY DEF TypeInvariant, TypeOK, DirectoryType, IsDirectory, SSTableIDs
  <2>3. Range(sstables') = Range(dir.manifest)
    BY <2>1, <2>2, ReverseKeeps
  <2>4. \A id \in Range(dir.manifest) : id \in Nat /\ id < FirstFreeID(dir.manifest)
    <3>1. \A id \in Range(dir.manifest) : id \in Nat
      BY <2>2 DEF Range
    <3> DEFINE max == Max(Range(dir.manifest) \cup {0})
    <3>2. max \in Nat /\ \A id \in Range(dir.manifest) : id <= max
      BY <2>2, MaxOfRange
    <3>3. FirstFreeID(dir.manifest) = max + 1
      BY DEF FirstFreeID
    <3> HIDE DEF max
    <3> QED
      BY <3>1, <3>2, <3>3
  <2>5. ListedTablesReadable'
    BY <2>1, <2>3 DEF ListedTablesReadable, Readable
  <2>6. FreshIDs' /\ ManifestConsistent'
    BY <2>1, <2>3, <2>4 DEF FreshIDs, NotServing, ManifestConsistent
  <2> QED
    BY <1>a, <2>1, <2>5, <2>6
<1>2. CASE RemoveDangling
  <2>1. PICK id \in Dangling :
          ChangeName(Removed(dir, id), {Removed(d, id) : d \in images})
    BY <1>2 DEF RemoveDangling
  <2>2. /\ dir' = Removed(dir, id) /\ images' = images \cup {Removed(dir, id)}
        /\ UNCHANGED <<sstables, nextSSTableID>> /\ pc' = "clearing"
    BY <1>2, <2>1 DEF RemoveDangling, ChangeName, memoryVars, GoTo
  <2>3. Range(sstables) = Range(dir.manifest) /\ id \notin Range(sstables)
    BY <1>2 DEF RemoveDangling, ManifestConsistent, Dangling
  <2>4. IsDirectory(dir)
    BY DEF TypeInvariant, TypeOK, DirectoryType
  <2>5. ListedTablesReadable'
    BY <2>2, <2>3, <2>4, RemovedReadable DEF ListedTablesReadable
  <2>6. FreshIDs' /\ ManifestConsistent'
    BY <1>2, <2>2, <2>3, <2>4, RemovedReadable
       DEF RemoveDangling, FreshIDs, NotServing, ManifestConsistent
  <2> QED
    BY <1>a, <2>2, <2>5, <2>6
<1>3. CASE FinishOpen
  <2>1. /\ UNCHANGED <<dir, sstables, nextSSTableID>> /\ pc' = "idle"
        /\ images' \in {images, {dir}}
    BY <1>3 DEF FinishOpen, SyncDirectory, dirVars, memoryVars, GoTo
  <2>2. ListedTablesReadable' /\ ManifestConsistent'
    BY <2>1 DEF ListedTablesReadable, Readable, ManifestConsistent
  <2>3. FreshIDs'
    BY <1>3, <2>1 DEF FinishOpen, Dangling, FreshIDs, ManifestConsistent
  <2> QED
    BY <1>a, <2>1, <2>2, <2>3
<1> QED
  BY <1>1, <1>2, <1>3 DEF Opening

\* The steps that leave the directory and the list of SSTables alone.
LEMMA ServingConsistent ==
  ASSUME Consistent, TypeInvariant',
         \/ \E k \in Keys : Get(k)
         \/ \E k \in Keys, e \in Entry : Write(k, e)
         \/ Logging
         \/ TruncateLog
         \/ Compact \/ FinishCompaction
         \/ Failing
  PROVE  Consistent'
<1>1. nextSSTableID \in Nat
  BY DEF Consistent, TypeInvariant, TypeOK, MemoryType, SSTableIDs
<1>2. UNCHANGED <<dir, images, sstables>> /\ nextSSTableID' >= nextSSTableID
  <2>1. UNCHANGED <<dir, images, sstables>>
    BY DEF Get, Write, Logging, WriteRecord, WriteTerminator, TruncateLog, Compact,
       FinishCompaction, Failing, WriteRecordFails, WriteTerminatorFails,
       CreateSSTableFails, EncodeSSTableFails, RenameManifestFails,
       SyncManifestFails, TruncateLogFails, CompactFails, RemoveOldFails, GetFails,
       dirVars, memoryVars
  <2>2. nextSSTableID' \in {nextSSTableID, nextSSTableID + 1}
    BY DEF Get, Write, Logging, WriteRecord, WriteTerminator, TruncateLog, Compact,
       FinishCompaction, Failing, WriteRecordFails, WriteTerminatorFails,
       CreateSSTableFails, EncodeSSTableFails, RenameManifestFails,
       SyncManifestFails, TruncateLogFails, CompactFails, RemoveOldFails, GetFails,
       memoryVars
  <2> QED
    BY <1>1, <2>1, <2>2
<1>3. pc \notin NotServing
  BY DEF NotServing, Get, Write, Logging, WriteRecord, WriteTerminator, TruncateLog,
     Compact, FinishCompaction, Failing, WriteRecordFails, WriteTerminatorFails,
     CreateSSTableFails, EncodeSSTableFails, RenameManifestFails, SyncManifestFails,
     TruncateLogFails, CompactFails, RemoveOldFails, GetFails
<1>4. /\ \/ fresh' = <<>>
         \/ fresh' = fresh /\ pc # "encode" /\ pc' \notin Saving
      /\ pc' \notin NotServing \cup {"encode", "syncdir", "remove"}
  <2>1. CASE \E k \in Keys : Get(k)
    BY <2>1 DEF Get, Return, NotServing
  <2>2. CASE \E k \in Keys, e \in Entry : Write(k, e)
    BY <2>2 DEF Write, NotServing, Saving
  <2>3. CASE Logging
    BY <2>3 DEF Logging, WriteRecord, WriteTerminator, AfterFlush, ReturnStored, Return,
       GoTo, StartSaving, callVars, NotServing, Saving
  <2>4. CASE TruncateLog
    BY <2>4 DEF TruncateLog, AfterFlush, ReturnStored, Return, GoTo, callVars,
       NotServing, Saving
  <2>5. CASE Compact \/ FinishCompaction
    BY <2>5 DEF Compact, FinishCompaction, ReturnStored, Return, StartSaving, NotServing
  <2>6. CASE Failing
    BY <2>6 DEF Failing, WriteRecordFails, WriteTerminatorFails, CreateSSTableFails,
       EncodeSSTableFails, RenameManifestFails, SyncManifestFails, TruncateLogFails,
       CompactFails, RemoveOldFails, GetFails, Return, NotServing
  <2> QED
    BY <2>1, <2>2, <2>3, <2>4, <2>5, <2>6
<1> QED
  BY <1>2, <1>3, <1>4, QuietStep

\* What the new manifest lists: the new SSTables and, after a flush, the old.
LEMMA NewSSTablesRange ==
  ASSUME TypeInvariant
  PROVE  /\ Range(NewSSTables) =
              IF task = "flush" THEN Range(fresh) \cup Range(sstables) ELSE Range(fresh)
         /\ Range(Reverse(NewSSTables)) = Range(NewSSTables)
<1>1. fresh \in Seq(SSTableIDs) /\ sstables \in Seq(SSTableIDs)
  BY DEF TypeInvariant, TypeOK, CallType, MemoryType
<1>2. Range(fresh \o sstables) = Range(fresh) \cup Range(sstables)
  BY <1>1, ConcatRange
<1>3. Range(Reverse(fresh)) = Range(fresh)
  BY <1>1, ReverseKeeps
<1>4. NewSSTables \in Seq(SSTableIDs)
  BY NewSSTablesType DEF TypeInvariant, TypeOK
<1> QED
  BY <1>2, <1>3, <1>4, ReverseKeeps DEF NewSSTables

\* Creating and writing an SSTable touches none that a MANIFEST lists.
LEMMA SavingConsistent ==
  ASSUME Journaled, Consistent, TypeInvariant', CreateSSTable \/ EncodeSSTable
  PROVE  Consistent'
<1> USE DEF Consistent, DirectoryConsistent
<1>1. IsDirectory(dir) /\ fresh \in Seq(SSTableIDs) /\ nextSSTableID \in SSTableIDs
  BY DEF TypeInvariant, TypeOK, DirectoryType, CallType, MemoryType
<1>2. \A id \in Range(dir.manifest) \cup Range(sstables) :
        Readable(dir, id) /\ id \in DOMAIN dir.tables
  BY DEF ListedTablesReadable, Readable
<1>3. CallConsistent'
  BY DEF TypeInvariant
<1>4. CASE CreateSSTable
  <2>1. /\ pc = "create" /\ pc' = "encode"
        /\ dir' = Saved(dir, nextSSTableID, Partial) /\ images' = images \cup {dir'}
        /\ fresh' = Append(fresh, nextSSTableID) /\ sstables' = sstables
        /\ nextSSTableID' = nextSSTableID + 1
        /\ nextSSTableID \notin DOMAIN dir.tables
    BY <1>4 DEF CreateSSTable, ChangeName
  <2>2. \A id \in DOMAIN dir.tables : Readable(dir, id) => Readable(dir', id)
    BY <1>1, <2>1, SavedReadable
  <2>3. dir'.manifest = dir.manifest
    BY <1>1, <2>1, SavedReadable
  <2>4. ListedTablesReadable'
    BY <1>2, <2>1, <2>2, <2>3 DEF ListedTablesReadable
  <2>5. FreshIDs'
    <3>1. \A id \in DOMAIN dir.tables : id < nextSSTableID /\ id \in Nat
      BY <1>1, <2>1 DEF FreshIDs, NotServing, IsDirectory, SSTableIDs
    <3>2. DOMAIN dir'.tables = DOMAIN dir.tables \cup {nextSSTableID}
      BY <1>1, <2>1, SavedReadable
    <3> QED
      BY <1>1, <2>1, <3>1, <3>2 DEF FreshIDs, SSTableIDs
  <2>6. FreshConsistent'
    <3>1. /\ DOMAIN fresh' = 1 .. Len(fresh) + 1 /\ Len(fresh') = Len(fresh) + 1
          /\ Len(fresh) \in Nat /\ DOMAIN fresh = 1 .. Len(fresh)
          /\ \A i \in 1 .. Len(fresh) : fresh'[i] = fresh[i]
          /\ Range(fresh') = Range(fresh) \cup {nextSSTableID}
      BY <1>1, <2>1, AppendKeeps
    <3>2. \A i \in DOMAIN fresh : Readable(dir, fresh[i]) /\ fresh[i] \in DOMAIN dir.tables
      BY <2>1 DEF FreshConsistent, Readable
    <3>3. ASSUME NEW i \in DOMAIN fresh', i # Len(fresh')
          PROVE  Readable(dir', fresh'[i])
      <4>1. i \in 1 .. Len(fresh)
        BY <3>1, <3>3
      <4> QED
        BY <2>2, <3>1, <3>2, <4>1
    <3>4. Range(fresh') \cap Range(sstables') = {}
      BY <1>2, <2>1, <3>1 DEF FreshConsistent, Saving
    <3>5. \A i \in (DOMAIN fresh)' : (i # Len(fresh))' => Readable(dir, fresh[i])'
      BY <3>3 DEF Readable
    <3> QED
      BY <2>1, <3>4, <3>5 DEF FreshConsistent, NotServing
  <2>7. ManifestConsistent'
    BY <2>1 DEF ManifestConsistent
  <2> QED
    BY <1>3, <2>1, <2>4, <2>5, <2>6, <2>7
<1>5. CASE EncodeSSTable
  <2> DEFINE id == Last(fresh)
  <2>1. /\ pc = "encode" /\ pc' \in {"create", "rename"}
        /\ dir' = Saved(dir, id, SavedTable) /\ images' = {dir'}
        /\ fresh' = fresh /\ UNCHANGED <<sstables, nextSSTableID>>
    BY <1>5 DEF EncodeSSTable, SyncDirectory, GoTo, callVars, memoryVars
  <2>2. SavedTable # Partial
    BY SavedTableType, StoreAssumption DEF TypeInvariant, TypeOK
  <2>3. /\ Readable(dir', id)
        /\ \A j : Readable(dir, j) => Readable(dir', j)
        /\ dir'.manifest = dir.manifest
        /\ DOMAIN dir'.tables = DOMAIN dir.tables
    <3>1. id \in DOMAIN dir.tables
      BY <2>1 DEF CallConsistent
    <3> HIDE DEF id
    <3>2. /\ Saved(dir, id, SavedTable).manifest = dir.manifest
          /\ DOMAIN Saved(dir, id, SavedTable).tables = DOMAIN dir.tables \cup {id}
          /\ Readable(Saved(dir, id, SavedTable), id)
          /\ \A j : j # id => (Readable(Saved(dir, id, SavedTable), j) <=> Readable(dir, j))
      BY <1>1, <2>2, SavedReadable
    <3> QED
      BY <2>1, <3>1, <3>2
  <2>4. ListedTablesReadable'
    BY <1>2, <2>1, <2>3 DEF ListedTablesReadable
  <2>5. FreshIDs'
    BY <2>1, <2>3 DEF FreshIDs, NotServing
  <2>6. FreshConsistent'
    <3>1. \A i \in DOMAIN fresh : i # Len(fresh) => Readable(dir, fresh[i])
      BY <2>1 DEF FreshConsistent
    <3>2. id = fresh[Len(fresh)]
      BY DEF Last
    <3>3. \A i \in DOMAIN fresh : Readable(dir', fresh[i])
      BY <2>3, <3>1, <3>2
    <3> QED
      BY <2>1, <3>3 DEF FreshConsistent, Saving, NotServing, Readable
  <2>7. ManifestConsistent'
    BY <2>1 DEF ManifestConsistent
  <2> QED
    BY <1>3, <2>1, <2>4, <2>5, <2>6, <2>7
<1> QED
  BY <1>4, <1>5

\* A new MANIFEST lists complete SSTables, and is the only one once synced.
LEMMA ManifestStepConsistent ==
  ASSUME Journaled, Consistent, TypeInvariant', RenameManifest \/ SyncManifest
  PROVE  Consistent'
<1> USE DEF Consistent, DirectoryConsistent
<1>1. IsDirectory(dir)
  BY DEF TypeInvariant, TypeOK, DirectoryType
<1>2. CallConsistent'
  BY DEF TypeInvariant
<1>3. /\ pc \in {"rename", "syncdir"} /\ fresh' = fresh
      /\ UNCHANGED nextSSTableID
      /\ pc' \in {"syncdir", "truncate", "remove"}
  BY DEF RenameManifest, SyncManifest, GoTo, callVars, memoryVars
<1>4. \A i \in DOMAIN fresh : Readable(dir, fresh[i])
  BY <1>3 DEF FreshConsistent
<1>5. \A id \in Range(NewSSTables) : Readable(dir, id)
  <2>1. \A id \in Range(fresh) : Readable(dir, id)
    BY <1>4 DEF Range
  <2> QED
    BY <2>1, NewSSTablesRange DEF ListedTablesReadable
<1>6. Range(fresh) \cap Range(sstables) = {}
  BY <1>3 DEF FreshConsistent, Saving
<1>7. CASE RenameManifest
  <2> DEFINE lines == Reverse(NewSSTables)
  <2>1. /\ dir' = Renamed(dir, lines) /\ images' = images \cup {Renamed(dir, lines)}
        /\ UNCHANGED <<sstables, task>> /\ pc' = "syncdir"
    BY <1>7 DEF RenameManifest, ChangeName, GoTo, callVars, memoryVars
  <2>2. /\ dir'.manifest = lines /\ dir'.tables = dir.tables
        /\ \A id : Readable(dir', id) <=> Readable(dir, id)
    BY <1>1, <2>1, RenamedReadable
  <2>3. Range(lines) = Range(NewSSTables)
    BY NewSSTablesRange
  <2>4. ListedTablesReadable'
    BY <1>5, <2>1, <2>2, <2>3 DEF ListedTablesReadable
  <2>5. FreshIDs' /\ FreshConsistent'
    BY <1>3, <1>4, <1>6, <2>1, <2>2
       DEF FreshIDs, FreshConsistent, NotServing, Saving
  <2>6. ManifestConsistent'
    <3>1. NewSSTables' = NewSSTables
      BY <1>3, <2>1 DEF NewSSTables
    <3> QED
      BY <2>1, <2>2, <2>3, <3>1 DEF ManifestConsistent
  <2> QED
    BY <1>2, <2>1, <2>4, <2>5, <2>6
<1>8. CASE SyncManifest
  <2>1. /\ pc = "syncdir" /\ dir' = dir /\ images' = {dir} /\ sstables' = NewSSTables
        /\ \/ task = "flush" /\ pc' = "truncate"
           \/ task # "flush" /\ pc' = "remove" /\ old' = sstables
    BY <1>8 DEF SyncManifest, SyncDirectory, Replaced
  <2>2. ListedTablesReadable'
    BY <1>5, <2>1 DEF ListedTablesReadable, Readable
  <2>3. FreshIDs' /\ FreshConsistent'
    BY <1>3, <1>4, <2>1 DEF FreshIDs, FreshConsistent, NotServing, Saving, Readable
  <2>4. ManifestConsistent'
    <3>1. Range(dir.manifest) = Range(NewSSTables)
      BY <2>1 DEF ManifestConsistent
    <3>2. task # "flush" => Range(NewSSTables) = Range(fresh)
      BY NewSSTablesRange
    <3> QED
      BY <1>3, <1>6, <2>1, <3>1, <3>2 DEF ManifestConsistent
  <2> QED
    BY <1>2, <2>1, <2>2, <2>3, <2>4
<1> QED
  BY <1>7, <1>8

\* Removing an old SSTable takes away nothing that a MANIFEST lists.
LEMMA RemoveOldConsistent ==
  ASSUME Journaled, Consistent, TypeInvariant', RemoveOld
  PROVE  Consistent'
<1> USE DEF Consistent, DirectoryConsistent
<1> DEFINE id == Head(old)
<1>1. /\ pc = "remove" /\ UNCHANGED <<sstables, nextSSTableID, fresh, pc>>
      /\ old # <<>> /\ old' = Tail(old)
      /\ dir' = Removed(dir, id) /\ images' = images \cup {Removed(dir, id)}
  BY DEF RemoveOld, ChangeName, memoryVars
<1>2. IsDirectory(dir) /\ old \in Seq(SSTableIDs)
  BY DEF TypeInvariant, TypeOK, DirectoryType, CallType
<1>3. /\ Range(sstables) = Range(fresh)
      /\ \A d \in images : Range(d.manifest) = Range(fresh)
      /\ Range(old) \cap Range(fresh) = {}
  BY <1>1 DEF ManifestConsistent
<1>4. id \notin Range(fresh) /\ Range(old') \subseteq Range(old)
  BY <1>1, <1>2, <1>3, TailKeeps
<1> HIDE DEF id
<1>5. /\ dir'.manifest = dir.manifest
      /\ DOMAIN dir'.tables \subseteq DOMAIN dir.tables
      /\ \A j : j # id => (Readable(dir', j) <=> Readable(dir, j))
  BY <1>1, <1>2, RemovedReadable
<1>6. ListedTablesReadable'
  BY <1>1, <1>3, <1>4, <1>5 DEF ListedTablesReadable
<1>7. FreshIDs' /\ ManifestConsistent'
  BY <1>1, <1>3, <1>4, <1>5 DEF FreshIDs, NotServing, ManifestConsistent
<1>8. FreshConsistent'
  <2>1. \A i \in DOMAIN fresh : Readable(dir, fresh[i]) /\ fresh[i] # id
    BY <1>1, <1>4 DEF FreshConsistent, Range
  <2> QED
    BY <1>1, <1>5, <2>1 DEF FreshConsistent, NotServing, Saving
<1> QED
  BY <1>1, <1>6, <1>7, <1>8 DEF TypeInvariant

\* Every step keeps the inductive invariant.
LEMMA ConsistentStep ==
  ASSUME Journaled, Consistent, [Next]_vars
  PROVE  Consistent'
<1>1. TypeInvariant'
  BY TypeStep DEF Consistent
<1>2. CASE UNCHANGED vars
  BY <1>1, <1>2 DEF Consistent, DirectoryConsistent, vars, dirVars, memoryVars, callVars,
     ListedTablesReadable, Readable, FreshIDs, FreshConsistent, ManifestConsistent,
     NewSSTables, TypeInvariant
<1>3. CASE Flushing
  BY <1>1, <1>3, SavingConsistent, ManifestStepConsistent, ServingConsistent DEF Flushing
<1>4. CASE Compacting
  BY <1>1, <1>4, RemoveOldConsistent, ServingConsistent DEF Compacting
<1> QED
  BY <1>1, <1>2, <1>3, <1>4, OpeningConsistent, ServingConsistent, StoppingConsistent
     DEF Next

\* A store that was never opened is consistent.
LEMMA ConsistentInit ==
  ASSUME Init
  PROVE  Consistent
<1>1. TypeInvariant
  BY InitType
<1>2. DirectoryConsistent
  BY <1>1, EmptyRange DEF Init, EmptyDirectory, DirectoryConsistent,
     ListedTablesReadable, FreshIDs, FreshConsistent, ManifestConsistent,
     NotServing, Saving, TypeInvariant
<1> QED
  BY <1>1, <1>2 DEF Consistent

\* In a journaled directory the SSTables that are saved, those that are listed and
\* those that are removed never get in each other's way, in memory, on the disk
\* and in whatever a power failure leaves, and no file has an ID that is still to
\* be given out: no crash, and no failure of any call on the file system, makes a
\* later flush or Get meet a file that is missing, incomplete or already there.
THEOREM DirectoryStaysConsistent ==
  ASSUME Journaled
  PROVE  Spec => []DirectoryConsistent
<1>1. Init => Consistent
  BY ConsistentInit
<1>2. Consistent /\ [Next]_vars => Consistent'
  BY ConsistentStep
<1>3. Consistent => DirectoryConsistent
  BY DEF Consistent
<1> QED
  BY <1>1, <1>2, <1>3, PTL DEF Spec

\* Every SSTable that a MANIFEST lists is there and complete.
THEOREM ManifestsReliable ==
  ASSUME Journaled
  PROVE  Spec => []ListedTablesReadable
<1>1. DirectoryConsistent => ListedTablesReadable
  BY DEF DirectoryConsistent
<1> QED
  BY <1>1, DirectoryStaysConsistent, PTL

\* nextSSTableFilename never hands out the ID of a file that is there.
THEOREM IDsStayFresh ==
  ASSUME Journaled
  PROVE  Spec => []FreshIDs
<1>1. DirectoryConsistent => FreshIDs
  BY DEF DirectoryConsistent
<1> QED
  BY <1>1, DirectoryStaysConsistent, PTL
=============================================================================
