--------------------------- MODULE LSMTreeStore ----------------------------
(***************************************************************************)
(* The storage engine (internal/kvstore): one store, used by one caller at *)
(* a time (cmd/server holds a mutex around every handler), over a          *)
(* directory that holds wal.db, MANIFEST and the SSTable files.            *)
(*                                                                         *)
(* A step is one effect on the directory with the memory updates that      *)
(* follow it, so that the process may die, or the machine lose power,      *)
(* between any two effects.  Every call on the file system may fail.       *)
(*                                                                         *)
(* Files are opened with O_DSYNC: a write is durable when it returns.  A   *)
(* change of a name in the directory (a new file, a rename, a removal) is  *)
(* durable after the next sync of the directory; a truncation, which no    *)
(* sync follows, after the next write to the file.                         *)
(***************************************************************************)
EXTENDS WriteAheadLog, SequencesExt

CONSTANTS
  MaxMemtableEntries, \* maxMemtableEntries (2000)
  MaxOperations,      \* maxOperations (10000)
  Journaled,          \* name changes reach the disk in the order they are made,
                      \* and the sync of a new file makes its name durable
  Partial,            \* an SSTable file whose contents were not all written
  NoWrite,            \* no Set or Delete in progress
  MaxSSTableID,       \* bound: no write starts with a larger nextSSTableID
  MaxLogLength,       \* bound: no write starts with more fragments in wal.db
  MaxOperationCount   \* bound: no write starts with a larger operationCount

ASSUME StoreAssumption ==
  /\ MaxMemtableEntries \in Nat \ {0}
  /\ MaxOperations \in Nat \ {0}
  /\ Journaled \in BOOLEAN
  /\ Partial \notin Table
  /\ MaxSSTableID \in Nat /\ MaxLogLength \in Nat /\ MaxOperationCount \in Nat

VARIABLES
  (* the directory *)
  wal,            \* contents of wal.db
  walSynced,      \* contents a power failure may leave instead
  walLinked,      \* the name wal.db has reached the disk
  dir,            \* MANIFEST and the SSTable files
  images,         \* what a power failure may leave instead
  (* lsmTreeStore and its manifest *)
  mt,
  sstables,       \* manifest.sstables, newest first
  nextSSTableID,
  negativeCache,
  operationCount,
  (* the call in progress *)
  pc,
  request,        \* the Set or Delete in progress
  reply,          \* what the last call returned
  task,           \* what the SSTables being saved are for
  fresh,          \* IDs of the SSTables it has created
  old             \* compact: oldSSTables still to be removed

dirVars    == <<dir, images, walLinked>>
walVars    == <<wal, walSynced>>
memoryVars == <<mt, sstables, nextSSTableID, negativeCache, operationCount>>
callVars   == <<request, reply, task, fresh, old>>
vars       == <<dirVars, walVars, memoryVars, callVars, pc>>

-----------------------------------------------------------------------------
(* SSTables and lookups *)

Size(table) == Cardinality({k \in Keys : table[k] # NoEntry})

\* A directory d has d.manifest, the lines of MANIFEST (SSTable IDs, oldest
\* first), and d.tables, the contents of the SSTable files by ID.
EmptyDirectory == [manifest |-> <<>>, tables |-> <<>>]

\* openSSTable succeeds: the file is there and its JSON is complete.
Readable(d, id) == id \in DOMAIN d.tables /\ d.tables[id] # Partial

Contents(d, id) == IF Readable(d, id) THEN d.tables[id] ELSE EmptyTable

\* The first of the tables ids, newest first, that has an entry for k decides.
TablesEntry(d, ids, k) ==
  LET hits == {i \in DOMAIN ids : Contents(d, ids[i])[k] # NoEntry}
  IN  IF hits = {} THEN NoEntry ELSE Contents(d, ids[Min(hits)])[k]

\* A memtable shadows every SSTable.
StoreEntry(memtable, d, ids, k) ==
  IF memtable[k] # NoEntry THEN memtable[k] ELSE TablesEntry(d, ids, k)

\* What the running store holds for k, and what a restart with log w and
\* directory d would hold.
Current(k)      == StoreEntry(mt, dir, sstables, k)
Recovered(w, d) ==
  LET memtable == Replay(w)
  IN  [k \in Keys |-> StoreEntry(memtable, d, Reverse(d.manifest), k)]

-----------------------------------------------------------------------------
(* The result of merging the SSTables of the manifest, cut into SSTables of
   at most MaxMemtableEntries entries in key order. *)

Live == {k \in Keys : TablesEntry(dir, sstables, k) \notin {NoEntry, Deleted}}

LateChunkOf(k) ==   \* mutant: an SSTable is cut before it is full
  (Cardinality({j \in Live : j <= k}) \div MaxMemtableEntries) + 1

ChunkOf(k) ==
  (Cardinality({j \in Live : j < k}) \div MaxMemtableEntries) + 1

\* What the file of the c-th of them holds.
Chunk(c) ==
  ReadBack([k \in Keys |->
    IF k \in Live /\ ChunkOf(k) = c THEN TablesEntry(dir, sstables, k) ELSE NoEntry])

ChunkCount ==
  (Cardinality(Live) + MaxMemtableEntries - 1) \div MaxMemtableEntries

-----------------------------------------------------------------------------
(* Returning from a call, and the pieces the write path is made of *)

NoReply == [status |-> "none"]
Failure == [status |-> "error"]

Return(answer) ==
  /\ pc' = "idle"
  /\ reply' = answer
  /\ request' = NoWrite
  /\ task' = "none"
  /\ fresh' = <<>>
  /\ old' = <<>>

ReturnStored ==
  Return([status |-> "stored", key |-> request.key, entry |-> request.entry])

GoTo(label) == pc' = label /\ UNCHANGED callVars

StartSaving(label, what) ==
  /\ pc' = label
  /\ task' = what
  /\ fresh' = <<>>
  /\ UNCHANGED <<request, reply, old>>

\* The end of flush(), then the test at the top of compact().
AfterFlush(count) ==
  IF count < MaxOperations THEN ReturnStored ELSE GoTo("compact")

AppendToLog(f) ==
  /\ wal' = Append(wal, f)
  /\ walSynced' = wal'

\* The effects on a directory d of a rename over MANIFEST, of the creation or
\* the writing of an SSTable file, and of the removal of one.
Renamed(d, lines) == [d EXCEPT !.manifest = lines]

Saved(d, id, contents) ==
  [d EXCEPT !.tables = [i \in DOMAIN d.tables \cup {id} |->
                         IF i = id THEN contents ELSE d.tables[i]]]

Removed(d, id) ==
  [d EXCEPT !.tables = [i \in DOMAIN d.tables \ {id} |-> d.tables[i]]]

\* The directory changes by one name, which is not durable yet: changed are the
\* images with the change made to them.
ChangeName(new, changed) ==
  /\ dir' = new
  /\ images' = images \cup IF Journaled THEN {new} ELSE changed
  /\ UNCHANGED walLinked

SkipSyncDirectory(new) ==   \* mutant: syncDir does nothing
  /\ dir' = new
  /\ images' = images \cup {new}
  /\ UNCHANGED walLinked

\* syncDir, after which the directory is new: every name is durable.
SyncDirectory(new) ==
  /\ dir' = new
  /\ images' = {new}
  /\ walLinked' = TRUE

KeptCached(k) == negativeCache   \* mutant: set does not clear the cache

Uncached(k) == negativeCache \ {k}

AppendedSSTables ==   \* mutant: a flushed SSTable becomes the oldest
  IF task = "flush" THEN sstables \o fresh ELSE Reverse(fresh)

\* The SSTables the new manifest is to list, newest first.
NewSSTables == IF task = "flush" THEN fresh \o sstables ELSE Reverse(fresh)

-----------------------------------------------------------------------------
(* newLSMTreeStore *)

LastUsedID(lines) == Max(Range(lines) \cup {0})   \* mutant: the + 1 is missing

FirstFreeID(lines) == Max(Range(lines) \cup {0}) + 1

Open ==
  /\ pc = "down"
  /\ Replayable(wal)
  /\ mt' = Replay(wal)
  /\ operationCount' = Size(mt')
  /\ sstables' = Reverse(dir.manifest)
  /\ nextSSTableID' = FirstFreeID(dir.manifest)
  /\ negativeCache' = {}
  /\ GoTo("open")
  /\ UNCHANGED <<dirVars, walVars>>

NothingDangling == {}   \* mutant: newLSMTreeStore does not clear

Dangling == DOMAIN dir.tables \ Range(sstables)

RemoveDangling ==
  /\ pc \in {"open", "clearing"}
  /\ \E id \in Dangling :
       ChangeName(Removed(dir, id), {Removed(d, id) : d \in images})
  /\ GoTo("clearing")
  /\ UNCHANGED <<walVars, memoryVars>>

\* The directory is synced only when a file was removed.
FinishOpen ==
  /\ pc \in {"open", "clearing"}
  /\ Dangling = {}
  /\ IF pc = "clearing" THEN SyncDirectory(dir) ELSE UNCHANGED dirVars
  /\ GoTo("idle")
  /\ UNCHANGED <<walVars, memoryVars>>

-----------------------------------------------------------------------------
(* Get *)

\* Every SSTable is readable down to the first that has an entry for k.
LookupSucceeds(k) ==
  \A i \in DOMAIN sstables :
    (\A h \in 1 .. i - 1 : Contents(dir, sstables[h])[k] = NoEntry)
      => Readable(dir, sstables[i])

Get(k) ==
  /\ pc = "idle"
  /\ LET cached == k \in negativeCache
         entry  == Current(k)
     IN  /\ ~ cached /\ mt[k] = NoEntry => LookupSucceeds(k)
         /\ CASE cached \/ entry = NoEntry ->
                   Return([status |-> "notfound", key |-> k])
              [] ~ cached /\ entry = Deleted ->
                   Return([status |-> "deleted", key |-> k])
              [] OTHER ->
                   Return([status |-> "found", key |-> k, entry |-> entry])
         /\ negativeCache' = IF entry = NoEntry THEN negativeCache \cup {k}
                             ELSE negativeCache
  /\ UNCHANGED <<dirVars, walVars, mt, sstables, nextSSTableID, operationCount>>

\* openSSTable fails on one of the SSTables the lookup has to read.
GetFails(k) ==
  /\ pc = "idle"
  /\ k \notin negativeCache
  /\ mt[k] = NoEntry
  /\ sstables # <<>>
  /\ Return(Failure)
  /\ UNCHANGED <<dirVars, walVars, memoryVars>>

-----------------------------------------------------------------------------
(* Set and Delete: writeAheadLog.log *)

WithinBounds ==
  /\ nextSSTableID <= MaxSSTableID
  /\ Len(wal) <= MaxLogLength
  /\ operationCount <= MaxOperationCount

Write(k, e) ==
  /\ pc = "idle"
  /\ WithinBounds
  /\ request' = [key |-> k, entry |-> e]
  /\ reply' = NoReply
  /\ pc' = "log"
  /\ UNCHANGED <<dirVars, walVars, memoryVars, task, fresh, old>>

WriteRecord ==
  /\ pc = "log"
  /\ AppendToLog(Record(request.key, request.entry))
  /\ GoTo("terminate")
  /\ UNCHANGED <<dirVars, memoryVars>>

\* marshalJSON fails, or the write fails with nothing, a part or (the O_DSYNC
\* flush fails) all of the record in the file.
WriteRecordFails ==
  /\ pc = "log"
  /\ \/ UNCHANGED walVars
     \/ AppendToLog(Torn)
     \/ AppendToLog(Record(request.key, request.entry))
  /\ Return(Failure)
  /\ UNCHANGED <<dirVars, memoryVars>>

\* The log is complete: the memtable takes the entry, and flush() decides.
WriteTerminator ==
  /\ pc = "terminate"
  /\ AppendToLog(Terminator)
  /\ operationCount' = operationCount + 1
  /\ mt' = [mt EXCEPT ![request.key] = request.entry]
  /\ negativeCache' = Uncached(request.key)
  /\ IF Size(mt') < MaxMemtableEntries
       THEN AfterFlush(operationCount')
       ELSE StartSaving("create", "flush")
  /\ UNCHANGED <<dirVars, sstables, nextSSTableID>>

\* The terminator is not written, or it is and the flush of the write fails.
WriteTerminatorFails ==
  /\ pc = "terminate"
  /\ AppendToLog(Terminator) \/ UNCHANGED walVars
  /\ Return(Failure)
  /\ UNCHANGED <<dirVars, memoryVars>>

-----------------------------------------------------------------------------
(* sstable.Save, for the SSTable of a flush and for those of a compaction *)

\* O_CREATE|O_EXCL: the file must not exist.
CreateSSTable ==
  /\ pc = "create"
  /\ nextSSTableID \notin DOMAIN dir.tables
  /\ ChangeName(Saved(dir, nextSSTableID, Partial),
                {Saved(d, nextSSTableID, Partial) : d \in images})
  /\ fresh' = Append(fresh, nextSSTableID)
  /\ nextSSTableID' = nextSSTableID + 1
  /\ pc' = "encode"
  /\ UNCHANGED <<walVars, mt, sstables, negativeCache, operationCount,
                 request, reply, task, old>>

CreateSSTableFails ==
  /\ pc = "create"
  /\ nextSSTableID' = nextSSTableID + 1
  /\ Return(Failure)
  /\ UNCHANGED <<dirVars, walVars, mt, sstables, negativeCache, operationCount>>

SavedTable == IF task = "flush" THEN ReadBack(mt) ELSE Chunk(Len(fresh))

\* The contents are written and synced, then the directory is.
EncodeSSTable ==
  /\ pc = "encode"
  /\ SyncDirectory(Saved(dir, Last(fresh), SavedTable))
  /\ IF task = "compact" /\ Len(fresh) < ChunkCount
       THEN GoTo("create") ELSE GoTo("rename")
  /\ UNCHANGED <<walVars, memoryVars>>

IDGivenBack ==   \* mutant: the ID is used up only when the SSTable was saved
  /\ pc = "encode"
  /\ nextSSTableID' = nextSSTableID - 1
  /\ Return(Failure)
  /\ UNCHANGED <<dirVars, walVars, mt, sstables, negativeCache, operationCount>>

EncodeSSTableFails ==
  /\ pc = "encode"
  /\ Return(Failure)
  /\ UNCHANGED <<dirVars, walVars, memoryVars>>

-----------------------------------------------------------------------------
(* manifest.save *)

\* MANIFEST.tmp is written and synced, then renamed over MANIFEST.
RenameManifest ==
  /\ pc = "rename"
  /\ LET lines == Reverse(NewSSTables)
     IN  ChangeName(Renamed(dir, lines), {Renamed(d, lines) : d \in images})
  /\ GoTo("syncdir")
  /\ UNCHANGED <<walVars, memoryVars>>

RenameManifestFails ==
  /\ pc = "rename"
  /\ Return(Failure)
  /\ UNCHANGED <<dirVars, walVars, memoryVars>>

InstalledSSTables == NewSSTables   \* mutant: the list is read after the save

\* oldSSTables of compact().
Replaced == sstables

\* After syncDirectory the new list is installed; flush() then clears the
\* memtable and truncates the log, compact() removes the old SSTables.
SyncManifest ==
  /\ pc = "syncdir"
  /\ SyncDirectory(dir)
  /\ sstables' = NewSSTables
  /\ IF task = "flush"
       THEN /\ mt' = EmptyTable
            /\ pc' = "truncate"
            /\ UNCHANGED callVars
       ELSE /\ mt' = mt
            /\ pc' = "remove"
            /\ old' = Replaced
            /\ UNCHANGED <<request, reply, task, fresh>>
  /\ UNCHANGED <<walVars, nextSSTableID, negativeCache, operationCount>>

\* The new MANIFEST is in place but the process goes on with the old list.
SyncManifestFails ==
  /\ pc = "syncdir"
  /\ Return(Failure)
  /\ UNCHANGED <<dirVars, walVars, memoryVars>>

-----------------------------------------------------------------------------
(* The rest of flush, and compact *)

TruncateLog ==
  /\ pc = "truncate"
  /\ wal' = <<>>
  /\ AfterFlush(operationCount)
  /\ UNCHANGED <<walSynced, dirVars, memoryVars>>

\* ftruncate fails, or it succeeds and syncFile fails.
TruncateLogFails ==
  /\ pc = "truncate"
  /\ wal' \in {wal, <<>>}
  /\ Return(Failure)
  /\ UNCHANGED <<walSynced, dirVars, memoryVars>>

\* Every SSTable is loaded before the merge writes anything.
Compact ==
  /\ pc = "compact"
  /\ \A i \in DOMAIN sstables : Readable(dir, sstables[i])
  /\ StartSaving(IF ChunkCount = 0 THEN "rename" ELSE "create", "compact")
  /\ UNCHANGED <<dirVars, walVars, memoryVars>>

CompactFails ==
  /\ pc = "compact"
  /\ sstables # <<>>
  /\ Return(Failure)
  /\ UNCHANGED <<dirVars, walVars, memoryVars>>

RemoveOld ==
  /\ pc = "remove"
  /\ old # <<>>
  /\ Head(old) \in DOMAIN dir.tables
  /\ ChangeName(Removed(dir, Head(old)), {Removed(d, Head(old)) : d \in images})
  /\ old' = Tail(old)
  /\ UNCHANGED <<walVars, memoryVars, pc, request, reply, task, fresh>>

RemoveOldFails ==
  /\ pc = "remove"
  /\ old # <<>>
  /\ Return(Failure)
  /\ UNCHANGED <<dirVars, walVars, memoryVars>>

FinishCompaction ==
  /\ pc = "remove"
  /\ old = <<>>
  /\ operationCount' = 0
  /\ ReturnStored
  /\ UNCHANGED <<dirVars, walVars, mt, sstables, nextSSTableID, negativeCache>>

-----------------------------------------------------------------------------
(* The process dies, or is closed, or the machine loses power *)

LoseMemory ==
  /\ pc' = "down"
  /\ request' = NoWrite /\ reply' = NoReply
  /\ task' = "none" /\ fresh' = <<>> /\ old' = <<>>
  /\ mt' = EmptyTable /\ sstables' = <<>> /\ nextSSTableID' = 1
  /\ negativeCache' = {} /\ operationCount' = 0

\* What the process wrote stays in the page cache.  This is also Close(), and
\* the exit after an error of newLSMTreeStore.
Crash ==
  /\ pc # "down"
  /\ LoseMemory
  /\ UNCHANGED <<dirVars, walVars>>

\* The logs a power failure may leave: a truncation may be undone, a record
\* being written may be cut, a file whose name was not synced may be gone.
LogImages ==
  {wal, walSynced}
    \cup (IF pc = "log" THEN {Append(wal, Torn)} ELSE {})
    \cup (IF walLinked \/ Journaled THEN {} ELSE {<<>>})

PowerLoss ==
  /\ LoseMemory
  /\ wal' \in LogImages
  /\ walSynced' = wal'
  /\ dir' \in images
  /\ images' = {dir'}
  /\ UNCHANGED walLinked

-----------------------------------------------------------------------------
Init ==
  /\ wal = <<>> /\ walSynced = <<>> /\ walLinked = FALSE
  /\ dir = EmptyDirectory /\ images = {dir}
  /\ mt = EmptyTable /\ sstables = <<>> /\ nextSSTableID = 1
  /\ negativeCache = {} /\ operationCount = 0
  /\ pc = "down" /\ request = NoWrite /\ reply = NoReply
  /\ task = "none" /\ fresh = <<>> /\ old = <<>>

Opening == Open \/ RemoveDangling \/ FinishOpen

Logging == WriteRecord \/ WriteTerminator

Flushing ==
  CreateSSTable \/ EncodeSSTable \/ RenameManifest \/ SyncManifest \/ TruncateLog

Compacting == Compact \/ RemoveOld \/ FinishCompaction

Failing ==
  \/ WriteRecordFails \/ WriteTerminatorFails
  \/ CreateSSTableFails \/ EncodeSSTableFails
  \/ RenameManifestFails \/ SyncManifestFails \/ TruncateLogFails
  \/ CompactFails \/ RemoveOldFails
  \/ \E k \in Keys : GetFails(k)

Next ==
  \/ Opening
  \/ \E k \in Keys : Get(k)
  \/ \E k \in Keys, e \in Entry : Write(k, e)
  \/ Logging \/ Flushing \/ Compacting
  \/ Failing
  \/ Crash \/ PowerLoss

Spec == Init /\ [][Next]_vars

\* The goroutine in the call goes on; nobody has to start a stopped store.
FairSpec ==
  Spec /\ WF_vars(RemoveDangling \/ FinishOpen \/ Logging \/ Flushing \/ Compacting)
=============================================================================
