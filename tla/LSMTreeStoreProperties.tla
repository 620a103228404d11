----------------------- MODULE LSMTreeStoreProperties -----------------------
(***************************************************************************)
(* What the storage engine guarantees.                                     *)
(***************************************************************************)
EXTENDS LSMTreeStore

\* What a reader sees of an entry: a tombstone is as good as no entry.
ContentOf(e) == IF e \in Values THEN e ELSE NoEntry

SSTableIDs == Nat \ {0}

NotServing == {"down", "open", "clearing"}
Saving == {"create", "encode", "rename", "syncdir"}
WritePath ==
  {"log", "terminate", "truncate", "compact", "remove"} \cup Saving

Replies ==
  [status : {"none", "error"}]
    \cup [status : {"notfound", "deleted"}, key : Keys]
    \cup [status : {"found"}, key : Keys, entry : Values]
    \cup [status : {"stored"}, key : Keys, entry : Entry]

IsDirectory(d) ==
  /\ d = [manifest |-> d.manifest, tables |-> d.tables]
  /\ d.manifest \in Seq(SSTableIDs)
  /\ DOMAIN d.tables \subseteq SSTableIDs
  /\ d.tables \in [DOMAIN d.tables -> Table \cup {Partial}]

LogType == wal \in Seq(Fragment) /\ walSynced \in Seq(Fragment)

DirectoryType ==
  /\ IsDirectory(dir)
  /\ \A d \in images : IsDirectory(d)
  /\ walLinked \in BOOLEAN

MemoryType ==
  /\ mt \in Table
  /\ sstables \in Seq(SSTableIDs)
  /\ nextSSTableID \in SSTableIDs
  /\ negativeCache \subseteq Keys
  /\ operationCount \in Nat

CallType ==
  /\ pc \in {"idle"} \cup NotServing \cup WritePath
  /\ request \in [key : Keys, entry : Entry] \cup {NoWrite}
  /\ reply \in Replies
  /\ task \in {"none", "flush", "compact"}
  /\ fresh \in Seq(SSTableIDs) /\ old \in Seq(SSTableIDs)

\* Types: the directory, the memory and the call in progress hold what the
\* code can put there.
TypeOK == LogType /\ DirectoryType /\ MemoryType /\ CallType

\* A key in the negative cache is in neither the memtable nor any SSTable:
\* Get answers from the cache before it looks anywhere else
\* (lsm_tree_store.go:122), through writes, flushes and compactions.
NegativeCacheSound ==
  \A k \in negativeCache : Current(k) = NoEntry

\* Every SSTable that a MANIFEST on the disk or in memory lists is there and
\* complete, whatever call failed and wherever the process stopped: a listed
\* SSTable that is missing makes every Get that reaches it fail.
ListedTablesReadable ==
  /\ \A d \in images : \A id \in Range(d.manifest) : Readable(d, id)
  /\ \A id \in Range(sstables) : Readable(dir, id)

\* While calls are served no file has an ID that nextSSTableFilename has yet to
\* hand out, or the flush or compaction that takes that ID fails (O_EXCL): the ID
\* is used up before Save is called (manifest.go:112), so once for each such file.
FreshIDs ==
  pc \notin NotServing => \A id \in DOMAIN dir.tables : id < nextSSTableID

\* Why the two hold, as an inductive invariant of a journaled directory: the
\* SSTables being saved are complete but for the last, none of them is an
\* SSTable in use, and a compaction removes its old SSTables only when every
\* image lists the new ones alone (lsm_tree_store.go:183-337, manifest.go:127).
CallConsistent ==
  /\ pc \in WritePath => request \in [key : Keys, entry : Entry]
  /\ pc = "encode" => fresh # <<>> /\ Last(fresh) \in DOMAIN dir.tables

FreshConsistent ==
  /\ \A i \in DOMAIN fresh :
       (pc = "encode" => i # Len(fresh)) => Readable(dir, fresh[i])
  /\ pc \in Saving => Range(fresh) \cap Range(sstables) = {}
  /\ pc \in NotServing => fresh = <<>>

ManifestConsistent ==
  /\ pc \in {"open", "clearing"} =>
       /\ Range(sstables) = Range(dir.manifest)
       /\ \A id \in Range(sstables) : id < nextSSTableID
  /\ pc = "remove" =>
       /\ Range(old) \cap Range(fresh) = {}
       /\ \A d \in images : Range(d.manifest) = Range(fresh)
       /\ Range(sstables) = Range(fresh)
  /\ pc = "syncdir" => Range(dir.manifest) = Range(NewSSTables)

DirectoryConsistent ==
  /\ dir \in images
  /\ ListedTablesReadable /\ FreshIDs
  /\ CallConsistent /\ FreshConsistent /\ ManifestConsistent

\* Why lookups and restarts find what they should, as an inductive invariant of
\* a journaled directory and keys and values that survive JSON.  The SSTables
\* saved so far hold what is to be saved, each file once (lsm_tree_store.go:205,
\* :287-309).
TableFor(i) == IF task = "flush" THEN ReadBack(mt) ELSE Chunk(i)

SavedConsistent ==
  /\ pc \in Saving =>
       /\ \A i, j \in DOMAIN fresh : fresh[i] = fresh[j] => i = j
       /\ \A i \in DOMAIN fresh :
            (pc = "encode" => i # Len(fresh)) => Contents(dir, fresh[i]) = TableFor(i)
       /\ \/ task = "flush" /\ Len(fresh) = IF pc = "create" THEN 0 ELSE 1
          \/ /\ task = "compact"
             /\ Len(fresh) <= ChunkCount
             /\ pc = "create" => Len(fresh) < ChunkCount
             /\ pc \in {"rename", "syncdir"} => Len(fresh) = ChunkCount
  /\ pc = "syncdir" => dir.manifest = Reverse(NewSSTables)

\* wal.db holds what O_DSYNC kept or was truncated, and every record in it is
\* read back as it was written.
AllMatch(w) == \A i \in DOMAIN w : IsRecord(w[i]) => Matches(w[i])

LogConsistent ==
  /\ wal \in {walSynced, <<>>}
  /\ AllMatch(wal) /\ AllMatch(walSynced)
  /\ pc = "terminate" =>
       wal # <<>> /\ Last(wal) = Record(request.key, request.entry)

\* The log holds a record for every key of the memtable, and whatever images of
\* the directory there are, they differ only in keys the log has a record for:
\* a log is truncated only when the images agree (lsm_tree_store.go:205-231).
InLog(k) == Replay(wal)[k] # NoEntry
OnDisk(d, k) == ContentOf(TablesEntry(d, Reverse(d.manifest), k))

MemtableLogged ==
  /\ pc \notin NotServing => \A k \in Keys : mt[k] # NoEntry => InLog(k)
  /\ pc \in {"open", "clearing"} => mt = Replay(wal)
  /\ pc = "truncate" => mt = EmptyTable

ImagesAgree ==
  \A d \in images, k \in Keys :
    \/ InLog(k)
    \/ OnDisk(d, k) = OnDisk(dir, k)
         /\ (pc # "down" => OnDisk(d, k) = ContentOf(TablesEntry(dir, sstables, k)))

ImagesConsistent ==
  /\ MemtableLogged /\ ImagesAgree
  /\ pc \in {"create", "encode"} => Range(fresh) \cap Range(dir.manifest) = {}
  /\ pc = "truncate" => images = {dir} /\ dir.manifest = Reverse(sstables)

\* Once the log is complete the entry is what Get finds, and the log that a power
\* failure may bring back has it, until the call returns and after.
Holds(k, e) ==
  ContentOf(Current(k)) = ContentOf(e) /\ Replay(walSynced)[k] = e

WriteConsistent ==
  /\ pc \in WritePath \ {"log", "terminate"} => Holds(request.key, request.entry)
  /\ reply.status = "stored" => pc = "idle" /\ Holds(reply.key, reply.entry)

ContentsConsistent ==
  /\ SavedConsistent /\ LogConsistent
  /\ ImagesConsistent /\ WriteConsistent

\* After a Set or Delete returned nil, whatever stop comes next leaves its entry
\* on the disk, as the newest of its key, if its key and its value survive JSON
\* (README.md, Durability), whatever other keys and values there are.  Whether the
\* log around it can be replayed is another question, which CanReopen asks.
Survives(k, e) == DecodedKey(k) = k /\ Decoded(e) = e

RestoresReply(w, d) ==
  Recovered(w, d)[reply.key]
    \in {reply.entry} \cup (IF reply.entry = Deleted THEN {NoEntry} ELSE {})

AckedWritesDurable ==
  reply.status = "stored" /\ Survives(reply.key, reply.entry) =>
    \A w \in LogImages, d \in images : RestoresReply(w, d)

\* The same where replay returns no error: a start that succeeds restores every
\* write that was acknowledged (README.md, Durability: the WAL is read on startup
\* to restore the in-memory store to its previous state).
AckedWritesRestored ==
  reply.status = "stored" /\ Survives(reply.key, reply.entry) =>
    \A w \in LogImages, d \in images : Replayable(w) => RestoresReply(w, d)

\* A store that stopped can be opened again, whatever was being written and
\* however long (README.md: the WAL is read on startup to restore the in-memory
\* store to its previous state).
CanReopen == pc = "down" => Replayable(wal)

\* Flushes and compactions do not change what Get finds, nor does a step of
\* theirs that fails: while calls are served only the entry that set() or
\* delete() puts into the memtable changes it.
MaintenanceInvisible ==
  [][pc \notin NotServing /\ pc' \notin NotServing =>
       \A k \in Keys :
         \/ ContentOf(Current(k)') = ContentOf(Current(k))
         \/ pc = "terminate" /\ k = request.key]_vars

\* While the store serves, only the disk makes a call fail, never what earlier
\* failures and stops have left: a lookup and a compaction find every SSTable they
\* open (lsm_tree_store.go:143, :245), O_EXCL meets no file that is there
\* (sstable.go:82), and every old SSTable is there to be removed, once
\* (lsm_tree_store.go:329).
OnlyTheDiskFails ==
  /\ pc = "idle" => \A k \in Keys : LookupSucceeds(k)
  /\ pc = "compact" => \A i \in DOMAIN sstables : Readable(dir, sstables[i])
  /\ pc = "create" => nextSSTableID \notin DOMAIN dir.tables
  /\ pc = "remove" /\ old # <<>> => Head(old) \in DOMAIN dir.tables

\* Every Set and Delete comes to its end: no step of a write waits for anything.
CallsReturn == pc \in WritePath ~> pc \in {"idle", "down"}

-----------------------------------------------------------------------------
(* The store implements KVStore: its map is what Get sees, or what the next
   Open will, and every step of a flush, of a compaction, of a recovery and of
   a failed call leaves that map as KVStore allows. *)

\* No write is not a write.
ASSUME NoWriteAssumption ==
  /\ NoWrite \notin [key : Keys, entry : Entry]
  /\ NoWrite \notin [key : Keys, content : Values \cup {NoEntry}]

MapOf(entries) == [k \in Keys |-> ContentOf(entries[k])]

MapNow ==
  MapOf(IF pc = "down" THEN Recovered(wal, dir) ELSE [k \in Keys |-> Current(k)])

OutcomesNow == {MapOf(Recovered(w, d)) : w \in LogImages, d \in images}

PendingNow ==
  IF request = NoWrite THEN NoWrite
  ELSE [key |-> request.key, content |-> ContentOf(request.entry)]

ReplyNow ==
  IF reply.status \in {"found", "stored"}
    THEN [status |-> reply.status, key |-> reply.key,
          content |-> ContentOf(reply.entry)]
    ELSE reply

KV == INSTANCE KVStore WITH
        Absent <- NoEntry, up <- pc \notin NotServing,
        kv <- MapNow, outcomes <- OutcomesNow, pending <- PendingNow,
        reply <- ReplyNow

\* Refinement: the engine is a crash-safe map (store.go).
ImplementsKVStore == KV!Spec
=============================================================================
