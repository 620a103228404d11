# TLA+ specification of the coding-corner key-value store

This directory holds the formal model of the store in this repository: an
LSM-tree storage engine (`internal/kvstore`) behind a small HTTP server, with the
server's metrics and the load test that is run against it. It says what is
modelled, what TLC checks on small instances, and what TLAPS proves for every
instance.

## The system

| Part | State | Operations | Interacts with |
| --- | --- | --- | --- |
| HTTP server, `cmd/server` | one mutex, the open store, a histogram | serve, shut down | locks the mutex around every `/kv/` handler |
| Handlers, `internal/api` | none | GET, PUT, DELETE, `/metrics` | call the store, map errors to statuses |
| Storage engine, `lsm_tree_store.go` | memtable, manifest, negative cache, operation count | `Get`, `Set`, `Delete`, `flush`, `compact`, open, close | owns everything below |
| Write-ahead log, `write_ahead_log.go` | `wal.db` | `log`, `truncate`, replay | written before the memtable, read at open |
| Memtable, `memtable.go` | map of entries and tombstones | set, delete, get, len, clear | flushed into an SSTable when it is full |
| SSTables, `sstable.go` | immutable JSON files `sst-N.json` | save, open, get | listed by the manifest |
| Manifest, `manifest.go` | `MANIFEST`, the list in memory, the next ID | load, save, add, allocate | replaced by a rename |
| Merge, `sstable_iterator.go`, `sstable_item_heap.go` | a heap of cursors | k-way merge | used by `compact` |
| Metrics, `internal/metrics` | a ring of samples | record, percentiles | fed by the server |
| Generator and client, `cmd/gen`, `cmd/client` | a test script and its expected answers | generate, replay against a server | HTTP |

What is hard in it:

* **Crashes.** A write crosses three places (log, memtable, SSTable) and a flush
  or a compaction changes four files. A process may die, and a machine may lose
  power, between any two effects; what a power failure leaves depends on which
  names and contents were synced.
* **Failed calls.** Every call on the file system is checked, and an error is
  returned in the middle of the work. The store goes on serving with whatever
  the failed call left on the disk and in memory: a manifest that was renamed but
  not installed, a full memtable, an SSTable file nobody lists, a half-written
  log record.
* **Order.** The newest entry of a key must win through the log, the memtable
  and the SSTables; the list is newest first in memory and oldest first in the
  file; compaction throws tombstones away.
* **Cached knowledge.** The negative cache answers before anything else.
* **Limits.** The memtable's and the compaction's thresholds, the chunking of a
  compaction, the IDs of the SSTables, the scanner's line length, the ring of
  samples and the ranks of its percentiles.
* **Concurrency.** The engine has none: one mutex in the server serialises every
  call. It is held while a PUT's body is read, it is not released by a deferred
  call, and the store is closed by `main()`, which does not take it. Metrics are
  read while samples are recorded.
* **Two views of one thing.** The generator predicts the store's answers from a
  map of its own; three handlers judge headers in three ways.

Correctness, per part:

* engine: a `Set` or `Delete` that returned nil survives every stop; `Get`
  returns the newest value; an unsuccessful call changes at most its own key;
  flush and compaction change nothing a reader sees;
* log: what was acknowledged can be read back, and the store can always open;
* manifest and SSTables: a listed SSTable is there and complete; an ID is never
  handed out while a file has it;
* negative cache: a cached key is nowhere else;
* merge: sorted, one entry per key, the newest one, no tombstones;
* server: the store has one caller at a time, each request is answered, concurrent
  clients see one map, a shutdown ends;
* metrics: the percentiles are those of the last `ringSize` samples, at one moment;
* headers: who is served accepts what is served, who is refused does not;
* load test: the expected answers are the right ones.

## Modules

| Module | What it is |
| --- | --- |
| `WriteAheadLog` | operators: what `log()` appends to `wal.db`, and what replay makes of a file |
| `LSMTreeStore` | the engine as a state machine: variables, one action per effect of each call, failures, stops |
| `KVStore` | abstract specification: a crash-safe map, with the maps a crash may leave |
| `LSMTreeStoreProperties` | type invariant, safety properties, the inductive invariant, the refinement of `KVStore` |
| `MCLSMTreeStore` | values of the constants for TLC |
| `Compaction` | the k-way merge of `compact()`: heap, iterators, drain loop, output |
| `CompactionProperties`, `MCCompaction` | its properties, among them that it computes what `LSMTreeStore` uses; values for TLC |
| `Histogram` | the ring of samples, `Record` and `Percentiles` at the same time |
| `HistogramProperties`, `MCHistogram` | the percentiles by their definition; values for TLC |
| `Handlers` | operators: what the handlers answer to what the store replies |
| `Server` | connections, the mutex, the handlers' steps, start, shutdown and exits, over `KVStore` |
| `KVService` | abstract specification: what concurrent clients may observe of one crash-safe map |
| `ServerProperties`, `MCServer` | the server's properties, the refinement of `KVService`; values for TLC |
| `Negotiation`, `NegotiationProperties`, `MCNegotiation` | how the handlers judge `Accept` and `Content-Type` |
| `StoreAnswers`, `MCStoreAnswers` | the engine and the GET handler together |
| `LoadTest`, `LoadTestProperties`, `MCLoadTest` | `reset.sh`, the generator, the client and a store |
| `DataLemmas` | lemmas about least and greatest elements, sequences, sorted sets and counting |
| `LSMTreeStoreProofs` | theorems about the engine: its types, its directory |
| `StoreContentProofs` | theorems about the engine: its contents, the refinement of `KVStore` |
| `CompactionProofs`, `HistogramProofs`, `ServerProofs`, `NegotiationProofs`, `LoadTestProofs` | theorems about the other parts, among them the refinement of `KVService` |

### How the engine corresponds to the code

`wal` is the sequence of what the calls of `writeFile` appended to `wal.db`. The
JSON of an entry and its newline are two calls (`write_ahead_log.go:167` and
`:172`), so they are two fragments, and a line is what lies between two
terminators. A record carries the key and the entry its JSON decodes to and, as its
checksum, those that the checksum was computed over; they differ when the key or the
value is not valid UTF-8.
`dir` is the directory: `dir.manifest`, the lines of `MANIFEST` (SSTable IDs,
oldest first; a missing file and an empty one are alike), and `dir.tables`, the
contents of the SSTable files as they are read (`ReadBack`): of entries whose keys
have become one in the file, the first counts. `mt`, `sstables`, `nextSSTableID`,
`negativeCache` and `operationCount` are the fields of `lsmTreeStore` and its
manifest. `pc`, `request`, `task`, `fresh` and `old` are the position and the
local variables of the call in progress, `reply` is what the last one returned.

A call of `Set` or `Delete` runs through

    Write, WriteRecord, WriteTerminator,                        log, memtable
    CreateSSTable, EncodeSSTable, RenameManifest, SyncManifest,
    TruncateLog,                                                flush
    Compact, (CreateSSTable, EncodeSSTable)*, RenameManifest,
    SyncManifest, RemoveOld*, FinishCompaction                  compact

and leaves early where the code does: the flush when the memtable is not full,
the compaction when too few operations were counted. Each step except those that
only move inside memory has a `...Fails` action next to it, for the error return
at that place with the effects the failed call may have had. `Get` is one
action, because it has no effect on the disk; `GetFails` is its I/O error.
`Open`, `RemoveDangling` and `FinishOpen` are `newLSMTreeStore`; an error of it
ends the process and is `Crash`.

### How the merge corresponds to the code

`tables` are the SSTables of the manifest, newest first, `index` the positions of
their iterators, `h` the items in the heap and `newSSTable`, `saved` the output.
`Load` fills the heap, `Pop` is the top of the outer loop, `Drain` a round of the
inner one, `Keep` the rest of the outer one, `Finish` what follows the loops.
`NoItem`, before the first pop, comes before every key.
`container/heap` is external: the least item by `Less` is on top. The files of
the output and their failures are in `LSMTreeStore` (`task = "compact"`), which
uses the result `Chunk`; `MergeCorrect` says that the merge saves exactly that.

### How the server corresponds to the code

`conn[c]` is the goroutine of a connection: idle, or a request that was `sent`
(routed, latency counting), waits for the mutex, is in its `handler`, reads its
`body`, is about to `call` the store, is in the `write`, about to `return`, or
`answered` but with its latency still to be recorded. `Lock` and `Unlock` are those of
`singleThreaded` and do nothing for `GET /metrics`. `main` is where `main()` is:
`draining` while `srv.Shutdown` waits, `closing` between its return and the
deferred `Close`. The store is `KVStore`, which the engine implements: its calls
are begun, go on, and return at different steps, so that overlapping calls would be
seen. `Exit` stands for every end of the process with what it leaves.

`KVService` knows calls, answers, one map and the maps a stop may leave. Each call
takes effect at one moment between its request and its answer. `CallOf` maps a
goroutine to the state of its call.

`Negotiation` has one action per handler, a round of its loop over the media types
of a header; `Server` knows only that a header may be refused (`RefuseHeader`).
There, 400 stands for 400, 406 and 415.

### How the histogram corresponds to the code

`samples`, `head` and `count` are the fields; `Record` is one step, because it
runs under the lock; `Percentiles` is two, `Snapshot` under the read lock and
`Answer` after it. `recorded` and `copied` are history. `sort.Float64s` is external
and modelled by its result: `InOrder(s)` has at each position the one sample of `s`
that fits there. Ranks are integers:
`Rank` is the ceiling that the code computes in `float64`. The two agree for the
three percentages and every size up to the 10000 in use (compared outside TLA+,
with IEEE doubles).

### How the load test corresponds to the code

`state` is the generator's map, `line` the line the client works on, `store` what
the server holds: values and tombstones, which a compaction (`Forget`) may drop.
`Reset` is `reset.sh`. A test is a file written before the client runs; since the
generator never looks at the store, its next line may as well be written when the
client comes to it. Random choices are arbitrary. `Mode` selects the branch:
`put`, `put-delete`, or `put-delete-scan`. No call of the store fails here.

### What a stop leaves

`Crash` is the death of the process, `Close`, or the exit after an error: memory
is lost, files are as they were written.

`PowerLoss` also takes away what had not reached the disk. Files are opened with
`O_DSYNC` (`api_wrappers_unix.go:30`), so a write is durable when it returns, and
`syncFile` does nothing; a truncation, which only `syncFile` follows, becomes
durable with the next write to the log (`walSynced`). A change of a name (create,
rename, remove) is durable after the next sync of the directory. `images` is the
set of directories a power failure may leave. The constant `Journaled` chooses
between two file systems:

* `TRUE`: name changes reach the disk in the order they were made, and writing a
  new file synchronously makes its name durable, as on the journaling file systems
  the store usually runs on. An image is then some earlier state of the directory
  since the last sync.
* `FALSE`: nothing is promised but what the directory's sync promises. Every
  subset of the changes since then may have reached the disk.

### Abstractions

* One call of the engine at a time: `Server` shows that the mutex
  (`cmd/server/main.go:87-94`) makes it so.
* A key is a number, ordered as the code orders strings, and a value is an element
  of a set. `KeyRoundTrip` and `RoundTrip` say what reading their JSON gives back:
  `json.Marshal` replaces invalid UTF-8 bytes of both, in the log and in SSTables,
  and the handlers check neither the key of the URL nor the bytes of the body.
* Keys may become one key that way, but `KeyOrderAssumption` keeps them from changing
  places. Go would let them: an SSTable is sorted by the raw keys and encoded after
  that, so its file may be out of order. `compact()` merges files in key order and
  would go wrong on it; such keys are not modelled.
* `TooLong` is the set of key-entry pairs whose line exceeds the scanner's buffer.
* CRC32 collisions are left out: a record matches its checksum exactly when the
  decoded key and entry are those the checksum was computed over.
* A torn record is one fragment, whatever part of the JSON it holds.
* `sstable.Get`'s linear search is replaced by its result, a function from keys to
  entries. So is the merge of a compaction in `LSMTreeStore`: the newest entry of
  each key without the tombstones, in chunks; `Compaction` shows that.
* Definitions marked *mutant* are plausible mistakes kept beside the definition
  they would break; no action uses them.
* `KVStore` may reply *deleted* for any absent key: the interface does not say how
  long a deletion is remembered. What a deleted key is answered is therefore
  checked on the engine itself (`StoreAnswers`).
* `net/http`, `sync.Mutex` and `container/heap` are external. Requests outside the
  routes, header limits and connection reuse are left out.
* Writing an SSTable's JSON and syncing it and the directory is one step
  (`EncodeSSTable`): until it is done the file is listed nowhere, so a complete
  file and an incomplete one behave alike, and `Partial` stands for both.
  For the same reason MANIFEST.tmp and its rename are one step: nothing reads the
  temporary file, and the next save truncates it.
* The negative cache's size, log messages, file modes and error wording are left
  out.
* In a log that replay refuses, `Replay` still names the entries that its records
  hold; the store cannot open on such a log (`Open` requires `Replayable`), and
  the value only serves to say which acknowledged entries the disk still holds.

## Properties

* `TypeOK`: the type invariant.
* `NegativeCacheSound`: a key in the negative cache has no entry anywhere.
* `ListedTablesReadable`: every SSTable listed by the MANIFEST on the disk, by
  any MANIFEST a power failure may bring back, or in memory is there and complete.
* `FreshIDs`: while calls are served, every SSTable file has a smaller number
  than the next one handed out.
* `DirectoryConsistent`: the inductive invariant from which the last two follow.
  (`ContentsConsistent`, from which the next two follow, is proved and not part of
  a run: TLC found it true in the instance of `MCInvariants`.)
* `OnlyTheDiskFails`: while the store serves, no call fails because of what earlier
  failures and stops have left. Every SSTable that a lookup or a compaction opens can
  be opened, no SSTable is created over a file that is there, and each old SSTable
  that a compaction removes is there to be removed.
* `AckedWritesDurable`: after an acknowledged write whose key and value survive JSON,
  whatever stop comes next leaves its entry on the disk as the newest of its key.
* `AckedWritesRestored`: the same, where the log can be replayed: a start that
  succeeds restores the write, whatever other keys and values there are (see
  *Findings*).
* `MaintenanceInvisible` (action property): no step of a flush or a compaction,
  failed or not, changes what a reader sees of any key.
* `CanReopen`: the log can be replayed after a stop.
* `ImplementsKVStore`: the engine refines `KVStore`. The map is what `Get` sees,
  or while the store is down what the next open will restore; `outcomes` is the
  set of maps over all logs and directories a stop may leave. `KVStore` lets a
  write reach the map at any moment of its call, keeps an acknowledged write in
  every outcome, lets a failed one have happened or not, and lets nothing else
  change the map: reads agree with it, before and after any number of restarts.
* `CallsReturn`: every write comes to an end: the guard of none of its steps blocks
  for ever, with or without an error.

Merge:

* `HeapIsFrontier`: the heap holds the first entry not yet merged of every
  SSTable, and nothing else.
* `OutputSorted`, `MergeCorrect`, `MergeEnds`: the output is strictly sorted and
  free of tombstones; it is what `LSMTreeStore` uses; the loops end.

Server:

* `StoreHasOneCaller`: at most one goroutine, `main()` with its `Close` included,
  is in the store.
* `ImplementsKVService`: linearizability with durable acknowledgements, through
  shutdowns, kills and restarts.
* `MetricsAnswered`, `AnsweredIfBodiesArrive`, `ShutdownEnds`: liveness.
* `DeletedNotReturned`: what the documentation says of deleted keys and the code
  does not do (see *Findings*).

Histogram:

* `RingHoldsLatest`: the ring holds exactly the last `RingSize` samples.
* `PercentilesOfAMoment`: an answer is the nearest-rank percentiles of what the
  ring held at one moment of the call.

Headers:

* `AcceptedIsAcceptable`, `RefusalsJustified`: nobody is served what they did not
  accept, and a type is refused only where the handler's own is not in the header
  (of GET `/metrics` and PUT; GET `/kv/{key}` does not hold to this, see *Findings*).

Load test:

* `GeneratorAgrees`: between two lines the generator's map is the store's.
* `StopsAtTombstones`: the client stops at nothing but the answer to a deleted key.
* `ScanIsExact`: a SCAN lists the keys of the range it names, and all of them.

## Runs

| Run | Instance | Shows |
| --- | --- | --- |
| `MCInvariants` | 2 keys, 1 value, memtable of 1, compaction after 2 operations | the invariants of the engine and `MaintenanceInvisible`, 1.8 million states |
| `MCRefinement` | 2 keys, 1 value, memtable of 2 | `ImplementsKVStore` with tables and logs of several keys |
| `MCRetries` | 1 key, 2 values, compaction after every write, an empty log at each write | `ImplementsKVStore`, `AckedWritesDurable`, `MaintenanceInvisible`, `OnlyTheDiskFails` and `CallsReturn` when compactions fail and are repeated |
| `MCCompaction` | up to 3 SSTables over 3 keys, value or tombstone, output SSTables of 2 | the merge, 241,000 states |
| `MCHistogram` | a ring of 100, 104 samples, 5 of them of any duration | `RingHoldsLatest`, `PercentilesOfAMoment` at every size to 100 and after the wrap |
| `MCServer` | 2 connections, 1 key, 1 value | `StoreHasOneCaller`, `ImplementsKVService`, and the three liveness properties |
| `MCNegotiation` | up to 3 media types | `AcceptedIsAcceptable`, `RefusalsJustified` |
| `MCLoadTest` | `put-delete-scan`, 8 keys of 3 letters, 2 values (symmetric), lists of 2 | `GeneratorAgrees`, `StopsAtTombstones`, `ScanIsExact`, 1.3 million states |
| `MCTornLog` | 1 key, a value that fits the scanner and one that does not | `CanReopen` is violated |
| `MCInvalidUTF8` | 3 keys, one of which JSON changes into another, and a value that it changes | `AckedWritesRestored` is violated |
| `MCRemovalFirst` | `Journaled = FALSE` | `ListedTablesReadable` is violated |
| `MCDeletedKey` | 1 key | `DeletedNotReturned` is violated |

The passing runs of the engine assume keys and values that survive JSON and fit the
scanner, and a journaled directory; the first three violations each drop one
assumption, or ask the one question those leave out. All violations are described
under *Findings*.

**Bounds.** `MaxSSTableID`, `MaxLogLength` and `MaxOperationCount` guard only the
start of a write: a call that has started runs to its end, so flushes and
compactions go beyond them. With a memtable of one entry every write flushes, and
with a threshold of two operations every second write compacts, so that within
two writes `MCInvariants` reaches: a compaction of two SSTables into
two and, with tombstones, into one or none; a failure at each step of it; a failed
flush that the next write repeats, with its SSTable left behind; a MANIFEST that
was replaced but not installed; torn, glued and already flushed records in the
log; a restart in the middle of all of these, and again in the middle of the
recovery. `MCRetries` compacts after every write and leaves room for a second one
after the first compaction failed, which the bound on IDs of the others does not;
it buys that with one key and a log that is empty when a write starts. It is small
because liveness needs the whole graph, yet has every action of the engine.
The memtable of two (`MCRefinement`) adds flushes of several entries, writes that
return without a flush, and tombstones beside values. Two keys are enough for
interference between keys, since the code treats keys independently but for the
limits; two contents (a value and a tombstone, or two values) are enough to tell
an old one from a new one. Reads and restarts are not bounded.

Three SSTables give the merge a newest, a middle and an oldest entry of a key, and
a drain loop of two rounds; three keys give an output with a full SSTable and a
rest. Every content of the SSTables is tried, empty ones included.

The samples that may be of any duration are the first two and those around the
wrap; one unusual sample among `n` tells the rank of P50 from its neighbour first
at `n = 2`, of P95 at 20, of P99 at 100. Up to two samples are recorded while an
answer is computed. Durations just below and well above the usual one show that
fractions of milliseconds are dropped.

The engine's lookups and the server treat keys independently, so `MCServer` has one
key, on which all requests collide; two clients, PUT and DELETE give every pair of
overlapping requests with two contents of the key. A third client could only wait.
Nothing in the server is counted, so nothing is bounded.

Three media types reach a refusal before, at and after an acceptable one. Keys of
three letters, each with one successor, give ends of ranges that are shorter than a
key and longer; `RangeLimit` is exceeded with three keys. The mode with scans
generates every kind of line the other two do.

**Deadlock** is checked in every run of the engine and of the server; a system that
may always stop and start hardly fails it. It is not checked where the program ends:
the merge, the bounded histogram, a header that has been judged, the load test whose
client stopped.

**Fairness.** None is assumed for safety. For liveness:

* Engine (`LSMTreeStore!FairSpec`): weak fairness of the steps of the call in
  progress, which is one goroutine that waits for nothing but the file system. A
  failed step counts as a step; failures and stops are never forced.
* Merge: weak fairness of its one loop.
* Server: weak fairness of each goroutine's own steps, in which the return of the
  store's calls is justified by `CallsReturn`; strong fairness of `Lock`, because
  a `sync.Mutex` that is released again and again is handed to the first waiter
  after one millisecond (its starvation mode); weak fairness of `Shutdown`'s
  return or deadline, and of `Close`. None for clients: a body that never comes
  holds the mutex for ever, so `AnsweredIfBodiesArrive` has it as a hypothesis.
  None for starts and signals.

## Findings

Each of these is shown by the counterexample of a run.

1. *Torn log* (`write_ahead_log.go:167-172`). A stop or an error between the two
   writes of `log()`, or inside the first, leaves an unterminated record. A torn
   one makes replay fail; a whole one is glued to the next record, and replay
   fails at the following start. The store then never opens again without
   repairing the log by hand, where README.md:48 says that the log is read on
   startup to restore the store. (`MCTornLog`)
2. *Invalid UTF-8* (`write_ahead_log.go:107`). JSON replaces invalid bytes of keys
   and values, the checksum is computed before that; replay stops at the record and
   loses every acknowledged write after it, against the durability of README.md:48.
   The handlers check the declared charset of the body, not its bytes, and nothing of
   the key (`PUT /kv/%FF`). (`MCInvalidUTF8`)
3. *Removal before sync* (`lsm_tree_store.go:359`). After a stop between the
   rename of MANIFEST and the directory sync, recovery removes the SSTables the
   new MANIFEST does not list before it syncs the directory. Where removals may
   become durable before the rename, a power failure leaves the old MANIFEST
   without its SSTables. (`MCRemovalFirst`)
4. *Deleted keys* (`get_value.go:86`). Only `ErrKeyNotFound` gives 404. A key with a
   tombstone gets 200 and an empty body until a compaction drops the tombstone,
   where README.md:49 says that it is not returned. (`MCDeletedKey`) The client
   expects 404 (`cmd/client/main.go:184`), so the put-delete tests stop there, and
   nowhere else (`StopsAtTombstones`).

Read in the code while it was modelled, without a run of their own:

* *Long values* (`write_ahead_log.go:91`). Replay reads lines with `bufio.Scanner`,
  whose limit is 64 KB; nothing limits a value, and only the HTTP server's limit on
  request headers a key. A longer line is acknowledged and the next start fails. `CanReopen` is violated by this, too.
* *Renamed keys* (`sstable.go:95`). A flush writes a key that is not valid UTF-8 under
  another key: GET of the written key finds nothing any more, two such keys become
  one, and a key in the negative cache may get an entry. In the model, too: without
  keys that survive JSON `NegativeCacheSound`, `MaintenanceInvisible` and
  `ImplementsKVStore` are false. Where such keys change places, the file is out of
  order as well (see *Abstractions*).
* *The name of the log* (`write_ahead_log.go:59`). The directory is not synced after
  wal.db is created; with `Journaled = FALSE`, a power failure before the first flush
  may take the whole log, and `AckedWritesDurable` is false where the memtable holds
  more than one entry. No run of this directory checks it.
* *Failing reads* (`get_value.go:85`). Any error of `Get` but `ErrKeyNotFound` gives
  200 and an empty body, although the key may have a value. `KVService!Read` admits
  it.
* *Readers* (`cmd/server/main.go:87`). README.md:51 promises concurrent reads; the
  mutex excludes readers as well.
* *Second server* (`cmd/server/main.go:96`). The store is opened, and dangling
  SSTables are removed, before the port is known to be free. A second start in the
  directory of a running server removes an SSTable the first is about to list.
* *Accept lists* (`get_value.go:56`). A list with `text/plain` behind another type
  is refused with the answer that it must include `text/plain`.
* *Charset* (`get_metrics.go:60`). `charset=UTF-8` is refused with the answer that
  the charset must be UTF-8; the other handlers ignore the case.

## Proofs

TLC looks at small instances. The theorems below hold for every finite set of keys,
every set of values, every threshold and limit, any number of connections, SSTables,
failures and stops, under the assumptions below. Every invariant of a passing run is proved, and so are
`MaintenanceInvisible` and both refinements.

**Assumptions.** The constants have the assumptions stated in the modules that
declare them: limits are positive, tombstone, gap and values differ, "no write", "no
line" and "nobody" are not a write, a line or a connection, and keys do not change
places by the JSON round trip. Three more are hypotheses of theorems of the engine:

* `Journaled`: name changes reach the disk in order (finding 3);
* `KeysSurviveJSON`: `KeyRoundTrip` changes no key (finding 2, and *Renamed keys*);
* `ValuesSurviveJSON`: `RoundTrip` changes no value (finding 2).

Each theorem names those it needs: an acknowledged write under a key that is not
valid UTF-8 is lost, so nothing here is claimed of the contents of a store that holds
one. The theorems about types, the directory and the merge hold with such keys.

None of them says anything of `TooLong`: a log with a long line, like a torn one, stops
recovery (finding 1 and the note on long values), and the theorems say what the disk
holds whether or not the store can open on it.

Each proof has the same shape: an inductive invariant stronger than the property,
a lemma for each action or group of actions that disturbs one of its parts, and a
temporal step that puts them together.

### Engine

* `TypeCorrect`: `Spec => []TypeOK`. `TypeOK` alone is not inductive:
  `WriteTerminator` needs a request and `EncodeSSTable` needs the ID of the file it
  writes. `CallConsistent` adds both (`TypeInvariant`). One lemma per group of
  actions (`OpeningType`, `LoggingType`, `FlushingType`, ...) rests on lemmas about
  the pieces those actions are made of (`ReturnType`, `SyncDirectoryType`, ...).
* `DirectoryStaysConsistent`, and from it `ManifestsReliable`
  (`ListedTablesReadable`) and `IDsStayFresh` (`FreshIDs`), if `Journaled`. The
  inductive invariant is `DirectoryConsistent` (with the types, `Consistent`):
  besides the two properties it says that the SSTables being saved are complete
  except the one being written, and none of them is in use (`FreshConsistent`); that
  during recovery the list in memory is that of MANIFEST and the next ID exceeds all
  of it, that between rename and sync MANIFEST holds the new list, and that a
  compaction removes old SSTables only when every image of the directory lists the
  new ones alone (`ManifestConsistent`). `dir \in images` carries a fact about all
  images over to the directory itself.
* `CacheNeverHides` (`NegativeCacheSound`) needs `KeysSurviveJSON` alone.
  `CacheConsistent` adds that the SSTables of a flush or compaction that is not
  installed yet have no entry for a cached key either.
* `NothingLeftFails` (`OnlyTheDiskFails`), if `Journaled`, for any keys and values.
  To the invariant of the directory, `ListsConsistent` adds that no list of SSTables
  names one twice: not the list in memory, not that of MANIFEST, not the SSTables a
  compaction has yet to remove, or its second removal of one would fail.
* `MaintenanceIsInvisible` (`MaintenanceInvisible`), if keys and values survive JSON,
  and `Journaled`: `SavedConsistent` says what the
  SSTables saved so far hold. The proof's core is that a lookup through the chunks
  of a compaction finds for each key what a lookup through the old SSTables finds,
  but for tombstones.
* `ContentsStayConsistent`, and from it `AckedWritesSurvive` (`AckedWritesDurable`),
  under all three hypotheses.
  `ContentsConsistent` relates memory to the disk: the log has a record for every
  key of the memtable; the images of the directory differ only in
  keys the log has a record for, since the log is truncated only when there is one
  image; an acknowledged entry is the newest of its key in the log that is durable.
* `StoreIsAMap` (`ImplementsKVStore`), under all three, from the conjunction of these
  (`Sound`): `InitRefines` maps initial states to initial states, and `StepRefines`
  each step to a step of `KVStore` or a stutter. A write takes effect in the
  abstract map at `WriteTerminator`, or, if the process stops before that, at the
  stop; no step of a flush, a compaction or a recovery changes the map.

### Other parts

* Merge. `Merging` has, besides the types, that the heap and the iterators hold for
  every SSTable its first entry beyond the popped key (`HeapState`), and that the
  output so far is the sorted list of live keys up to there, in full chunks
  (`OutputState`): entry `p` of chunk `c` has the key below which there are
  `(c - 1) * MaxMemtableEntries + p - 1` live keys. Hence `HeapStaysFrontier`,
  `OutputStaysSorted` and `MergeIsCorrect`. The proof found that `NoItem` must come
  before key 0, which the instance of TLC now has.
* Histogram. `Measuring` says where in the ring each of the last samples is, before
  and after the wrap (`RingState`), and that the copy is one of those windows in
  some order (`CopyState`). `SortedIs` shows that two orders of the same samples
  sort to the same sequence, `NearestRank` that a rank of the code is that of the
  definition.
* Server. The holder of the mutex is the one connection beyond `Lock` and before
  `Unlock` (`MutexHeld`), the store's pending write is that of the connection in
  `write` (`Writing`), and nobody is busy when `main()` closes the store
  (`ClosedIdle`). With it each step of the server is one of `KVService`, or leaves
  it alone (`ServerIsAMapService`).
* Headers. While there is no verdict, GET `/kv/{key}` has gone past types it serves
  only, and GET `/metrics` past types it does not serve (`PassedSoFar`).
* Load test. While a line is out, the generator's map is one write ahead of the
  server (`OneLineAhead`). `ScansAreExact` rests on a proof that the computed end of
  a range lies just behind its last key, for any alphabet, length and limit.

**Only model-checked**: liveness (`CallsReturn`, `MergeEnds`,
`MetricsAnswered`, `AnsweredIfBodiesArrive`, `ShutdownEnds`), which rests on
fairness and `ENABLED` and is beyond the prover. The agreement of integer ranks with
`float64` is neither proved nor checked here.

## Not modelled, and the plan

Done: every part of the system, with failures and stops; the abstract map and the
abstract service with their refinements; liveness; the theorems above.

What could be added, in order of weight:

1. Theorems without `KeysSurviveJSON` and `ValuesSurviveJSON`: what an acknowledged
   write that does survive keeps when others do not, up to the first record that
   replay refuses; and SSTables that JSON leaves out of order.
2. The server over the engine in one specification, instead of over `KVStore`, which
   `StoreIsAMap` and `ServerIsAMapService` join only in argument.

Left out for good: two server processes on one directory (nothing in the code
prevents it, nothing in it would survive it), memory use (so the growth of the
negative cache), profiling, requests that match no route, the formatting of answers,
and the retries and signals of the client's HTTP connection. The model follows the
Unix build: `api_wrappers_windows.go` would sync explicitly instead of using
`O_DSYNC`, but it uses `os` without importing it and does not compile.
