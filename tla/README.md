# JimMusic: models, checks and proofs

This directory holds TLA+ models of the parts of JimMusic whose correctness
depends on the order of events: what runs concurrently, what survives a crash,
what a quota or a permit counts, what a gate lets through. The modules are
translated from the JavaScript of the browser build and of the release scripts
and from the Rust backend; `PROJECT.json` maps every definition to the lines it stands for, lists
the runs, a mutant for every property, the hazards of the code, the disagreements
found between the code and its documents, and the theorems.

    tlc -workers 2 -config NodeQuota.cfg MCNode      # check one instance
    tlapm AcceptanceProofs.tla                       # check the proofs

## 1. Inventory

The native program is the Flutter application and a backend; the browser build
replaces the backend by scripts of the page. The backend is one process (`plugin-manager`, an axum HTTP server on a tokio
runtime) built on the library `app-core`. Services keep their durable state in
`AtomicJsonStore`: a JSON document in memory behind a mutex, written as a
whole by each `transact` closure. Every service is shared by the handlers, by
background tasks and by the other services.

| Component | State | Operations | Talks to | What is hard | What makes it correct |
|---|---|---|---|---|---|
| Transfers (`transfer_service.rs`, `transfer_runner.rs`, `/v1/transfers`) | durable tasks; part files; one semaphore of slots, one scheduler lock | create, pause, resume, cancel, retry, priority; a runner per queued task; network class | repository, node configuration, embedded node, gateway | check and write are two transactions; several runners of one task; crash at any step; limits that change under way | completed means stored and intact; nothing is queued and forgotten; slots and limits hold; a terminal state stays |
| Content repository (`node_service.rs`) | record per object (pinned, persistent), object files, limits | put, cat, pin, unpin, set_config, eviction | transfers, publication, readers | `write_lock` covers puts and eviction and not pins; file and record are two steps | quotas hold; what is kept is readable and never evicted |
| Player (`player.rs`) | queue, current track, playback state, pending start | set_queue, play, pause, resume, stop, seek, next, previous, events | audio engine through the event bus | commands under a lock against events that take none; events of an earlier session; a lagging subscriber | the state shown is that of the session that sounds; the queue advances once per track |
| Audio engine (`engine.rs`, `audio_graph.rs`, `output.rs`) | sessions, a graph swapped at run time, worker threads | play, stop, seek, crossfade | player, plugins | threads and atomics | one session sounds; a stop ends it |
| PCM rings (`ring.rs`, twice; `lib.rs` of the ALSA plugin) | two cursors that wrap, a buffer, a flag | write, read, clear, play, pause | pump of the engine, device callback, commands | three threads without a lock; `clear` moves the reader's cursor; the ring counts samples and the plugin frames | samples come out once, in order, none of a session that was stopped; no slot is accessed by two threads at a time |
| Browser audio (`web_audio_init.js`, `audio_worklet.js`) | a shared buffer with two 32-bit cursors; what the processor was told | init, push, process | page, audio thread, WASM module | two threads; the processor is called before and after it has the buffer | what is pushed is heard |
| Browser IPFS node (`helia_node.js` and its bundle) | lifecycle, last error, the Helia node, its libp2p instances and brokers; pins and blocks in IndexedDB | start, stop, connect, add, cat, pin, unpin, status; page shown, hidden, closed | Dart through `window.jimmusicHelia…`, Helia, libp2p, IndexedDB | every await lets another call in; starts and stops overlap; a pin is many transactions | status() tells the truth; what was acknowledged as pinned stays; nothing hangs |
| Release acceptance gate (`validate_acceptance_report.mjs`) | options, the report at hand, a Map of results | parse arguments, validate reports, compare them | release workflow | loops that fill and empty a Map; options that swallow others; counts and limits | what conforms to the protocol is accepted and nothing else |
| Event bus (`event.rs`) | bounded broadcast channel, sequence numbers | publish, subscribe | player, event stream | subscribers that lag lose events | a gap is visible |
| Plugin lifecycle (`lifecycle.rs`) | registry of versions, revocations, directories | install, enable, disable, rollback, revoke, record_failure | HTTP, community sources | directory swap and record are two steps; revocation read outside the transaction | a revoked or quarantined version is never active |
| Idempotency (`idempotency.rs`, middleware in `api.rs`) | answers by key in two layers, a lock for each | serve or replay, `execute()`, trim | every mutating request | clients that leave between the effect and the stored answer, while a blocking thread goes on; trimming by name | a repeated request has one effect and one answer |
| Community sources (`community_service.rs`) | sources, snapshots, reports to send | refresh, revoke, report, retry | HTTP of others | retries, order of snapshots | a snapshot never goes backwards |
| Content cache (`cache.rs`, `streaming.rs`) | LRU of byte strings and a byte count | insert, get, evict | streaming | two evictions, one of which does not count | the count is the bytes held |
| State store (`storage.rs`) | the document in memory behind a mutex; main, temporary and backup file | open, snapshot, transact | all services | every call of the file system may fail, a crash or a loss of power between any two; panics under the mutex | the file is never torn, memory follows it, what was answered stays |
| Library, publication, reliability | one document each | create, change, delete | HTTP | little | |
| Identity, crypto, protocol types, embedded node, WASM sandbox, FFI host, plugins, Flutter application | | | | pure functions, foreign code, I/O or interface | |

Mutating HTTP requests pass through the idempotency middleware, which holds one
lock from the look-up of the key to the stored response. Two handlers therefore
never interleave with one another; they interleave with runners, with readers
(GET requests, streams) and with crashes. The models rest on this: they have one
handler. `Idempotency` models the lock itself and shows what it does not cover: a
blocking thread whose client has gone works on beside the next handler. The only
handler that has one is the library scan, which touches nothing the other models
speak of. A handler that awaits may also end early when its client goes away, which
`Idempotency` models and the other modules do not: `set_node_config` may then have
stored the configuration and not yet replaced the semaphore (`api_v1.rs:598`).

All services take a transaction of the store for one durable step. `AtomicStore`
is what is behind that step, and `DurableDocument` the step.

## 2. Modules

| Module | Stands for |
|---|---|
| `TransferTasks` | the task record, the transitions, the body of every transaction (`Tx...`), the network policy and the order of the queue |
| `TransferSystem` | runners, handlers, part and destination files, the sweep of part files, crashes; the composition of task store, scheduler, repository and node configuration |
| `TransferSystemProofs` | theorems about `TransferSystem`: types, storage, scheduler, permits |
| `TransferRunnerProofs` | what one step of a runner may change; which steps may leave a queued task to nobody; one runner per task, and the theorems that rest on it |
| `ContentStore` | abstract specification: what a client of the repository may rely on, every operation atomic |
| `NodeRepository` | the repository at the grain of transactions and file operations, and its refinement of `ContentStore` |
| `NodeRepositoryProofs` | theorems about `NodeRepository` |
| `HeliaNode` | the IPFS node of the page, cut at its awaits, with the steps its libraries take |
| `HeliaNodeProofs` | theorems about `HeliaNode`: types, errors, bounds, pins; that its lifecycle is the truth, that no call but a pin waits for a block, and that with the bundle's stores it never starts |
| `RingCounters` | the arithmetic of cursors both rings share |
| `SampleQueue` | abstract specification: a bounded queue of samples |
| `PcmRing` | pump, callback and commands on the native ring, and its refinement of `SampleQueue` |
| `PcmRingProofs` | theorems about `PcmRing` |
| `WebAudio` | page and audio worklet on the shared buffer |
| `Acceptance` | the validator, one turn of a loop at a time, and the protocol it is to enforce |
| `AcceptanceProofs` | theorems about `Acceptance` |
| `DurableDocument` | abstract specification: one document, replaced as a whole |
| `AtomicStore` | the state store at the grain of file system calls, and its refinement of `DurableDocument` |
| `AtomicStoreProofs` | theorems about `AtomicStore` |
| `Idempotency` | the middleware of mutating requests, `execute()` and the store of answers |
| `IdempotencyProofs` | theorems about `Idempotency` |
| `MCTransfer`, `MCNode`, `MCHelia`, `MCAcceptance`, `MCStore`, `MCKeys` | values for the constants of the runs |

### Transfers

A task record keeps `state`, `priority`, `paused_by_network` and
`cellular_bytes_used`; no decision of the code reads the other fields. Content
is `Chunks` chunks, each good or bad and of 1 to `ChunkBytes` bytes; a part file is
what each chunk holds, or no file. `open[r]` says whether the handle of a runner still
leads to the file of that name (a removed file takes its writes), `source[r]` whether
the content came whole, in memory, or through the part file. `object[t]` is what the repository holds under the CID of task `t`.
Each task has a CID of its own. Transfers of the modelled kinds store objects
that are kept, so no eviction happens in this module; eviction is the subject
of `NodeRepository`.

A runner is a program counter. Its labels follow `spawn()` and `run()`:

| Labels | Code |
|---|---|
| `sched`, `pick`, `net` | the loop under `transfer_scheduler`: `next_queued`, `try_acquire_owned`, `network_restricted`, `apply_network_class` |
| `mark`, `mark_write` | `mark_resolving`: the snapshot `transition()` checks, then its transaction |
| `fetch`, `fill`, `progress` | local object or block of a peer: `write_stream_part` creates the part file and then fills it, and its errors are ignored; a block above `storage_limit_bytes` and a codec nobody supports are errors |
| `chunk`, `write`, `record`, `meter` | one chunk of the gateway's stream: `wait_if_paused`, the write, the transaction of `record_progress`, that of `add_cellular_bytes` |
| `discard` | a digest that is not the CID's: the part file goes, then the task fails for good |
| `verify`, `hash`, `put`, `commit`, `complete` (and `_write`) | `verify_and_commit(_file)` with the put inside it |
| `dest`, `dest_rename` | `commit_destination` |
| `error`, `fail_write` | the error path of `spawn()` |

Wherever the code checks a snapshot and writes in a later transaction the model
has two steps, and the second writes whatever the state has become. `File::create`
truncates the one part file of the task, so a second runner of the same task
damages what the first is reading. A permit taken from a semaphore which
`set_node_config` has replaced is `"replaced"` and goes back to nobody; posting the
configuration that is already there replaces the semaphore too.

`TxCellular` counts the bytes of a chunk after it was received and compares them with
the limit afterwards, as `add_cellular_bytes` does, so a chunk may overshoot the limit;
content that arrives whole is not counted at all (`transfer_runner.rs:120-163`).

What may go wrong is in two constants. `Provider` is what the network and the
repository answer: good or bad data, an error, too much data, an unsupported codec, no
room. `Faults` is what fails on this side: a file operation (`"disk"`) or a transaction
of the task store (`"store"`). A store that has failed may work again in the model; in
the code it refuses everything until the process starts again, so the model has all
behaviours of the code and more.

The handler `h` runs one request at a time; `Restart` is a crash followed by
`open()` (tasks in flight back to `Queued`), the start-up sweep and
`build_router()` (a runner for each queued task). The sweep that a stream request
runs takes no lock and is two steps, `SweepJudge` and `SweepRemove`.

Left out: bandwidth throttling, error envelopes, progress figures, the copy of a
completed pin that is offered to the embedded node, a `set_node_config` whose store
fails (it returns before it touches the semaphore). Requests that are refused
change nothing and are not modelled.

### Repository

`objects[c]` is the durable record, `file` the set of object files. A thread is
the handler, a transfer runner or a reader that fetches a DAG object.
`put_verified` is `PutCheck` (takes `write_lock`, checks the quota),
`PutRename`, `PutInsert`, and then `enforce_cache_quota`: `EnforceScan` (takes
the lock for the whole loop, chooses a victim), `EnforceUnlink`,
`EnforceForget`. `pin()` and `unpin()` take no lock: a check, then a
transaction that panics when the record has gone, which poisons the store. Every file
operation and every transaction may fail (`Faults`): a put then stops before or after its
renaming, without a record and without an eviction (`PutFails`); an enforcement stops
before the file of its victim is removed or before its record is, with the cache as it is
(`EnforceFails`); `path.exists()` takes an error for an absent file, so the record goes and
the file stays (`EnforceMisses`). Setting the same limits again is a request like another.
Bytes are counted in objects of one size; the victim is any evictable object,
since `last_accessed_at` ticks once a second. `Restart` reads the records back and
looks at no file, as `open()` does.

The refinement mapping is `level`: `absent` unless the file is there, and else
what the record says. `ContentStore` lets a put change the level to any other,
because the code records the flags of the latest request: downloading a pinned
object again unpins it. What it forbids is that anything but cached content
disappears, that a pin or an unpin acts on what is not there, and that a
half-done operation can be seen.

### IPFS node of the browser

The page runs one thread, so a step is what happens between two awaits, and any
number of calls are under way. A call is a program counter: `version` to
`finish` is `start()` (which every other call begins with), `leave` and `settle`
are `stop()`, the rest is the body. What the awaited libraries do was read in the
bundle `web/helia_node.js`: `Helia.start` reads the version of its data store,
makes a libp2p and starts it, then Bitswap; `node.libp2p` is a getter that throws
while there is none; a pin walks the blocks of the content, writes a record per
block that counts the roots that pin it, and last a record of the root.

`swarms` is every libp2p the page has made, `current` the one the node answers,
`brokers` those a Bitswap broker fetches through. `acked` is a history of what
callers were told is pinned, `history` of how calls overlapped. A stop or a start may
be a caller's or the page's own (`pagehide`, `pageshow`): the error of a stop of the page's
own is remembered by nobody, so `Reject` may leave `lastError` as it was. `Reload` closes
the page: IndexedDB stays, all else goes.

`Opened` says whether the stores answer without `open()`. In the bundle they do
not, and nobody opens them: with `FALSE`, what the code does, no start succeeds
(the theorem `NeverStarted`). The run `HeliaNode` checks both values, so that what the
node does once it is started is judged too. Left out: traffic counters
and the fields of `status()` that libraries answer.

### Rings

`PcmRing` steps at every atomic load and store and at every sample copied. The
pump sends all that is left of its session and sends the rest again; the plugin
answers whole frames (`Told`). `Stop` is `abort()` of the pump followed by
`clear()`; the write the pump is in goes on, so pumps of two sessions may write
at a time. `Quiet` restricts `Stop` to moments when nobody is in the ring.
`SampleQueue` puts, takes and clears in one step; the refinement mapping reads
the queue between the cursors, so an operation takes effect at the store of its
cursor. `web-audio/src/ring.rs` is the same code.

`WebAudio` has the same cursors in a `SharedArrayBuffer`. `push()` does not look
at the tail, as in the code. `ProcessThrows` is `Atomics.load(null, …)`: `init`
makes no tail view.

### Acceptance gate

One step is one turn of a loop of the validator; `found` is the Map of the
loop. Fields that are looked at for their form only (digests, texts of some
length, keys of an object) are booleans. `Conforms` and `OnePerPlatform` state
the protocol (`docs/acceptance/README.md`) by quantifiers over the report,
without loop, without Map and without the conditions of the code: what a header, an item,
a claim and a metric have to be is written a second time (`Identified`, `Documented`,
`Honest`, `Measured`), so that a wrong boundary on either side tells the two apart. One
boundary differs indeed: the code accepts a regression of 15.000001 per cent where the
protocol says 15. So what is accepted conforms up to a millionth of a per cent, and what
is rejected does not conform to the letter.

### State store

A document is a member of `Doc`; a file is `Absent`, `Torn` (it does not parse) or a
document. The program counter is the call of `write_json_atomic` that comes next:
`create`, `write`, `sync`, `copy` and `copying` (the backup is emptied, then
filled), `rename`, `sync_dir`, `publish`. A call in `Faults` may fail, which ends the
transaction and makes the store read-only until the process restarts. Two failures end
nothing: that of the directory's sync is ignored, as in the code (`let _ =`), and
`path.exists()` (`"stat"`) takes its own for a missing file, so that `open()` starts from
the default document (`storage.rs:50`) and a commit makes no backup (`storage.rs:150`).

`onDisk` is what a loss of power may leave under the name of the file: a rename adds
the new content to it (and `Torn` with it unless the bytes were synced), a sync of
the directory reduces it to what is there. `known` is what each caller was last told;
`since`, a history variable, is what the file has been since the last answer of
success. The refinement mapping reads the document from the file: the rename is the
commit, the sync of the directory hardens it, `publish` tells the caller.

Left out: permissions, the schema version that callers of `open` look at.

### Idempotency

A call is one HTTP request under a key with a fingerprint. The two layers have
names and fingerprints of their own: the middleware compares method, path, the id of the
header and all bytes (`Key`); `execute()` compares its scope, the id in the body and the
fields it has parsed (`Name`, and `Operation[key, fingerprint]` for what a request is to
it). Two keys may be one operation, and one key two. Labels of a call: `wait` for the lock
of the middleware, `lookup`, `handle`; `check`, `run`, `record` inside `execute()`; `after`
it, then `store` and `reply`. A key belongs to a plain handler, or to a `Guarded`
one, whose effect is behind `execute()`; of these `Background` runs on a blocking
thread (`scan_library`) and `Following` goes on after `execute()` unless that was a
replay (`follow_publisher`, and likewise `pin` and `publish`).

What a request does is up to `Transactions` transactions, each a step of its own
(`scan_library` sets the directory, imports track by track, looks for missing sources;
`set_node_config` and others are more than one as well). A handler may fail before the
first, between two and after the last (`HandlerFails`); what was committed stays, nothing is
recorded, and a retry begins anew.

Where a handler awaits its future may be dropped: `Disconnect` frees the lock and
forgets the call, `Detach` frees the lock while the blocking thread works on. Both
layers keep their entries in one `BTreeMap`, which `Trimmed` cuts down from its
smallest name (`Rank`). An answer is the fingerprint and the number of the last
transaction it reports, so that `effects` (how many transactions were committed for an
entry), `executed` (the operations that have run to their end) and `answers` (what clients
were told) can be compared. A transaction of the store of answers is one step.

## 3. Runs

Passing runs:

| Run | Instance | Shows |
|---|---|---|
| `TransferControl` | 2 tasks, one Wi-Fi only and with a destination, 2 runners, 2 chunks, all operations but a change of priority; the node starts on a cellular network nobody may use, with 2 slots, and changes to Wi-Fi or to a metered one with 1 slot; every failure of the provider, of files and of the task store; sweep, 3 requests, 1 crash | completed means stored; permits are conserved across semaphores; a queued task loses whoever would start it only to the dropped effect of a runner (which happens in this instance) or to a failing store |
| `TransferQueue` | 2 tasks, one with a cellular limit of 2 bytes, chunks of 1 or 2 bytes, 3 runners, 2 slots, fixed configuration, bad data and errors, 4 requests that create or replay, 1 crash | one runner works on a task, the cellular limit is exceeded by less than a chunk, completed is intact, terminal stays |
| `TransferLive` | 2 tasks, 3 runners, 1 slot, two priorities and a request that changes them, failures, 2 requests, 1 crash, fairness | a queued task is started; work that began ends |
| `NodeQuota` | 3 objects, 3 threads, 4 operations, failing files, records and looks for files, 1 crash | the storage limit; a cache beyond its limit and a file without a record have a cause; nothing kept is lost or evicted; refinement of `ContentStore` |
| `HeliaNode` | 2 calls at a time, 3 in all, all operations, 2 contents that share a block, failures of everything, 1 closed page | `status()` answers, a calm page tells the truth, pins protect every block, no call but a pin hangs |
| `PcmRing` | 4 slots, cursors that wrap at 8, 3 sessions of 10 samples in 2 channels, a device that takes 4 | no race, gap, repetition or stale sample; a session left alone is heard to its end; refinement of `SampleQueue` |
| `Acceptance` | 2 platforms, 5 requirements of 5 scopes, every list of a conforming report edited in one place, metrics on both sides of every boundary, 22 command lines | what is accepted conforms (up to a millionth of a per cent) and what is rejected does not; the commit and the flag of the command line are obeyed; always a verdict |
| `StoreCommit` | 2 callers, 3 documents, 3 transactions, every call but the directory's sync and the look for a file may fail, panics, 2 crashes | the file is never torn, memory follows it, what was answered survives a loss of power; refinement of `DurableDocument` |
| `IdempotentRequests` | a plain request and two library scans that share an operation (and, with other bodies, do not), 2 transactions each, 2 fingerprints, 2 calls at a time and 4 in all, handlers that fail at any point, a failing store, clients that leave, 1 crash, room for every entry | one answer for a request that was answered, and nothing committed for it again; what `execute()` has run to its end is not begun again |

Runs that show a disagreement of the code with a document, a comment or a test:

| Run | What happens |
|---|---|
| `TransferTruncated` | pause and resume spawn a second runner; its `File::create` falls between the first one's hash and its copy; the object stored under the CID is not the content |
| `NodePinEvicted` | a pin is acknowledged between the choice of a victim and its removal |
| `WebAudioSilent` | the first render quantum after the buffer has come loads through a view that was never made; the processor has thrown and is not called again |

More disagreements were found that have no run of their own; the modules keep
the properties, and TLC finds each again with a copy of a configuration that names
the property alone and is changed as told here. The first two change
`TransferTruncated.cfg`, with `Chunks = 1` and `InitialConfig <- Wifi`.

- `CompletedIsDelivered` (`Operation = {"create"}`, `WithDestination = {1}`,
  `MaxCrashes = 1`): the task is `Completed` before its file is
  moved to the destination, and after the crash nobody moves it
  (`JimMusic需求文档.md:388`, DST-006).
- `WifiOnlyObeyed` (`WifiOnly = {1}`, `Operation = {"create", "config"}`,
  `Config <- TwoNetworks`): the pause that a change of network class writes is
  overwritten by the runner's next transaction
  (`transfer_service.rs:345` "wifi_only 任务无条件暂停", DST-008, DST-010).
- `QueuedIsServed` (`TransferControl.cfg` with `Faults = {}`): a runner applies the
  class itself, re-queues another task and drops the list of tasks to spawn
  (`transfer_runner.rs:75`), so the queue stands still behind that task, although
  the comment at `transfer_runner.rs:306` has a new runner take over what the network
  re-queued. `StrandedHasCause` names this step among its causes, and the run
  `TransferControl` and a theorem show that besides a failing store there is no other.
- `NodeStarts` (`HeliaNode.cfg` with `FairSpec`, `Opened = {FALSE}`,
  `Operations = {"start"}`, `Faults = FALSE`, `MaxCrashes = 0` and without symmetry):
  `Helia.start` reads a data store nobody has opened, which rejects, so `start()`
  ends in "failed" without any fault, although `README.md:16` promises the node. The
  theorem `NeverStarted` proves it of every sequence of calls.
- `NothingUndone` (`StoreCommit.cfg` with `"sync_dir"` in `Faults`): the directory
  cannot be opened or synced, nobody notices (`storage.rs:163`), and a loss of power
  takes back what was answered; the comment at `storage.rs:79` says the state is
  replaced only once it is on the disk ("只有落盘成功才替换活动状态").
- `MemoryIsStored`, `ImplementsDocument`, `OldIsKept` (`StoreCommit.cfg` with
  `Faults = {"stat"}`): the file is there and cannot be looked at, so `open()` takes the
  default document (`storage.rs:50`), or a commit makes no backup (`storage.rs:150`).
  With `"stat"` added to the other faults `TypeOK`, `NeverTorn` and `NothingUndone` hold.
- `NeverPoisoned` (`NodeQuota.cfg` with `Controlled = {c1, c3}`): the record a pin has
  checked is evicted before its transaction, whose `expect("checked above")` panics and
  poisons the store (`node_service.rs:361`).
- `RunOnce` (`IdempotentRequests.cfg` with `Faults = {"handler"}` and `MaxCrashes = 0`):
  a library scan commits its directory and some of its imports and then fails; nothing is
  recorded, and the retry commits them again (`api_v1.rs:3233-3257`), with neither a crash nor
  a failure of the store, against `README.md:24` ("全 mutation 持久幂等").
- `AcknowledgedOnce` (`IdempotentRequests.cfg` with `Capacity = 1`,
  `Faults = {}` and `MaxCrashes = 0`): an answer that has the smallest name is trimmed as
  soon as there is no room (`idempotency.rs:150`), and its retry is executed again,
  against `README.md:24` ("全 mutation 持久幂等") and API-003.
- `FollowedUp` (`IdempotentRequests.cfg` with `Key = {2}`, `Name = {20}`, `Guarded = {2}`,
  `Following = {2}`, `Background = {}`, `Faults = {"disconnect"}` and `MaxCrashes = 0`): the
  client goes away during the import that comes after a follow; its retry is replayed and
  answered with success, and nothing is imported (`api_v1.rs:1921`, `:1947`).

`TransferQueue` and `NodeQuota` state where the code IS right, and their
instances say so: in the first nobody pauses and resumes, in the second clients
pin only objects that are never merely cached (`Cached`, `Controlled`). Outside
those conditions the violation runs above apply. `OverrunHasCause` and
`OrphanHasCause` need no such condition. Other runs state
conditions too:

- `TransferQueue` has neither `pause` nor `cancel`: with them (`Operation = {"create",
  "pause", "cancel"}`, `Task = {1}`) TLC refutes `TerminalStays`, because a pause or cancel
  that was checked before the task completes is written after it. `OneRunnerPerTask`,
  `CompletedIsIntact` and `CellularWithinOneChunk` hold there, with failing files and a failing
  store as well (one task, 4 requests).
- `CellularWithinOneChunk` is as much as can be said: that the limit itself is never
  exceeded is false of the code, as its test shows
  (`transfer_service.rs:872-888` ends with 20 bytes under a limit of 10), and content that
  arrives whole is not counted. With a limit of zero the bound fails too (section 4).
- `SlotsConserved` counts the permits of the current semaphore. Those of a replaced one
  are used on, so `ConcurrencyBound` does not hold across a change of configuration.
- `PcmRing` has `Quiet = TRUE`. With `FALSE` TLC refutes `NoRace`,
  `InOrder` and `WithinCapacity`, which the theorem `NeverOverfull` is about. The shortest race: `write` and `read` have both loaded
  `head`; `Stop` clears, that is, stores `tail`; `write` loads the new `tail`,
  takes the ring for empty and writes the slot `read` is copying, although
  `ring.rs:33-35` and `:87` declare both accesses safe. An aborted pump's last
  write also leaves samples of its session in the ring for the next one. A number
  of channels that does not divide the capacity (three in four slots) breaks
  `InOrder`: `write` copies part of a frame and answers without it. The plugin
  declares one and two channels only (`RingAssumption`).
- `HeliaNode` has `Serialised = TRUE`: callers wait for a pin or unpin before
  they ask for another of a content that shares blocks. With `FALSE` two walks
  read the same block record, the later write loses the earlier one, and TLC
  refutes `PinnedIsProtected`.
- The directory of `StoreCommit` can be synced, and the store of
  `IdempotentRequests` has room; both are conditions of the theorems as well.
- `CommitEnforced` and `FlagObeyed` speak of command lines that give `--commit`
  and `--platform` at most once (`GivenOnce`). An option takes the next argument
  whatever it is: `--platform --require-all-platforms --platform web f1` is
  accepted without the flag.

`HonestLifecycle` says nothing after a stop or a failure overlapped another
call, nor after the page was hidden (`visibilitychange` writes "running" over
whatever the node is). `NoCallHangs` excepts `pin`: it passes no signal, so a pin
of a block nobody provides never ends.

**Bounds.** `Runner` and `Thread` bound how many exist at a time, `MaxRequests`
and `MaxCrashes` how often clients and crashes interfere. The counterexamples
need at most two actors on one task, three or four requests and one crash; the
passing runs allow three requests (four in `TransferQueue`, `NodeQuota` and
`IdempotentRequests`, two in `TransferLive`), and the theorems any number. Two chunks distinguish the first from the last. One
crash suffices because recovery keeps no memory of how often it ran. Three
objects and a storage limit of two let a put be refused, and a cache limit of
zero lets every put evict. `Runner` is a bound in one more sense: a spawn waits
for an idle identity; the runs have enough that the interesting duplicates exist.
Deadlock is not checked, since the bounded systems stop when their requests,
sessions or inputs are used up. Runners, workers and calls are symmetric in the
runs without fairness.

Two calls at a time in `HeliaNode` make every pair of operations overlap at every
await, and the third finds what they left; the two contents share one block and
differ in the other. A wrap at twice the capacity is the smallest at which a
cursor and its slot differ; thirty samples make the cursors wrap three times,
and a period as long as the ring lets `read` take all, part or nothing. The
reports of `Acceptance` differ from a conforming one in one place: each check of
the validator looks at one place, or at one and the Map. Pairs of reports and the
command lines make up its second set of inputs.

Three documents tell the default, the old and the new one apart, and three
transactions let one fail or be cut short between two that succeed. In
`IdempotentRequests` two calls are a request and its retry, or two requests that
compete for a lock; four requests are as many as a first try, a retry, and the same
for another key; a third retry after a scan that failed halfway is among them. `Capacity` is
larger than the number of entries there can be, so that nothing is ever trimmed (`Room`). The
run has no follow, whose effect is one transaction: with key 2 and name 20 added TLC
finds its properties to hold as well.

**Fairness.** `TransferLive` assumes weak fairness of each runner's steps and of
the handler's (the runtime polls every task, a sleep ends, an operation on a file
or a stream returns), and strong fairness of `RunnerLock`, because tokio's Mutex
queues its waiters: a runner that keeps asking is not overtaken for ever. It
assumes nothing of clients, providers or crashes. It has no pause, because a
paused runner keeps its slot: with every slot held by paused tasks the queue rightly
stands still until a client resumes one. A stream that neither delivers nor fails
is excluded by the weak fairness of `RunnerWrite`/`RunnerChunkError`.

`WebAudioSilent` assumes that promises settle, a push that has begun ends, and the
browser delivers messages and calls a processor that is alive; so it fails although
everything asked for happens. `PcmRing` assumes
that the pump (a tokio task) and the callback (the device asks for ever) run,
and nothing of commands. `Acceptance` is a sequential program that runs on.

## 4. Proofs

Every safety property a passing run checks is also a theorem, with one exception
(`NoCallHangs`, an `ENABLED`), and so are some invariants no run asks for
(`SchedulerExclusive`, `ConcurrencyBound`, `WithinCapacity`, `FailedHasReason`,
`CatBounded`, `OldIsKept`, the types of `AtomicStore` and `Idempotency`); some need a hypothesis, and it is named with the
behaviour that makes the property false without it. All theorems hold for every
value of the constants that satisfies the `ASSUME`s of their module: `TaskAssumption` and `SystemAssumption`, `RepositoryAssumption`,
`HeliaAssumption`, `CounterAssumption` and `RingAssumption`, `StoreAssumption`,
`KeysAssumption`, or the three of `Acceptance`.

`TransferSystemProofs`:

| Theorem | Statement | Argument |
|---|---|---|
| `TypeCorrect` | `Spec => []TypeOK` | `TypeInv`: as `TypeOK`, and a runner that is not idle has a task, a position being written is inside the content, a handler past its first step has the task its operation needs |
| `CompletedStored` | `Spec => []CompletedIsStored` | `StoredInv`: a runner between the put and the completion has stored its object. Needed because the completing transaction looks at no object |
| `OneDecides` | `Spec => []SchedulerExclusive` | `SchedulerInv`: a runner is between `pick` and `mark_write` exactly when it holds the lock |
| `PermitsConserved` | `Spec => []SlotsConserved` | `SlotsInv`: besides the sum, a runner that has not picked yet, or whose `run()` has returned an error, holds no permit, so that no permit is taken over one it has; between the configuration and the new semaphore the sum is not that of `cfg`, and the property says nothing |
| `ConcurrencyBounded` | with `Config = {}`: `Spec => []ConcurrencyBound` | no permit is ever `"replaced"`, so all that are held are counted by the sum |

`TransferRunnerProofs`:

| Theorem | Hypotheses | Statement | Argument |
|---|---|---|---|
| `QueueServed` | | `Spec => StrandedHasCause` | `ServingInv`, `KeepsServed`: a queued task is served by a runner that will still start it (or pause it) or by the handler that will spawn one, and the handler forgets nothing it has to spawn; each step keeps the server or is one of those the property names. No assumption on the network, the clients, the crashes or the failures |
| `OneRunner` | `SteadyNetwork`, `NoRequeue` | `Spec => []OneRunnerPerTask` | `OneInv`: who works on a task past its decision holds a permit, and that task is not queued; a second runner begins only with a queued one |
| `CompletedIntact` | the same | `Spec => []CompletedIsIntact` | `IntactInv`: between the hash and the copy the part file is full or swept away, since the runner that could truncate it would be a second one |
| `CellularLimited` | the same | `Spec => []CellularWithinOneChunk` | `LimitInv`: a task at its limit is neither in flight nor queued and has no runner, so nobody receives the chunk after the one that reached it, however large that was; recovery after a crash re-queues only what is in flight |
| `TerminalForGood` | `SteadyNetwork`, `NoInterference`, `PositiveLimits`, `StoreWorks` | `Spec => TerminalStays` | `TerminalInv`: whoever is about to write a task's state has found it not terminal and is its only runner; what fails a task does so when nobody works on it; a task the policy bars never got beyond the queue |

The transactions of the store write a state without looking at the one they
replace, so the last four theorems hold because of who may write when, and each
hypothesis excludes a writer that does break them:

- `SteadyNetwork`: configurations differ in `max_concurrent_transfers` only. A
  network class that comes back resumes a task whose runner still
  works (`OneRunnerPerTask`, and with it the rest). Under it `NetInv` says that
  what was paused for the network's sake stays barred, because used bytes are
  never taken back (`Ages`), so nothing is ever resumed.
- `NoRequeue`: no client resumes or retries. `TransferTruncated` is what a resume
  does.
- `PositiveLimits`: no limit is zero. The code takes any limit it is given and
  compares it with `>=` (`transfer_service.rs:81`, `:447`). A task whose limit is
  zero is paused by the handler that creates it; if the node crashes between the
  two, recovery starts the task without applying the policy, and its runner
  receives a chunk before it counts it (TLC finds this with a limit of zero).
  `CellularWithinOneChunk` leaves a limit of zero out by itself.
- `NoInterference`: clients only create, reorder and configure. A pause or cancel
  checked before the task completes and written after overwrites the terminal state.

- `StoreWorks`: the task store does not fail. When it fails under `mark_resolving()`, the
  runner has given its lock and its permit back before it looks whether to fail the task,
  and by then another runner may work on it. That other runner needs a store that works
  again, which the model allows; the code's refuses everything until the process starts
  again, so TLC's counterexample (`TransferQueue.cfg` with `Faults = {"store"}`) is one of
  the model and not of the code.

The instance of `TransferQueue` satisfies all of them.

`NodeRepositoryProofs`:

| Theorem | Statement | Argument |
|---|---|---|
| `RepositoryTypes` | `Spec => []TypeOK` | `Types`: besides, what is unlinked or recorded is what the operation was begun on |
| `CacheBounded` | `Spec => OverrunHasCause` | `CacheChange`: a step that makes the cache larger, or its limit smaller, leaves a thread that enforces it, and a thread stops enforcing only when a scan under `write_lock` has found the cache within its limit, or when it fails |
| `KeptReadable` | with `Disjoint`: `Spec => []KeptHasFile` | `Inv`: who holds `write_lock` is inside a put or an eviction and nobody else is; between `rename` and `insert` the file is there; the victim between `unlink` and `forget` is evictable; crashes and failing calls included |
| `OrphansExplained` | `Spec => OrphanHasCause` | `Held`: between a put's renaming and its record, and between the removal of a victim's file and of its record, the thread holds `write_lock` and no other is there; a record goes only after its file, but for a look that missed it |
| `EvictionSpares` | with `Disjoint`: `Spec => EvictionSparesKept` | `Inv` again: the object a pin has checked is not cached and so is never a victim |
| `StorageBounded` | with `Disjoint` and `SameStorage`: `Spec => []StorageWithinLimit` | `Quota`: between the check and the insertion the record still fits, because whoever adds one holds `write_lock` |
| `Implements` | with `Disjoint`: `Spec => ImplementsStore` | initial states map to initial states; every step is a `Put`, `Pin`, `Unpin`, `Evict` or a stutter |

`HeliaNodeProofs`:

| Theorem | Statement | Argument |
|---|---|---|
| `TypeCorrect`, `Answers` | `Spec => []TypeOK`, `[]StatusAnswers` | `Inv`: besides types, a call past `create` holds the number of a libp2p that was made, and the node is "started" only with one |
| `FailureExplained` | `Spec => []FailedHasReason` | inductive as it stands: whoever writes "failed" writes the error in the same step |
| `CatsBounded` | `Spec => []CatBounded` | `Cats`: the limit of a `cat` is the smaller of the two before its first chunk |
| `PinsProtected` | with `Serialised`: `Spec => []PinnedIsProtected` | `Pinned`: of contents that share blocks one call is under way; the count of a block record is the number of its roots; blocks of a root that are not yet walked are those in `todo`; what an unfinished walk read is still what is recorded |
| `Honest` | `Spec => []HonestLifecycle` | `Orderly`, while `history` is not "disturbed". `Turns`: one stop at a time and no start beside it, and in a calm page one start; `Reported`: lifecycle and node say the same between two awaits; `Joined`: a libp2p that is on its way up or down has the call that takes it there, and one that is being made is not yet the node's; `Brokered`: a broker is on the libp2p of the node or on one that overlapping starts left running; `Single`: without overlaps there is one of each |
| `PinsStored` | `Spec => []Complete` | `Supply`: a walk has stored what is no longer in `todo`, so a pin record is written when all is stored; nothing removes a block. It holds without `Serialised`: pins that spoil one another's counters still store |
| `NothingHangs` | `Spec => [](\A c \in Call : op[c] # "pin" => CanGoOn(c))` | `Supply` again: the walk of an `unpin` or of the pin after an `add` begins with all its blocks stored, and its `todo` never grows |
| `NeverStarted` | with `Opened = {FALSE}`: `Spec => [](node # "started" /\ stored = {} /\ acked = {})` | inductive with `current = 0` and no call past `version`: what TLC finds on one instance (section 3) holds of every sequence of calls, failures and reloads |

`PcmRingProofs`, all but the first with `Quiet`:

| Theorem | Statement | Argument |
|---|---|---|
| `TypeCorrect` | `Spec => []TypeOK` | with `Paced`: a pump never has sent more than its session |
| `NeverOverfull`, `RaceFree` | `Spec => []WithinCapacity`, `[]NoRace` | `Held`: what a write found free is still free and what a read found there is still there, since each side only gives to the other; slots of different cursors less than `Capacity` apart differ |
| `RingIsQueue` | `Spec => ImplementsQueue` | `Taken`: what `read` has copied is the front of the queue; a store of a cursor is a `Put`, `Take` or `Clear`, every other step a stutter, for the slots a write fills are not in the queue yet |
| `NothingLost` | with `WholeFrames`: `Spec => []InOrder` | `Framed`: all that is free, available, written and read is of whole frames, so `Told` takes nothing away; `Written`: what the pump copied past `head` is what it sends next; `Delivered`: heard and queue joined are in order and end where the pump goes on. A `Take` leaves the joined stream as it is, a store of `head` appends to it, `clear()` cuts its end |

`AcceptanceProofs`:

| Theorem | Statement | Argument |
|---|---|---|
| `TypeCorrect` | `Spec => []TypeOK` | `Typed`: the file at hand exists |
| `Accepted`, `Rejected` | `Spec => []AcceptedConforms`, `[]RejectedForCause` | `Validated`: at turn `at` of a loop, the first `at - 1` elements pass the code's checks and the Map holds exactly their entries, less the requirements the catalog loop has taken out; a complaint contradicts `Checked`, which is the code's checks without loop and Map. Between the reports, those read so far are checked; that the number of reports is the number of platforms follows from one report for each (a bijection). The second half is that `Checked` is what the protocol means (`CheckedMeans`, from `HeaderMeans`, `ItemMeans`, `ClaimMeans` and `MetricMeans`): its tolerance lies between the letter and a millionth of a per cent |
| `CommitAsked`, `FlagAsked` | `Spec => []CommitEnforced`, `[]FlagObeyed` | `Read`: an option that was passed has been obeyed or is the value of another; no report bears the name of an option, so then nothing is accepted |

`AtomicStoreProofs`:

| Theorem | Hypotheses | Statement | Argument |
|---|---|---|---|
| `TypeCorrect` | | `Spec => []TypeOK` | inductive as it stands |
| `StartsAgain` | | `Spec => []NeverTorn` | `Inv`, `Prepared`: what is renamed is the candidate, whole and synced, whatever failed before |
| `MemoryFollows` | `StatWorks` | `Spec => []MemoryIsStored` | `Working` and `Following`: a transaction is under way exactly when the mutex is held; memory is what the file holds except between the rename and `publish`, where no failure is possible any more |
| `OldKept` | `StatWorks` | `Spec => OldIsKept` | `Prepared`: before the rename the backup is what the file is |
| `Durable` | `DirectorySyncs` | `Spec => []NothingUndone` | `Hardened`: before `publish` only the new content is left on the disk; TLC finds the theorem false without the hypothesis (section 3) |
| `Implements` | `StatWorks` | `Spec => ImplementsDocument` | initial states map to initial states; a rename is a `Commit`, a snapshot and `publish` are a `Learn`, the sync of the directory a `Harden` or a stutter, a loss of power a `PowerLoss`, every other step a stutter |

`IdempotencyProofs`:

| Theorem | Hypothesis | Statement | Argument |
|---|---|---|---|
| `TypeCorrect` | | `Spec => []TypeOK` | `Numbered`: whoever is about to store or give an answer has the number of an execution |
| `OneAnswerOnly` | `[]Room` | `Spec => []OneAnswer` | `Inv`: what clients were told is the entry of the middleware (`AnswersStored`, `ReplyStored`); whoever holds a lock past its look-up works on a key without an entry in that layer (`StillUnknown`), because entries are only written under the lock and never dropped |
| `Acknowledged` | `[]Room` | `Spec => AcknowledgedOnce` | a plain handler commits under the lock of the middleware and so for a key without an entry; a guarded one, detached or not, under the lock of `execute()`, and an answer to a guarded request has an entry of its operation there too (`GuardedRecorded`) |
| `Guards` | `[]Room` | `Spec => GuardedOnce` | `Recorded`: an operation that has run to its end has an entry or a call that is about to write it under the lock. Of an operation that failed halfway the theorem says nothing, and must not (`RunOnce`, section 3) |

`Room` says that the store holds fewer entries than its capacity, 20 000 in the
code. From then on every new answer drops an entry, the one with the smallest name, and
TLC finds the theorems false (section 3). That `Trimmed` changes nothing
while there is room (`TrimmedKeeps`) rests on the cardinality of finite sets and on
`Rank` being an order without ties.

`Disjoint` says that what clients pin is never merely cached; `NodePinEvicted` shows that the
theorems that assume it are false without it. `CacheBounded` and `OrphansExplained` assume
nothing: what crashes and failing calls do to the quota is in the properties, by name.
`StatWorks` and `DirectorySyncs` say which call of the file system does not fail; section 3 has
what happens when it does.
`StorageBounded` assumes as well that the storage limit stays the same: lowering
it below what is stored is legal and evicts only the cache. `ConcurrencyBounded`
assumes that the configuration stays as it is: after a change the runners of the
replaced semaphore go on, so for a while there are more than the new limit.

Model-checked only: the liveness properties (`QueueMoves`, `WorkEnds`,
`EverythingHeard`, `Terminates`) and `NoCallHangs`, which is an `ENABLED`: both
outside the prover's reach. `NothingHangs` proves the condition `NoCallHangs` rests on:
on the instance of `HeliaNode`, with and without overlapping pins, TLC found
`CanGoOn(c)` to agree with `ENABLED Progress(c)` of every call under way. The strengthened invariants (`ServingInv`, `OneInv`,
`IntactInv`, `LimitInv`, `TerminalInv`, `Orderly`) were checked by TLC as
invariants before they were proved, on the instances of `TransferQueue`,
`TransferControl`, `HeliaNode` and `IdempotentRequests` and on variants of them with another limit, a
third call or a fourth request.

## 5. Not modelled

Hazards without a property are listed in `PROJECT.json` with the reason. Where
the work would go on, in this order:

1. `Player`, with the event bus: commands under the command lock, the watcher
   task, the start of playback that is spawned and aborted, events of a session
   that has been replaced, the watcher that ends when it lags. Abstract
   specification: one current session, and the state shown is its own.
2. `PluginLifecycle`: versions, directories and records as separate steps, with
   crashes; enable and rollback against revoke; disable against quarantine.
3. `ContentCache`: the byte count against the two evictions.
4. Proofs: under `resume` and `retry`, that at most one runner per resumed task is
   spawned beside the old one; the theorems of `WebAudio`, whose only run shows a
   disagreement.

Outside of that: library, publication and reliability keep one document each
without concurrency of their own; identity, cryptography and protocol types are
pure functions on bytes; the embedded node of the backend, the WASM sandbox, the
FFI host, the codecs and the devices are foreign code, which the models see as an
environment that answers, fails or delivers bad data; of the bundle
`web/helia_node.js` only what the node's functions call is modelled, the rest is
library code; the Flutter application is a client.
