# oMLX in TLA+

oMLX serves language models on one machine. An HTTP server translates API
requests, a pool of engines loads and evicts models, every engine has a scheduler
that feeds mlx-lm's `BatchGenerator`, and a tiered KV cache (block pool, prefix
index, SSD files) lets requests share prompts. This directory holds TLA+ modules
for the parts where interleaving, failure and bookkeeping make the program hard to
test, the TLC configurations that check them, and TLAPS proofs.

`PROJECT.json` lists every component, run, mutant, finding, hazard and theorem, and
maps each definition that models code to its source lines.

    tlc -workers 2 -config MCEngine.cfg MCEngine      # one run
    tlapm PagedCacheProofs.tla                        # one proof module

## The system

### Components

| component | state | operations | what makes it correct | module |
|---|---|---|---|---|
| Free block list (`cache/paged_cache.py`, `FreeKVCacheBlockQueue`) | links between blocks, a counter | popleft, popleft_n, remove, append, append_n | a list of distinct blocks as long as the counter says | `FreeBlockQueue`, `AbsFreeQueue` |
| Paged block pool (`PagedCacheManager`) | blocks with reference counts and hashes, hash map, allocated map, request tables, statistics | allocate, grow, free, touch, share, fork, copy on write, hash, look up, release, evict, clear | counts equal holders; free and allocated partition the pool; what a lookup finds is live | `PagedCache` |
| Scheduler (`scheduler.py`) | waiting deque, running dict, uid maps, batch generator, pending aborts | add_request, abort_request, step (abort, schedule, generate, clean up), reschedule, recover, fail_all | every request tracked once; the batch serves exactly the running requests | `Scheduler` |
| Engine core, output collectors (`engine_core.py`, `output_collector.py`) | collectors, finished events, stream states, the executor's queue | add_request, stream_outputs, generate, abort_all, engine loop | every token once; everyone answered; no orphan | `Engine` over `Scheduler` |
| Engine pool (`engine_pool.py`) | entries with an engine, a loading flag and a last access; a memory account; an `asyncio.Lock` | get_engine, load, unload, discover, TTL check | the account is what is in memory; loads fit the limit, which may change; every engine in memory can be found; the lock is always given back | `EnginePool` |
| Process memory enforcer (`process_memory_enforcer.py`) | a polling task | check and enforce, TTL, stop, start | takes the pool's lock, answers the requests of what it evicts | `EnginePool` |
| Prefix cache (`cache/prefix_cache.py`) | prefix index, request tables over the pool's | fetch, reconstruct, store, release, clear | a request is served its own KV; references are given back once; files hold what their hash says | `PrefixCache` over `PagedCache` |
| SSD cache (`cache/paged_ssd_cache.py`) | index, hot cache or read buffer, write queue, files, a writer thread | save_block, load_block, has_block, close, start-up scan | an index entry has its block somewhere; files are counted; a saved block can be loaded until it is evicted | `SSDCache` |
| Batched engine (`engine/batched.py`) | whether it is loaded | start, stop, generate | a generation runs on an engine of the pool | `EnginePool` |
| MLX executor (`engine_core.get_mlx_executor`) | one thread, a FIFO of calls | submit | the thread runs one call at a time | in `Engine` (`tasks`) |
| Boundary snapshots (`cache/boundary_snapshot_store.py`, parts of `scheduler.py`) | buffered and written snapshots, marks of the scheduler, a writer thread | capture, save, load, clean up | every block boundary has the layer state of exactly that position, from this attempt | `BoundarySnapshots` |
| Model downloads (`admin/hf_downloader.py`, `admin/ms_downloader.py`) | tasks, a semaphore, coroutines, threads | start, cancel, remove, retry, stall, shutdown | a task shown as active will end; the semaphore has one holder | `Downloads` |
| MCP client (`mcp/client.py`, `mcp/manager.py`) | connections, sessions, tool lists, locks | connect, disconnect, reconnect, refresh, call | no connection is lost; tools are of the live connection; every call ends | `MCPManager` |
| macOS server manager (`packaging/omlx_app/server_manager.py`) | a child process, health check threads, counters | start, stop, adopt, restart, check | no process is lost; a crash is noticed | `ServerManager` |
| Application updater (`packaging/omlx_app/updater.py`) | disk image, staged bundle, swap script | download, stage, swap, clean up | the bundle is the old one or the whole new one | `AppUpdate` |
| Benchmark (`admin/benchmark.py`, its routes) | runs, queues of events, readers | start, measure, cancel, upload, stream | a run says how it ends, once | `Benchmark` |
| Stream parsers (`api/thinking.py`, `api/tool_calling.py`) | parser and filter state | feed, finish; the parsers of a whole reply | where a chunk ends does not matter; stream and whole agree | `ReplyText` |
| Thinking budget (`api/thinking.py`, `ThinkingBudgetProcessor`) | counter, phase, place in the forced tag | one call per token | the closing tag is written whole, once and in time | `ThinkingBudget` |
| Message conversion (`api/utils.py`, `api/anthropic_utils.py`, `api/responses_utils.py`) | none; the stored messages of responses | client messages to those of the chat template | nothing the client said is lost, doubled or moved; a conversation's prompt continues its last one | `Conversation` |
| API handlers (`server.py`) | one generator per request, block numbers, terminal events | stream or answer; disconnect | events nest and end; a lost client frees the engine | `ReplyStream` over `ReplyText` |
| Response store (`api/responses_utils.py`) | responses in memory and in files | put, get, resolve, delete, evict, restart | a follow-up gets the whole conversation or is refused | `ResponseStore` |
| Global settings (`settings.py`, their use in `cli.py`, `server.py`, `admin/routes.py`, `admin/auth.py`) | settings in memory, settings.json, the running server's copies, sessions | start, update section by section, keys, sub keys, log in | file, memory and running server agree; a refused change has no effect | `AdminSettings` |
| Model discovery and settings (`model_discovery.py`, `model_settings.py`, parts of `engine_pool.py`, `server.py`, `admin/routes.py`) | entries, per-model settings and their file, the default model | discover, change settings, reload, resolve a name, sample | names are unique; a pin, kind or default in the settings is in the pool; a request gets the settings of the model that serves it | `ModelCatalog` |
| Server metrics (`server_metrics.py`) | counters of the session, per model and of all time, stats.json | record, save, clear, shut down, start | what was saved comes back | `Metrics` |
| Windows port (`cache/paged_cache_windows.py`, `memory_manager_windows.py`, `tray_app.py`) | blocks, files and dirty queue; model table with pins and callbacks; process handle of the tray | put, get, evict, flush; register, access, pin, evict, watch; start, wait, stop, exit | what is held is counted; every lost process is explained | `WindowsCache`, `WindowsModels`, `TrayApp` |
| Not modelled | see "components" in `PROJECT.json`: each has its reason | | | |

### How they interact

* HTTP handlers are coroutines of one event loop. They obtain an engine from
  `EnginePool.get_engine` (a coroutine that holds an `asyncio.Lock` over its awaits),
  then call `EngineCore.generate` or `stream_outputs`.
* `EngineCore` runs everything that touches the model on **one** executor thread,
  shared by all engines (`get_mlx_executor`): `scheduler.add_request`,
  `scheduler.step`, `scheduler.fail_all_requests`. Calls run in submission order.
  `abort_request` runs on the event loop: it only adds the id to
  `_pending_abort_ids`, which the next `step` processes.
* The scheduler asks the prefix cache for shared blocks when it adds a request and
  stores blocks when it finishes. The prefix cache calls the block pool for every
  reference it takes or gives back, and the SSD cache for the data.
* The SSD cache has a writer thread of its own, fed by a bounded queue. The boundary
  snapshot store has another.
* The process memory enforcer is a coroutine that takes the pool's lock, evicts
  engines and aborts their requests with `abort_all_requests`.

### What is hard here

Clients that disconnect in any await; aborts noted on one thread and processed on
another; a prefill interrupted halfway that puts requests back in the queue; a
corrupted cache that clears a pool others still hold tables of; hand-written
reference counts over a hand-written linked list; outputs merged behind a slow
reader. `PROJECT.json` "hazards" gives each one its line and the property that would
catch it.

## The modules

### FreeBlockQueue and AbsFreeQueue

`FreeBlockQueue` models the doubly linked list with sentinels exactly: `prev` and
`next` are functions over the block ids and the two sentinels, `num_free` is the
counter the code keeps beside the list, and each action is one method with its
pointer assignments in the code's order (a batch operation is one action, the
links of the whole batch being a function of the batch). The environment is the
callers' contract: only listed blocks are removed, only unlisted ones appended.

`AbsFreeQueue` says what it promises: a sequence of distinct blocks with the head
as the least recently used. The refinement mapping is `Order`, the
walk along `next` from the head sentinel; `ImplementsAbs` is checked by
`MCFreeBlockQueue` and proved in `PagedCacheProofs`.

### PagedCache

One action for each method of `PagedCacheManager` that changes state and is reached
by the running server: allocation with on-demand growth, `free_block`, `touch`,
`release_for_eviction`, `fork`, copy on write, hash registration, lookup,
`reset_prefix_cache` and `clear`; each does every call the method makes. The free
list inside it is the model of `FreeBlockQueue`, by `EXTENDS`. A request is whoever
holds references; `held` counts them as a history, so that `RefCountExact` can
compare the reference count the code maintains with the holders there really are.
Block hashes are model values; that equal content gives equal hashes is assumed.

Reading the code for the model showed that a block in the free list never carries a
hash (`free_block` forgets it before it appends), so `_maybe_evict_cached_block`
never evicts anything on allocation, and a block released "for eviction"
(`release_for_eviction`) stays allocated with count 0 where no allocation looks for
it: `EvictableIsReclaimable` is false.

### Scheduler

The phases of one `step` are actions (`BeginStep`, `ProcessPendingAbort`,
`ScheduleWaiting`, and one of `GenerateTokens`, `NothingToRun`, `PrefillAborted`,
`CacheCorrupted`, `StepRaises`), because `abort_request` comes from another thread
between any two of them. An error can also come up while a request is scheduled
(`ScheduleRaises`: its sampler cannot be built, or `insert` raises), when it has left the queue and is
not running yet; `faults.lost` has those requests, which neither recovery nor `fail_all_requests` sees. `generator` abstracts mlx-lm's `BatchGenerator` to its next
uid, its unprocessed prompts and its active batch, as `scheduler.py` uses it
(`insert`, `remove`, `next`, `close`); it is marked external in the map. Of the KV
cache a request keeps `table`: whether its block table is live, is kept only by the
pool, is stale because the pool was cleared under it, or was misreleased into the
new pool.

### Engine

Extends `Scheduler` with the coroutines (one action per stretch between two awaits)
and the executor's queue. Clients stream (`stream_outputs`) or call `generate()`;
they may disconnect in any await. `received` and `result` record what each client
was given, so the properties speak of the client's view.

### PrefixCache

Extends `PagedCache`: each step of a call is one call to the pool, so `job`, the call under
way, is a program counter over pool operations. All calls come from the executor thread
and do not overlap; what happens between them, and between the steps of different requests, is
the interleaving that matters, with the SSD cache losing files in between.

Tokens are abstracted to *units* (one full block and the image key it is hashed with), and a hash
is the sequence of units it was computed from, which is what chaining a collision-free
hash gives. A file records the KV it holds (`kv`), the layer state it holds (`at`, or a
placeholder) and whether that state is of a later position (`beyond`); `loaded` is what a request's
KV was rebuilt from. So the model can say whose KV a request is served, which the code
cannot. Only full blocks of the prompt are stored here; blocks filled by generated tokens follow
the same path and would only be more units. Troubles are counted together: a file lost,
a block refused by the validation, a layer that cannot be rebuilt, a save that fails, a boundary
snapshot that was lost.

The lookup by hash serves every request its own KV (`ServedByHashIsOwn`). The fallback, the prefix
index, does not (`prefix_stale`): it stores block ids and is not told when blocks are recycled.
`by_index` marks the requests served that way, and a request served another's KV, or a layer
state of a later position, is not followed into `store_cache` (`StoreBegins` has `Own(r)` as a
guard): `FilesTellTheTruth` says that nothing *else* puts wrong data under a hash. A wrong hit that is
stored does put it there.

### EnginePool

Clients, the enforcer and administrative tasks are coroutines of one event loop; an
action is a stretch between two awaits (`pc` says where each task is). `lock` is the
`asyncio.Lock` as a queue, because it is granted first in, first out. `entry` holds the
`EngineEntry` objects and `table` says which of them is the current one of each
model: `discover_models` replaces the object of a model that is not loaded, also while
a load holds on to the old one. Engines are objects as well, since a client keeps the
engine it was given across evictions and may start it again.

The routes that unload a model, change the cache settings, the model directories or the memory limit,
and the rediscovery after a download run without the lock, as in the code. So
the plain statements are false: the memory account (`MemoryCounted`) is not the memory in
use, the limit an administrator sets is not reached (`LimitApplied`), and clients are stranded (`NobodyStranded`). The history variable
`drift` names the five events that make the account drift (two overlapping unloads of a
model, an entry replaced while it loads, a client that starts an unloaded engine, a
change of directories with an engine in memory, an enforcer cancelled while it stops an engine), and the
`...Explained` properties say that nothing else does, in any interleaving: each of the five is a place to repair, and a
sixth would be a regression.

`limit` changes at run time (`ChangeLimit`), also while a model loads, while another task evicts, or with every engine pinned, so that what is
loaded may be above it. What remains true of it is about steps: `LimitRespected` says that no step but a change of the limit brings what is
loaded, with the load that is past its check (`Due`), above the limit, and none adds to what a change has left above it. That load is part of it because
`get_engine` does not look at the limit again after `_ensure_memory_available`. `MemoryExplained` is both.

The settings route also stops the enforcer, starts one, or has it look at once (`StopEnforcer`, `StartEnforcer`, `CheckNow`). `EngineCore.stop`
catches the cancellation that stopping throws into it (`engine_core.py:142`), so of the engines only an embedding or reranker engine lets it
through (`StopCancelled`): its entry keeps an engine without a model, which stays counted.
An enforcer started at run time has no settings manager and checks no TTL (`admin/routes.py:455`); `StartEnforcer` allows it to, which is more than the code does.

`LoadHoldsLock` has a consequence for the enforcer: its branch for models that are loading
(`abort_loading`) is never taken, because it looks under the lock that each load holds
from start to end.

Process memory is larger than the account (KV caches, other allocations), so whether a
process limit is exceeded is nondeterministic whenever some engine is in memory. Time
is not modelled: the TTL may expire whenever a model is idle, except for an engine that
was just given to a client, whose `last_access` is fresh.

### SSDCache

One thread saves, loads and closes (the executor's, then whoever shuts the scheduler down);
the writer thread drains the queue. Actions are split wherever the code lets go of the
index lock or the hot cache lock between two accesses, or touches the file system, so
that the writer can be in any of its places meanwhile: a save is `SaveBegins`,
`SaveFound` / `SaveRefused` / `SaveMakesRoom`, then `SaveQueues` or `SaveHot`; an eviction takes
entries out of the index (`Enforce`) and then unlinks files one by one (`Unlink`); a load that
finds no file (`LoadIndexed`) forgets the entry in a second step (`LoadForgets`).

The two configurations of the code are two modes of one model: without the hot cache,
`hot` is the read buffer of blocks whose write is pending; with it, blocks are written when
they are evicted from memory. `promise` records which saves returned True. `Restart` covers
a new manager after `close()` and after a crash; a temporary file that survived complete
is indexed under its own name, as the scan does, which is why files have levels.
`OtherRemoves` stands for the managers of other models that share the directory, index
each other's files when they start and evict them.

Without the hot cache the bookkeeping is right: no file goes uncounted (`FilesCounted`) and
a saved block stays loadable (`KeptInBuffer`), also across a clean close and a restart. With it
it is not: a block can be lost although its write succeeded (`Kept`). `IndexBacked` and `FilesCounted` are the parts of `FilesIndexed`, `SizesExact`,
`OvershootBounded` and `HotBounded` those of `SizesRight`.

### BoundarySnapshots

The snapshots of non-sliceable layers that a chunked prefill takes at block boundaries. The
executor captures, saves and reads; the store's writer thread takes items from a bounded
queue, writes a temporary file, renames it and drops the buffered copy, each an action of its
own. A snapshot carries the attempt it belongs to and the position of its state, which the
code cannot know, so `SnapshotsConsistent` (with `SnapshotsComplete` the parts of `SnapshotsSound`) can say that a snapshot found under a boundary is the state at
that boundary. Every engine uses the same directory and empties it at its start and stop
(`StartEngine`, `StopEngine`): `SnapshotsComplete` has this as its excuse.

### Services

Fifteen parts around the engines share no state with each other. `MCServices` is their union: its
first state chooses one of them and only that one moves, so that one run checks all.

* `Downloads`: a task is an attempt: a coroutine with a place (`attempt`), a thread that
  cancelling does not stop, and a poll. `unwinding` holds the coroutines that CancelledError will be thrown
  into at their next turn. The two downloaders of the code have this in the same form; their map entries are spread over both files.
* `MCPManager`: the manager's jobs (start, stop, reconnect) and the client's coroutines, with `lock` as the client's
  lock. Connections are numbered, so a tool list and a call remember theirs.
* `ServerManager`: the main thread (menus, dialogs), any number of health check threads, and
  the processes. `raced` is set when the main thread goes on while a check thread could still act: the field
  accesses of the two are then unsynchronised, and `ProcessesExplained` claims nothing.
* `AppUpdate`: the application process, its background thread, the detached swap script and the files they leave.
* `Benchmark`: the registry, one task per run, and event streams that *share* one queue per run. `robbed` marks
  runs whose model was unloaded under them.
* `ReplyText`, `ReplyStream`: a text is a sequence of pieces (prose, `<`, the rest of a tag, the prefix and the
  end of a bracket call), cut into chunks anywhere. `ReplyText` has both ways the code takes it
  apart, bit by bit and at once; `ReplyStream` the four API handlers around them, with the client.
* `ResponseStore`: what is kept in memory, in least-recently-used order, and on disk, with file operations that fail,
  crashes between a file and its evictions, and restarts that order by creation time in seconds.
* `AdminSettings`: an update is one coroutine that changes memory and the running server section by section, awaits while
  models are unloaded or the memory enforcer stops, and validates and saves last. Other admin requests
  run while it waits. `drift` names what a failed save, a race, a rediscovery or an empty list of directories left
  different, and each part of `SettingsAgree` names the drifts it allows. The empty list was found by the proof: after an update with
  no directories the settings mean the one under the base path and the pool has no models (`routes.py:299`). The panel does not send one.
* `ModelCatalog`: directories, entries, per-model settings with their file, aliases and the default model. What awaits is a request while its
  model loads and a reload while models are unloaded; `entryOf` holds the objects, as in `EnginePool`.
* `Conversation`: a conversation grows message by message, and every prefix of it is converted for each API and kind of
  model. A part is known by its place in the conversation, so `PromptFaithful` can say what became of it: nothing is lost
  (`NothingLost`), roles come in an order strict templates accept (`RolesAlternate`), the prompt continues
  the one before it (`PromptGrows`) and a response that continues a stored one is the same as all sent again (`ContinuedIsWhole`).
* `ThinkingBudget`: a step is one call of the logits processor and the token sampled from what it leaves. The sampler may take any token
  left, so a model that closes the tag itself, begins it, or opens it again is included.
* `Metrics`: counters in memory and in stats.json, where a save is opening, writing and renaming a temporary
  file, each of which can fail or be the last thing the process does. `StateFiles` puts it beside `ResponseStore`: `FilesSurvive` is `StoreConsistent` and `MetricsKept`.
* `WindowsCache`, `WindowsModels`, `TrayApp`: the Windows port's block cache (one thread, with file failures), its model table
  (threads whose lock is never taken, so that each access to the table is a step, and an iteration over it one that others can break off) and its tray
  application (a menu, threads that wait for the server, and processes). `WindowsPort` has the first two together: `WindowsMemorySound` is `WindowsCacheExact` and `ModelsTracked`.

## Runs

| run | checks | expected | what it shows |
|---|---|---|---|
| `free_queue` (`MCFreeBlockQueue.cfg`) | `ListIntact`, `ImplementsAbs` | pass | The linked list of free blocks, under every order of its five operations, stays intact and implements a sequence without repetition. |
| `paged_pool` (`MCPagedCache.cfg`) | `FreeListExact`, `RefCountExact`, `CachedSound`, `StatsExact`, `WrittenBySoleHolder` | pass | Two requests share, copy, release and free blocks of a pool that grows twice and runs dry: no block is lost, double-used, miscounted or found under a hash it no longer has. |
| `scheduler` (`MCScheduler.cfg`) | `RequestsTracked`, `TablesExplained` | pass | Three requests, two of them vision requests, of which the generator prefills two at a time, with aborts noted at any moment, an interrupted prefill, a cache corruption and one other error, each while scheduling or after it: every request is in one queue, once, or was lost by an error while it was scheduled, unless one waited with the uid of an earlier generator; the batch holds exactly the running ones, unless moreover a prompt was aborted before it was processed; block tables disagree with the pool only after a corruption or an error of step(). |
| `engine` (`MCEngine.cfg`) | `OutputsExact`, `AbortAllIsReported`, `OrphansExplained` | pass | A stream and a generate() call under disconnects, abort_all, a corruption and an error: no token is lost or duplicated unless the request was restarted, an abort_all is never reported as success, and orphaned requests arise in the ways that are named only. |
| `engine_live` (`MCEngineLive.cfg`) | `Answered`, `Finishes` | pass | Every client that stays is answered and every request leaves the scheduler, the second through a batch of one, unless an error lost the request while it was scheduled, under weak fairness of the executor, the loop and the coroutines. |
| `engine_pool` (`MCEnginePool.cfg`) | `LockDiscipline`, `MemoryExplained`, `OwnedExplained` | pass | Two clients, the enforcer, an admin task without the lock that unloads, changes the limit, the pins or the directories, or switches the enforcer off and on, and rediscovery: which of them make the memory account drift, that nothing else does, and that no step but a change of the limit brings the account above it. |
| `ssd` (`MCSSDCache.cfg`) | `SizesRight`, `FilesIndexed`, `KeptInBuffer` | pass | Saves, loads, evictions and close against the writer thread, with and without the hot cache, and two of: a failed write, a crash or restart, a file removed by another manager. The index never names a block that is nowhere, and without the hot cache no file goes uncounted and no saved block is lost. |
| `prefix` (`MCPrefixCache.cfg`) | `FilesTrustworthy`, `TablesHoldRefs`, `ServedByHashIsOwn`, `ImplementsPool` | pass | Two requests fetch, rebuild and store blocks of a pool of three under one lost file, refused block, failed save or lost snapshot, for sliceable and stateful models: references are given back exactly, files hold what their name says, a hit by hash serves the request's own KV, and the pool is used as PagedCache says. |
| `prefix_stale` (`MCPrefixCacheStale.cfg`) | `ServedOwnPrompt` | violation | The prefix index names blocks by id and does not learn that they are recycled: a vision request is served the KV of a text prompt that took over its block. |
| `snapshots` (`MCBoundarySnapshots.cfg`) | `SnapshotsSound` | pass | Two requests of one engine, prefilled in chunks, with aborts, a corruption or a disk error, a full write queue and a second engine that starts and stops in the same directory: every block boundary has a snapshot of exactly that state, and it is found again unless the other engine removed it. |
| `services` (`MCServices.cfg`) | `DownloadsConsistent`, `ConnectionsConsistent`, `ProcessesExplained`, `BundleWhole`, `LastWord`, `StreamMatchesWhole`, `FilesSurvive`, `SettingsAgree`, `CatalogAgrees`, `PromptFaithful`, `BudgetKept`, `WindowsMemorySound`, `TrayExplained` | pass | The services around the engines, each with its concurrent operations, failures and restarts: downloads, MCP connections, the macOS server manager and updater, benchmarks, reply streams, the limit on thinking, conversations, stored responses, metrics, settings and the model catalog, and the three parts of the Windows port. |
| `services_live` (`MCServicesLive.cfg`) | `WorkersGoOn`, `ClientsAnswered` | pass | Nobody waits for ever: queued downloads, crashed server processes, tool calls, benchmark panels, and engines whose client has gone. |

Constants are small sets of model values. Why they are enough:

* `MCFreeBlockQueue`: five blocks, three at the start: the list may be empty, have
  one, two and more members, and grow, so each pointer case (neighbour is a sentinel
  or not, both sides) occurs.
* `MCPagedCache`: four blocks growing from one by two (so that the last growth is
  capped), two requests, two hashes: sharing, copy on write, exhaustion and reuse
  all occur. Requests and hashes are symmetric and no liveness is checked there.
* `MCScheduler`: three requests, two of them vision requests, three seats of which the generator prefills two at a
  time: both batch-splitting conditions occur, a prompt can wait unprocessed in the generator when it is aborted, and
  an interrupted prefill can leave a request waiting with an old uid, so that both excuses of
  `RequestsTracked` are reached, and a request can be lost while another is already running. `MaxCorruptions` and `MaxErrors` bound the faults, `MaxTokens` the output. Two seats with two corruptions,
  so that retries run out, were checked once, with the same result.
* `MCEngine`: two clients, one of each kind, one corruption and one error, one
  `abort_all_requests`: every pair of racing coroutines occurs. `MCEngineLive` checks
  liveness with `MaxTokens = 1`, a retry, and a batch of one, so that the
  second request waits for the seat of the first.
* `MCPrefixCache`: three blocks, one of them the null block, so that two blocks are contended; two requests, each either
  a text of two blocks or a vision prompt whose text is the same as the first of them, so that prefixes are
  reused, extended and recycled; sliceable and stateful models; one trouble of any kind (`MaxTrouble`). Two larger instances take longer
  than a routine run and were checked once, with the same result: two troubles (2.0 million states), and a third prompt that is
  a prefix of the first (1.5 million).
* `MCEnginePool`: three models of which any one fits, two of the three pairs fit and one
  does not; two clients, one administrative task (it does one thing in a behaviour: unload, change the limit, a pin or the directories, or
  switch the enforcer, which then may start again); a limit that two models, one small one or any fit; one embedding model and two for
  batched engines; two objects per model, so that a model can be loaded again after an unload. The clients
  and the two larger models are symmetric. Each client makes one call.
* `MCSSDCache`: two blocks of which the hot cache and the size limit hold one each, a queue
  of one, so that every save evicts and the queue fills; sizes such that the estimate
  differs from what is written; two effective limits, because the free disk space changes;
  two disturbances (`MaxTrouble`) out of restart, failed write and foreign removal, at most one of them a restart
  (`MaxRestarts`). With two restarts, checked once, the result is the same (2.1 million states).
* `MCBoundarySnapshots`: two requests prefilled in chunks over two block boundaries, one fault of each kind, a
  write queue of one, and one more engine that starts and stops in the directory.
* `MCServices`: two tasks over two repositories (so a retry meets its predecessor); two MCP servers, one of them
  disabled, two sessions each, one failure; three server processes, two check threads, one automatic
  restart; three launches and updates; two benchmark runs with two readers, one model and one test, so that each can rob the other (the batch
  test is in `MCServicesLive`, and `BenchmarkLastWord` is proved for any number of both);
  replies of up to two tokens after an opening with a complete thinking block or call, in chunks cut anywhere; three responses in a store
  of two, one failing file operation and one restart; two starts of the server and two updates of its settings, out of six bodies that
  are accepted, refused or invalid, and one failed save or disconnected drive; two models, a vision and a text model, of which one directory
  name is also an alias; conversations of four messages in every format; budgets of 0, 1 and 3 and closing tags of
  one and of two tokens, with and without line ends; two models counted, one failing file operation and three starts; three blocks of two sizes
  in a cache of two; three Windows models, one of them pinned, under a limit of one, with two threads that load each once or one of two twice, or two threads and
  the monitor with two loads; three processes of the tray application and two threads that wait for the server. `MCServicesLive` has a smaller part of this.

`CHECK_DEADLOCK FALSE` appears in the configurations of `Engine`, `EnginePool`, `SSDCache`, `BoundarySnapshots` and the services,
because the system really stops there: when every client has been served, the cache is closed for the last time, the
last request is prefilled, or the processes and launches of a service are used up, nothing is left to do.

### Fairness

`FairSpec` of `Engine` assumes weak fairness of the executor (a dedicated thread), of
the engine loop and of each attached client's coroutine (the event loop runs what is
ready). Nothing else is fair: clients need not come, nor disconnect, and no fault has
to happen. Faults are bounded, so a fair behaviour has finitely many; without a bound
a scheduler that raises for ever answers every client with an error, and the ones
that matter here are those whose answers get lost.
`services_live` assumes weak fairness of the coroutines of downloads and benchmarks (the event loop runs
what is ready), of the timer of an MCP call, of the health check threads and the answer to a dialog, and of the poll that looks for a
disconnected client. Hubs, MCP servers, server processes, the user and the engine owe nothing, except that a download which
has written something ends or is declared stalled, and that a live engine answers a benchmark.
`WorkersGoOn` and `ClientsAnswered` are conjunctions: each part concerns one service, and in a behaviour only one service moves, so the others hold there because nothing waits.

The other runs assume no fairness: they check safety.

### Disagreements found

A run with expectation "violation" checks one statement of the code's own comments or
documentation and shows a behaviour of the code that contradicts it. The findings in
`PROJECT.json` quote the statement; in short:

| run | at | what |
|---|---|---|
| `prefix_stale` | `omlx/cache/prefix_cache.py:1914` | fetch_cache says 'Find cached prefix blocks for the given tokens' (src/omlx/cache/prefix_cache.py:238). _update_prefix_index stores block ids under hashes, entries are dropped only by clear() (src/omlx/cache/prefix_cache.py:1979), and a hit (src/omlx/cache/prefix_cache.py:1875) is not checked against what the ids hold now. The run loses the file of a vision prompt's block; the next request for it forgets and frees the block, a text prompt takes it over and stores its own KV there, and the next vision request, whose hash is found nowhere, falls back to the index and is rebuilt from the text's KV, without the image. A block of an entry that is not allocated at all is skipped (src/omlx/cache/prefix_cache.py:283), which leaves a gap instead. |

Other disagreements were met while reading and are plain from the code, so no run
is kept for them:

* `step` discards the generator on an interrupted prefill but keeps the uid maps
  (`scheduler.py:3488`), so with two vision requests in the queue an old uid can name a
  sequence of the next generator: an abort then takes that request's mapping away, and it never gets a token again.
  `RequestsTracked` counts this as the first of two ways (`"uid"` in `faults.strayed`).
* Vision embeddings are released after the first token (`scheduler.py:2968`) although a
  reschedule prefills the request again.
* `fail_all_requests` (`scheduler.py:2745`) forgets requests without releasing their blocks.
* After a corruption recovery cleared the pool, a request that was waiting still carries its old
  table, and its abort or end releases blocks of the new pool (`scheduler.py:2687`).
  `TablesExplained` counts this and the previous as the only two ways, besides an abort under an old uid, which raises.
* `abort_all_requests` also notes the abort of a request whose `add_request` is still queued behind a
  running step (`engine_core.py:348`); the step drops it as unknown, and the request starts afterwards.
  `OrphansExplained` counts it as the second way.
* When no boundary snapshot can be loaded back, `_get_boundary_store_override`
  (`scheduler.py:2037`) falls back to the full sequence: the last full block is stored with the layer
  state at the end of the sequence, which may be later than the block (`beyond` in `PrefixCache`).
* `store_cache` looks for a block to share without the image key (`prefix_cache.py:434`), so a vision
  prompt stored after the same text shares text blocks under a hash its own lookup never computes.
* "ALWAYS clear request entry to prevent memory leak" (`scheduler.py:3304`) clears
  `_request_tables` of the prefix cache; `request_tables` of the pool keeps the table of each request that ended.
* A stream whose request is restarted gets the tokens of both attempts
  (`scheduler.py:3427`).
* A client that leaves while `add_request` is awaited leaves its request behind
  (`engine_core.py:475`); `OrphansExplained` counts it as the first of three ways.
* The abort of a waiting request whose uid of an earlier generator lost its mapping to another's abort raises in `del` (`scheduler.py:2678`): the request has left the queue, so
  `fail_all_requests` does not find it, and it stays in `requests` for ever. It is the third way of
  `OrphansExplained`; it takes three requests, and the attempt to prove the invariant with two ways found it. `Finishes` does not hold with it: the batch of one of its run excludes it.
* With `completion_batch_size` below `max_num_seqs`, aborting a request whose prompt the
  generator has not processed yet leaves the prompt there (`scheduler.py:2601`). `RequestsTracked` counts this as the second way (`"prompt"`).
* A client that was given an engine starts it again after another load evicted it
  (`engine/batched.py:296`): the model is in memory, not counted and not evictable.
  `AccountExplained` counts it as one of five ways.
* Disabling the memory limit while a load evicts makes that load fail with a TypeError (`engine_pool.py:400` compares with `None`).
* Switching the enforcer off while it stops an embedding engine leaves the stopped engine in its entry, counted, until it is evicted
  (`engine/embedding.py:85`, `process_memory_enforcer.py:143`); meanwhile `get_engine` hands it out, and `embed` raises.
* The TTL check sees requests of a `BatchedEngine` only (`engine_pool.py:684`): a vision or embedding engine can expire while it generates.
* Each eviction from the hot cache writes the block again, also when its file exists
  (`paged_ssd_cache.py:642`). On Windows `os.rename` does not replace a file
  (`paged_ssd_cache.py:873`): the write fails and its handler deletes the good file.
  `Replaces = FALSE` models this.
* Without the hot cache, a save of a block that was evicted while its write was queued
  is answered True from the read buffer (`paged_ssd_cache.py:952`), and the writer then drops
  the block. `_hot_cache_total_bytes` counts removals from that buffer but no additions, so the
  reported size goes negative.
* With `stream_interval` above 1 the outputs between two sends are dropped
  (`engine_core.py:196`).
* `evict_block_permanently` (`paged_cache.py:1500`) appends a block that may already be
  in the free list; only loops that nothing in the server calls would call it.

These statements are in the modules too, and TLC refutes them when they are put in a configuration:

* `EvictableIsReclaimable` of `PagedCache`: "ref_count: Reference count for sharing (0 = can be evicted)". A block released for
  eviction (`paged_cache.py:695`) is never allocated again.
* `AllAreFailed` of `Scheduler`: "Fail all requests and remove from scheduler" (`engine_core.py:225`). A request that `_schedule_waiting` has taken
  from the queue (`scheduler.py:2807`) when its sampler or its insertion raises (`scheduler.py:2893`, `2903`) is neither waiting nor running, and
  `fail_all_requests` (`scheduler.py:2745`) fails only those: it stays in `requests`, and its client is not answered. After a cache corruption that comes up
  there the retry misses it as well. `RequestsTracked`, `Answered` and `Finishes` count this (`faults.lost`).
* `LimitApplied` of `EnginePool`: "If current usage exceeds new limit, unloads LRU models until within limit" (`admin/routes.py:361`). A model that is loading when the
  limit is lowered is not loaded yet, so nothing is unloaded for it, and it is not checked again.
* `NobodyStranded` of `EnginePool`: "This aborts any in-progress requests" (`engine_pool.py:450`). stop() ends the
  engine loop and signals no collector or event; a client awaiting its output waits for ever.
* `Kept` of `SSDCache`: "The block is immediately available for reads" (`paged_ssd_cache.py:952`). With the hot cache, a failed read between
  eviction and write forgets the block, whose file then arrives unindexed.
* `OneAtATime` of `Downloads`: "only one download runs at a time" (`hf_downloader.py:585`). The thread of a cancelled download goes
  on while the next one fetches.
* `StopIsFinal` and `StableRunForgiven` of `ServerManager`: a stop during the back-off of an automatic restart is overtaken by
  it when the thread is already launching (`server_manager.py:186`), and `_last_healthy_time` is renewed by every check, so that the
  restart counter is not reset after a stable run but after a start that took a minute (`server_manager.py:163`).
* `CompletedCanBeContinued` of `ResponseStore`: "Store for future previous_response_id usage" (`server.py:3588`). A client that closes the
  stream at `response.completed` has a response that was never stored.
* `FileStartsAgain` of `AdminSettings`: "Validate settings" (`cli.py:126`, `admin/routes.py:1997`). An update is validated after it has changed the settings in
  memory; a refused one stays there, the next save of anything (`routes.py:1004`) writes it, and the server does not start again from that file.
* `DownloadsAreFound` of `AdminSettings`: "Re-discover models when a HuggingFace download completes" (`server.py:1116`). The rediscovery looks in the directories
  the callback was made with, after the settings have others.
* `TTLChecked` of `AdminSettings`: "enforcer already includes TTL checks in its polling loop" (`server.py:311`). An enforcer that is switched off or made
  anew by a settings update leaves nobody checking the TTL (`admin/routes.py:415`).
* `PinsKnown` of `ModelCatalog`: "Never evict if True" (`engine_pool.py:59`). A pin set while the models are reloaded is confirmed, saved and unknown to the pool.
* `NoOpAfterClose` and `ReentryCounted` of `ThinkingBudget`: "then becomes a no-op for the rest of generation" (`thinking.py:206`), "Detect
  re-entry into thinking" (`thinking.py:312`). After a forced close the tokens of the tag stay forbidden, for a tag of several tokens ordinary ones among them; the
  branch for re-entry is in a phase in which it is not reached.
* `DirtyIsWritten` of `WindowsCache`: "Write dirty blocks to disk before evicting" (`paged_cache_windows.py:264`). `np.save` appends `.npy` to the
  temporary name, so that the rename fails and no dirty block is ever written.
* `ImagesPassThrough` of `Conversation`: "Pass through image content for VLM" (`responses_utils.py:168`). The Responses API puts the text "[image]" in the
  place of an image, for every model; `Unused` counts those images as left out.
* `PinnedStay` and `MinimumKept` of `WindowsModels`: "Pinned models won't be evicted" (`memory_manager_windows.py:72`), "Always keep at least 1 model"
  (`memory_manager_windows.py:55`). A pin does not stop an eviction that has chosen its victim, and two threads each count the model the other evicts, as
  the lock is never taken. For the same reason a thread that iterates over the table (`memory_manager_windows.py:245`) can raise while another changes it, and
  the table then stays above its limit until the next registration: `LimitKept` counts this (`brokeOff`).
* `ExitStopsServer` of `TrayApp`: "Stop server if running" (`tray_app.py:326`). Leaving during the start, before the first answer, leaves the server.

And these were met in the services:

* ModelScope downloads promise the removal of a cancelled download's directory (`ms_downloader.py:462`); it happens
  only if the thread ends before CancelledError arrives.
* A reconnect does not take the manager's lock. One that overlaps `stop()` and fails after connecting leaves its client in state ERROR with an
  open session, which the next `start()` replaces without closing it (`mcp/client.py:203`); `ConnectionsConsistent` speaks of the
  behaviours without such an overlap.
* A failing `refresh_tools` that comes late empties the tool list of a newer connection (`mcp/client.py:316`); `reconnect`,
  `refresh_tools` and `ToolExecutor` have no callers today.
* A `start()` from ERROR leaves the earlier check thread at work (`server_manager.py:334`); quitting in ERROR
  leaves a live server process.
* Opening the application while the swap script waits removes the bundle it is about to move (`updater.py:61`).
* Two benchmarks unload each other's model, and those of users, without the pool's lock (`benchmark.py:622`); a second
  reader of a benchmark's stream waits on keep-alives for ever once the first took the last event.
* Reasoning after content gives two Anthropic blocks the same index, reasoning without content followed by tool calls leaves a gap, and
  an engine error leaves blocks open (`server.py:2437`). `BlocksNest` speaks of the other replies.
* A streamed request without tools shows call markup, the same request without streaming parses it; markup that does not
  parse is hidden in the stream and shown in the whole reply; a reply that is only calls is shown with its markup by the Anthropic
  handler (`server.py:2866`).
* A reply that ends in `<` loses it when there are tools (`tool_calling.py:670`), and of two bracket prefixes inside each other the
  first is shown (`tool_calling.py:525`).
* The Responses API makes `output_text.done` again from the whole text (`server.py:3376`): with an unclosed
  `<think>` it differs from the deltas. If the engine yields nothing, `output` is unbound there.
* Evicting a middle response makes its successors unusable (409); a delete whose file cannot be removed answers 500 and the response
  is back after a restart (`responses_utils.py:478`).
* The writer thread of a snapshot store is never shut down (`boundary_snapshot_store.py:86`): one leaks for each engine; a
  failing mkdir kills it (`temp_path` is unbound in its handler); each engine start removes the snapshots of the engines that run, as
  their directory is shared.
* Settings: a limit given to an enforcer that is being stopped is lost; a failed save of a new main key keeps the key; a failed write leaves a
  truncated settings.json, and the next start uses defaults; saving drops model directories on drives that are not connected, and persists values
  from the command line and the environment; new directories that fail leave the pool empty, and sending the old ones again does nothing, as
  they are those of the settings; an update can make the main key equal to a sub key; changed cache settings miss a model that is loading
  (`engine/batched.py:164`). `SettingsAgree` counts those that make its parts differ.
* Models: taking the default mark away, deleting the model or changing the directories leaves the server's default as it was, and the first
  downloaded model is no default until a restart; a failed save of per-model settings keeps the change in memory; a request that falls back to
  the default model runs without that model's settings; `force_sampling` forces only four of the sampling parameters; an alias that is the name of a directory found
  later is shadowed by it.
* Messages: for a harmony model the messages API drops the tool calls of two answers in a row but the first's, and puts the user's text before tool
  results; two messages in a row of which one has an image raise TypeError; a response that continues a stored one gets
  later instructions before earlier ones. `PromptFaithful` leaves these out by `CallsJoined`, `ImagesJoined` and `Instruction`.
* Metrics: counters that were cleared come back at the next start if their file could not be removed.
* Windows: eviction under pressure drops dirty blocks without the attempt to write them; a model's callback can be called twice; the tray loses a process that is started over,
  shows "running" after a failed stop or an answer that a stop overtook, and never reads the output it pipes, so that a talkative server blocks; `DirectMLEngine` streams with a field
  `new_text` that its output type does not have.

## Proofs

The first half of `PagedCacheProofs` proves `QueueCorrect` of the free list: for every number of blocks and every
order of the five operations, the list is intact. The invariant `Intact(q)` says that
some sequence `s` of distinct blocks is *spelled* by the links (`Spells(q, n, s)`: the
head sentinel points to `s[1]`, each member to the next, the last to the tail sentinel,
and the same backwards), that its length `n` is the counter and that blocks outside `s` are
unlinked. One lemma per operation says what it does to the spelled sequence
(`SpellsAppendBlock`, `SpellsRemove`, `SpellsPopLeftN`, ...), which makes the
induction step a case split. `ListIntact`, which TLC evaluates over all sequences up to the size of the
pool, is equivalent (`IntactIsListIntact`), because distinct blocks are no more than there are (`SpelledLength`).

The list also implements the sequence that its owner relies on (`QueueImplementsFreeList`): it refines `AbsFreeQueue`. The mapping
is `Order`, what a walk along `next` collects. It is a recursive function, so the proof shows that the prefixes of the
spelled sequence satisfy its equation (`FirstOfOneMore`) and that nothing else does, by a least place where two such functions differ (`SpelledOrder`).
Then each method is the abstract operation because of what its lemma says of the spelled sequence and what `SubSeq`, `Append` and `\o` do
(`TakeIsDropped`, `TakeOutIsWithout`, `ReturnIsAppended`, `ReturnRangeIsExtended`).

The second half proves the six properties of the pool for every pool size, growth
step, set of requests and set of hashes. The inductive invariant

    Inv == TypeOK /\ Pool /\ Owners /\ RefCountExact /\ CachedSound /\ StatsExact

strengthens the properties twice. `Pool` replaces "the free list is exactly the
blocks not allocated" by the existence of the spelled sequence with that range (the
list lemmas speak of it), and adds what makes a free block harmless: no count, no hash. `Owners`
says that only allocated blocks are held, without which `RefCountExact` is not
preserved when a block is popped. There is one lemma per action; `Taken` is shared by the
four that allocate. `WrittenBySoleHolder` is an action property, proved from `Inv`.

`PrefixCacheProofs` proves that the prefix cache implements the pool (`PrefixImplementsPool`): every
step of a call is a step of `PagedCache` or leaves the pool alone. Therefore `RefCountExact` and
`CachedSound`, proved once for all clients of the pool, hold under the prefix cache
(`PrefixRefCountExact`, `PrefixCachedSound`). The invariant is

    PrefixInv == Inv /\ ClientInv

where `ClientInv` says that tables, index entries and jobs name blocks and requests, and that
`store_cache` stays within the sequence it stores (`StoreFits`), without which the unit it hashes next
would not exist. There is one lemma per action (`FetchStep` ... `StoreEndsStep`); `MaxExists` gives the
maximum that walk back, the index and the boundary override take. 
Whose data is served takes four more layers, each with a lemma per action. `RefsInv` says what references each request holds: those of its table, and while it
drops or releases blocks those of the blocks that are left (`RefsOf`). No table lists a block twice, and the blocks that `reconstruct_cache` frees are disjoint from those
it keeps. With the pool's `RefCountExact`, `PrefixTablesHoldRefs` follows by counting. `FitsInv` says that data was loaded for the whole table whenever no call is under way, and `SavedInv` that every
allocated block has a hash but the one `store_cache` has taken and not registered yet. That one has no other owner, which makes taking it back safe, and what can be found was saved
(`PrefixFoundWasSaved`).

`TruthInv` is about the data (`PrefixFilesTrustworthy`, `PrefixServedByHashIsOwn`): a file under a name tells the truth, what was loaded from a block is what the name of the
block says (`LoadedFrom`), the blocks a lookup found carry the request's names one after the other (`Found`), and a request that is stored has its own data and a chain of names
(`Chained`). The delicate step is `store_cache`'s lookup without the extra key: it can put a text block under a vision prompt, so the names in a table need not be those of the request.
`Chains` says what they may be: the request's own; text only, in a request without text blocks; or a name nobody looks up. Such a name is never completed to one that is looked up, because the names that are
(`Names`) are closed under prefixes and each has one extra key throughout (`NameParts`). That every block of a request is hashed with the same extra key
(src/omlx/scheduler.py:2457, 3260) is therefore an assumption of the theorem; prompts that mixed them would break it.

`EnginePoolProofs` proves the three invariants of the pool, for any models, sizes, clients and administrators. The first is about the lock
(`PoolLockDiscipline`). `LockInv == Queue /\ Jobs /\ Loads` says who waits for the
lock: exactly the tasks inside `get_engine`, the enforcement or the TTL check (`Queue`), never an administrator whose unload
interleaves with theirs without it (`Beside`); an unload goes back to where it was called (`Jobs`), so that only the head of the queue goes on to
load; and a loading flag belongs to a client that is loading that entry (`Loads`), which every step that replaces entries must respect.
`QueueKept`, `QueueJoined`, `QueueReleased` and, for an enforcer that is cancelled wherever it waits, `QueueLeft` are what an action may do to the queue; each action's lemma cites one of them.

The memory account (`PoolMemoryExplained`, `PoolOwnedExplained`) adds `PoolInv` to it. Whatever has drifted, types and places hold (`Tasks`), and a client that
evicts asks for a model that is not loaded (`Unloaded`), without which the model it loads at last could be counted twice. As long as nothing has
drifted, `Account` holds: engines in memory and current entries with an engine are the same (`Owned`, `Current`), no two unloads stop the same
entry and what they stop is still current (`Stopping`), a load has an engine of its own and an empty entry (`Starting`), and the account is
exact (`MemoryCounted`). Each of the five events that set `drift` breaks one of these parts. That no step breaks the limit
is a property of steps, with one lemma for each kind: most add nothing to the account or to what is due (`NothingAdded`), a load that is done adds what it was due
(`LoadDoneRespectsLimit`), and a client comes past the check only where account and model fit (`CheckedRespectsLimit`); that only one client at a time is past it
(`OthersNotPast`) is the lock's doing.

The same module proves that the block cache and the model table of the Windows port are sound (`WindowsMemoryIsSound`, in two lemmas). The blocks that make room are the first of the order of use and as many as are needed, so
what stays is a suffix of the history, and it fits or is one block; no block comes back from its file, because none ever has the name that is looked for (`NothingToRead`, the
disagreement above). Of the table of models, the limit is a debt of the threads that are about to look again, or was given up by one that raised (`LimitEnforced`), and a leak must be
explained before the model leaves the table, from the step on that begins its eviction (`DropsExplained`).

`SchedulerProofs` proves `RequestsTracked` and `TablesExplained`, for any requests, batch sizes and bounds. `SchedInv` has parts of three strengths. `Queues` (what is known is queued, running or lost by an error), `Counters`,
`Numbered` (the generator numbers its sequences from zero, so a new one is not taken) and `Caches` hold whatever happens. `Located` (each request is in
a queue, the maps agree about the uid of each running one, and a waiting one has a uid only while there is no generator) holds until a request waits
with a uid of an earlier generator, `Served` until moreover a prompt is aborted before it was processed. This is how the two excuses
were found: the properties were not inductive without them, and TLC then reached both. The number of requests bounds the
numbering (`generator.count <= Cardinality(arrived \ Waiting)`), so that types hold without a bound that the code does not have. `Stays` says what leaving requests
leave of a queue; it is proved by counting, not by induction.

Around it, `EngineInv` proves the three invariants of the engine (`EngineOutputsExact`, `EngineAbortAllIsReported`, `EngineOrphansExplained`). What it needs of the scheduler is
`CoreInv`: a generator has one sequence for a request (`OneSequence`) and a step one output (`StepOutput`); and `StepEffect`, what a step tells the
engine of each request it did not restart. `ClientOf` says what there is of a request, from where its coroutine is (collector, queued task, tokens). `SignalsOf` is the delicate part: a last output
or an event means that the request has left the scheduler, or that `abort_all_requests` signalled it, and an undelivered output never meets a collector that
holds a last output without an error; so the merge cannot undo an end, and a signalled client keeps its error whatever is delivered
later. `TokensOf` is the count: a token is received, in the collector or not delivered yet. One lemma for each action; those of the clients rest on `OneClient` (one client acts, the loop does
not), those of the loop on `LoopSends` and `PutOne`, those of the executor on `ClientsKept`.

The same module proves that thinking stays in its budget (`ThinkingBudgetKept`). While the
processor counts, its window is the last of the tokens but one (`WindowKept`) and no tag has ended among them; what it forces stands behind the tokens that were free (`ForcedPart`). The last token of a
tag comes once in the forced sequence, so a tag that the model had begun cannot end within it (`EndsOnce`).

`BoundarySnapshotsProofs` proves `SnapshotsSound` (`BoundarySnapshotsSound`), for any requests, engines, sizes of blocks and chunks, disk errors, aborts, corruptions
and restarts of engines. `SnapInv` has seven parts. That a prefill stops at every boundary is arithmetic: `NextStepStops` shows that a chunk leaves the last token and
jumps over no multiple of the block size, so that the snapshots of a request are those of the boundaries up to where it is (`Captured`). That a marked snapshot is
found is about the order of writes: in its first attempt a request has each token count written once, and what is not written yet is buffered (`FirstWrites`); in a later one a late
write of the same key may drop the buffered copy, but then its file is there, and the rename of the next write succeeds
(`Findable`), unless the disk fails. This is why the property excuses a fault after a retry, and nothing less. `SnapshotAssumption` says that `None` is neither a
snapshot nor a place of the executor, and that the part of a prompt that is cached is whole blocks.

`SSDCacheProofs` proves the three invariants of the SSD cache (`SSDSizesRight`, `SSDFilesIndexed`, `SSDKeptInBuffer`), for any blocks, sizes, limits and queue, in both modes, with
any number of restarts. `SSDInv` has nine parts. `Shapes` and `Thread` say what the places of the two threads mean for what they hold; `Levels` which of its
files a block is written to. `Sizes` has the sums, and the bound of the index in an inductive form: what an entry's size exceeds
its estimate by (`Growth`) is set apart (`Basis`), as the writer adds it after room was made. `Trail` follows a block to its file, in both modes: the last write queued
for an indexed block is for the file the index names (`LastQueued`), and when the writer leaves or removes a file, that block has another or
one queued (`LastWritten`). Without the hot cache more is known: the buffer holds exactly what is queued or being written (`BufferExact`), no block has two
complete files (`FilesOnce`), none goes uncounted (`Accounted`) and what was promised is there (`BufferKept`). There is one lemma for each action.

`ServicesProofs` is about ten services, in a section each. *Downloads* (`DownloadsAreConsistent`): the strengthening is about
what a cancellation leaves behind: whoever was cancelled, stalled or shut down has an attempt that is unwinding or done (`Ended`), so that no
code of it runs before `CancelledError` arrives; a live attempt can be reached, and only ended tasks leave the list (`Known`); `Stages` says how
far an attempt, its task and its thread can be apart. *Updates* (`AppBundleWhole`): `UpdateInv` adds to `BundleWhole` what the thread and the script know of each other: while the
script works no application runs, and the thread is past the check of the staged copy only if the copy is complete, unless the
application was opened hastily. *Tray* (`TrayIsExplained`): `TrayInv` adds that an answer which no stop has overtaken is one of a
process that is alive or ended by itself (`AnswersStand`), and that leaving has nothing to stop, or was answered late (`LeavesSafely`).
Starting is the delicate step, because it gives the old handle up (`replaced`). *Metrics and responses* (`StateFilesSurvive`, in two lemmas):
`MetricsInv` adds `Renamed` to `SavedExactly`: a temporary file
that is about to be renamed is the document the save wrote, so that the rename, wherever the process ends around it,
replaces one whole document by another; `TotalsAgree` adds that what is on file has totals that are sums, so that a start gets such. Of the stored responses `HistoryWhole` is not
inductive: a request that a crash ended is refused, but its response may be in a file and be continued after the restart, so `HistoryKnown` is about
all that are stored. `TurnsInOrder` says that a response follows an earlier one, which has been used, and is stored only once its request has ended. Then a chain that ends at
a response without predecessor is the history of its last one with that one appended (`ChainIsHistory`), by the least response for which it were not. How far memory
and directory are apart is counted by set differences, which each failing operation widens by one response at most (`PutFacts`).
*MCP* (`MCPConnectionsConsistent`): a job at a client still has that to do (`LockSound`), `start()` and `stop()` hold the manager's lock (`Jobbing`), and a
client that is about to open a connection has none (`Unconnected`). The last is false when a reconnect overlaps a stop, which is how that disagreement was found.
*Server manager* (`ServerProcessesExplained`): only the last check thread and the last process are alive (`OneOfEach`), and what the status says is what that thread will do
(`Starting`, `Resting`, `Watching`, `Joining`), as long as no two threads race. *Benchmark* (`BenchmarkLastWord`): where the task of a run is
says what it has measured (`Measured`) and what its status is (`StatusOf`). *Settings* (`AdminSettingsAgree`): the next start reads the file, so
`SettingsInv` says what a file that can be read is worth with or without a server (`FileKept`: the sub keys granted, the secret of the sessions, a host
that goes with its exception), that no session was signed before there was a secret (`SecretMade`) and where an update that
waits stands (`UpdatesWait`). *Catalog* (`ModelCatalogAgrees`): a reload or a restart puts the file in the place of memory, so `CatalogInv` has names unique in
both (`GoodPrefs`); the pool has the models that are found; a reload that waits still knows the pins of the models that did not change
(`ReloadPins`), and the name of a request that waits still means its model (`WaitingNamed`).

`DataTheorems` has what these proofs need of sequences, sums and maxima, about the operators of the community modules: what `RemoveFirst`, `Append`, `Tail`, `\o`, `SubSeq` and
`Reverse` do to sequences without repetition, and that `MapThenSumSet` is a sum (`SumOverFacts`, `SumOverSplit`, `SumOverBound`). The library defines it by a `CHOOSE` over
recursive functions, so the lemmas first show, by a smallest counterexample among the subsets (`SmallestSet`), that such functions exist and agree. In the same way
`RecursionExists` gives the recursive functions over numbers that `Chain` and `TouchChain` of `ResponseStore` are defined by.

Assumptions: `HashesClosed`, a hypothesis of the theorems of `PrefixCacheProofs`: appending a block to a hashed
sequence gives a sequence with a hash. It needs infinitely many hashes, so TLC's instance, which has only the hashes of its prompts, does
not satisfy it; there the run checks `ImplementsPool` and the invariants themselves. `PrefixAssumption` (the hashes of prompts are
sequences of units, and the blocks of a prompt share one extra key) and `PagedCacheAssumption` (positive pool size and growth, finite set of requests) are
named in the modules and evaluated by TLC in every run. `AdminSettingsAssumption` says that the environment and the command line set no sub keys, no secret and
no exception for localhost, which `_apply_env_overrides` and `_apply_cli_overrides` never do, and `CatalogAssumption` that a request pins or unpins with a boolean, as its type says. `ThinkingBudgetAssumption` says that the last token of a closing tag is not among its others, nor among the line breaks that `_resolve_think_close_pattern` finds around it: it has the only `>` of `</think>` and `</longcat_think>`. `EngineOutputsExact` has the hypothesis `StreamInterval = 1`, the default of `EngineConfig`, `BatchedEngine` and
the configuration (`engine_core.py:58`, `batched.py:44`, `config.py:89`); above it `should_send` drops tokens that are never sent (`engine_core.py:196`), and the property is false.


Liveness (`Answered`, `Finishes`, `WorkersGoOn`, `ClientsAnswered`), fairness and ENABLED are outside the
prover and are only model-checked. So is everything about the modules without a proof
module. `ReplyText` and `ReplyStream` use RECURSIVE operators, which are beyond the prover; the modules that
are proved about do not reach them.

## Not modelled

What is left out, and why nothing of it can be modelled faithfully, or why it would say nothing:

* **Tensor computation**: engines, vision encoders, embedding and reranker models, cache layer types, slicing and merging, sampling, the DirectML
  engine, patches of library functions. What of it decides control (a cache cannot be sliced, an error means corruption, a layer cannot
  be rebuilt) is a nondeterministic choice of the models that call it. mlx-lm's `BatchGenerator` is external, as `scheduler.py` uses it.
* **Code the server does not reach**: the tiered manager and the memory monitor's pressure callbacks, the
  eviction loops of `scheduler.py`, `evict_block_permanently`, `ToolExecutor`. Their reading is in the disagreements above.
* **Text whose form is all there is to it**: formatting of events, tool schemas and arguments, the Harmony adapter
  (states of an external parser), statistics, the pages of the admin panel, benchmark uploads, logging. In `ReplyText` and `Conversation` texts are pieces and
  parts, which is what the properties tell apart.
* **Pure I/O and user interface**: the macOS menus and windows beyond what they ask of the server manager and the updater, the packaging
  build, integrations (they write a client's configuration and start it), detection of hardware and platform, loading of images
  and tokenizers.
* **Of the modelled parts**: preloading of pinned models and the shutdown of the pool (`EnginePool` has their loads and unloads one
  by one); searching the hub and sizes of downloads; MCP tool names and configuration; the wall clock, where a timeout may fire whenever it is
  pending; uptime and averages of the metrics and the table of prefill progress, which are only shown.

Liveness (`Answered`, `Finishes`, `WorkersGoOn`, `ClientsAnswered`) is out of the prover's reach. Two invariants are model-checked only. `StreamMatchesWhole` and `PromptFaithful` are about what recursive
definitions compute: the parsers of `ReplyText`, on which `ReplyStream` rests, and the conversion of messages are recursive over their data.

