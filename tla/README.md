# A TLA+ verification of chunkhound

chunkhound keeps a searchable index (files, chunks, embeddings) of a source
tree. A filesystem watcher feeds a realtime pipeline, a directory scan
reconciles the whole tree, a serial executor owns the database connection, and
a daemon shares one index between several clients. This project models the
parts where the order of events decides whether the index is right, checks them
with TLC on small instances and proves the most important properties with TLAPS
for every instance.

Paths below are relative to `src/`; `realtime/` is
`chunkhound/services/realtime/`, `database/` is
`chunkhound/providers/database/`.

## 1. Inventory

| Component | State | Operations | What makes it hard | Correct when |
|---|---|---|---|---|
| Mutation table (`realtime/pipeline.py` 119-378) | `_pending_mutations`: one owner per (operation, path) | register, release, refresh generation, supersede, build a retry | an entry refuses all later work for its key | every entry is carried by a task or a queue; one change per file |
| Event intake (`realtime/events.py`, `pipeline.py` 42-54, 593-682) | `event_queue` (bounded), source generations per path | accept and number an event, drop it when the queue is full | watcher thread against loop; overflow | what is dropped is reconciled |
| Event consumer (`pipeline.py` 1039-1155) | `_recent_file_events` (2 s window), debounce tasks | suppress duplicates, debounce changes, queue deletes at once | an event is judged at consumption, numbered at acceptance | what is suppressed is redundant |
| Processing task (`pipeline.py` 1157-1637) | `file_queue` by priority, active changes, reserved follow-ups, delete batch, retry tasks | changes, batched deletes, embeds, directory cleanup and indexing, retries with backoff | each `await` lets events, debounces and retries in | at rest the index is the disk; it comes to rest |
| Resync (`pipeline.py` 593-752) | `_needs_resync`, request timestamp, dispatch task, overflow state | request, coalesce, run the callback, rerun, fail | requests during the debounce, the scan and its end | no request is lost; an overflow does not stay "reconciling" |
| DuckDB compaction (`database/duckdb_provider.py` 1186-1522, `database/duckdb/connection_manager.py` 188-237) | live file, backup, staged file | close, move aside, rebuild, swap, restore, recover at start | crash or failure between any two renames; failing restore | acknowledged writes survive |
| Serial executor and Rust hand-over (`database/serial_executor.py`, `services/rust_pipeline_runner.py`) | one thread, thread-local connection, guard flags | execute with timeout, disconnect, reconnect | guard test and submission are two steps; a timed-out call goes on running | one writer at a time |
| Service lifecycle (`realtime/service.py`, `realtime/startup.py`) | tasks, observer, start-up status | start, stop, fall back to polling | cancellation, events around a restart | a stopped service holds nothing |
| Monitor adapters, Watchman session (`realtime/adapters/`, `chunkhound/watchman/`) | subscription, session, sidecar process | subscribe, reconnect, report loss of sync | loss of sync, restart of the sidecar | a loss of sync leads to a resync |
| Indexing coordinator (`services/indexing_coordinator.py`) | transactions, locks per file | parse, store, remove | a scan and a realtime change of one file | the newest content wins |
| Directory scan (`services/directory_indexing_service.py`, `mcp_server/base.py` 996-1099) | scan progress | discover, process, clean up orphans | runs beside the realtime task | covers every file |
| Embedding service (`services/embedding_service.py`) | missing embeddings | batch, retry, insert | partial failure of a batch | every chunk ends embedded or counted |
| Daemon (`chunkhound/daemon/`) | lock files with PIDs, registered clients | discover, take over a stale lock, register, shut down after a delay | several processes; a late client | one daemon per project |
| Native pipeline (`src/src/pipeline/`) | threads and channels | walk, diff, parse, write | back-pressure, cancellation | terminates, loses no file |
| Path filter, parsers, search and research, embedding and LLM providers, MCP tools, configuration, CLI, generators | none shared, or read-only | - | text and I/O | - |

The components interact as follows. The watcher's thread calls
`call_soon_threadsafe`; the loop queues the event; the consumer turns it into a
*mutation* (change, delete, embed, dir_delete, dir_index) that the processing
task executes against the coordinator and the database provider. A provider call
can raise "busy" (a compaction or the native pipeline holds the database), a
transaction conflict, or anything else. A full event queue, or a watcher that
lost track, ends in `request_resync`, whose callback is the directory scan.
Compaction runs in the executor's only thread, and the native part of a scan runs
while the scan has closed both connections of the process. With the Watchman
backend the watcher is a private process (the sidecar) behind one socket session
per scope. Several editors share one daemon: each starts a proxy, which finds the
daemon through a lock file or starts it under three nested PID locks.

## 2. Modules

| Module | Contents |
|---|---|
| `RealtimeMutations` | mutations and the ownership table, as operators |
| `RealtimePipeline` | watcher, intake, consumer, sleeping tasks and processing task over that table |
| `RealtimeResync` | requests, dispatch task, overflow burst |
| `WatchmanMonitor` | sidecar, sessions, bridges, consumer, reconnect loop, start and stop |
| `DuckDBCompaction` | compaction, restore, recovery, crashes |
| `DurableStore` | the abstract store that `DuckDBCompaction` implements |
| `SerialExecutor` | the database thread, its callers, the hand-over to Rust |
| `PidLock` | the PID lock files |
| `DaemonStartup` | proxies, daemons and the stop command over `PidLock` |
| `...Proofs` | lemmas and theorems (`RealtimeMutation`, `RealtimePipeline`, `RealtimeResync`, `WatchmanMonitor`, `DuckDBCompaction`, `SerialExecutor`, `DaemonStartup`) |
| `RealtimeConvergenceProofs` | the theorems that follow work through `RealtimePipeline`: one change per file, generations, the index at rest |
| `MC...` | model values for TLC |

Definitions whose comment says *Mutant of X* are X with a plausible bug. They
are not part of the specification; each shows that a property notices the bug.

### RealtimePipeline

An action is one run of an asyncio task between two suspension points, which is
where the loop can switch tasks. `disk` and `wire` are the environment: the
content version of each path, and the `call_soon_threadsafe` callbacks that have
not run. The other variables carry the name of the service's field in their
comment.

| Actions | Code |
|---|---|
| `WriteFile`, `DeleteFile`, `MoveDirIn`, `MoveDirOut`, `AccessFile` | an edit, or an access that changes no content, and its report by `SimpleEventHandler` |
| `AcceptEvent`, `DropEvent` | `_enqueue_realtime_event`, `_record_accepted_event` |
| `SuppressDuplicate`, `ConsumeChange`, `ConsumeImmediate`, `ConsumeAccess`, `DedupExpires` | `_consume_events`, `add_file` |
| `DebounceElapses`, `RetryElapses` | `_debounced_add_file`, `_retry_mutation_after_delay` |
| `StartBuffered`, `StartQueued`, `StartDeletes` | `_process_loop` up to its first await, `_collect_delete_batch` |
| `ReadFile`, `FinishChange`, `ChangeBusy`, `ChangeError` | a change: `process_file`, its error handlers, `_drain_reserved_follow_up_change` |
| `DeletesApplied`, `DeletesConflict`, `DeletesBusy`, `DeletesError` | `_process_delete_mutation`, `_process_delete_batch` |
| `EmbedDone`, `PassBusy`, `PassError`, `DirCleanup`, `DirList`, `DirQueue` | embeds and directories |

Abstractions:

- A content is a version number, absent is 0; a generation of `None` is 0
  (`NoGeneration`), as real ones start at 1.
- `on_any_event` forwards every event type of a file (`events.py` 179-189), and the
  observer is scheduled without a filter (`startup.py` 812-816). `"accessed"` stands
  for the types no branch of the consumer is for, watchdog's opened, closed and
  closed_no_write: such an event is queued, numbered and remembered as the last one
  of its path, and leads to no mutation. A change of metadata is a `"modified"`
  without a new content. `AccessKinds` says whose accesses the backend reports: those
  of existing files, those of files already unlinked (a handle closed later, the
  indexer's own included), both (watchdog on Linux), or none of opening and closing
  (Watchman).
- Mutation ids are counted per key. The code compares ids only within a key.
- `file_queue` is a FIFO per priority: the queue orders by priority, then by
  arrival.
- Time is the possibility of `DedupExpires`, `DebounceElapses` and
  `RetryElapses` at any moment; the backoff delays and the shared delay of a
  batch are not kept.
- `process_file` is two steps: a parser worker reads the file, then a
  transaction stores what was read. The store of an unchanged content keeps the
  embeddings.
- An event that meets a full queue is only recorded in `dropped` here. What
  follows is `RealtimeResync`.
- Left out: counters and status text, `_pending_path_counts`, `pending_files`,
  the `scan` operation (nothing in the repository queues one), `stop()`, polling.

### RealtimeResync

`DropEvent` and `LoseSync` are the two sources of requests; a request is a task
of its own (`owed`) until `RequestResync` runs. `DebounceEnds`, `VisitFile`,
`CallbackReturns` and `CallbackFails` are `_dispatch_resync` and the scan it
awaits, which looks at the files one by one in any order. The timestamp of the
latest request is their number. `missed` and `unreported` are history variables:
the files out of sync for which a resync was, or was not, asked for.
`resyncCallback` is fixed at the start, because a service may have none.

### DuckDBCompaction

`live`, `backup` and `staged` are the three paths, each holding nothing, an empty
file, a database without tables, one under construction, or a set of writes.
Each rename, unlink or copy is an action, a step may raise (`CompactFails`), the
restore may raise (`RestoreFails`), and `Crash` is possible everywhere. The live
file stands for itself and its WAL, which `CHECKPOINT` has merged when the file
is moved. Renames and unlinks are atomic (POSIX). The handling of a corrupt WAL
is not modelled. `failedRestores` is a history variable.

`ImplementsStore` is the refinement: with `Served`, what a start at this moment
would serve (the live file, or the backup where recovery puts it back), as the
abstract rows, every step is a write of `DurableStore` or invisible, until a
restore fails, which the abstract store calls damage.

### SerialExecutor

The queue holds the operations submitted to the one thread; its head is running.
`reply` is what each caller has got. Three kinds of caller meet there:

| Actions | Code |
|---|---|
| `StoreBegins`, `StoreContinues`, `StoreEnds`, `StoreFails`, `StoreIsCancelled`, `RemoveBegins`, `RemoveEnds` | the writer: `_store_parsed_results`, `_store_file_record`, `delete_files_batch_async`; `NextOp` is the order of the operations |
| `ScanPublishes` ... `ScanAttached`, `ScanTimesOut`, `RustFinishes`, `ScanRaises` | the scan: `run_rust_indexing_phase`, `release_for_rust_pipeline`, `connect`; `run_rust_pipeline` up to its first await |
| `ThreadChecks`, `ThreadIsRefused`, `ThreadOpens`, `ThreadSubmits`, `ThreadReturns`, `ThreadTimesOut` | worker threads: embeddings, sampled compactions, `connect` for a tool |
| `Exec...`, `Compact...` | the `_executor_...` methods, one per operation, with `get_thread_local_connection` |

Abstractions:

- The database has one file: the version its record describes (`rec`) and the
  versions its chunks come from. One content yields one set of chunks, so the
  smart diff keeps the chunks of the version being stored and deletes the others.
- Writer and scan are tasks of one event loop. The scan's release and reconnect
  are synchronous calls, so the writer cannot run meanwhile (`EventLoopFree`);
  Rust itself is awaited, and the writer is resumed and refused then. When
  `run_rust_pipeline` raises before its first await (`ScanRaises`) the writer is
  resumed only after the flag is down. For the threads, testing the guard and
  submitting are two steps.
- A transaction is none, clean or dirty; CHECKPOINT fails on a dirty one, and the
  connection is closed either way. A statement outside a transaction commits.
- A compaction is begin, reopen and end; its file operations are
  `DuckDBCompaction`. `intruded` and `releaseFailed` are history variables; the
  second records a failed release and a `ScanRaises`.
- Left out: a second writer (the Python path of a scan), shutdown of the executor,
  read-only databases.

### PidLock and DaemonStartup

`PidLock` is a protocol of its own: `open("x")`, writing the PID, reading the
holder, unlinking and releasing are separate steps of each process and lock, and a
process may die between them. `owner` is who created the file at the path, `text`
whether its PID is in it. `DaemonStartup` extends it: its proxies take the
cross-runtime, the global and the starter lock by these very actions.

| Actions | Code |
|---|---|
| `Looks`, `Awaits`, `ErasesLock`, `ErasesSocket`, `TimesOut` | `_reuse_live_daemon`, `_remove_stale_lock_artifacts` |
| `Acquires`, `HasLock`, `IsRefused`, `Releases` | the nested locks of `find_or_start_daemon` |
| `Spawns`, `Polls`, `PollTimesOut`, `Terminates` | starting the child and waiting for it |
| `Connects`, `Registers`, `IsAnswered`, `SessionEnds` | `ClientProxy.run`, `_handle_client` |
| `Binds`, `Publishes`, `Validates`, `PassesBarrier`, `RemovesClient`, `TimerFires`, `Closes`, `HangsUp`, `RemovesLock`, `RemovesSocket` | `ChunkHoundDaemon.run`, `ClientManager`, `_graceful_shutdown` |
| `StopReads`, `StopWaits`, `StopCleans` | `stop_daemon`, `stop_pid` |
| `ProxyDies`, `DaemonDies` | a kill, anywhere |

Abstractions: one project and one runtime directory, so the registry finds no
conflicting daemon; Unix sockets; process identifiers are not reused (the code
compares start times in `stop_daemon` for that); an acknowledgement always
arrives or the connection ends; `poll_pids` and EOF are one action; the daemon's
lock file is written in one step. A daemon stops listening when it leaves `async with
server`; one whose barrier failed never enters it and can be connected to until its
process ends (`failUnlock`, `failUnlink`).

The start-up locks do not cover four things, and the model has them: two processes
take over the same dead holder's lock (`contested`); a starter dies while its
child is on its way; somebody removes the files of a live daemon, because what it
read is stale by then (`ErasesLock`, `ErasesSocket`, `StopCleans`); a daemon binds
while another one has not unlinked the socket yet. The last three are recorded in
`upset`. `Undisturbed` says that none has happened, and the properties about the
one daemon are conditional on it. The condition is not wider than it must be: with
any one of the four left out, TLC finds `LockExcludes`, `OneDaemon` or
`ServerIsFound` violated in the same instance.

### WatchmanMonitor

An action is what a task of the event loop does between two suspensions. A
session is none, live, cut (the other side has closed), dead (the reader has seen
it) or deaf (the reader has raised). `builder` is the one task that sets up
monitoring, `start()` or the reconnect loop; `cancelling` is a cancellation it has
not seen yet.

| Actions | Code |
|---|---|
| `Change`, `Recrawl`, `Cut`, `SidecarDies` | the file tree and Watchman |
| `Read`, `SeesEnd`, `ReaderFails` | `_reader_loop`, `_queue_subscription_pdu` |
| `Bridge`, `Consume`, `TranslationFails` | bridge and consumer tasks |
| `MonitorWakes`, `MonitorEnds` | `_monitor_unexpected_session_exits`, `_begin_reconnect_cycle` |
| `BuilderStops`, `BuilderClears`, `SidecarStarts`, `SidecarFails`, `SessionStarts`, `SessionFails`, `BuilderUndoes`, `BuilderEnds`, `RetryElapses` | `_clear_monitoring_runtime`, `_establish_monitoring`, `_run_reconnect_loop` |
| `Ask`, `ScanStarts`, `ScanReturns`, `ScanFails` | `request_resync` and `_dispatch_resync`, reduced |
| `Start`, `Stop`, `CancelArrives`, `StopWaits`, `StopperStops`, `StopEnds` | `start` and `stop` of service and adapter |

Abstractions: direct socket sessions (Unix); the bridges and the consumer are
cancelled together; the launch of the sidecar is one step; one life of the
service, from start to stop; polling, once active, sees every change; the resync
of `RealtimeResync` is reduced to a request, a running scan, `needsResync` and its
error. `missed` and `unreported` are history variables.

## 3. Runs

| Run | Shows |
|---|---|
| `PipelineConverges` | a file inside a directory that is moved out and in, file and directory edited in every order; the file opened, closed or touched while it exists; the database busy for changes. Whenever the pipeline rests without an error, index = disk (`QuiescentInStep`) and all indexed files are embedded (`QuiescentEmbedded`) (1.9 million states) |
| `PipelineFaults` | edits and accesses at any pace, also to unlinked files, an event queue of one, every fault: `PendingIsCarried`, `OneChangePerFile`, `ReservedIsDrained`, `DeleteRespectsGeneration` |
| `PipelineLiveness` | fair scheduling, accesses, a fault of any kind: every pending key is served, the pipeline comes to rest |
| `ResyncCoalescing` | fair scheduling, with and without a callback: no request is lost in coalescing, no burst stays unattended, each loss ends in a scan or a recorded error |
| `CompactionCrash` | failures, crashes and failing restores in any order: writes survive, a complete copy exists, no artefact stays, and the abstract store is implemented (`ImplementsStore`) |
| `ExecutorHandover` | hand-overs, stores, removals, compactions and a worker thread in any order, with one upset: `RustOwnsFile`, `StoreIsAtomic`, `HandoverReconnects`, `RefusalsHaveOwner` (1.6 million states) |
| `DaemonStartup` | two proxies, two daemons, stale files, one death, failed barrier or stop command: `LockExcludes`, `OneDaemon`, `ServerIsFound`, `StarterLockIsFree`, `IdleDaemonLeaves` (1.9 million states) |
| `WatchmanOutage` | two scopes, queues of one, two upsets, `stop()` at any moment, fair scheduling: `LossIsFollowed`, `OutageIsAttended`, `StoppedIsQuiet`, `OutageEnds`, `StopReturns` (0.4 million states) |
| `PipelineBurst`, `CompactionFailedRestore`, `ExecutorTornStore`, `WatchmanDeafSession` | disagreements, section 5 |

Bounds, and why they suffice:

- Pipeline: two files in `PipelineFaults`: mutations of different files meet only in
  the priority queue, the delete batch and the buffered mutation, which takes two.
  `PipelineConverges` has one file and its directory, because what is open there is
  how the mutations of a file meet those of its directory; files outside the moved
  directories are covered by `PlainFilesConverge`.
- `MaxEdits` bounds the edits and accesses, which also number the content versions;
  version 1 is the initial one, so 4 means three of them: write, delete, recreate while an earlier mutation is on its way.
  `PipelineConverges` has four edits, which is what it takes to move a directory out,
  in and out again around an edit of its file. Without accesses the instance with five
  edits passes too (11 million states, too long for a routine run), and so does the one
  with a second file outside the directory and three edits.
- `MaxRetryBudget = 1` has a retry and an exhausted retry; one fault suffices for
  a retry to meet newer events.
- `DeleteBatchSize = 2` has single, full and interrupted batches.
- `EventQueueMaxsize` 1 makes overflow common; 3 holds all events of three edits.
- Resync: five losses over two files, two failing scans. Compaction: three writes,
  two raising steps (a compaction and its restore, or two compactions), three
  crashes.
- Executor: two versions, so that a store replaces a content; one worker thread,
  because threads meet the others only in the queue and at the guard; one upset
  (`MaxUpsets`: a raising operation, a cancellation or a timeout), next to the
  failures the model produces by itself (a CHECKPOINT on a dirty transaction, a
  refused operation). The theorems cover the other sizes.
- Daemon: two proxies make a race, and one that has not looked yet is a late comer;
  two daemons are an old one and a new one. Proxies are alike and so are daemons,
  so the run uses their symmetry. Stale lock files in the initial states stand for
  earlier crashes, and one more can happen.
- Watchman: two scopes, so that one session ends while the other goes on; queues of
  one overflow on the second PDU; two upsets, for example a lost connection and a
  failing reconnect.

`SpacedEdits` restricts the environment of `PipelineConverges` and
`PipelineLiveness`: edits of one kind to one path are further apart than the dedup
window, a second deletion comes after the first was consumed, and a directory is
moved out again only after the cleanup of the first move was taken from the queue.
Accesses come at any pace.
Without the first, `QuiescentInStep` fails, which is the finding `PipelineBurst`; without
the last it fails after four edits, because the second `dir_delete` is refused
(section 5). The same run admits a busy database for changes only, because a retried
delete can erase a recreated file (section 5; a retried directory cleanup does the
same).
It also leaves accesses to unlinked files out of `AccessKinds`, which a backend without
open and close events justifies: with them `QuiescentInStep` fails in eight states, in a
flat tree as well (section 5).
`PipelineBurst` has no accesses: an opened or closed event between two modifications
changes the last event of the path, and the second one is not suppressed.

Deadlock checking is off where the system may stop: with the edits used up and all
work done the pipeline waits for events, daemons leave, a service is stopped. The
executor never stops, and its runs check deadlock.

Fairness: in `PipelineLiveness` and `ResyncCoalescing`, weak fairness of the loop's
callbacks, the consumer, the sleeping tasks and the processing task. asyncio runs
every ready task, `sleep` ends, and a provider call returns or raises because it
runs under the executor's timeout. In `WatchmanOutage`, weak fairness of each
reader and bridge, of the consumer, the monitor, the resync tasks, the task that
builds and the task that stops: they await each other or commands with timeouts. A
step that finds something failing is never required, and edits, deaths and `stop()`
are never required. Failures are finite (`MaxUpsets`), without which no
reconnection need succeed.

## 4. Theorems

Each is proved from the assumptions on the constants in its module
(`EnvironmentAssumption`, `ResyncAssumption`, `CompactionAssumption`,
`ExecutorAssumption`, `PidLockAssumption`, `StartupAssumption`,
`WatchmanAssumption` and those of `RealtimeMutations`), for all values of the
constants.

- `TypeCorrect`, `PendingCarried`, `ReservedDrained` (pipeline).
  `PendingIsCarried` is inductive together with `TypeOK`, whose table type files
  each entry under its own key. The danger is a mutation that leaves its queue or
  task while the entry it owned stays, or a newer entry that is filed while only
  the old mutation is queued. `RealtimeMutationProofs` therefore states what each
  table operator does to the relation "table T is covered by the mutations S"
  (registering adds the mutation to both sides, releasing removes an entry only
  when the id matches, refreshing keeps ids), and the pipeline proof shows for
  each action that queue, tasks and table change in step.
  `ReservedIsDrained` needs that a follow-up is reserved only for an active file
  and that the end of a change clears both together.
- `OneChangeOnItsWay`, `DeletesRespectGenerations` (pipeline, every fault, edits at any
  pace). `OwnershipInv` says that everything carried, deletes apart, owns its key and is
  carried once: by one debounce task, one retry task or at one place of one queue. It
  needs that `_pending_debounce` names the files of the debounce tasks and that each
  FIFO holds its priority. `GenInv` bounds the generation of every change, wherever it is,
  by the newest of its path, and its id by the counter of its key; a delete is tested
  for staleness when the batch is taken and no change of its file can be processed
  before the batch is applied.
- `RestIsEmbedded`, `InStepIsEmbedded` (pipeline, every fault). `EmbedInv`: a file that
  is indexed as on disk and has no embeddings has a change ahead, or an embedding pass
  is pending, buffered or running. It rests on content versions being fresh
  (`VersionInv`): a store of unequal content, which drops the embeddings, is followed
  by an embed mutation, and a pass covers all files.
- `PlainFilesConverge`, `IndexConverges`, `IndexIsEmbedded` (pipeline). They assume `Calm`:
  `SpacedEdits`, no report of accesses to files already unlinked (accesses to existing
  files may come at any pace), and among the faults only a database busy for changes and
  embedding passes, and errors (which end `Undisturbed`). TLC shows that nothing of it can
  be left out: `QuiescentInStep` fails with edits at any pace, with `"unlinked"` in
  `AccessKinds`, and with each of the other three faults (`"busy_delete"`, `"conflict"`,
  `"rejected"`). So they speak of the Watchman backend; for watchdog on Linux they
  hold only where no file is closed after it was unlinked.
  `PlainFilesConverge` is about the files outside the directories that are moved
  (`Plain`), for any number of files, directories, edits and faults; `IndexConverges` and
  `IndexIsEmbedded` are the runs' properties where such directories hold no file
  (`FlatTree`). The invariant `FileInv` follows a file through the pipeline: the events in
  flight end with the truth about its existence, a deletion behind every other event of a
  file that is gone, and none of them will be taken for a duplicate deletion
  (`FlightInv`); a deleted file that is indexed, or whose content
  `process_file` holds, has a delete in flight, pending and not stale, or running
  (`AbsentInv`); an existing file that is not indexed as it is, or that such a delete is
  about to erase, has a change that will be processed after that (`PresentInv`). The
  delicate place is the buffered change of a delete batch, which does not count as
  coming after a pending delete: `StartDeletesMoves` shows that a change is buffered only
  when the deletes of its file have all been taken.
- `ResyncTypeCorrect`, `RestInSync`, `OverflowAttended` (resync). The inductive
  invariant `LossIsTracked` names, in every state, who will repair a missed file:
  a request that has not run, the debounce, a scan that has not passed the file or
  will be repeated, or the recorded error.
- `CompactionTypeCorrect`, `WritesAlwaysSurvive`, `CompleteCopyAlwaysExists`,
  `OpenAlwaysClean`, `FirstFailedRestoreLeavesCopy`, `CompactionImplementsStore`
  (compaction). Until a restore fails, no
  acknowledged write is lost, and the first failing restore leaves a complete
  copy. The invariant adds what each step leaves in the three files (`StepInv`)
  and that a backup, where there is one, is complete (`BackupOrNothing`): this is
  what makes restoring it safe, and it holds because a backup never coexists with
  an open database.
  `CompactionImplementsStore` is the refinement. It needs in addition that what a
  start would serve equals the acknowledged writes at every step (`AgreeInv`), also
  while the live file is aside and while it is swapped.
- `ExecutorTypeCorrect`, `HandoverIsExclusive`, `RefusalsAreOwned`, `StoresAreAtomic`,
  `HandoverLeavesConnected` (executor). The hand-over is exclusive because the disconnect is the last
  operation of the queue when it is submitted and nobody on the event loop can
  follow it (`ExclusiveInv`); this rests on each caller having at most one
  operation queued, the one its state names (`CallerInv`). The store is atomic
  because each of its operations finds the transaction state it needs (`Ready`), or
  the connection was closed under it by a clean release and the guard refuses the
  rest (`CutOff`), or the task was cancelled and a rollback is behind the operation
  that still runs (`OrphanInv`). `ReconnectInv` follows the connection manager through
  release and reconnect: only the scan's own steps, a compaction that refuses the
  reconnect and a failed restore leave it closed.
- `PidLockExcludes`, `StartupKeepsLockProtocol`, `StartupLocksExclude`,
  `StartupTypeCorrect`, `StartupIsUnique`, `ServersAreFound`,
  `StarterLocksAreFree`, `IdleDaemonsLeave` (daemon). The lock theorem is proved of
  `PidLock` alone: an uncontested lock has one taker at most, who finds the dead
  holder still on record, and whoever writes, holds or frees the file created it
  (`Orderly`). Every step of the start-up is a step of the protocol
  (`StartupKeepsLockProtocol`), so the theorem carries over. `Unique` then says that
  a daemon not yet on record has a proxy that waits for it under all three locks,
  that a proxy which has decided to spawn is right that there is none, and that the
  files name the one daemon there is.
- `WatchmanTypeCorrect`, `OutagesAreAttended`, `LossesAreFollowed`,
  `StoppedStaysQuiet` (Watchman). `Control` relates the phases of service, builder and
  tasks; `Links` says which sessions can exist in each; `Watching` that the monitor
  waits on all sessions the adapter holds; `Followed` names, for every missed scope,
  who will ask for the resync, through the reconnect attempts as well. Outside
  `LossIsFollowed` are deaf sessions (the finding `WatchmanDeafSession`), PDUs dropped
  while `needs_resync` is set (`unreported`), and whatever follows a failed scan; and
  `OutageEnds` takes the fall-back to polling for an end (section 5).

Only model-checked: the liveness properties (`PendingIsServed`, `ComesToRest`,
`LossIsRepaired`, `OutageEnds`, `StopReturns`; temporal reasoning under fairness is
beyond the prover), and `QuiescentInStep` and `QuiescentEmbedded` for files inside a
directory that is moved.

## 5. Disagreements found

1. `PipelineBurst`. A modification within 2 s of the previous one is suppressed
   (`pipeline.py` 1060) even while the file is being processed with its older
   content. No follow-up is reserved, and the newest content stays unindexed.
2. `CompactionFailedRestore`. After a failed restore the executor's next operation
   creates an empty live file; the next compaction or start then deletes the
   backup the error message named.
3. `ExecutorTornStore`. A hand-over between two operations of a store closes the
   connection and with it the transaction. If the transaction has changes the
   CHECKPOINT of the release fails, so the release fails, the flag comes down and the
   store goes on without a transaction: its remaining operations are committed one by
   one beside the old record, and only COMMIT fails.
4. `WatchmanDeafSession`. A reader that raises records the error and ends, but does
   not resolve the future the monitor waits for (`session.py` 821). The session
   looks alive, and its changes reach nobody.

Visible in the models, without a run of their own:

- Every accepted event of a file advances its generation (`pipeline.py` 42-45), also the
  opened and closed events of watchdog, which lead to no mutation. A file is unlinked
  while somebody, possibly the indexer, has it open; the deletion is consumed; the close
  is accepted and makes the pending delete stale (`pipeline.py` 223-231), which is then
  skipped (1225, 1295) without a follow-up or an error. The deleted file stays indexed,
  while `tests/test_realtime_failures.py` 220 says "Deleted files should be removed from
  database". TLC finds it as a violation of `QuiescentInStep` when `PipelineConverges` is
  run with `AccessKinds = {"existing", "unlinked"}`.
- `run_rust_pipeline` reads its configuration and resolves the paths before its first
  await. When that raises, the scan clears the flag before a store in the middle of its
  operations has been resumed and refused; the release has closed its transaction, so the
  store goes on in auto-commit, as in `ExecutorTornStore`, although the release was clean
  (`ScanRaises`; TLC finds `StoreIsAtomic` violated when it is not exempted).
- A delete takes the current generation when it is consumed (`pipeline.py` 1092).
  When the recreation was accepted before that, the delete is not stale and its
  retry erases the recreated file.
- Only the first drop of a burst requests a resync (`pipeline.py` 596). A drop during
  the scan, after it passed the file, is forgotten when the burst is declared
  recovered.
- A successful scan clears `_needs_resync` although a newer request is outstanding
  (`pipeline.py` 732); when its rerun fails the flag stays cleared.
- A batch of deletes does not enter `_removed_files` (`DeletesApplied`).
- A second `dir_delete` is refused while the first is pending (`pipeline.py` 1106), and
  the first one's deletes may be stale by then: after a directory is moved out, moved
  in, a file of it is modified and the directory is moved out again, that file stays
  in the index.
- After a hand-over that closed a transaction, `transaction_active` stays up until
  the next commit or rollback; until then batch deletes are refused and compactions
  skipped.
- The four disturbances of the daemon's start-up (section 2), and a lock file that
  stays blank because its creator died before writing: nobody can take it again.
- A proxy that finds a daemon which is closing fails instead of starting a new one;
  a daemon whose first client never registers is never asked to leave.
- A reconnect whose sidecar does not start falls back to polling (`SidecarFails`)
  unless the backend was configured explicitly.

## 6. Not modelled, and why

There is no shared state to check, or the behaviour is outside the repository: path
filter, parsers and chunking, search and research, embedding and language-model
providers, MCP tools, configuration, CLI, generators, the Watchman runtime loader.
These are by far the most lines of the repository; they transform text, call
services or render, and a model of them would repeat them.

The native pipeline runs behind the hand-over and shares no state with Python while
it does; its ownership of the file and its effect are in `SerialExecutor`, its
threads are not. LanceDB has no hand-over and no compaction of this kind.

What could still be added: the Python path of a scan as a second writer of
`SerialExecutor` and its race with the realtime store of the same file; a second
start of the service after a stop; the registry of daemons of other roots and
runtime directories; the ownership metadata of the sidecar; batching and error
accounting of the embedding service; the convergence of files inside moved
directories as a theorem (`FileInv` with the directory's events, its pending cleanup and
its pending indexing next to the file's own).
