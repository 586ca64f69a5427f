# TLA+ models of jcodemunch-mcp

jcodemunch-mcp is an MCP server that indexes source repositories into one SQLite
database each and answers queries over them. Most of its tools are functions of
a loaded index. What is hard about it is around that: several server processes
share one index directory, each runs an event loop with worker threads and
daemon threads, files change underneath, and every process keeps what it has
loaded or computed. This directory models that part: when an index is rebuilt, by
whom, under which lock, what is reported about it meanwhile, whether what a process
keeps is still what the database or the disk has, what survives a restart, and what
happens to the threads and child processes beside the calls. Of the queries it models
the walks whose result depends on an order the code does not fix.

Paths below are relative to `src/src/jcodemunch_mcp/`; "WM" is `watcher.py`,
"RS" `reindex_state.py`, "IF" `tools/index_folder.py`, "PL"
`storage/process_locks.py`, "SQ" `storage/sqlite_store.py`.

## 1. Inventory

### Components, their state and operations

| Component | State | Operations | What makes it correct |
|---|---|---|---|
| Reindex state (RS) | `_RepoState` per repository: reindexing, error, stale_since, deferred_generation, failures, fatal; an event that is set while not reindexing; the deferred-save lock | `mark_reindex_start/done/failed`, status fields of every response, waiting for a result | the status is never "fresh" while it is not; what is started is ended; a deferred save never overtakes a newer reindex |
| Watch loop (WM `_watch_single`) | the hash cache it hands to the fast path; what `awatch` has buffered | initial index, event reindex, rebuild of the cache, cancellation | no change is skipped as known; the index converges on the disk |
| Indexing (IF, `tools/index_file.py`) | none of its own: reads, stats, hashes, then saves | full walk, watcher fast path, `index_file`, deferred summariser | hash, mtime and symbol rows of a file belong together |
| Process lock (PL) | one file per (scope, target), the pid in it, the flock on it | `acquire`, `release`, `inspect` | one holder; a dead holder's lock is recovered; a live one's is not |
| Watcher manager (WM `WatcherManager`) | `_active`, `_watched`, `_locked`, `_standby`, the signal task, the crash count | `add_folder`, `remove_folder`, `maybe_takeover`, `run`, signal loop, `stop` | one watcher over all processes; a standby takes over; removed means removed |
| Single-flight reindex (WM `ensure_indexed`) | `_pending`, `_pending_results`, one condition | lead, join, publish | one reindex of a folder at a time; everybody is answered, by a reindex that ended after the call |
| Index store and cache (SQ) | the database; its modification time; the cached `CodeIndex` of each process; the index-write lock | `load_index`, `save_index`, `incremental_save` | a cache entry that counts as fresh equals the database; a load returns one committed state |
| Tool results (`tools/search_symbols.py`, `tools/get_blast_radius.py`, `server.py` `call_tool`, `tools/turn_budget.py`) | the search cache, keyed by the index's time; the session cache, which is cleared; the tokens of a turn | search, blast radius, dispatch, invalidation after index tools, `register_edit` | no answer from an older index; a hit is an answer |
| Session (`tools/session_state.py`, `tools/session_journal.py`) | the journal of a session, its cached results; one state file for all servers | record, save at exit, restore at start | what is restored is what is still true; nothing is counted twice |
| Token accounting (`storage/token_tracker.py`) | unflushed savings; a file shared by all processes; a queue to the community meter | record, flush, exit, post | no saving is lost or counted twice; the meter does not run ahead |
| Project configuration (`config.py`) | the cached configuration of a project and the hash it was loaded under; the file itself | load, adapt to the languages found, evict | what is kept under a hash is the content with that hash |
| GitHub indexing (`tools/index_repo.py`) | a stored index with the tree's SHA and a blob SHA per file | fetch the tree, load, download, save, full or incremental | "unchanged" means the index is HEAD's |
| Summarisers (`summarizer/`) | consecutive failures, a broken circuit, a pool | summarise a batch | the circuit breaks after N failures in a row; everything gets a summary |
| LSP bridge (`enrichment/lsp_bridge.py`) | a pending request, a reader thread, a child process per language | start and handshake, request, response, timeout, shutdown | a response goes to its request; no child is left |
| Worktree watcher (WM `watch_claude_worktrees`, `hook_event.py`) | manifest position, watched worktrees, two management tasks | read lines, list repositories, restart, start and stop a watch | the watched worktrees come to be those there are |
| Graph walks (`get_dependency_graph`, `get_call_hierarchy`, `get_repo_health`, `parser/imports.py`, ...) | a work list, a visited set | breadth-first walks, the impact walk, strongly connected components, barrel leaves | distances, reachability and components, in any order of the sets |
| Branch deltas (SQ, `storage/git_root.py`) | delta tables per branch | save and compose a delta | composing base and delta gives the branch |
| Runtime ingest (`runtime/http_routes.py`) | an LRU registry of per-repository locks | get a lock, evict | one lock per repository |
| Progress (`progress.py`) | counts | report | counts do not go back |
| Watch-all service (`watch_all.py`), idle watchdog | discovered folders, an idle clock | rediscover, stop when idle | every indexed folder is watched |
| Server (`server.py`) | dispatch tables, the auto-watch hook | tool calls | tools see a watched, indexed folder |
| Other queries, parsers, encoders, CLI, installers, embedded jdocmunch, Groq, org | none that is shared | functions and one-shot commands | functional: outside the scope of these models |

### Interactions

* The watch loop and `ensure_indexed` call `mark_reindex_start`, run `index_folder`
  in a worker thread, and mark the result when the thread has returned. The tools
  `index_folder` and `index_file` run the same code without marking anything.
* `index_folder` loads the project's configuration first and may adapt its file last.
  It saves through the store and then starts a daemon thread that
  summarises and saves once more, if its generation is still the current one. On the
  way it may run the summariser's pool and the LSP bridge, and wait for both.
* The watcher manager holds the `watcher` process lock while it has a task; the
  store takes the `indexwrite` process lock for `save_index`, and none for
  `incremental_save`.
* A release of a watcher lock touches a signal file, which standbys of other
  processes watch; the run loop retries in any case.
* All processes meet in the database, and learn of each other's saves through its
  modification time only. They also meet in three files no lock protects: the savings,
  the session state and, written by the hooks, the worktree manifest.
* `call_tool` runs a tool in a thread, and then, on the event loop, changes the result it
  got (removes `_meta`, adds a warning) and drops the session cache if the tool wrote
  an index. A tool that keeps its result keeps the object the dispatcher changes.

### Hard behaviours

Threads of one process interleave with its event loop and with other processes;
edits come between any read, stat and save; tasks are cancelled at any await;
processes die at any step of the lock protocol, of a save or of a flush; signals, file
events and hook lines may be lost, throttled, read twice or come before anybody
listens; posts may be late or lost; a cancellation may be swallowed; HEAD moves between two requests; answers come after their timeout.
`PROJECT.json` lists them one by one with their lines (`hazards`).

## 2. Modules

| Module | What it is | Composition |
|---|---|---|
| `Reindex` | one repository inside one process: RS, the watch loop, `ensure_indexed` as a caller, the untracked tools, worker threads, deferred summarisers, the stored index | the interplay of four source files |
| `ProcessLock` | PL on Unix, one step per system call | the inside of the lock that `WatcherManager` and `IndexCache` take as atomic |
| `WatcherManager` | the managers of all processes, for one folder | uses an atomic lock that a dead holder loses |
| `SingleFlight` | the abstract promise of `ensure_indexed` | |
| `EnsureIndexed` | `ensure_indexed` with its set, results and condition | implements `SingleFlight` (`Promise == INSTANCE SingleFlight WITH ...`) |
| `IndexCache` | the database, its time and every process's cached index | shares the store's rows with `Reindex`, which has no cache |
| `ToolResults` | the two result caches of a process and the dispatcher; the turn budget | above one index that others write |
| `SessionState` | the journals and results of all servers, and the file they are saved to | the search cache of `ToolResults` over restarts |
| `TokenTracker` | the savings of all servers, their file, the meter | |
| `RepoIndexing` | calls of `index_repo` on one repository whose HEAD moves | |
| `ProjectConfig` | one project's configuration file and the cached one, under threads of `index_folder` | what the first and last steps of a walk of `Reindex` do |
| `GraphWalk`, `ImportCycles`, `BarrelLeaves` | the walks of the query tools | |
| `Summarizer` | a run of the AI summariser: pool and breaker | |
| `LspBridge` | the bridge and its children | |
| `WorktreeWatcher` | hooks, manifest, management tasks, watch tasks | its watch task is the loop of `Reindex`, as one step that saves |
| `MCReindex`, `MCWatcherManager`, ... | one component, with symmetry for TLC | |
| `MCServer`, `MCQueries`, `MCBackground` | several components that share no state | a variable `runs` says which one moves: their states add up instead of multiplying |
| `*Proofs` | theorems and proofs | EXTENDS the component and TLAPS; `ServerProofs`, `QueryProofs` and `BackgroundProofs` do it for the components of `MCServer`, `MCQueries` and `MCBackground` |

Every module has one action per handler, or per stretch between two awaits, two
system calls, two requests, or two SQL statements where another actor can come in
between. The `map` of `PROJECT.json`
gives the source lines of each definition. Operators whose comment starts with
"A wrong ..." (`MarkStartUnlocked`, `PatchedKeepsDeleted`, ...) are
not part of any specification: each is the definition after it with a plausible
bug in it, and shows that the property named for it in `PROJECT.json` can tell
the two apart.

### Reindex

*Content is a version number.* Every edit gives a file a version it never had.
The stored index keeps three versions per file: the one whose hash is recorded,
the one that was on disk when the recorded mtime was taken, and the one the
symbol rows were parsed from. "Hash and rows belong together" is then
`idx.hash[f] = idx.syms[f]`.

A worker (`job[w]`) goes through the steps of its kind of call: the full walk
`StatAll`, `DetectChanges`, `Reread`, `SaveIndex`; the fast path and `index_file`
`ReadChanged`, `StatAfterRead`, `CompareWithIndex`, `CaptureGeneration`,
`SaveIndex`. `FailJob` is an exception, an unreadable file is one the step leaves
out. `SaveIndex` starts the deferred summariser with the generation captured
before. The summariser (`thr[t]`) makes `Check1`, summarises, and makes `Check2`
under the deferred-save lock, which it keeps through `SaveSummaries`. `MarkStart`
needs that lock. The loop goes `off`, `init`, `initWait`, `initDone`, `listen`,
`eventWait`, `rebuild`; `CancelLoop` is `task.cancel()`, after which the thread runs
on for nobody. `RecordCrash` is the run loop that finds the task dead, and
`DependencyMissing` the import of `watchfiles` that fails.

*Left out:* deletions and new files, parsing, branch deltas, content files.
`Init` has the repository indexed as it is, or its files not yet in the index.

### ProcessLock

`acquire` is `Acquire`, `TryCreate` (O_EXCL), `WritePayload`, `OpenByName`, `Flock`,
`UndoFlock` after a failed flock, `InspectHolder`, `RemoveStale`, and again; `held`
with a timeout is `PollAgain` and `GiveUp`; `release` is `CloseHeld` and `UnlinkHeld`.
Paths name inodes: `lockFile` is the inode the path names now, `fd[p]` what a
process has open, which may have no name any more. A process may `Die` anywhere.
*Left out:* Windows, where there is no flock, and reuse of a pid.

### WatcherManager

One folder, since folders share nothing but the loop and the crash count. `TakeOrStandBy`
is the common part of `add_folder` and `maybe_takeover`; `RemoveBegin`/`RemoveEnd` are
the two sides of the await in `remove_folder`; `BeginStop`/`Stop` the same for `stop`.
One pass of `run` is `RestartCrashed`, `GiveUpFatal` and `RetryStandby`;
`RunPassRaises` is the pass that raises. `AutoWatch` is the hook of `server.py`.

### EnsureIndexed and SingleFlight

`Lead` and `Join` are a call up to its first await, `ThreadReturns` and `Finish` the
leader's rest, `Wake` a waiter that has the lock again, `Fail` a leader that is
cancelled or raises (`result` is unbound in the `finally` block), `Cancel` a waiter
that is. In `SingleFlight` a call either runs or has joined; a runner's end is
counted, and a joiner may be answered with any number counted since its call. Failed
and cancelled calls look, abstractly, like calls that have not ended.

### IndexCache

Each table row is known by the number of the save that wrote it. A load is
`LookupHit`, or `ReadMeta`, `ReadSymbols`, `ReadFiles` (three autocommit SELECTs),
`StatAndPut` and `Return`. A save is `SaveIndex`/`Replace` or `IncrementalSave`/`Delta`,
each one transaction, then `Touch` and `PutSaved`, or `RaiseAfterCommit`.
`Written` is what `incremental_save` does to the database and `Patched` what
`_patch_index_from_delta` does to the cached copy: two pieces of code that have to agree. `Evict`,
`Checkpoint` and `Die` are the LRU bound, SQLite, and the operating system.
Every commit gets a time of its own: two commits within one tick of the file
system's clock are outside the model.

### ToolResults

A call is `Search` or `BlastRadius` (a hit answers at once), `LoadIndex`, `ComputeAndKeep`
in the tool's thread, and `Dispatch` on the event loop. `Commit` is anybody's save:
`IndexToolCommits` and then `Invalidate`, `WatcherCommits`, or `RegisterEdit` and
`EditCommits`. A cached result carries the version of the index it was computed from
and whether `_meta` is still in it. `TurnGap` is the pause after which the budget starts again.
*Left out:* what a result says, and the caches of other tools, which work like one of
these two.

### SessionState, TokenTracker

`SessionState`: `ReadFile` and `SearchRepo` use the journal and the results, `SaveIndex`
and `DeleteIndex` change the indexes under them, `Exit` is the atexit hook (one file for
all servers, most recent first, cut to a maximum), `Kill` saves nothing, `Start` replays
what is not too old (`GrowOld`) and, for results, still current.
`TokenTracker`: `Record`, and from the third call on a flush, which is `Truncate` (read the
file and open it for writing) and `WriteTotals`; `FlushAtExit`, `KillProc`; `Post` is the
daemon thread and the meter: a post arrives late or not at all.

### RepoIndexing, ProjectConfig

`RepoIndexing`: a call is `FetchTree`, `LoadExisting`, one `FetchFile` per file, `SaveRepo`.
`Push` moves HEAD between any two of them. A version of a file is a number; SHAs are the
thing they are the hash of. `ProjectConfig`: `FindConfig`, `ReadConfig` (outside the lock),
`CompareContent` (with the cached hash, under it), `StoreConfig` or `StoreNone` (under the lock again),
`FolderIndexed`, `ReadForAdapting`, `WriteAdapted`, `EvictConfig`; `EditConfig` is the user.

### GraphWalk, ImportCycles, BarrelLeaves

The graph is part of the initial state or is built by the first steps, so that a run
covers every graph of its size. Where the code iterates over a set, a step takes any
member. `GraphWalk` has the breadth-first walk of six tools (`"levels"`), the liveness walk
from all entry points (`"live"`) and the impact walk, which takes from the end of its list.
`ImportCycles` has Kosaraju's two passes with their explicit stacks; `BarrelLeaves` the
gathering of re-exports and the queue of barrels and names. They are compared with
`Within` (reachability in k steps), `Reach`, and `Led`: recursive functions that say what
is meant without saying how.

### Summarizer, LspBridge, WorktreeWatcher

`Summarizer`: a batch is `RunBatch` (looks at the breaker), `SendPrompt`, `ApplySummaries`,
`RecordSuccess` or `RecordFailure`, `FallBack`. `LspBridge`: the caller's `Spawn`,
`AskInitialize`, `TakeAnswer` or `TimeOut`, `AskShutdown`, `Terminate`, `ShutdownBridge`; the child's `Respond`, `AskBack`, `Die`; the reader's `CheckLoop`,
`ReadMessage`, `ReadEnds`. `_send_notification` (line 287) calls `_encode_message` with an
argument too many and always raises: `NotifyRaises` follows every successful handshake, and
no definition is ever asked for, which is why no such request is in the model. The reader
knows a message by its identifier alone: a request of the child's with the identifier the caller
waits for is taken for the answer, one without a result, which fails the handshake.
`WorktreeWatcher`: `AddTree`/`RemoveTree` with their hooks, `AppendManifest`, discovery,
the reading task (`StatManifest`, `ReadLines`, `TreatCreate`, `TreatRemove`, `LineStopped`) and the
listing task (`ListWorktrees`, `Decide`, `StopGone`, `GoneStopped`, `RestartCrashed`); stopping a watch
waits for the task's end before it deletes the index, and the other task runs meanwhile.
A listing may fail, the first one included (`DiscoveryFails`, `ListFails`). The end is `StopAll`
(a signal), `TaskFails` (a management task raises, `stop_event` is not set), `StopFailed` (a signal
after that) and `MainEnds`: a management task that is cancelled while it waits for a watch it has stopped
swallows that (WM 1222), deletes the index, goes on with its lines or worktrees, and ends at the
head of its loop (`LoopHead`) if the event is set.

## 3. Runs

Liveness is checked without symmetry. `CHECK_DEADLOCK FALSE` stands in every
configuration, because each model really may stop: edits, generations, saves,
restarts, calls and events are bounded, walks end, and processes may all be dead.

| Run | Question | Bounds |
|---|---|---|
| `reindex_watch` | With the loop as the only caller, edits at any time and failing calls: `NoStaleOverwrite` (T7), `StaleWhileReindexing`, `SkippedOnlyIfCurrent` (T6), `ReindexEnds` | 2 files, 1 worker (the loop has one call at a time), 2 summarisers, 2 edits per file, 4 generations |
| `reindex_quiet` | No failure, and no edit before the subscription: what is reported fresh is fresh, and the index `Converges` | 2 files, 6 generations: initial index and one event each for four edits, and one to spare |
| `reindex_overlap` | All callers, failures, cancellations: the lock discipline `GenerationFixedWhileSaving` | 2 workers, a loop, an ensurer and a tool |
| `lock_file` | `LockFileOwned`; `StaleRecovered`: alone among the dead, one call of `acquire` succeeds whatever they left | 3 processes, 3 inodes: each process can have its own file, named or not |
| `watch_slot` | `OneWatcher`, `NoLockLeak`, `OnlyWantedWatched`, `Failover` | 2 processes; `_MAX_RESTARTS` 2 rather than 5, enough for "not yet" and "for good" |
| `ensure_calls` | `OneReindexPerFolder`; refinement of `SingleFlight`; `ReturnsUnlessFailed` | 3 tasks, 2 folders (a waiter may be woken for another folder), 3 reindexes each |
| `cache_serial` | Calls that do not overlap, in 2 processes that die or raise anywhere: `CacheCoherent`, `LoadsLatest` | 2 files, 3 saves, 4 stamps: a stale copy, a patch of it and another process's save |
| `server` | `AnswersCurrent`, `RestoredRight` (results, and counts of reads), `EveryTokenCounted`, `MeterNotAhead`, `UnchangedIsCurrent`, `NoOthersConfig` | 2 overlapping calls, 2 queries, 2 versions, caches of one entry, so that an entry is evicted, `_meta` removed or not; 2 servers, 2 files, 1 repository indexed twice; 3 tokens of each kind over both servers, flushed every second call of one; 1 `index_repo` call at a time, 2 versions per file; 2 threads loading and adapting a configuration |
| `queries` | `LevelsAreDistances`, `CyclesAreComponents`, `LeavesRight` | every graph of 4 nodes, depth up to 3, the longest shortest way there is; every arrangement of up to 4 re-exports over 3 barrels and 2 names |
| `background` | `FewSentAfterTrip`, `SummariesEnd`; `OnlyAcceptedSurvive`, `BridgeEnds`; `WorktreesWatched`, `SignalEnds` | 4 batches, 2 workers, 2 failures trip; 2 languages, children that send requests of their own under the identifier of "initialize", which is another one than that of "shutdown"; 2 worktrees, both listed, one of them with hooks as well, 4 events (worktrees added or removed, crashes, failed listings, a failed task) |

The configuration `server` gives the same values to sets of several components (`Procs` =
`Servers`, `Threads` = `Calls`, `Paths` = `Files`, `Languages` = `Queries`), so that permutations of
four sets are symmetries of all.

### Disagreements with the code's own statements

Each of these runs shows one property, quoted from a comment or the changelog,
violated by what the code does (`findings` in `PROJECT.json` quote the lines).

| Run | What TLC finds |
|---|---|
| `lock_exclusive` | Two processes inspect the same stale file. One removes it, creates its own, holds it; the other now removes that by name and creates another: two holders. |
| `blast_hits` | The dispatcher removes `_meta` from the result that `get_blast_radius` has cached, as it does by default (`config.py` 294); the same call again hits the cache, reads `_meta` (line 192), and ends as an internal error. `find_references.py` 1145 has the same line; `search_symbols.py` 811 was fixed. |

Further configurations are kept beside them, for other disagreements; each reports the violation
when run by hand (`tlc -config <cfg> <module>`):

| Configuration, module | Property | What happens |
|---|---|---|
| `reindex_clobber`, `MCReindex` | `NoStaleOverwrite` | `index_file` does not bump the generation. It saves between the second check of a deferred save and its write, and the summariser's rows, parsed from older content, go over its rows while its newer hash stays. |
| `reindex_forgotten`, `MCReindex` | `FreshWhenReportedFresh` | An event reindex fails; its files are not kept. The next event reindex, of another file, succeeds and marks the repository fresh. |
| `reindex_gap`, `MCReindex` | `FreshWhenReportedFresh` | An edit between the read of the initial index and the subscription of `awatch` (WM 293) is in no event. |
| `reindex_two_callers`, `MCReindex` | `StaleWhileReindexing` | The first of two overlapping reindexes to end clears the status of both (RS 135), against RS 178. |
| `reindex_cancelled`, `MCReindex` | `InProgressOnlyWhileReindexing` | CancelledError passes `except Exception` (WM 409): in progress for ever, against RS 179. |
| `reindex_mtime`, `MCReindex` | `SkipsOnlyUnchanged` | The fast path takes the mtime after it has read the file (IF 1458): an edit in between is later skipped as "mtime unchanged", against SQ 1831. |
| `ensure_aborted`, `MCEnsureIndexed` | `EveryCallReturns` | A leader that is cancelled fails with UnboundLocalError in its own `finally` block, before the folder leaves `_pending`: the next call joins, and waits for ever. |
| `watch_indexers`, `MCWatcherManager` | `OneIndexer` | The auto-watch hook reindexes beside the holder of the watcher lock (`server.py` 2836), against PL 6. |
| `cache_reader`, `MCIndexCache` | `CoherentAtRest` | A load reads, another process commits, the load takes the time: the old index is cached under the new time and stays fresh until the next save. |
| `cache_writers`, `MCIndexCache` | `CoherentAtRest` | Two overlapping saves each cache their own copy; the last one stamps it with the time of both. |
| `cache_torn`, `MCIndexCache` | `LoadsOneSave` | A commit between two SELECTs of `load_index` (SQ 1384). |
| `cache_unread`, `MCIndexCache` | `CoherentAtRest` | No overlap: an unreadable changed file keeps its hash in the database (SQ 1592) and loses it in the patched copy (SQ 2448). |
| `repo_failed`, `RepoIndexing` | `FailedAreRetried` | A download fails; its file keeps no blob, but the tree's SHA is stored, and while HEAD stays the next run returns "No changes detected" (`index_repo.py` 488 says it is retried). |

Other violations need no file of their own. Put the property into the configuration named,
in place of its properties, with the constants given:

| Start from | Property and constants | What happens |
|---|---|---|
| `reindex_watch` | `NoStaleOverwrite`; one file, `Ensurers` {e1}, two workers | The generation is captured before the save (IF 1541) but after another caller may have bumped it: that caller's newer save comes between the loop's save and its summariser, which finds its generation unchanged and writes older rows under the newer hash. |
| `reindex_watch` | `OneFailurePerReindex`; one file, worker and summariser | The task marks its failure, raises, and is marked again by the run loop (WM 539). |
| `watch_slot` | `CrashesAreConsecutive` (PROPERTY); `CanDie` FALSE | The crash count is reset only after the inner loop has ended for good (WM 788), against the message at WM 800. |
| `server` | `EveryTokenCounted`; `Overlap` TRUE, or `CanFail` TRUE | Two flushes read the same total and one addition is lost (`token_tracker.py` 508), against ARCHITECTURE.md 661; a write that fails after the truncation (527) loses the total. `NeverOvercounted` holds there too, and is proved for every value of both. |
| `server` | `NothingLeftAtExit` | A flush writes nothing while no retrieval savings wait: savings of the encoding alone are lost at exit, against `token_tracker.py` 22. |
| `server` | `RecencyKept` (PROPERTY, without symmetry); `JournalMax` 2, `SavedMax` 2 | The journal is saved most recent first and replayed in that order (`session_state.py` 165): after a restart the eviction drops the files read last. |
| `server` | `WarningIsThisTurns`; `Threshold` 2 | The budget's warning is written into the cached result, and comes again in a later turn, against `turn_budget.py` 13. |
| `server` | `UnchangedIsCurrent`; `Reverts`, `FetchesFail`, or two indexers and `CallsOverlap` TRUE | A file that goes back between the tree and its download, a failed download, or a slower call with an older tree: the tree's SHA is stored with the contents of another (`index_repo.py` 419). |
| `server` | `RowsAreFiles` | A file that is deleted before it is downloaded leaves a row without a blob, and the deletions of the next run are looked for among the blobs. |
| `server` | `HashIsOfConfig` | A file that does not parse installs the global configuration and leaves the hash of the last one; when the file is repaired to that content it counts as unchanged (`config.py` 956, 1042). |
| `queries` | `ImpactShortest`; five nodes, `MaxEdges` 5 | The impact walk takes from the end of its list and keeps the chain it found first, not the shortest (`get_call_hierarchy.py` 62). |
| `queries` | `LeavesComplete`; four barrels, `Renames` FALSE | A wildcard is visited once whatever the names (`parser/imports.py` 1364): a second name that comes the same way later is not followed. An import of everything (no names) is as incomplete: it follows a named entry with that entry's name, and a barrel reached so by a wildcard first is not walked again for the rest of its names. With `R` re-exporting `x` of `A`, wildcards from `R` to `B`, `B` to `A`, `A` to `P`, and `P` re-exporting `y` of `Q`, the function does not return `Q`. |
| `background` | `AllStopped` | A child that answered its handshake is not registered, since the notification raised first, and is not stopped. |
| `background` | `NoMixUp` | `_read_loop` does not look at "method" (`lsp_bridge.py` 289): a child's own request with the identifier of "initialize" is taken for the answer, and a healthy server is terminated and marked failed. |
| `background` | `FailureEnds` (PROPERTY) | A management task raises while the other one awaits a watch it has stopped: the cancellation is swallowed (WM 1222), `stop_event` is not set, and the clean-up of WM 1362 waits for ever for a task that polls on beside cancelled watches. |
| `background` | `WorktreesWatched` (PROPERTY); `Polled` {}, `Hooked` {w1, w2} | With the manifest alone nothing makes up for a line that is lost or was appended before its size is first taken (WM 1268), and nothing restarts a task that crashed. |
| `background` | `PollerKeepsToRepos` (PROPERTY); `Polled` {w1}, `Hooked` {w2} | The listing task stops worktrees that came from the manifest, against WM 1320. |
| `background` | `WatchedIsIndexed` | Stopping a watch waits, the other task starts it again, and then the index is deleted (WM 1221). |

Three disagreements of `config.py` were read off and are not stated as properties: a
configuration that was evicted is not loaded again before the next `index_folder` (255, 274, against
150), one whose file was deleted stays in force, and `WriteAdapted` overwrites an edit made
since the file was read.

### Fairness

`Reindex`: weak fairness of the loop's own steps, of each worker and of each
summariser: the interpreter schedules its threads, and the event loop runs what is
ready. Nobody has to edit, fail, cancel or call a tool. `ProcessLock`: weak fairness
of a process's steps inside `acquire`, none of deaths, releases or new calls.
`WatcherManager`: weak fairness of the passes of the run loop, of the end of an
awaited task and of the throttle's clock; none of signals, which may be lost, so that `Failover`
rests on the retry alone. `EnsureIndexed`: weak fairness of the thread and of
woken waiters. `MCBackground`: weak fairness of each batch (pool threads run, and a
client's request ends, if by its timeout), of the bridge's caller (each of its waits
ends by a timeout, so that nothing is asked of children and reader threads), and of main and the
two management tasks of the worktree watcher (the event loop goes on with each); none of
hooks, watch tasks or `git`. The other modules have safety properties only.

## 4. Theorems

All are proved for every value of the constants; the assumptions are the named
`ASSUME`s of the modules, which say that bounds are numbers, that sets are finite where
they are counted, and that names differ.

| Module | Theorem | Argument |
|---|---|---|
| `ReindexProofs` | `TypeCorrect`: types, and a taken lock is a summariser's that is saving | inductive by itself |
| | `GenerationFixed`: no reindex starts during a deferred save, whoever the callers are | inductive with `TypeOK`: only the holder of the lock saves, and `MarkStart` needs the lock free |
| | `T7`: `SoleWriter /\ Spec => []NoStaleOverwrite` | `T7Inv`, below |
| | `T6`: `SoleWriter /\ Spec => []SkippedOnlyIfCurrent` | `T6Inv` on top of `T7Inv`, below |
| | `ReportedFresh`: `SoleWriter /\ Undisturbed /\ Spec => []FreshWhenReportedFresh` | `NothingMissed` on top of `T6Inv`, below |
| | `ReportedStale`: `SoleWriter /\ Spec => []StaleWhileReindexing` | `Marked` (a call under way is marked stale, a worker without one has no owner) on top of `OneCall` of `T7Inv`: whoever marks the end was the only one |
| `ProcessLockProofs` | `TypeCorrect`; `FileOwned`: a file that names a live process is its own | `LockFileOwned` with `TypeOK` is inductive: a process writes its pid only into the inode it has just created, and leaves `Inside` only by an unlink |
| `WatcherManagerProofs` | `TypeCorrect`, `SingleWatcher`, `LockNotLeaked`, `NotResurrected` | `IInv` = `TypeOK`, `Holding` (watched = locked = the lock is mine; a task is exactly a watched folder whose removal has not begun) and `Standing` (who stands by is wanted and not watching) |
| `EnsureIndexedProofs` | `TypeCorrect`, `OneReindex` | `IInv` = `TypeOK`, `Flights` (each pending folder has exactly one task that put it there) and `Served` |
| | `Refinement`: `Spec => OneFlightAnswersAll` | `Served` (a waiter waits for a pending folder; a woken one finds it pending or a newer result) makes each `Wake` an `Answer` or a stutter |
| `IndexCacheProofs` | `TypeCorrect`; `Coherence`, `LoadsAnswerLatest`: without overlap and lost files, a fresh entry is the database and a load answers with it | `Serial` = `Timely` (no entry is from the future), `Alone`, `CacheCoherent` and `InStep` (what the one thread inside has read or built is that part of the database) |
| `ServerProofs` | `UnchangedIsHead`: `Orderly /\ RepoSpec => []UnchangedIsCurrent` | `IInv` = `RepoTypeOK`, `Alone`, `Past` (nobody knows a version from the future), `Downloads` (a version that a call and HEAD both have is the one it downloaded) and `Truthful` |
| | `NoStaleAnswer`, `SearchesRestored` (in `Restored`) | `ToolInv` and `SessionInv`: a search result is kept under the version it is of; one of `get_blast_radius` is current unless the cache is marked behind; what a call has loaded is not older than its start |
| | `ReadsNotCountedTwice` (in `Restored`) | `SessionInv`: a journal and the state file have one entry per file (`Dict`), which counts no more reads than there were; a replay into an empty journal, with its evictions, gives each entry at most its own count |
| | `TokensCounted`, `MeterBehind` (without overlapping or failing flushes), `NothingOvercounted` (with both) | `TrackerInv`: one flush at a time, whose total read is the file's, and exact books per kind; `BoundInv`: the total a flush has read, or the file's, with what waits and what is lost is at most what was recorded |
| | `NoOthersSettings` | inductive with `ConfigTypeOK` |
| | `ServerTypes` | each component's types, for the product of the five |
| `QueryProofs` | `LevelsRight` | see "Walks" below |
| | `CyclesRight`: the result of the two passes is exactly the set of strongly connected components of more than one file | see "Components" below |
| | `BarrelsRight` | see "Barrels" below |
| | `QueryTypes` | each walk's types, for the product of the three |
| `BackgroundProofs` | `FewSent`: `SummarySpec => []FewSentAfterTrip` | `Late`: the requests sent since the trip and the batches that looked before it are together fewer than the workers |
| | `AcceptedSurvive`: `LspSpec => []OnlyAcceptedSurvive`, whatever identifiers the children use | `LspInv` = `LspTypeOK`, `AtWork`, `Told` (a child has written a result of "initialize" only if it has accepted it), `Shaken` (what the handshake has got) and `Attended` (no child runs but the one the caller deals with, none between two languages, and after the handshake only one that has accepted it) |
| | `BackgroundTypes` | each component's types, for the product of the three |

`NoStaleOverwrite` is not inductive: it says nothing of a summariser that has
yet to write. `T7Inv` adds that the loop has one call at a time (`OneCall`),
that a call is about to record no hash newer than the content it has parsed (`JobContent`), and
that a summariser is behind the generation while a call has not saved, or carries
rows not older than the recorded hash (`ThreadsBehind`). `SoleWriter` (no
ensurer, no tool, no cancellation) is what the argument needs and RS does not
enforce; `reindex_clobber` shows that the theorem is false without it.

`SkippedOnlyIfCurrent` compares a hash the loop cached some reindexes ago with the disk.
`T6Inv` carries it through them: the cached hashes, and those handed to a call, are never
newer than the index (`CacheBehind`, `Reads`); the index is never newer than the disk, and
where it has the disk's hash it has its rows (`RowsCurrent`), which a deferred save keeps
because, by T7, it writes no rows older than the hash, and a file that could not be read
again because the index had an older version of it. So a cached hash that is the disk's is
the index's, and so are the rows.

`FreshWhenReportedFresh` speaks of the loop at rest only. `NothingMissed` says what each stage
owes: before the subscription the index has a file's content or nothing of it, so that the
walk suspects every file that is missing whatever the mtimes; afterwards a file that differs
from the index is in `dirty`, or among the files of the call (`Owes`), which has been handed
it, has read the content that is on the disk, or has saved it. A file that the fast path
drops was handed a hash equal to the disk's; by `T6Inv` that hash is not newer than the
index's, nor the index's than the disk's. `Undisturbed` (no failure, no edit before the
subscription) is needed: `reindex_forgotten` and `reindex_gap` drop one half each.

*Walks.* `WalkInv` = types, `Walked` and `Queue`. `Queue`: depths along the work list do not
decrease and differ by at most one, nothing expanded is deeper than what waits, and the neighbours of
what was expanded have been found, one deeper at most. So when nothing nearer than k waits, all that
is within k steps has been found (`FoundUpTo`), and no node is nearer than its depth
(`NoNearer`). `Walked` holds for the stack of the impact walk too: every node found is within as many
steps as its depth, which the limit bounds. The depths found leave no gap, so that they stay below the
number of nodes (`DepthBounded`), which "unlimited" is. `Within` enters through its
defining equations only (`Near`).

*Components.* Reachability is first stated without recursion: y is in every set that contains x
and that no import leaves; `ReachIs` shows that the recursive reference is the same. The
first pass (`DepthFirst`): the stack is a path, and for each finished file, either a file of its
component was finished no earlier than anything it reaches (`Last`), or its component is
still on the stack. The second pass takes from the end of that order (`Collecting`): what is
done are whole components, and the file it starts from is reached, among the files left, only
from its own component (`Foremost`), so that what it collects by going backwards is that component.
No step uses an order of the sets the code iterates over.

*Barrels.* Sound: whatever set of files and names contains where the import starts and is closed
under the statements (`Closed`) has every file credited and all that is queued; `Led` is the least
such set, reached after as many rounds as there are elements (`Saturates`). Complete for one name without
renames: a file credited is still in the queue, or all it leads to is credited. The attempt to
prove it for an import of *all* names, which the property used to claim, failed for a reason:
it is false, and three barrels are too few to show it; the five of section 3 do.

`Coherence` assumes `~Overlap` and `~CanLose`, and `cache_reader` and
`cache_unread` show what happens without them; `UnchangedIsHead` assumes `Orderly` (no
overlap, no failed download, no file that returns to an earlier content), and each of the three is needed (section 3).

Only model-checked: the liveness properties `ReindexEnds`, `Converges`, `StaleRecovered`, `Failover`,
`ReturnsUnlessFailed`, `SummariesEnd`, `BridgeEnds`, `WorktreesWatched` and `SignalEnds`, since liveness and ENABLED
are out of the prover's reach. Every invariant of every passing run is stated by a theorem.

No theorem cites an induction scheme over an operator, which the provers cannot instantiate. Where an
argument needs induction, it is over sets: the set of numbers for which a fact holds contains
0 and successors (`NatInductionSet`, from the least element of its complement); finite sets
likewise. Recursive references are recursive functions, and that a function with their equations
exists is proved too (`NatRecursion`).

## 5. Not modelled

* *Branch deltas.* Not entered: `_write_meta` stores an empty `base_branch` (SQ 2608, from a
  `CodeIndex` that has no branch), so that no save of a delta is reached from `index_folder`,
  although CHANGELOG.md 5597 describes it. A model would be of code that does not run.
* *Runtime ingest.* A registry of locks that evicts from 256 repositories on; each lock only
  serialises ingests of one repository into its own tables.
* *Progress.* Counts that are sent and never read back.
* *`watch_all`, `watch_folders`, the idle watchdog.* They start and stop the same watch tasks
  from a command line or a list of folders.
* *`Reindex`:* deletions and new files, and the content files written after the commit (a crash in
  between leaves offsets of new symbols into old content, SQ 1718).
* *Time.* The reuse of a process id (PL 270), and two commits within one tick of the file system's clock (SQ 308).
* *`token_tracker.py` 557:* the signal handler takes a non-reentrant lock that the interrupted thread may
  hold; a thread's stack is not in the model.
* *Queries, parsers, encoders, installers, reports, Groq, org, the embedded documentation
  indexer.* Functions of their input, without shared state. They are most of the lines of
  this repository, which is why the mapped share of it is small: rankings, text formats and grammars of
  languages are conversions, and a model of one would repeat the code line by line.
