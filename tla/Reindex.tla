------------------------------ MODULE Reindex ------------------------------
(***************************************************************************)
(* One repository's reindex lifecycle inside one server process: the watch *)
(* loop of watcher.py, ensure_indexed, the untracked index tools, the      *)
(* index_folder worker threads they run, and the deferred-summarisation    *)
(* daemon threads of index_folder.py, all sharing the per-repo record and  *)
(* the deferred-save lock of reindex_state.py and one stored index.        *)
(*                                                                         *)
(* A file's content is a version number: every edit writes content the     *)
(* file never had before, 0 stands for "none".  The files are those of one *)
(* walk; an index exists, but may not have them yet.  The stored index     *)
(* keeps the version whose hash the files table records (idx.hash),        *)
(* the version that was on disk when the recorded mtime was taken          *)
(* (idx.mtime), and the version its symbol rows were parsed from (idx.syms)*)
(***************************************************************************)
EXTENDS Naturals

CONSTANTS Files,       \* the source files of the repository
          Workers,     \* asyncio.to_thread slots running index_folder/index_file
          Threads,     \* slots for "deferred-summarizer" daemon threads
          Watch,       \* the watch loop (_watch_single), as the owner of a job
          Ensurers,    \* server tasks calling WatcherManager.ensure_indexed
          Tools,       \* untracked callers: index_file, index_folder tool, CLI
          Nobody,      \* no owner: a free lock, or a job whose task is gone
          MaxVersion,  \* bound: edits of one file
          MaxGen,      \* bound: mark_reindex_start calls
          CanFail,     \* whether reads, parses and saves may fail
          CanCancel,   \* whether remove_folder/stop may cancel the watch loop
          QuietStart   \* environment: no edit before the loop is subscribed

ASSUME ReindexAssumption ==
    /\ MaxVersion \in Nat \ {0} /\ MaxGen \in Nat
    /\ {CanFail, CanCancel, QuietStart} \subseteq BOOLEAN
    /\ Watch \notin Ensurers \cup Tools
    /\ Ensurers \cap Tools = {}
    /\ Nobody \notin Ensurers \cup Tools \cup Threads \cup {Watch}

VARIABLES disk,   \* [Files -> version on disk]
          idx,    \* the stored index: [hash, mtime, syms]
          st,     \* _RepoState of the repository
          lock,   \* holder of the deferred-save lock
          loop,   \* where the watch loop is
          dirty,  \* changes awatch has buffered for the loop
          cache,  \* the loop's _hash_cache, 0 for a missing entry
          job,    \* what each worker is doing, and for whom
          thr     \* what each deferred summariser is doing

vars == <<disk, idx, st, lock, loop, dirty, cache, job, thr>>

Versions == 0..MaxVersion
Callers  == {Watch} \cup Ensurers \cup Tools
Tracked  == {Watch} \cup Ensurers
NoRows   == [f \in Files |-> 0]

LoopPc  == {"off", "init", "initWait", "initDone", "listen", "eventWait", "rebuild",
            "crashed", "fatal"}
Working == {"read", "detect", "reread", "stat", "compare", "capture", "save"}
JobPc   == Working \cup {"idle", "ok", "nochange", "failed"}
JobKind == {"full", "fast", "file"}
ThrPc   == {"idle", "check1", "summarize", "saving"}

IdleJob == [pc |-> "idle", kind |-> "full", owner |-> Nobody, files |-> {},
            stamped |-> {}, old |-> NoRows, hash |-> NoRows, mtime |-> NoRows,
            content |-> NoRows, gen |-> 0]
IdleThr == [pc |-> "idle", gen |-> 0, files |-> {}, content |-> NoRows]

RepoState == [reindexing : BOOLEAN, error : BOOLEAN, stale : BOOLEAN,
              generation : 0..MaxGen, failures : 0..2, fatal : BOOLEAN]
Job == [pc : JobPc, kind : JobKind, owner : Callers \cup {Nobody},
        files : SUBSET Files, stamped : SUBSET Files, old : [Files -> Versions],
        hash : [Files -> Versions], mtime : [Files -> Versions],
        content : [Files -> Versions], gen : 0..MaxGen]
Index == [hash : [Files -> Versions], mtime : [Files -> Versions],
          syms : [Files -> Versions]]
Summarizer == [pc : ThrPc, gen : 0..MaxGen, files : SUBSET Files,
               content : [Files -> Versions]]

TypeOK ==
    /\ disk \in [Files -> Versions]
    /\ idx \in Index
    /\ st \in RepoState
    /\ lock \in {Nobody} \cup {t \in Threads : thr[t].pc = "saving"}
    /\ loop \in LoopPc
    /\ dirty \in SUBSET Files
    /\ cache \in [Files -> Versions]
    /\ job \in [Workers -> Job]
    /\ thr \in [Threads -> Summarizer]

Init ==
    /\ disk = [f \in Files |-> 1]
    /\ \E rows \in {NoRows, disk} : idx = [hash |-> rows, mtime |-> rows, syms |-> rows]
    /\ st = [reindexing |-> FALSE, error |-> FALSE, stale |-> FALSE,
             generation |-> 0, failures |-> 0, fatal |-> FALSE]
    /\ lock = Nobody
    /\ loop = "off"
    /\ dirty = {}
    /\ cache = NoRows
    /\ job = [w \in Workers |-> IdleJob]
    /\ thr = [t \in Threads |-> IdleThr]

----------------------------------------------------------------------------
(* reindex_state.py *)

\* A wrong mark_reindex_start, which bumps the generation without the lock.
MarkStartUnlocked ==
    /\ st.generation < MaxGen
    /\ st' = [st EXCEPT !.reindexing = TRUE, !.error = FALSE,
                        !.generation = @ + 1, !.stale = TRUE]

\* mark_reindex_start: waits for the deferred-save lock, then bumps the
\* generation; the lock is free again when it returns.
MarkStart ==
    /\ lock = Nobody
    /\ st.generation < MaxGen
    /\ st' = [st EXCEPT !.reindexing = TRUE, !.error = FALSE,
                        !.generation = @ + 1, !.stale = TRUE]

MarkDone ==
    st' = [st EXCEPT !.reindexing = FALSE, !.error = FALSE, !.stale = FALSE,
                     !.failures = 0, !.fatal = FALSE]

\* The code counts on without a bound; the count is only ever compared with 2, so
\* the model's stays there.
MarkFailed(fatal) ==
    st' = [st EXCEPT !.reindexing = FALSE, !.error = TRUE,
                     !.failures = IF @ < 2 THEN @ + 1 ELSE 2,
                     !.fatal = IF fatal THEN TRUE ELSE @]

\* get_reindex_status, the two fields every tool response carries.
IndexStale == st.reindexing \/ st.stale

----------------------------------------------------------------------------
(* Worker threads: index_folder (full walk or fast path) and index_file *)

Active(w)   == job[w].pc \in Working
Returned(w) == job[w].pc \in {"ok", "nochange", "failed"}
JobOf(c)    == {w \in Workers : job[w].owner = c}

\* What reading the given files finds.
OnDisk(files) == [f \in Files |-> IF f \in files THEN disk[f] ELSE 0]

Submit(w, c, kind, files, old) ==
    /\ job[w].pc = "idle"
    /\ job' = [job EXCEPT ![w] = [IdleJob EXCEPT
                 !.pc = "read", !.kind = kind, !.owner = c,
                 !.files = files, !.old = old]]

\* The call returns: an awaiting caller finds the result, a job whose task was
\* cancelled just ends.
Return(w, result) ==
    job' = [job EXCEPT ![w] =
              IF job[w].owner = Nobody THEN IdleJob
              ELSE [IdleJob EXCEPT !.pc = result, !.owner = job[w].owner]]

\* Full walk: discovery finds the files, and takes the mtimes of all of them before
\* any is read.
StatAll(w) ==
    /\ job[w].pc = "read" /\ job[w].kind = "full"
    /\ job' = [job EXCEPT ![w] = [@ EXCEPT
                !.pc = "detect", !.stamped = Files, !.mtime = disk]]
    /\ UNCHANGED <<disk, idx, st, lock, loop, dirty, cache, thr>>

\* Full walk: hash the files that are not in the index or whose mtime differs from
\* the recorded one; those whose hash differs too are new or changed.
DetectChanges(w) ==
    LET suspect == {f \in Files : idx.hash[f] = 0 \/ job[w].mtime[f] # idx.mtime[f]}
        changed == {f \in suspect : disk[f] # idx.hash[f]} IN
    /\ job[w].pc = "detect"
    /\ \/ /\ changed = {}
          /\ Return(w, "nochange")
       \/ /\ changed # {}
          /\ job' = [job EXCEPT ![w] = [@ EXCEPT
                !.pc = "reread", !.files = changed, !.hash = OnDisk(changed)]]
    /\ UNCHANGED <<disk, idx, st, lock, loop, dirty, cache, thr>>

\* Full walk: the changed files are read again to be parsed, while the hashes of
\* the first reading are kept.  A file that can no longer be read stays in the
\* change list without content.
Reread(w) ==
    \E unread \in SUBSET job[w].files :
      /\ job[w].pc = "reread"
      /\ unread # {} => CanFail
      /\ job' = [job EXCEPT ![w] = [@ EXCEPT
                   !.pc = "save", !.content = OnDisk(job[w].files \ unread)]]
      /\ UNCHANGED <<disk, idx, st, lock, loop, dirty, cache, thr>>

\* Fast path and index_file: read each named file once and hash what was read.
\* The fast path drops the files whose hash is the one the caller passed, and an
\* unreadable file with a warning.
ReadChanged(w) ==
    \E unread \in SUBSET job[w].files :
      LET seen    == job[w].files \ unread
          changed == {f \in seen : job[w].kind = "file" \/ disk[f] # job[w].old[f]} IN
      /\ job[w].pc = "read" /\ job[w].kind \in {"fast", "file"}
      /\ unread # {} => CanFail /\ job[w].kind = "fast"
      /\ job' = [job EXCEPT ![w] = [@ EXCEPT
                   !.pc = "stat", !.files = changed, !.stamped = seen, !.old = NoRows,
                   !.hash = OnDisk(changed), !.content = OnDisk(changed)]]
      /\ UNCHANGED <<disk, idx, st, lock, loop, dirty, cache, thr>>

\* Fast path and index_file: the mtime to record is taken after the reading.
StatAfterRead(w) ==
    /\ job[w].pc = "stat"
    /\ job' = [job EXCEPT ![w] = [@ EXCEPT
                !.pc = IF job[w].kind = "file" THEN "compare"
                       ELSE IF job[w].files = {} THEN "save" ELSE "capture",
                !.mtime = OnDisk(job[w].stamped)]]
    /\ UNCHANGED <<disk, idx, st, lock, loop, dirty, cache, thr>>

\* index_file loads the index only now, and drops the file if its hash is there.
CompareWithIndex(w) ==
    /\ job[w].pc = "compare"
    /\ job' = [job EXCEPT ![w] = [@ EXCEPT
                !.pc = "save",
                !.files = {f \in job[w].files : job[w].hash[f] # idx.hash[f]}]]
    /\ UNCHANGED <<disk, idx, st, lock, loop, dirty, cache, thr>>

\* The deferred generation is captured before the index is saved.
CaptureGeneration(w) ==
    /\ job[w].pc = "capture"
    /\ job' = [job EXCEPT ![w] = [@ EXCEPT !.pc = "save", !.gen = st.generation]]
    /\ UNCHANGED <<disk, idx, st, lock, loop, dirty, cache, thr>>

\* incremental_save: the symbol rows of the changed files are replaced, a file
\* without content keeps its recorded hash, and every file the call looked at
\* gets the mtime it took.  With no changed file only mtimes are written.  What
\* follows the commit may fail.  If it does not, the fast path starts the daemon
\* thread, unless there is nothing to summarise.
SaveIndex(w) ==
    LET j      == job[w]
        result == IF j.files = {} THEN "nochange" ELSE "ok" IN
    /\ j.pc = "save"
    /\ idx' = [hash  |-> [f \in Files |-> IF f \in j.files /\ j.content[f] # 0
                                         THEN j.hash[f] ELSE idx.hash[f]],
               mtime |-> [f \in Files |-> IF f \in j.stamped
                                         THEN j.mtime[f] ELSE idx.mtime[f]],
               syms  |-> [f \in Files |-> IF f \in j.files
                                         THEN j.content[f] ELSE idx.syms[f]]]
    /\ \/ /\ thr' = thr
          /\ Return(w, result) \/ (CanFail /\ Return(w, "failed"))
       \/ /\ j.kind = "fast" /\ j.files # {}
          /\ \E t \in Threads :
               /\ thr[t].pc = "idle"
               /\ thr' = [thr EXCEPT ![t] = [pc |-> "check1", gen |-> j.gen,
                                             files |-> j.files, content |-> j.content]]
          /\ Return(w, result)
    /\ UNCHANGED <<disk, st, lock, loop, dirty, cache>>

\* The call raises, or returns {"success": False}, before its save committed.
FailJob(w) ==
    /\ CanFail
    /\ Active(w)
    /\ Return(w, "failed")
    /\ UNCHANGED <<disk, idx, st, lock, loop, dirty, cache, thr>>

----------------------------------------------------------------------------
(* _run_deferred_summarize *)

Check1(t) ==
    /\ thr[t].pc = "check1"
    /\ thr' = [thr EXCEPT ![t] = IF @.gen = st.generation
                                 THEN [@ EXCEPT !.pc = "summarize"] ELSE IdleThr]
    /\ UNCHANGED <<disk, idx, st, lock, loop, dirty, cache, job>>

\* The summariser produced nothing: the thread ends without a second check.
NothingSummarized(t) ==
    /\ thr[t].pc = "summarize"
    /\ thr' = [thr EXCEPT ![t] = IdleThr]
    /\ UNCHANGED <<disk, idx, st, lock, loop, dirty, cache, job>>

\* A wrong second half: the lock is taken, the generation is not looked at.
Check2Omitted(t) ==
    /\ thr[t].pc = "summarize"
    /\ lock = Nobody
    /\ thr' = [thr EXCEPT ![t] = [@ EXCEPT !.pc = "saving"]]
    /\ lock' = t
    /\ UNCHANGED <<disk, idx, st, loop, dirty, cache, job>>

\* Take the save lock and look at the generation again.
Check2(t) ==
    /\ thr[t].pc = "summarize"
    /\ lock = Nobody
    /\ \/ /\ thr[t].gen # st.generation
          /\ thr' = [thr EXCEPT ![t] = IdleThr]
          /\ lock' = lock
       \/ /\ thr[t].gen = st.generation
          /\ thr' = [thr EXCEPT ![t] = [@ EXCEPT !.pc = "saving"]]
          /\ lock' = t
    /\ UNCHANGED <<disk, idx, st, loop, dirty, cache, job>>

\* A wrong end of the thread, which leaves the lock taken when the save has failed.
SaveSummariesKeepsLock(t) ==
    /\ thr[t].pc = "saving"
    /\ \/ /\ idx' = [idx EXCEPT !.syms = [f \in Files |->
                       IF f \in thr[t].files THEN thr[t].content[f] ELSE idx.syms[f]]]
          /\ lock' = Nobody
       \/ CanFail /\ UNCHANGED <<idx, lock>>
    /\ thr' = [thr EXCEPT ![t] = IdleThr]
    /\ UNCHANGED <<disk, st, loop, dirty, cache, job>>

\* incremental_save with empty change lists: only the symbol rows are replaced,
\* then the lock is released; a failed save is logged and dropped.
SaveSummaries(t) ==
    /\ thr[t].pc = "saving"
    /\ \/ idx' = [idx EXCEPT !.syms = [f \in Files |->
                    IF f \in thr[t].files THEN thr[t].content[f] ELSE idx.syms[f]]]
       \/ CanFail /\ idx' = idx
    /\ thr' = [thr EXCEPT ![t] = IdleThr]
    /\ lock' = Nobody
    /\ UNCHANGED <<disk, st, loop, dirty, cache, job>>

----------------------------------------------------------------------------
(* The watch loop *)

Subscribed == loop \in {"listen", "eventWait", "rebuild"}

\* _start_watch_task, by add_folder or a takeover.
StartLoop ==
    /\ loop = "off"
    /\ loop' = "init"
    /\ cache' = NoRows
    /\ UNCHANGED <<disk, idx, st, lock, dirty, job, thr>>

\* watchfiles is missing: a fatal failure before any reindex, the task raises.
DependencyMissing ==
    /\ CanFail
    /\ loop = "init"
    /\ loop' = "fatal"
    /\ MarkFailed(TRUE)
    /\ UNCHANGED <<disk, idx, lock, dirty, cache, job, thr>>

StartInitialIndex ==
    /\ loop = "init"
    /\ loop' = "initWait"
    /\ MarkStart
    /\ \E w \in Workers : Submit(w, Watch, "full", {}, NoRows)
    /\ UNCHANGED <<disk, idx, lock, dirty, cache, thr>>

\* The file hashes _build_hash_cache gets from load_index: the stored ones, or
\* those of the index object incremental_save has patched in memory, which has
\* lost the hash of a file that was in the change list without content.
LoadedHashes == {idx.hash, [f \in Files |-> IF idx.syms[f] = 0 THEN 0 ELSE idx.hash[f]]}

\* The initial index returned; on success the hash cache is built from the store.
InitialIndexReturned(w) ==
    /\ loop = "initWait"
    /\ job[w].owner = Watch /\ Returned(w)
    /\ \/ /\ job[w].pc # "failed"
          /\ cache' \in LoadedHashes
          /\ loop' = "initDone"
          /\ st' = st
       \/ /\ job[w].pc = "failed"
          /\ cache' = cache
          /\ loop' \in {"listen", "crashed"}   \* an error result, or an exception
          /\ MarkFailed(FALSE)
    /\ job' = [job EXCEPT ![w] = IdleJob]
    /\ UNCHANGED <<disk, idx, lock, dirty, thr>>

\* mark_reindex_done; only now is awatch started.
InitialIndexDone ==
    /\ loop = "initDone"
    /\ loop' = "listen"
    /\ MarkDone
    /\ UNCHANGED <<disk, idx, lock, dirty, cache, job, thr>>

\* WatcherManager.run finds the task dead: _record_task_crash marks one more
\* failure, and the task is started again unless its failure is fatal.
RecordCrash ==
    /\ loop \in {"crashed", "fatal"}
    /\ MarkFailed(loop = "fatal")
    /\ loop' = IF loop = "fatal" THEN "off" ELSE "init"
    /\ cache' = NoRows
    /\ UNCHANGED <<disk, idx, lock, dirty, job, thr>>

\* A wrong loop body, which does not announce the reindex.
StartEventReindexUnmarked ==
    /\ loop = "listen"
    /\ dirty # {}
    /\ loop' = "eventWait"
    /\ dirty' = {}
    /\ \E w \in Workers : Submit(w, Watch, "fast", dirty, cache)
    /\ UNCHANGED <<disk, idx, st, lock, cache, thr>>

\* awatch yields everything buffered; each file goes with its cached old hash.
StartEventReindex ==
    /\ loop = "listen"
    /\ dirty # {}
    /\ loop' = "eventWait"
    /\ dirty' = {}
    /\ MarkStart
    /\ \E w \in Workers : Submit(w, Watch, "fast", dirty, cache)
    /\ UNCHANGED <<disk, idx, lock, cache, thr>>

\* Wrong loop bodies: an error result, or an empty one, is not marked; the events
\* that came in during the reindex are thrown away.
EventFailureUnmarked(w) ==
    /\ loop = "eventWait"
    /\ job[w].owner = Watch /\ Returned(w)
    /\ \/ job[w].pc = "ok" /\ MarkDone /\ loop' = "rebuild"
       \/ job[w].pc = "nochange" /\ MarkDone /\ loop' = "listen"
       \/ job[w].pc = "failed" /\ st' = st /\ loop' = "listen"
    /\ job' = [job EXCEPT ![w] = IdleJob]
    /\ UNCHANGED <<disk, idx, lock, dirty, cache, thr>>

EventNoChangeUnmarked(w) ==
    /\ loop = "eventWait"
    /\ job[w].owner = Watch /\ Returned(w)
    /\ \/ job[w].pc = "ok" /\ MarkDone /\ loop' = "rebuild"
       \/ job[w].pc = "nochange" /\ st' = st /\ loop' = "listen"
       \/ job[w].pc = "failed" /\ MarkFailed(FALSE) /\ loop' = "listen"
    /\ job' = [job EXCEPT ![w] = IdleJob]
    /\ UNCHANGED <<disk, idx, lock, dirty, cache, thr>>

EventsDropped(w) ==
    /\ loop = "eventWait"
    /\ job[w].owner = Watch /\ Returned(w)
    /\ \/ job[w].pc = "ok" /\ MarkDone /\ loop' = "rebuild"
       \/ job[w].pc = "nochange" /\ MarkDone /\ loop' = "listen"
       \/ job[w].pc = "failed" /\ MarkFailed(FALSE) /\ loop' = "listen"
    /\ job' = [job EXCEPT ![w] = IdleJob]
    /\ dirty' = {}
    /\ UNCHANGED <<disk, idx, lock, cache, thr>>

EventReindexReturned(w) ==
    /\ loop = "eventWait"
    /\ job[w].owner = Watch /\ Returned(w)
    /\ \/ job[w].pc = "ok" /\ MarkDone /\ loop' = "rebuild"
       \/ job[w].pc = "nochange" /\ MarkDone /\ loop' = "listen"
       \/ job[w].pc = "failed" /\ MarkFailed(FALSE) /\ loop' = "listen"
    /\ job' = [job EXCEPT ![w] = IdleJob]
    /\ UNCHANGED <<disk, idx, lock, dirty, cache, thr>>

\* The cache as it was before T6: filled by reading the files again.
RebuildCacheFromDisk ==
    /\ loop = "rebuild"
    /\ loop' = "listen"
    /\ cache' = disk
    /\ UNCHANGED <<disk, idx, st, lock, dirty, job, thr>>

\* _build_hash_cache, from the index the reindex has just written.
RebuildCache ==
    /\ loop = "rebuild"
    /\ loop' = "listen"
    /\ cache' \in LoadedHashes
    /\ UNCHANGED <<disk, idx, st, lock, dirty, job, thr>>

\* remove_folder or stop cancels the task at its await.  CancelledError passes
\* every "except Exception", and the worker thread runs on without an owner.
CancelLoop ==
    /\ CanCancel
    /\ loop \in {"init", "initWait", "listen", "eventWait", "crashed", "fatal"}
    /\ loop' = "off"
    /\ dirty' = {}
    /\ job' = [w \in Workers |->
                 IF job[w].owner # Watch THEN job[w]
                 ELSE IF Returned(w) THEN IdleJob
                 ELSE [job[w] EXCEPT !.owner = Nobody]]
    /\ UNCHANGED <<disk, idx, st, lock, cache, thr>>

----------------------------------------------------------------------------
(* The other callers, and the editor *)

\* ensure_indexed lets one caller per folder through to _do_reindex.
StartEnsure(c) ==
    /\ \A e \in Ensurers : JobOf(e) = {}
    /\ MarkStart
    /\ \E w \in Workers : Submit(w, c, "full", {}, NoRows)
    /\ UNCHANGED <<disk, idx, lock, loop, dirty, cache, thr>>

EnsureReturned(w) ==
    /\ job[w].owner \in Ensurers /\ Returned(w)
    /\ IF job[w].pc = "failed" THEN MarkFailed(FALSE) ELSE MarkDone
    /\ job' = [job EXCEPT ![w] = IdleJob]
    /\ UNCHANGED <<disk, idx, lock, loop, dirty, cache, thr>>

\* index_file on one file.  Nothing in reindex_state is told.
StartTool(c, f) ==
    /\ JobOf(c) = {}
    /\ \E w \in Workers : Submit(w, c, "file", {f}, NoRows)
    /\ UNCHANGED <<disk, idx, st, lock, loop, dirty, cache, thr>>

ToolReturned(w) ==
    /\ job[w].owner \in Tools /\ Returned(w)
    /\ job' = [job EXCEPT ![w] = IdleJob]
    /\ UNCHANGED <<disk, idx, st, lock, loop, dirty, cache, thr>>

\* An edit.  Only a subscribed loop gets an event for it.
Edit(f) ==
    /\ disk[f] < MaxVersion
    /\ QuietStart => Subscribed
    /\ disk' = [disk EXCEPT ![f] = @ + 1]
    /\ dirty' = IF Subscribed THEN dirty \cup {f} ELSE dirty
    /\ UNCHANGED <<idx, st, lock, loop, cache, job, thr>>

----------------------------------------------------------------------------
WorkerStep(w) == \/ StatAll(w) \/ DetectChanges(w) \/ Reread(w)
                 \/ ReadChanged(w) \/ StatAfterRead(w) \/ CompareWithIndex(w)
                 \/ CaptureGeneration(w) \/ SaveIndex(w)

ThreadStep(t) == Check1(t) \/ NothingSummarized(t) \/ Check2(t) \/ SaveSummaries(t)

ResultStep(w) == InitialIndexReturned(w) \/ EventReindexReturned(w)
                 \/ EnsureReturned(w) \/ ToolReturned(w)

LoopStep == StartInitialIndex \/ InitialIndexDone \/ StartEventReindex \/ RebuildCache

Next ==
    \/ \E f \in Files : Edit(f)
    \/ \E w \in Workers : WorkerStep(w) \/ FailJob(w) \/ ResultStep(w)
    \/ \E t \in Threads : ThreadStep(t)
    \/ StartLoop \/ DependencyMissing \/ RecordCrash \/ LoopStep \/ CancelLoop
    \/ \E c \in Ensurers : StartEnsure(c)
    \/ \E c \in Tools, f \in Files : StartTool(c, f)

Spec == Init /\ [][Next]_vars

\* Threads are scheduled and the event loop runs; nobody must edit, cancel, fail
\* or call a tool.  The loop is started because the folder was added.
Fairness ==
    /\ WF_vars(StartLoop) /\ WF_vars(LoopStep)
    /\ \A w \in Workers : WF_vars(WorkerStep(w)) /\ WF_vars(ResultStep(w))
    /\ \A t \in Threads : WF_vars(ThreadStep(t))

FairSpec == Spec /\ Fairness

----------------------------------------------------------------------------
(* Properties *)

\* T7 (reindex_state.py 67-71): a deferred save never puts symbol rows parsed
\* from older content under the newer hash a later reindex has recorded.
NoStaleOverwrite == \A f \in Files : idx.syms[f] = 0 \/ idx.hash[f] <= idx.syms[f]

\* The lock discipline behind it (mark_reindex_start and the second check of
\* _run_deferred_summarize): while a deferred save is being written, no reindex
\* of a newer generation has started, whoever the callers are.
GenerationFixedWhileSaving ==
    \A t \in Threads : thr[t].pc = "saving" =>
        lock = t /\ thr[t].gen = st.generation

\* get_reindex_status tells the truth in one direction: as long as a tracked
\* reindex runs or waits to be marked done, index_stale is reported.
StaleWhileReindexing ==
    \A w \in Workers : job[w].owner \in Tracked => IndexStale

\* ... and in the other: reindex_in_progress is reported only as long as an
\* index_folder call runs, or its caller is about to mark it done or failed.
InProgressOnlyWhileReindexing ==
    st.reindexing => \/ loop = "initDone"
                     \/ \E w \in Workers : /\ job[w].pc # "idle"
                                           /\ job[w].owner \notin Tools

\* T6 (watcher.py 392-397): the fast path skips a file as unchanged only when
\* its symbol rows are those of the content on disk.
SkippedOnlyIfCurrent ==
    \A w \in Workers : job[w].pc = "read" /\ job[w].kind = "fast" =>
        \A f \in job[w].files : job[w].old[f] = disk[f] => idx.syms[f] = disk[f]

\* mark_reindex_done's "index is now fresh": when the loop is waiting for events,
\* none is buffered and the status does not say stale, hashes and symbol rows
\* are those of the files on disk.
FreshWhenReportedFresh ==
    loop = "listen" /\ dirty = {} /\ ~IndexStale
        => idx.hash = disk /\ idx.syms = disk

\* detect_changes_with_mtimes's "mtime unchanged -- skip hash, file is unchanged":
\* a full walk skips a file for its mtime only when the index has its content.
SkipsOnlyUnchanged ==
    \A w \in Workers : job[w].pc = "detect" =>
        \A f \in Files : idx.hash[f] # 0 /\ job[w].mtime[f] = idx.mtime[f]
                            => job[w].mtime[f] = idx.hash[f]

\* get_reindex_status tolerates one failure: what it takes for the second
\* consecutive one, other than fatal, came from a second reindex.
OneFailurePerReindex == st.failures = 2 /\ ~st.fatal => st.generation >= 2

\* Every reindex that is marked started is marked ended, which is what sets the
\* event strict-mode readers wait for.
ReindexEnds == st.reindexing ~> ~st.reindexing

\* Once the edits stop, the index settles on the contents on disk.
Converges == <>[](idx.hash = disk /\ idx.syms = disk)
=============================================================================
