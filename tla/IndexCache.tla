----------------------------- MODULE IndexCache -----------------------------
(***************************************************************************)
(* storage/sqlite_store.py: one repository's SQLite index and the          *)
(* in-memory CodeIndex that each server process caches for it, keyed by    *)
(* the modification time of the .db and .db-wal files.                     *)
(*                                                                         *)
(* load_index reads meta, symbols and files with three autocommit SELECTs, *)
(* takes the time once more and caches what it has built.  save_index and  *)
(* incremental_save write in one transaction, then touch the .db, take its *)
(* time and cache the index they saved: incremental_save patches the       *)
(* cached index it found before it wrote, if there was one.                *)
(*                                                                         *)
(* The meta table, and each file's symbol rows and files row, are known by *)
(* the number of the save that wrote them; 0 stands for no rows.           *)
(***************************************************************************)
EXTENDS Naturals

CONSTANTS Procs,     \* server processes
          Files,     \* the files of the repository
          Loads,     \* slots for threads inside load_index
          Saves,     \* slots for threads inside save_index or incremental_save
          MaxSaves,  \* bound: committed saves
          MaxStamp,  \* bound: checkpoints happen below this stamp
          Overlap,   \* whether calls may overlap
          CanLose    \* whether a changed file may be unreadable when parsed

ASSUME CacheAssumption ==
    /\ Loads \cap Saves = {}
    /\ MaxSaves \in Nat /\ MaxStamp \in Nat
    /\ Overlap \in BOOLEAN /\ CanLose \in BOOLEAN

VARIABLES db,     \* the committed tables
          stamp,  \* _db_mtime_ns: the newest modification time of .db and .db-wal
          entry,  \* _index_cache of each process; stamp 0 for no entry
          locked, \* the thread that holds the "indexwrite" lock, if any
          pc,     \* where each thread is
          at,     \* the process it runs in
          old,    \* what an incremental_save found in the cache before it wrote
          built   \* the CodeIndex a thread has built, so far

vars == <<db, stamp, entry, locked, pc, at, old, built>>

Threads == Loads \cup Saves
SaveNo  == 0..MaxSaves
Index   == [meta : SaveNo, symbols : [Files -> SaveNo], files : [Files -> SaveNo]]
Entry   == [stamp : Nat, index : Index]
NoRows  == [f \in Files |-> 0]
NoIndex == [meta |-> 0, symbols |-> NoRows, files |-> NoRows]
NoEntry == [stamp |-> 0, index |-> NoIndex]
PcSet   == {"idle", "symbols", "files", "stat", "return",
            "replace", "delta", "touch", "put"}

TypeOK ==
    /\ db \in Index
    /\ stamp \in Nat \ {0}
    /\ entry \in [Procs -> Entry]
    /\ locked \in SUBSET Saves
    /\ pc \in [Threads -> PcSet]
    /\ at \in [Threads -> Procs]
    /\ old \in [Threads -> Entry]
    /\ built \in [Threads -> Index]
    /\ \A o \in locked : pc[o] \in {"replace", "touch", "put"}

Init ==
    /\ db = NoIndex
    /\ stamp = 1
    /\ entry = [p \in Procs |-> NoEntry]
    /\ locked = {}
    /\ pc = [o \in Threads |-> "idle"]
    /\ at \in [Threads -> Procs]
    /\ old = [o \in Threads |-> NoEntry]
    /\ built = [o \in Threads |-> NoIndex]

Goto(o, to) == pc' = [pc EXCEPT ![o] = to]

\* _cache_get: the entry counts only with the time the database has now.
Fresh(p) == entry[p].stamp = stamp

CachePut(p, index) == entry' = [entry EXCEPT ![p] = [stamp |-> stamp, index |-> index]]

\* The call ends, and its local variables with it.
Leave(o) ==
    /\ Goto(o, "idle")
    /\ old' = [old EXCEPT ![o] = NoEntry]
    /\ built' = [built EXCEPT ![o] = NoIndex]

Enter(o, p) ==
    /\ pc[o] = "idle"
    /\ Overlap \/ \A q \in Threads : pc[q] = "idle"
    /\ at' = [at EXCEPT ![o] = p]

----------------------------------------------------------------------------
(* load_index *)

\* A wrong lookup, which takes any entry for a fresh one.
LookupUnchecked(o, p) ==
    /\ Enter(o, p)
    /\ entry[p].stamp # 0
    /\ built' = [built EXCEPT ![o] = entry[p].index]
    /\ Goto(o, "return")
    /\ UNCHANGED <<db, stamp, entry, locked, old>>

\* The cached index is fresh: it is the answer.
LookupHit(o, p) ==
    /\ Enter(o, p)
    /\ Fresh(p)
    /\ built' = [built EXCEPT ![o] = entry[p].index]
    /\ Goto(o, "return")
    /\ UNCHANGED <<db, stamp, entry, locked, old>>

\* It is not: the first of the three SELECTs.
ReadMeta(o, p) ==
    /\ Enter(o, p)
    /\ ~Fresh(p)
    /\ built' = [built EXCEPT ![o] = [NoIndex EXCEPT !.meta = db.meta]]
    /\ Goto(o, "symbols")
    /\ UNCHANGED <<db, stamp, entry, locked, old>>

ReadSymbols(o) ==
    /\ pc[o] = "symbols"
    /\ built' = [built EXCEPT ![o].symbols = db.symbols]
    /\ Goto(o, "files")
    /\ UNCHANGED <<db, stamp, entry, locked, at, old>>

ReadFiles(o) ==
    /\ pc[o] = "files"
    /\ built' = [built EXCEPT ![o].files = db.files]
    /\ Goto(o, "stat")
    /\ UNCHANGED <<db, stamp, entry, locked, at, old>>

\* The time is taken after the reading, and the index cached under it.
StatAndPut(o) ==
    /\ pc[o] = "stat"
    /\ CachePut(at[o], built[o])
    /\ Goto(o, "return")
    /\ UNCHANGED <<db, stamp, locked, at, old, built>>

Return(o) ==
    /\ pc[o] = "return"
    /\ Leave(o)
    /\ UNCHANGED <<db, stamp, entry, locked, at>>

----------------------------------------------------------------------------
(* save_index and incremental_save *)

\* save_index waits for the lock of process_locks.py, taken here for the exclusive
\* lock it means to be; incremental_save takes none.
SaveIndex(o, p) ==
    /\ Enter(o, p)
    /\ db.meta < MaxSaves
    /\ locked = {}
    /\ locked' = {o}
    /\ Goto(o, "replace")
    /\ UNCHANGED <<db, stamp, entry, old, built>>

\* The old index is looked up before the write changes the time.
IncrementalSave(o, p) ==
    /\ Enter(o, p)
    /\ db.meta < MaxSaves
    /\ old' = [old EXCEPT ![o] = IF Fresh(p) THEN entry[p] ELSE NoEntry]
    /\ Goto(o, "delta")
    /\ UNCHANGED <<db, stamp, entry, locked, built>>

\* _save_index_locked: the three tables are emptied and filled again with the
\* index the caller has, which is also what will be cached.
Replace(o) ==
    /\ pc[o] = "replace"
    /\ db.meta < MaxSaves
    /\ \E present \in SUBSET Files :
         LET rows == [f \in Files |-> IF f \in present THEN db.meta + 1 ELSE 0]
             new  == [meta |-> db.meta + 1, symbols |-> rows, files |-> rows] IN
         /\ db' = new
         /\ built' = [built EXCEPT ![o] = new]
    /\ stamp' = stamp + 1
    /\ Goto(o, "touch")
    /\ UNCHANGED <<entry, locked, at, old>>

\* A table of save numbers after save n has replaced the rows of some files and
\* deleted those of others.
Patch(rows, n, replaced, deleted) ==
    [f \in Files |-> IF f \in deleted THEN 0 ELSE IF f \in replaced THEN n ELSE rows[f]]

\* The sets of files a delta is made of: new and changed ones, deleted ones, those
\* whose symbols alone are saved again with the summaries of _run_deferred_summarize,
\* and changed ones that could not be read when they were to be parsed.
DeltaSets == {d \in [changed : SUBSET Files, deleted : SUBSET Files,
                     summed : SUBSET Files, lost : SUBSET Files] :
                /\ d.changed \cap d.deleted = {}
                /\ d.summed \cap (d.changed \cup d.deleted) = {}
                /\ d.lost \cap (d.changed \cup d.deleted \cup d.summed) = {}
                /\ d.lost # {} => CanLose}

\* What the transaction makes of the tables: a lost file keeps its files row.
Written(n, d) ==
    [meta    |-> n,
     symbols |-> Patch(db.symbols, n, d.changed \cup d.summed, d.deleted \cup d.lost),
     files   |-> Patch(db.files, n, d.changed, d.deleted)]

\* A wrong patch, which leaves the symbols of deleted files in the cached index.
PatchedKeepsDeleted(from, n, d) ==
    [meta    |-> n,
     symbols |-> Patch(from.symbols, n, d.changed \cup d.summed, d.lost),
     files   |-> Patch(from.files, n, d.changed, d.deleted \cup d.lost)]

\* What _patch_index_from_delta makes of a cached index: it forgets the hash of a
\* file that was in the change list without a new one.
Patched(from, n, d) ==
    [meta    |-> n,
     symbols |-> Patch(from.symbols, n, d.changed \cup d.summed, d.deleted \cup d.lost),
     files   |-> Patch(from.files, n, d.changed, d.deleted \cup d.lost)]

\* incremental_save's transaction, which reads the tables back when there is no
\* cached index to patch.
Delta(o) ==
    /\ pc[o] = "delta"
    /\ db.meta < MaxSaves
    /\ \E d \in DeltaSets :
         LET n == db.meta + 1 IN
         /\ db' = Written(n, d)
         /\ built' = [built EXCEPT ![o] =
                        IF old[o].stamp = 0 THEN Written(n, d)
                        ELSE Patched(old[o].index, n, d)]
    /\ stamp' = stamp + 1
    /\ Goto(o, "touch")
    /\ UNCHANGED <<entry, locked, at, old>>

\* os.utime, once the content files are written.
Touch(o) ==
    /\ pc[o] = "touch"
    /\ stamp' = stamp + 1
    /\ Goto(o, "put")
    /\ UNCHANGED <<db, entry, locked, at, old, built>>

\* Without the context manager: the call that raises keeps the lock.
RaiseKeepsLock(o) ==
    /\ pc[o] = "touch"
    /\ Leave(o)
    /\ UNCHANGED <<db, stamp, entry, locked, at>>

\* Writing the content files fails: the save is committed, the call raises.
RaiseAfterCommit(o) ==
    /\ pc[o] = "touch"
    /\ Leave(o)
    /\ locked' = locked \ {o}
    /\ UNCHANGED <<db, stamp, entry, at>>

PutSaved(o) ==
    /\ pc[o] = "put"
    /\ CachePut(at[o], built[o])
    /\ Leave(o)
    /\ locked' = locked \ {o}
    /\ UNCHANGED <<db, stamp, at>>

----------------------------------------------------------------------------
(* The rest of the process, SQLite, and the operating system *)

\* Another repository pushed the entry out, or _cache_evict was called.
Evict(p) ==
    /\ entry[p].stamp # 0
    /\ entry' = [entry EXCEPT ![p] = NoEntry]
    /\ UNCHANGED <<db, stamp, locked, pc, at, old, built>>

\* SQLite checkpoints the WAL into the .db: a new time, the same rows.
Checkpoint ==
    /\ stamp < MaxStamp
    /\ stamp' = stamp + 1
    /\ UNCHANGED <<db, entry, locked, pc, at, old, built>>

\* A process dies, and another one takes its place.
Die(p) ==
    /\ entry' = [entry EXCEPT ![p] = NoEntry]
    /\ pc' = [o \in Threads |-> IF at[o] = p THEN "idle" ELSE pc[o]]
    /\ old' = [o \in Threads |-> IF at[o] = p THEN NoEntry ELSE old[o]]
    /\ built' = [o \in Threads |-> IF at[o] = p THEN NoIndex ELSE built[o]]
    /\ locked' = {o \in locked : at[o] # p}
    /\ UNCHANGED <<db, stamp, at>>

LoadStep(o) == ReadSymbols(o) \/ ReadFiles(o) \/ StatAndPut(o) \/ Return(o)

SaveStep(o) == Replace(o) \/ Delta(o) \/ Touch(o) \/ RaiseAfterCommit(o) \/ PutSaved(o)

Next ==
    \/ \E o \in Loads, p \in Procs : LookupHit(o, p) \/ ReadMeta(o, p)
    \/ \E o \in Saves, p \in Procs : SaveIndex(o, p) \/ IncrementalSave(o, p)
    \/ \E o \in Loads : LoadStep(o)
    \/ \E o \in Saves : SaveStep(o)
    \/ \E p \in Procs : Evict(p) \/ Die(p)
    \/ Checkpoint

Spec == Init /\ [][Next]_vars

----------------------------------------------------------------------------
(* Properties *)

\* _db_mtime_ns, "to ensure cache invalidation works correctly across processes":
\* in no process an entry that counts as fresh differs from the database.
CacheCoherent == \A p \in Procs : Fresh(p) => entry[p].index = db

\* The least of it: once every call has returned, in no process the next load will
\* take for fresh what is not in the database.
CoherentAtRest == (\A o \in Threads : pc[o] = "idle") => CacheCoherent

\* "SQLite WAL handles concurrent reads natively" (process_locks.py 29): the rows
\* that load_index puts together are of one committed state, so that none was
\* written by a later save than the meta row it found.
LoadsOneSave ==
    \A o \in Loads : pc[o] = "return" =>
        \A f \in Files : /\ built[o].symbols[f] <= built[o].meta
                         /\ built[o].files[f] <= built[o].meta

\* A load answers with the database as it is, whatever process has written it,
\* however the writer has ended, and whatever the reader had cached before.
LoadsLatest == \A o \in Loads : pc[o] = "return" => built[o] = db
=============================================================================
