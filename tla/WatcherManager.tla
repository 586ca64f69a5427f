--------------------------- MODULE WatcherManager ---------------------------
(***************************************************************************)
(* The WatcherManagers (watcher.py) of the server processes that share one *)
(* index directory, for one folder they all want to watch: who holds the   *)
(* folder's watcher lock, who stands by, and how a standby takes over when *)
(* the holder lets go, fails or dies.                                      *)
(*                                                                         *)
(* A manager runs on one event loop, so what it does between two awaits is *)
(* one step.  The lock is atomic here (module ProcessLock has its inside): *)
(* it can be acquired when nobody or a dead process holds it.              *)
(***************************************************************************)
EXTENDS Naturals

CONSTANTS Managers,     \* server processes, with one manager each
          Nobody,       \* the lock file does not exist
          MaxRestarts,  \* _MAX_RESTARTS of run
          CanFail,      \* whether tasks, signals and lock attempts may fail
          CanDie        \* whether processes may be killed

ASSUME ManagerAssumption ==
    /\ Nobody \notin Managers
    /\ MaxRestarts \in Nat \ {0}
    /\ {CanFail, CanDie} \subseteq BOOLEAN

VARIABLES owner,      \* the process named by the lock file
          up,         \* whether a process runs, is shutting down or is gone
          task,       \* the folder's task in _active
          watched,    \* managers with the folder in _watched
          locked,     \* managers with the folder in _locked
          standby,    \* managers with the folder in _standby
          sig,        \* the _standby_signal_loop task
          signalled,  \* loops with a change of the signal file to look at
          throttled,  \* managers whose last takeover attempt is too recent
          removing,   \* managers inside remove_folder, awaiting the task
          orphans,    \* managers with an index_folder thread whose task is gone
          auto,       \* a tool call inside _auto_watch_if_needed
          restarts,   \* _restart_count of run
          wanted      \* managers whose callers added the folder, not removed it

vars == <<owner, up, task, watched, locked, standby, sig, signalled, throttled,
          removing, orphans, auto, restarts, wanted>>

TaskPc == {"none", "indexing", "watching", "crashed", "fatal"}

TypeOK ==
    /\ owner \in Managers \cup {Nobody}
    /\ up \in [Managers -> {"up", "stopping", "stopped", "dead"}]
    /\ task \in [Managers -> TaskPc]
    /\ sig \in [Managers -> {"none", "starting", "listening"}]
    /\ auto \in [Managers -> {"idle", "ensure", "ensureThenAdd"}]
    /\ restarts \in [Managers -> 0..MaxRestarts]
    /\ watched \subseteq Managers /\ locked \subseteq Managers
    /\ standby \subseteq Managers /\ signalled \subseteq Managers
    /\ throttled \subseteq Managers /\ removing \subseteq Managers
    /\ orphans \subseteq Managers /\ wanted \subseteq Managers

Init ==
    /\ owner = Nobody
    /\ up = [m \in Managers |-> "up"]
    /\ task = [m \in Managers |-> "none"]
    /\ sig = [m \in Managers |-> "none"]
    /\ auto = [m \in Managers |-> "idle"]
    /\ restarts = [m \in Managers |-> 0]
    /\ watched = {} /\ locked = {} /\ standby = {} /\ signalled = {}
    /\ throttled = {} /\ removing = {} /\ orphans = {} /\ wanted = {}

Serving(m) == up[m] = "up"
Running(m) == Serving(m) /\ restarts[m] < MaxRestarts

----------------------------------------------------------------------------
(* The lock, the standby set and the watch task *)

Acquirable == owner \in {Nobody} \cup {k \in Managers : up[k] = "dead"}

\* _release_lock: the lock file goes, and the signal file tells the loops that
\* listen; failing to write it is not an error.
ReleaseLock ==
    /\ owner' = Nobody
    /\ \/ signalled' = signalled \cup {k \in Managers : sig[k] = "listening"}
       \/ CanFail /\ signalled' = signalled

MarkStandby(m) ==
    /\ standby' = standby \cup {m}
    /\ sig' = [sig EXCEPT ![m] = IF @ = "none" THEN "starting" ELSE @]

ClearStandby(m) ==
    /\ standby' = standby \ {m}
    /\ sig' = [sig EXCEPT ![m] = "none"]
    /\ throttled' = throttled \ {m}

StartTask(m) ==
    /\ task' = [task EXCEPT ![m] = "indexing"]
    /\ watched' = watched \cup {m}

\* The common part of add_folder and maybe_takeover for a folder not watched:
\* acquire the lock and start, or stand by.
TakeOrStandBy(m, attempts) ==
    \/ /\ Acquirable
       /\ owner' = m
       /\ locked' = locked \cup {m}
       /\ ClearStandby(m)
       /\ signalled' = signalled \ {m}
       /\ StartTask(m)
    \/ /\ ~Acquirable
       /\ MarkStandby(m)
       /\ signalled' = signalled \ {m}
       /\ throttled' = attempts
       /\ UNCHANGED <<owner, locked, task, watched>>

\* maybe_takeover, unless it returns without an attempt.
Attempt(m) ==
    /\ m \notin watched \cup throttled
    /\ TakeOrStandBy(m, throttled \cup {m})

----------------------------------------------------------------------------
(* add_folder, remove_folder, stop *)

AddFolder(m) ==
    /\ Serving(m)
    /\ wanted' = wanted \cup {m}
    /\ m \notin watched
    /\ TakeOrStandBy(m, throttled)
    /\ UNCHANGED <<up, removing, orphans, auto, restarts>>

\* A wrong remove_folder, which forgets the folder and not its standby.
RemoveStandbyKept(m) ==
    /\ m \in standby
    /\ m \notin watched
    /\ wanted' = wanted \ {m}
    /\ UNCHANGED <<owner, up, task, watched, locked, standby, sig, signalled, throttled,
                   removing, orphans, auto, restarts>>

\* remove_folder of a folder that is not watched: it no longer stands by.
RemoveStandby(m) ==
    /\ up[m] \in {"up", "stopping"}
    /\ m \in standby
    /\ m \notin watched
    /\ ClearStandby(m)
    /\ signalled' = signalled \ {m}
    /\ wanted' = wanted \ {m}
    /\ UNCHANGED <<owner, up, task, watched, locked, removing, orphans, auto, restarts>>

\* A wrong remove_folder, which releases the lock before the task has ended.
RemoveReleasesFirst(m) ==
    /\ up[m] \in {"up", "stopping"}
    /\ m \in watched \ removing
    /\ removing' = removing \cup {m}
    /\ wanted' = wanted \ {m}
    /\ locked' = locked \ {m}
    /\ ReleaseLock
    /\ UNCHANGED <<up, task, watched, standby, sig, throttled, orphans, auto, restarts>>

\* remove_folder of a watched folder, up to its await: the task is cancelled; an
\* index_folder thread it was waiting for runs on.
RemoveBegin(m) ==
    /\ up[m] \in {"up", "stopping"}
    /\ m \in watched \ removing
    /\ removing' = removing \cup {m}
    /\ orphans' = IF task[m] = "indexing" THEN orphans \cup {m} ELSE orphans
    /\ task' = [task EXCEPT ![m] = "none"]
    /\ wanted' = wanted \ {m}
    /\ UNCHANGED <<owner, up, watched, locked, standby, sig, signalled, throttled,
                   auto, restarts>>

\* ... and after it: whatever was added meanwhile came back as already watched.
RemoveEnd(m) ==
    /\ m \in removing
    /\ removing' = removing \ {m}
    /\ watched' = watched \ {m}
    /\ locked' = locked \ {m}
    /\ IF m \in locked THEN ReleaseLock ELSE UNCHANGED <<owner, signalled>>
    /\ UNCHANGED <<up, task, standby, sig, throttled, orphans, auto, restarts, wanted>>

\* The thread of a cancelled task ends.
OrphanEnds(m) ==
    /\ m \in orphans
    /\ orphans' = orphans \ {m}
    /\ UNCHANGED <<owner, up, task, watched, locked, standby, sig, signalled, throttled,
                   removing, auto, restarts, wanted>>

\* The server sets stop_event: run and the signal loops do nothing more, tool
\* calls find no manager.
BeginStop(m) ==
    /\ up[m] = "up"
    /\ up' = [up EXCEPT ![m] = "stopping"]
    /\ UNCHANGED <<owner, task, watched, locked, standby, sig, signalled, throttled,
                   removing, orphans, auto, restarts, wanted>>

\* stop: a folder still in _active is let go, and nothing stands by.
Stop(m) ==
    /\ up[m] = "stopping"
    /\ up' = [up EXCEPT ![m] = "stopped"]
    /\ ClearStandby(m)
    /\ wanted' = wanted \ {m}
    /\ \/ /\ task[m] = "none"
          /\ signalled' = signalled \ {m}
          /\ UNCHANGED <<owner, task, watched, locked, orphans>>
       \/ /\ task[m] # "none"
          /\ task' = [task EXCEPT ![m] = "none"]
          /\ orphans' = IF task[m] = "indexing" THEN orphans \cup {m} ELSE orphans
          /\ watched' = watched \ {m}
          /\ locked' = locked \ {m}
          /\ IF m \in locked THEN ReleaseLock ELSE UNCHANGED <<owner, signalled>>
    /\ UNCHANGED <<removing, auto, restarts>>

----------------------------------------------------------------------------
(* The watch task and the run loop *)

\* The initial index is over, and awatch is started.
TaskIndexed(m) ==
    /\ task[m] = "indexing"
    /\ task' = [task EXCEPT ![m] = "watching"]
    /\ UNCHANGED <<owner, up, watched, locked, standby, sig, signalled, throttled,
                   removing, orphans, auto, restarts, wanted>>

\* The task raises; WatcherDependencyError, before anything else, is fatal.
TaskRaises(m) ==
    /\ CanFail
    /\ \/ task[m] \in {"indexing", "watching"} /\ task' = [task EXCEPT ![m] = "crashed"]
       \/ task[m] = "indexing" /\ task' = [task EXCEPT ![m] = "fatal"]
    /\ UNCHANGED <<owner, up, watched, locked, standby, sig, signalled, throttled,
                   removing, orphans, auto, restarts, wanted>>

\* A wrong run loop, which gives a fatal folder up and keeps its lock.
FatalKeepsLock(m) ==
    /\ Running(m)
    /\ task[m] = "fatal"
    /\ task' = [task EXCEPT ![m] = "none"]
    /\ watched' = watched \ {m}
    /\ UNCHANGED <<owner, up, locked, standby, sig, signalled, throttled,
                   removing, orphans, auto, restarts, wanted>>

\* A wrong limit, which is looked at before the count is raised.
RunPassRaisesOnceMore(m) ==
    /\ CanFail
    /\ Serving(m) /\ m \in standby \ (watched \cup throttled)
    /\ restarts[m] <= MaxRestarts
    /\ restarts' = [restarts EXCEPT ![m] = @ + 1]
    /\ throttled' = throttled \cup {m}
    /\ UNCHANGED <<owner, up, task, watched, locked, standby, sig, signalled,
                   removing, orphans, auto, wanted>>

\* One pass of run over _active: a crashed task is started again, a fatal one is
\* given up.
RestartCrashed(m) ==
    /\ Running(m)
    /\ task[m] = "crashed"
    /\ StartTask(m)
    /\ UNCHANGED <<owner, up, locked, standby, sig, signalled, throttled,
                   removing, orphans, auto, restarts, wanted>>

GiveUpFatal(m) ==
    /\ Running(m)
    /\ task[m] = "fatal"
    /\ task' = [task EXCEPT ![m] = "none"]
    /\ watched' = watched \ {m}
    /\ locked' = locked \ {m}
    /\ IF m \in locked THEN ReleaseLock ELSE UNCHANGED <<owner, signalled>>
    /\ UNCHANGED <<up, standby, sig, throttled, removing, orphans, auto, restarts, wanted>>

\* A wrong pass, which retries only what was signalled.
RetrySignalled(m) ==
    /\ Running(m)
    /\ m \in standby \cap signalled
    /\ Attempt(m)
    /\ UNCHANGED <<up, removing, orphans, auto, restarts, wanted>>

\* ... and over _standby.
RetryStandby(m) ==
    /\ Running(m)
    /\ m \in standby
    /\ Attempt(m)
    /\ UNCHANGED <<up, removing, orphans, auto, restarts, wanted>>

\* The pass raises (the lock file cannot be read, say): run counts it, and gives
\* up for good at MaxRestarts.
RunPassRaises(m) ==
    /\ CanFail
    /\ Running(m) /\ m \in standby \ (watched \cup throttled)
    /\ restarts' = [restarts EXCEPT ![m] = @ + 1]
    /\ throttled' = throttled \cup {m}
    /\ UNCHANGED <<owner, up, task, watched, locked, standby, sig, signalled,
                   removing, orphans, auto, wanted>>

ThrottleExpires(m) ==
    /\ m \in throttled
    /\ throttled' = throttled \ {m}
    /\ UNCHANGED <<owner, up, task, watched, locked, standby, sig, signalled,
                   removing, orphans, auto, restarts, wanted>>

----------------------------------------------------------------------------
(* _standby_signal_loop *)

\* awatch is subscribed to the lock directory; what was signalled before is lost.
Subscribe(m) ==
    /\ sig[m] = "starting"
    /\ sig' = [sig EXCEPT ![m] = "listening"]
    /\ UNCHANGED <<owner, up, task, watched, locked, standby, signalled, throttled,
                   removing, orphans, auto, restarts, wanted>>

\* A change of the signal file; a throttled attempt is not made up for.
HandleSignal(m) ==
    /\ Serving(m)
    /\ m \in signalled /\ sig[m] = "listening"
    /\ \/ Attempt(m)
       \/ /\ m \in throttled
          /\ signalled' = signalled \ {m}
          /\ UNCHANGED <<owner, task, watched, locked, standby, sig, throttled>>
    /\ UNCHANGED <<up, removing, orphans, auto, restarts, wanted>>

\* awatch raises, and the loop starts again in 5 s; or it cannot be imported.
SignalLoopFails(m) ==
    /\ CanFail
    /\ \/ sig[m] = "listening" /\ sig' = [sig EXCEPT ![m] = "starting"]
       \/ sig[m] = "starting" /\ sig' = [sig EXCEPT ![m] = "none"]
    /\ signalled' = signalled \ {m}
    /\ UNCHANGED <<owner, up, task, watched, locked, standby, throttled,
                   removing, orphans, auto, restarts, wanted>>

----------------------------------------------------------------------------
(* _auto_watch_if_needed, before a tool runs on a folder that is not watched *)

AutoWatch(m) ==
    /\ Serving(m)
    /\ auto[m] = "idle"
    /\ m \notin watched
    /\ wanted' = wanted \cup {m}
    /\ \/ /\ Attempt(m)
          /\ auto' = [auto EXCEPT ![m] =
                        IF Acquirable THEN "ensure" ELSE "ensureThenAdd"]
       \/ /\ m \in throttled
          /\ auto' = [auto EXCEPT ![m] = "ensureThenAdd"]
          /\ UNCHANGED <<owner, task, watched, locked, standby, sig, signalled, throttled>>
    /\ UNCHANGED <<up, removing, orphans, restarts>>

\* ensure_indexed has returned; add_folder looks at _watched again.
AutoWatchIndexed(m) ==
    /\ up[m] # "dead"
    /\ auto[m] # "idle"
    /\ auto' = [auto EXCEPT ![m] = "idle"]
    /\ \/ /\ auto[m] = "ensureThenAdd" /\ Serving(m) /\ m \notin watched
          /\ wanted' = wanted \cup {m}
          /\ TakeOrStandBy(m, throttled)
       \/ /\ ~(auto[m] = "ensureThenAdd" /\ Serving(m) /\ m \notin watched)
          /\ UNCHANGED <<owner, task, watched, locked, standby, sig, signalled,
                         throttled, wanted>>
    /\ UNCHANGED <<up, removing, orphans, restarts>>

----------------------------------------------------------------------------
\* The process is killed: what it remembers goes, the lock file stays.
Die(m) ==
    /\ CanDie
    /\ up[m] # "dead"
    /\ up' = [up EXCEPT ![m] = "dead"]
    /\ task' = [task EXCEPT ![m] = "none"]
    /\ sig' = [sig EXCEPT ![m] = "none"]
    /\ auto' = [auto EXCEPT ![m] = "idle"]
    /\ watched' = watched \ {m} /\ locked' = locked \ {m} /\ standby' = standby \ {m}
    /\ signalled' = signalled \ {m} /\ throttled' = throttled \ {m}
    /\ removing' = removing \ {m} /\ orphans' = orphans \ {m} /\ wanted' = wanted \ {m}
    /\ UNCHANGED <<owner, restarts>>

CallerStep(m) == \/ AddFolder(m) \/ RemoveStandby(m) \/ RemoveBegin(m) \/ RemoveEnd(m)
                 \/ BeginStop(m) \/ Stop(m) \/ AutoWatch(m) \/ AutoWatchIndexed(m)

LoopStep(m) == \/ TaskIndexed(m) \/ TaskRaises(m) \/ RestartCrashed(m) \/ GiveUpFatal(m)
               \/ RetryStandby(m) \/ RunPassRaises(m) \/ ThrottleExpires(m)
               \/ Subscribe(m) \/ HandleSignal(m) \/ SignalLoopFails(m) \/ OrphanEnds(m)

Next == \E m \in Managers : CallerStep(m) \/ LoopStep(m) \/ Die(m)

Spec == Init /\ [][Next]_vars

\* run wakes up again and again, a second passes, and remove_folder's await and
\* a shutdown end.
Fairness ==
    \A m \in Managers :
        /\ WF_vars(RetryStandby(m)) /\ WF_vars(ThrottleExpires(m))
        /\ WF_vars(RestartCrashed(m)) /\ WF_vars(GiveUpFatal(m))
        /\ WF_vars(RemoveEnd(m)) /\ WF_vars(Stop(m))

FairSpec == Spec /\ Fairness

----------------------------------------------------------------------------
(* Properties *)

\* process_locks.py 8: only one process actively watches a given repo, whatever
\* the order of additions, removals, takeovers, crashes and deaths.
OneWatcher ==
    \A m, k \in Managers : task[m] # "none" /\ task[k] # "none" => m = k

\* A live process keeps the lock only as long as it has a task for the folder or
\* is awaiting its end: the others could never take over (watcher.py 660-665,
\* 773-777, 818-821).
NoLockLeak ==
    \A m \in Managers : owner = m /\ up[m] # "dead" => task[m] # "none" \/ m \in removing

\* A folder the caller has removed is not resurrected by a later lock release or
\* retry (remove_folder 641-645).
OnlyWantedWatched ==
    \A m \in Managers : task[m] # "none" => m \in wanted

\* As long as a manager stands by, somebody watches or soon will: nobody signals a
\* death, a signal may be lost or throttled, and a watcher may crash for good
\* (run 749-786).  Only a holder whose run loop has ended can stay crashed.
Failover ==
    \A m \in Managers :
        m \in standby /\ Running(m) ~>
            \/ m \notin standby \/ ~Running(m)
            \/ \E k \in Managers : task[k] \in {"indexing", "watching"}
            \/ \E k \in Managers : task[k] # "none" /\ ~Running(k)

\* process_locks.py 6: only one process indexes a given repo at a time.
Indexing(m) == task[m] = "indexing" \/ m \in orphans \/ auto[m] # "idle"

OneIndexer == \A m, k \in Managers : Indexing(m) /\ Indexing(k) => m = k

\* run's message (watcher.py 800): it is abandoned after consecutive crashes, so
\* a pass that does not crash starts the count again.
CrashesAreConsecutive ==
    [][\A m \in Managers : RetryStandby(m) => restarts'[m] = 0]_vars
=============================================================================
