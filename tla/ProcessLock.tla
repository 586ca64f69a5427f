---------------------------- MODULE ProcessLock ----------------------------
(***************************************************************************)
(* storage/process_locks.py: one (scope, target) lock file shared by the   *)
(* server processes that use one index directory.  acquire creates the     *)
(* file with O_EXCL, writes the owner's pid into it, opens it again by     *)
(* name and flocks what it opened; a file that names no live process is    *)
(* taken for stale and removed first.  A process may die at any step: its  *)
(* file stays, its flock does not.                                         *)
(***************************************************************************)
EXTENDS Naturals

CONSTANTS Procs,   \* server processes, named by their pids
          Inodes,  \* files, which outlive their name while they are open
          NoFile,  \* the lock path does not exist, or nothing is open
          Empty    \* content of a file created but not yet written

ASSUME LockAssumption == NoFile \notin Inodes /\ Empty \notin Procs

VARIABLES lockFile,  \* the inode the lock path names
          payload,   \* the pid written into each inode
          fd,        \* the inode each process has open
          pc         \* where each process is

vars == <<lockFile, payload, fd, pc>>

PcSet == {"idle", "create", "write", "open", "flock", "undo", "inspect", "remove",
          "recreate", "failed", "held", "unlink", "dead"}

TypeOK ==
    /\ lockFile \in Inodes \cup {NoFile}
    /\ payload \in [Inodes -> Procs \cup {Empty}]
    /\ fd \in [Procs -> Inodes \cup {NoFile}]
    /\ pc \in [Procs -> PcSet]
    /\ \A p \in Procs : pc[p] \in {"write", "flock", "held"} => fd[p] \in Inodes

Init ==
    /\ lockFile = NoFile
    /\ payload = [i \in Inodes |-> Empty]
    /\ fd = [p \in Procs |-> NoFile]
    /\ pc = [p \in Procs |-> "idle"]

Goto(p, to) == pc' = [pc EXCEPT ![p] = to]

\* An flock lives as long as the descriptor it was taken on.
Flocked(i) == \E q \in Procs : pc[q] = "held" /\ fd[q] = i

----------------------------------------------------------------------------
(* acquire *)

\* A caller wants the lock: save_index, or the watcher taking a folder.
Acquire(p) ==
    /\ pc[p] = "idle"
    /\ Goto(p, "create")
    /\ UNCHANGED <<lockFile, payload, fd>>

\* The O_EXCL open of _try_create, the first time and after a recovery.
TryCreate(p) ==
    /\ pc[p] \in {"create", "recreate"}
    /\ \/ /\ lockFile = NoFile
          /\ \E i \in Inodes :
               /\ \A q \in Procs : fd[q] # i
               /\ lockFile' = i
               /\ payload' = [payload EXCEPT ![i] = Empty]
               /\ fd' = [fd EXCEPT ![p] = i]
          /\ Goto(p, "write")
       \/ /\ lockFile # NoFile
          /\ Goto(p, IF pc[p] = "create" THEN "inspect" ELSE "failed")
          /\ UNCHANGED <<lockFile, payload, fd>>

\* os.write, os.close: into the file created, whatever the path names by now.
WritePayload(p) ==
    /\ pc[p] = "write"
    /\ payload' = [payload EXCEPT ![fd[p]] = p]
    /\ fd' = [fd EXCEPT ![p] = NoFile]
    /\ Goto(p, "open")
    /\ UNCHANGED lockFile

\* A wrong reopen, which takes for granted that the path still names a file.
OpenUnchecked(p) ==
    /\ pc[p] = "open"
    /\ fd' = [fd EXCEPT ![p] = lockFile]
    /\ Goto(p, "flock")
    /\ UNCHANGED <<lockFile, payload>>

\* _apply_flock opens the path again, by name.
OpenByName(p) ==
    /\ pc[p] = "open"
    /\ fd' = [fd EXCEPT ![p] = lockFile]
    /\ Goto(p, IF lockFile = NoFile THEN "failed" ELSE "flock")
    /\ UNCHANGED <<lockFile, payload>>

Flock(p) ==
    /\ pc[p] = "flock"
    /\ \/ /\ ~Flocked(fd[p])
          /\ Goto(p, "held")
          /\ fd' = fd
       \/ /\ Flocked(fd[p])
          /\ Goto(p, "undo")
          /\ fd' = [fd EXCEPT ![p] = NoFile]
    /\ UNCHANGED <<lockFile, payload>>

\* A wrong undo, which leaves its file behind.
UndoFlockKeepsFile(p) ==
    /\ pc[p] = "undo"
    /\ Goto(p, "failed")
    /\ UNCHANGED <<lockFile, payload, fd>>

\* The flock was refused: unlink the path, whoever's file it names.
UndoFlock(p) ==
    /\ pc[p] = "undo"
    /\ lockFile' = NoFile
    /\ Goto(p, "failed")
    /\ UNCHANGED <<payload, fd>>

\* A wrong recovery, which takes an empty file for a live holder's.
InspectTrustsEmpty(p) ==
    /\ pc[p] = "inspect"
    /\ Goto(p, IF lockFile = NoFile \/ (payload[lockFile] # Empty
                                        /\ pc[payload[lockFile]] = "dead")
               THEN "remove" ELSE "failed")
    /\ UNCHANGED <<lockFile, payload, fd>>

\* The path is taken: give up if it names a live process.  A file that is gone,
\* unreadable or empty, or names a dead process, is to be removed.
InspectHolder(p) ==
    /\ pc[p] = "inspect"
    /\ Goto(p, IF lockFile # NoFile /\ payload[lockFile] # Empty
                  /\ pc[payload[lockFile]] # "dead"
               THEN "failed" ELSE "remove")
    /\ UNCHANGED <<lockFile, payload, fd>>

\* The unlink is by name, too, and comes after the look at the file.
RemoveStale(p) ==
    /\ pc[p] = "remove"
    /\ lockFile' = NoFile
    /\ Goto(p, "recreate")
    /\ UNCHANGED <<payload, fd>>

\* held.__enter__ tries again until its deadline; then the caller is refused.
PollAgain(p) ==
    /\ pc[p] = "failed"
    /\ Goto(p, "create")
    /\ UNCHANGED <<lockFile, payload, fd>>

GiveUp(p) ==
    /\ pc[p] = "failed"
    /\ Goto(p, "idle")
    /\ UNCHANGED <<lockFile, payload, fd>>

----------------------------------------------------------------------------
(* release, and the death of a process *)

\* A wrong release, which closes the descriptor and forgets the file.
CloseOnly(p) ==
    /\ pc[p] = "held"
    /\ fd' = [fd EXCEPT ![p] = NoFile]
    /\ Goto(p, "idle")
    /\ UNCHANGED <<lockFile, payload>>

CloseHeld(p) ==
    /\ pc[p] = "held"
    /\ fd' = [fd EXCEPT ![p] = NoFile]
    /\ Goto(p, "unlink")
    /\ UNCHANGED <<lockFile, payload>>

UnlinkHeld(p) ==
    /\ pc[p] = "unlink"
    /\ lockFile' = NoFile
    /\ Goto(p, "idle")
    /\ UNCHANGED <<payload, fd>>

Die(p) ==
    /\ pc[p] # "dead"
    /\ Goto(p, "dead")
    /\ fd' = [fd EXCEPT ![p] = NoFile]
    /\ UNCHANGED <<lockFile, payload>>

----------------------------------------------------------------------------
AcquireStep(p) == \/ TryCreate(p) \/ WritePayload(p) \/ OpenByName(p) \/ Flock(p)
                  \/ UndoFlock(p) \/ InspectHolder(p) \/ RemoveStale(p)

Next == \E p \in Procs : \/ Acquire(p) \/ AcquireStep(p) \/ PollAgain(p) \/ GiveUp(p)
                         \/ CloseHeld(p) \/ UnlinkHeld(p) \/ Die(p)

Spec == Init /\ [][Next]_vars

\* A call of acquire runs to its end unless its process dies.
FairSpec == Spec /\ \A p \in Procs : WF_vars(AcquireStep(p))

----------------------------------------------------------------------------
(* Properties *)

\* The module's promise (process_locks.py 6-9): one process at a time.
MutualExclusion ==
    \A p, q \in Procs : pc[p] = "held" /\ pc[q] = "held" => p = q

\* The processes whose file may be the one the path names: between the write of
\* the payload and the unlink of the failed flock or of release.
Inside == {"open", "flock", "undo", "held", "unlink"}

\* A lock file that names a live process blocks every other process, so it may
\* only be there while this process is inside acquire or holds the lock.
LockFileOwned ==
    \A p \in Procs : lockFile # NoFile /\ payload[lockFile] = p
                        => pc[p] \in Inside \cup {"dead"}

Alone(p) == \A q \in Procs \ {p} : pc[q] = "dead"

\* Whatever the dead left behind, the one process that is left acquires the lock
\* in a single call of acquire.
StaleRecovered ==
    \A p \in Procs :
        pc[p] = "create" /\ Alone(p) ~> pc[p] \in {"held", "dead"}
=============================================================================
