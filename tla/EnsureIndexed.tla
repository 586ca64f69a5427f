---------------------------- MODULE EnsureIndexed ----------------------------
(***************************************************************************)
(* WatcherManager.ensure_indexed (watcher.py 674-732): tasks of one event  *)
(* loop that want folders indexed share the set _pending, the results      *)
(* _pending_results and one asyncio.Condition for all folders.             *)
(*                                                                         *)
(* What a task does between two awaits is one step, and _pending_lock is   *)
(* never held across an await, so that it is free whenever a task wants it.*)
(* A result is known by the number of its reindex: what the reindexes read *)
(* and write is the subject of Reindex.                                    *)
(***************************************************************************)
EXTENDS Naturals

CONSTANTS Callers,     \* server tasks: tool calls inside _auto_watch_if_needed
          Folders,     \* folders to index
          Nowhere,     \* the folder of a task that is not in a call
          MaxFlights,  \* bound: reindexes of one folder
          CanAbort     \* whether a task may be cancelled or _do_reindex may raise

ASSUME EnsureAssumption ==
    /\ Nowhere \notin Folders
    /\ MaxFlights \in Nat
    /\ CanAbort \in BOOLEAN

VARIABLES pending,  \* _pending
          results,  \* _pending_results: the last reindex of each folder, 0 if none
          pc,       \* where each task is
          folder,   \* what it asked for
          since,    \* the last reindex of the folder when it called
          result    \* what it is answered

vars == <<pending, results, pc, folder, since, result>>

Flight == 0..MaxFlights
Busy     == {"reindex", "publish", "wait", "woken"}
PcSet    == Busy \cup {"idle", "done", "failed", "left"}

TypeOK ==
    /\ pending \subseteq Folders
    /\ results \in [Folders -> Flight]
    /\ pc \in [Callers -> PcSet]
    /\ folder \in [Callers -> Folders \cup {Nowhere}]
    /\ \A c \in Callers : pc[c] # "idle" => folder[c] \in Folders
    /\ since \in [Callers -> Flight]
    /\ result \in [Callers -> Flight]

Init ==
    /\ pending = {}
    /\ results = [f \in Folders |-> 0]
    /\ pc = [c \in Callers |-> "idle"]
    /\ folder = [c \in Callers |-> Nowhere]
    /\ since = [c \in Callers |-> 0]
    /\ result = [c \in Callers |-> 0]

Goto(c, to) == pc' = [pc EXCEPT ![c] = to]

----------------------------------------------------------------------------
\* A call up to its first await: index_folder in a thread, or the condition.
Enter(c, f, to) ==
    /\ pc[c] = "idle"
    /\ Goto(c, to)
    /\ folder' = [folder EXCEPT ![c] = f]
    /\ since' = [since EXCEPT ![c] = results[f]]
    /\ UNCHANGED <<results, result>>

\* A wrong fast path, which puts the folder into _pending only after the reindex.
LeadUnguarded(c, f) ==
    /\ f \notin pending
    /\ results[f] < MaxFlights
    /\ pending' = pending
    /\ Enter(c, f, "reindex")

\* The fast path: nobody reindexes the folder.
Lead(c, f) ==
    /\ f \notin pending
    /\ results[f] < MaxFlights
    /\ pending' = pending \cup {f}
    /\ Enter(c, f, "reindex")

\* The slow path: wait until nobody does.
Join(c, f) ==
    /\ f \in pending
    /\ pending' = pending
    /\ Enter(c, f, "wait")

\* The thread of index_folder returns or raises: _do_reindex has a result.
ThreadReturns(c) ==
    /\ pc[c] = "reindex"
    /\ Goto(c, "publish")
    /\ UNCHANGED <<pending, results, folder, since, result>>

\* The result of the task's own reindex, and the end of the call.
Publish(c, wakes) ==
    LET f == folder[c] IN
    /\ pc[c] = "publish"
    /\ results' = [results EXCEPT ![f] = @ + 1]
    /\ result' = [result EXCEPT ![c] = results'[f]]
    /\ pending' = pending \ {f}
    /\ pc' = [d \in Callers |-> IF d = c THEN "done"
                                ELSE IF d \in wakes THEN "woken" ELSE pc[d]]
    /\ UNCHANGED <<folder, since>>

Waiters == {d \in Callers : pc[d] = "wait"}

\* A wrong finally block, which notifies one waiter only.
FinishNotifiesOne(c) ==
    IF Waiters = {} THEN Publish(c, {}) ELSE \E d \in Waiters : Publish(c, {d})

\* The finally block: publish, clear, notify_all -- the waiters of all folders.
Finish(c) == Publish(c, Waiters)

\* A wrong wait, which does not look at _pending again.
WakeUnchecked(c) ==
    /\ pc[c] = "woken"
    /\ Goto(c, "done")
    /\ result' = [result EXCEPT ![c] = results[folder[c]]]
    /\ UNCHANGED <<pending, results, folder, since>>

\* The waiter has the lock again: its folder is still, or again, being reindexed,
\* or it is answered with the last result there is.
Wake(c) ==
    /\ pc[c] = "woken"
    /\ \/ /\ folder[c] \in pending
          /\ Goto(c, "wait")
          /\ result' = result
       \/ /\ folder[c] \notin pending
          /\ Goto(c, "done")
          /\ result' = [result EXCEPT ![c] = results[folder[c]]]
    /\ UNCHANGED <<pending, results, folder, since>>

\* The caller goes on with its answer.
Leave(c) ==
    /\ pc[c] = "done"
    /\ Goto(c, "idle")
    /\ folder' = [folder EXCEPT ![c] = Nowhere]
    /\ since' = [since EXCEPT ![c] = 0]
    /\ result' = [result EXCEPT ![c] = 0]
    /\ UNCHANGED <<pending, results>>

\* The leader is cancelled at its await, or _do_reindex raises before its try block:
\* in the finally block "result" is unbound, the UnboundLocalError comes before
\* the folder leaves _pending, and nobody is notified.
Fail(c) ==
    /\ CanAbort
    /\ pc[c] \in {"reindex", "publish"}
    /\ Goto(c, "failed")
    /\ UNCHANGED <<pending, results, folder, since, result>>

\* A waiter is cancelled.
Cancel(c) ==
    /\ CanAbort
    /\ pc[c] \in {"wait", "woken"}
    /\ Goto(c, "left")
    /\ UNCHANGED <<pending, results, folder, since, result>>

----------------------------------------------------------------------------
FlightStep(c) == ThreadReturns(c) \/ Finish(c)

Next == \E c \in Callers : \/ \E f \in Folders : Lead(c, f) \/ Join(c, f)
                           \/ FlightStep(c) \/ Wake(c) \/ Leave(c) \/ Fail(c) \/ Cancel(c)

Spec == Init /\ [][Next]_vars

\* The threads and the event loop run.
FairSpec == Spec /\ \A c \in Callers : WF_vars(FlightStep(c)) /\ WF_vars(Wake(c))

----------------------------------------------------------------------------
(* Properties *)

\* Leading(c, f): c runs a reindex of f.
Leading(c, f) == pc[c] \in {"reindex", "publish"} /\ folder[c] = f

\* ensure_indexed 675: only one reindex runs per folder at a time.
OneReindexPerFolder ==
    \A f \in Folders, c, d \in Callers : Leading(c, f) /\ Leading(d, f) => c = d

\* ensure_indexed 677-678: who joins waits for the reindex to complete, and is not
\* left waiting when it has.
EveryCallReturns == \A c \in Callers : pc[c] \in Busy ~> pc[c] \notin Busy

\* The same, but for the folders whose leader has failed, which stay in _pending.
ReturnsUnlessFailed ==
    \A c \in Callers :
        pc[c] \in Busy ~> \/ pc[c] \notin Busy
                         \/ \E d \in Callers : pc[d] = "failed" /\ folder[d] = folder[c]

\* The calls as SingleFlight sees them: one that failed or was cancelled looks like
\* one that has not ended.
AbstractCall(c) ==
    IF pc[c] = "idle" THEN [pc |-> "idle"]
    ELSE IF pc[c] = "done" THEN [pc |-> "done", flight |-> result[c]]
    ELSE [pc     |-> IF pc[c] \in {"reindex", "publish", "failed"} THEN "running"
                                                                   ELSE "joined",
          folder |-> folder[c], since |-> since[c]]

\* _pending, _pending_results and the condition together do what ensure_indexed
\* promises: one flight per folder, and an answer is the result of a reindex that
\* ended after the call (watcher.py 675-705).
Promise == INSTANCE SingleFlight
    WITH call <- [c \in Callers |-> AbstractCall(c)],
         ended <- results

OneFlightAnswersAll == Promise!Spec
=============================================================================
