---------------------------- MODULE TokenTracker ----------------------------
(***************************************************************************)
(* storage/token_tracker.py: the tokens saved.  Every server process adds  *)
(* the savings of its calls to a total in memory; every third call, at     *)
(* exit, and on SIGTERM it adds what is not yet written to the total in    *)
(* _savings.json, which all processes share, and queues the new total for  *)
(* the community meter.  One daemon thread posts the queue; the meter      *)
(* keeps the greatest total it has seen.                                   *)
(*                                                                         *)
(* A flush reads the file, truncates it and writes it: no lock excludes    *)
(* another process, and a file caught while it is empty counts as no file. *)
(***************************************************************************)
EXTENDS Naturals, Sequences, FiniteSets, FiniteSetsExt

CONSTANTS Procs,         \* server processes
          MaxSaved,      \* bound: tokens saved, of each kind, by all servers together
          FlushInterval, \* _FLUSH_INTERVAL, 3 calls
          QueueMax,      \* bound: totals of a server that wait to be posted
          Overlap,       \* whether flushes of two processes may overlap
          CanFail        \* whether a kill or a failed write may hit a flush

ASSUME TrackerAssumption ==
    /\ IsFiniteSet(Procs)
    /\ MaxSaved \in Nat /\ FlushInterval \in Nat \ {0} /\ QueueMax \in Nat
    /\ Overlap \in BOOLEAN /\ CanFail \in BOOLEAN

VARIABLES file,      \* _savings.json: its totals, and whether it is half written
          doing,     \* what each process does
          read,      \* the totals its flush has read
          unflushed, \* its savings that are not yet written
          since,     \* its calls since the last flush
          closing,   \* the processes whose next flush is the last
          posts,     \* its totals that wait to be posted
          meter,     \* the community meter: the greatest total posted
          recorded,  \* history: savings recorded, by all processes
          lost       \* history: savings that died with a process

trackerVars == <<file, doing, read, unflushed, since, closing, posts, meter, recorded, lost>>

Kinds == {"tokens", "encoding"}
Zero  == [k \in Kinds |-> 0]
Total == [Kinds -> Nat]
Plus(a, b) == [k \in Kinds |-> a[k] + b[k]]

TrackerTypeOK ==
    /\ file \in [torn : BOOLEAN, total : Total]
    /\ doing \in [Procs -> {"idle", "modify", "write", "ended"}]
    /\ read \in [Procs -> Total]
    /\ unflushed \in [Procs -> Total]
    /\ since \in [Procs -> 0..FlushInterval]
    /\ closing \in SUBSET Procs
    /\ posts \in [Procs -> Seq(Nat)]
    /\ meter \in Nat
    /\ recorded \in Total /\ lost \in Total

TrackerInit ==
    /\ file = [torn |-> FALSE, total |-> Zero]
    /\ doing = [s \in Procs |-> "idle"]
    /\ read = [s \in Procs |-> Zero]
    /\ unflushed = [s \in Procs |-> Zero]
    /\ since = [s \in Procs |-> 0]
    /\ closing = {}
    /\ posts = [s \in Procs |-> <<>>]
    /\ meter = 0
    /\ recorded = Zero
    /\ lost = Zero

----------------------------------------------------------------------------
(* A call, and the flush it may start: read, truncate, write *)

MayFlush(s) == Overlap \/ \A o \in Procs \ {s} : doing[o] \notin {"modify", "write"}

\* _flush_locked writes nothing while no retrieval savings wait, even if savings
\* of the encoding do; otherwise it reads the totals, and none from a torn file.
Flush(s, waiting) ==
    IF waiting["tokens"] = 0
    THEN /\ since' = [since EXCEPT ![s] = 0]
         /\ doing' = [doing EXCEPT ![s] = IF s \in closing' THEN "ended" ELSE "idle"]
         /\ read' = read
    ELSE /\ MayFlush(s)
         /\ doing' = [doing EXCEPT ![s] = "modify"]
         /\ read' = [read EXCEPT ![s] = IF file.torn THEN Zero ELSE file.total]
         /\ since' = since

\* record_savings and record_encoding_savings of n tokens.
Record(s, kind, n) ==
    /\ doing[s] = "idle"
    /\ recorded[kind] + n <= MaxSaved
    /\ recorded' = [recorded EXCEPT ![kind] = @ + n]
    /\ unflushed' = [unflushed EXCEPT ![s][kind] = @ + n]
    /\ closing' = closing
    /\ IF since[s] + 1 >= FlushInterval
       THEN Flush(s, unflushed'[s])
       ELSE /\ since' = [since EXCEPT ![s] = @ + 1]
            /\ UNCHANGED <<doing, read>>
    /\ UNCHANGED <<file, posts, meter, lost>>

\* write_text opens the file for writing, which empties it.
Truncate(s) ==
    /\ doing[s] = "modify"
    /\ doing' = [doing EXCEPT ![s] = "write"]
    /\ file' = [file EXCEPT !.torn = TRUE]
    /\ UNCHANGED <<read, unflushed, since, closing, posts, meter, recorded, lost>>

\* A wrong flush, which still counts as waiting what it has written.
WaitsStill(s) == unflushed[s]

\* What waits after the flush, even one whose write failed.
WaitsAfterFlush(s) == Zero

\* The new totals are written, unless the write fails, which is only logged, and
\* queued to be posted.
WriteTotals(s, ok) ==
    /\ doing[s] = "write"
    /\ ok \/ CanFail
    /\ Len(posts[s]) < QueueMax
    /\ LET total == Plus(read[s], unflushed[s])
       IN  /\ file' = IF ok THEN [torn |-> FALSE, total |-> total] ELSE file
           /\ posts' = [posts EXCEPT ![s] = Append(@, total["tokens"])]
    /\ unflushed' = [unflushed EXCEPT ![s] = WaitsAfterFlush(s)]
    /\ since' = [since EXCEPT ![s] = 0]
    /\ doing' = [doing EXCEPT ![s] = IF s \in closing THEN "ended" ELSE "idle"]
    /\ read' = [read EXCEPT ![s] = Zero]
    /\ UNCHANGED <<closing, meter, recorded, lost>>

----------------------------------------------------------------------------
(* The end of a process *)

\* atexit, and _signal_flush while no call is in the tracker: the last flush.
FlushAtExit(s) ==
    /\ doing[s] = "idle"
    /\ closing' = closing \cup {s}
    /\ Flush(s, unflushed[s])
    /\ UNCHANGED <<file, unflushed, posts, meter, recorded, lost>>

\* A kill; in the middle of a flush only where CanFail says so.
KillProc(s) ==
    /\ doing[s] # "ended"
    /\ CanFail \/ doing[s] = "idle"
    /\ doing' = [doing EXCEPT ![s] = "ended"]
    /\ lost' = Plus(lost, unflushed[s])
    /\ unflushed' = [unflushed EXCEPT ![s] = Zero]
    /\ UNCHANGED <<file, read, since, closing, posts, meter, recorded>>

----------------------------------------------------------------------------
(* The telemetry worker, a daemon thread: it may post, or die with its process *)

\* A wrong meter, which adds the totals up as if they were deltas.
AddPosted(stored, total) == stored + total

\* "the server sets the stored value to GREATEST(stored, total)".
Greatest(stored, total) == IF total > stored THEN total ELSE stored

\* The worker posts the oldest total; a post that fails is not repeated.
Post(s, arrives) ==
    /\ posts[s] # <<>>
    /\ posts' = [posts EXCEPT ![s] = Tail(@)]
    /\ meter' = IF arrives THEN Greatest(meter, Head(posts[s])) ELSE meter
    /\ UNCHANGED <<file, doing, read, unflushed, since, closing, recorded, lost>>

TrackerNext ==
    \E s \in Procs :
       \/ \E kind \in Kinds, n \in 0..1 : Record(s, kind, n)
       \/ Truncate(s)
       \/ \E ok \in BOOLEAN : WriteTotals(s, ok)
       \/ FlushAtExit(s) \/ KillProc(s)
       \/ \E arrives \in BOOLEAN : Post(s, arrives)

TrackerSpec == TrackerInit /\ [][TrackerNext]_trackerVars

----------------------------------------------------------------------------
(* Properties *)

Waiting(k) == MapThenSumSet(LAMBDA s : unflushed[s][k], Procs)

\* Whenever the file can be read, it and what still waits in the processes add up
\* to what all processes have recorded, less what was killed with them: "concurrent
\* processes do not overwrite cumulative totals" (ARCHITECTURE.md 661).
EveryTokenCounted ==
    ~file.torn => \A k \in Kinds :
        file.total[k] + Waiting(k) + lost[k] = recorded[k]

\* Whatever overlaps, fails or is killed, a total is lost and never counted twice:
\* neither the file nor the meter shows more than was saved.
NeverOvercounted ==
    /\ \A k \in Kinds : file.total[k] + Waiting(k) + lost[k] <= recorded[k]
    /\ meter <= recorded["tokens"]

\* The meter is never ahead of the file, whatever the order and the losses of
\* the posts of the processes: it "converges to the local total" (15) from below.
MeterNotAhead == ~file.torn => meter <= file.total["tokens"]

\* A process that ends in order leaves nothing unwritten (22-23: "Flushes to disk
\* ... at process exit via atexit").
NothingLeftAtExit ==
    \A s \in closing : doing[s] = "ended" => unflushed[s] = Zero
=============================================================================
