---------------------------- MODULE SingleFlight ----------------------------
(***************************************************************************)
(* What WatcherManager.ensure_indexed promises (watcher.py 675-680): one   *)
(* reindex per folder at a time, and everybody who calls while it runs is  *)
(* answered by a reindex that ends after the call.                         *)
(*                                                                         *)
(* The reindexes of a folder are numbered in the order they end.           *)
(***************************************************************************)
EXTENDS Naturals

CONSTANTS Callers,  \* tasks of the server
          Folders   \* folders they want indexed

VARIABLES call,   \* [Callers -> what the caller is doing]
          ended   \* [Folders -> the number of reindexes that have ended]

\* The calls: a runner reindexes, a joiner waits; both were made when "since"
\* reindexes had ended, and leave with the number of the one that answered them.
Idle == [pc |-> "idle"]
Calls == {Idle}
         \cup [pc : {"running", "joined"}, folder : Folders, since : Nat]
         \cup [pc : {"done"}, flight : Nat]

Init ==
    /\ call = [c \in Callers |-> Idle]
    /\ ended = [f \in Folders |-> 0]

Running(c, f) == call[c].pc = "running" /\ call[c].folder = f

Begin(c, f) ==
    /\ call[c] = Idle
    /\ call' = [call EXCEPT ![c] =
                  [pc     |-> IF \E d \in Callers : Running(d, f) THEN "joined" ELSE "running",
                   folder |-> f, since |-> ended[f]]]
    /\ ended' = ended

\* The runner's reindex ends, and answers its caller.
End(c) ==
    /\ call[c].pc = "running"
    /\ ended' = [ended EXCEPT ![call[c].folder] = @ + 1]
    /\ call' = [call EXCEPT ![c] =
                  [pc |-> "done", flight |-> ended[call[c].folder] + 1]]

\* A joiner is answered by a reindex that ended since its call.
Answer(c) ==
    /\ call[c].pc = "joined"
    /\ \E n \in (call[c].since + 1)..ended[call[c].folder] :
         call' = [call EXCEPT ![c] = [pc |-> "done", flight |-> n]]
    /\ ended' = ended

Leave(c) ==
    /\ call[c].pc = "done"
    /\ call' = [call EXCEPT ![c] = Idle]
    /\ ended' = ended

Next == \E c \in Callers : \/ \E f \in Folders : Begin(c, f)
                           \/ End(c) \/ Answer(c) \/ Leave(c)

Spec == Init /\ [][Next]_<<call, ended>>
=============================================================================
