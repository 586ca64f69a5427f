---------------------------- MODULE ToolResults ----------------------------
(***************************************************************************)
(* The results that one server process keeps and the dispatcher that hands *)
(* them out (server.py call_tool): the search_symbols cache, whose key has *)
(* the index's indexed_at, and the session cache of get_blast_radius (and  *)
(* find_references), whose key has not and which the dispatcher clears     *)
(* after each index tool.                                                  *)
(*                                                                         *)
(* The object a tool has cached is the object it returns, so that what the *)
(* dispatcher does to the answer -- the turn budget's warning, the removal *)
(* of _meta -- is done to the cached result as well; a hit returns a copy. *)
(*                                                                         *)
(* One repository.  Its index is known by a version, its indexed_at.       *)
(***************************************************************************)
EXTENDS Naturals, Sequences, SequencesExt

CONSTANTS Calls,       \* tool calls that run at a time
          Queries,     \* distinct arguments of a tool
          MaxVersion,  \* bound: versions of the index
          CacheMax,    \* capacity of each cache (128 and 256)
          Threshold,   \* outputs that make 80% of a turn's budget
          Silent,      \* whether the watcher and register_edit write the index
          StripMeta    \* what meta_fields = [] or suppress_meta may ask of a call

ASSUME ToolAssumption ==
    /\ MaxVersion \in Nat \ {0} /\ CacheMax \in Nat \ {0} /\ Threshold \in Nat \ {0}
    /\ Silent \in BOOLEAN
    /\ StripMeta \in (SUBSET BOOLEAN) \ {{}}

VARIABLES version,   \* indexed_at of the stored index
          writer,    \* the tool that is between its commit and its invalidation
          behind,    \* history: the session cache may hold an older version's result
          cache,     \* [Tools -> results, the least recently used first]
          call,      \* what each call is doing
          spent,     \* outputs recorded in the turn, up to Threshold
          reply      \* the answer sent in the last step, if it sent one

toolVars == <<version, writer, behind, cache, call, spent, reply>>

Tools    == {"search_symbols", "get_blast_radius"}
Versions == 1..MaxVersion
\* A cached result: its key, the version it was computed from, whether it has
\* _meta and budget_warning, and the call that still shares the object, if any.
Result  == [query : Queries, at : Versions \cup {0}, of : Versions,
            meta : BOOLEAN, warned : BOOLEAN, sharedBy : SUBSET Calls]
Idle    == [pc |-> "idle"]
Working == [pc : {"load", "compute", "dispatch"}, tool : Tools, query : Queries,
            asked : Versions, current : BOOLEAN, of : Versions, warned : BOOLEAN]
NoReply == [tool |-> "none"]
Reply   == [tool : Tools, ok : BOOLEAN, asked : Versions, current : BOOLEAN,
            of : Versions, warned : BOOLEAN, near : BOOLEAN]

ToolTypeOK ==
    /\ version \in Versions
    /\ writer \in {"none", "index", "edit"}
    /\ behind \in BOOLEAN
    /\ cache \in [Tools -> Seq(Result)]
    /\ \A t \in Tools : Len(cache[t]) <= CacheMax
    /\ call \in [Calls -> {Idle} \cup Working]
    /\ spent \in 0..Threshold
    /\ reply \in {NoReply} \cup Reply

ToolInit ==
    /\ version = 1
    /\ writer = "none"
    /\ behind = FALSE
    /\ cache = [t \in Tools |-> <<>>]
    /\ call = [c \in Calls |-> Idle]
    /\ spent = 0
    /\ reply = NoReply

----------------------------------------------------------------------------
(* The caches: ordered dictionaries, evicted from the front *)

\* A wrong key, which leaves the version out of every key.
KeyVersionNever(tool, v) == 0

\* "Include indexed_at in key so cache auto-invalidates on reindex": search only.
KeyVersion(tool, v) == IF tool = "search_symbols" THEN v ELSE 0

Has(r, q, at) == r.query = q /\ r.at = at

Cached(tool, q, at) == {r \in Range(cache[tool]) : Has(r, q, at)}

\* The results of the other keys: no key has two.
Others(s, q, at) ==
    IF \E i \in DOMAIN s : Has(s[i], q, at)
    THEN RemoveAt(s, CHOOSE i \in DOMAIN s : Has(s[i], q, at))
    ELSE s

\* A wrong cache, which never evicts.
MoveToEndUnbounded(tool, r) ==
    cache' = [cache EXCEPT ![tool] = Append(Others(@, r.query, r.at), r)]

\* The key's result is moved, or added, to the end; at most CacheMax stay.
MoveToEnd(tool, r) ==
    LET kept == Append(Others(cache[tool], r.query, r.at), r)
    IN  cache' = [cache EXCEPT ![tool] =
                    IF Len(kept) > CacheMax THEN Tail(kept) ELSE kept]

Answer(c, tool, ok, asked, current, of, warned, near) ==
    /\ reply' = [tool |-> tool, ok |-> ok, asked |-> asked, current |-> current,
                 of |-> of, warned |-> warned, near |-> near]
    /\ call' = [call EXCEPT ![c] = Idle]

Work(c, pc, tool, q, of, warned) ==
    call' = [call EXCEPT ![c] =
               [pc |-> pc, tool |-> tool, query |-> q, asked |-> version,
                current |-> ~behind, of |-> of, warned |-> warned]]

----------------------------------------------------------------------------
(* A call: look up, load, compute and keep, dispatch *)

\* search_symbols loads the index first, and looks under its indexed_at.
Search(c, q) ==
    /\ call[c] = Idle
    /\ LET at == KeyVersion("search_symbols", version)
           hits == Cached("search_symbols", q, at)
       IN  \/ \E r \in hits : /\ MoveToEnd("search_symbols", r)
                              /\ Work(c, "dispatch", "search_symbols", q, r.of, r.warned)
           \/ /\ hits = {}
              /\ Work(c, "compute", "search_symbols", q, version, FALSE)
              /\ cache' = cache
    /\ UNCHANGED <<version, writer, behind, spent>>
    /\ reply' = NoReply

\* get_blast_radius looks before it loads; its hit reads cached["_meta"], and a
\* KeyError there ends the call in the dispatcher's handler.
BlastRadius(c, q) ==
    /\ call[c] = Idle
    /\ LET hits == Cached("get_blast_radius", q, KeyVersion("get_blast_radius", version))
       IN  \/ \E r \in hits :
                /\ MoveToEnd("get_blast_radius", r)
                /\ \/ /\ r.meta
                      /\ Work(c, "dispatch", "get_blast_radius", q, r.of, r.warned)
                      /\ reply' = NoReply
                   \/ /\ ~r.meta
                      /\ Answer(c, "get_blast_radius", FALSE, version, ~behind,
                                r.of, FALSE, FALSE)
           \/ /\ hits = {}
              /\ Work(c, "load", "get_blast_radius", q, version, FALSE)
              /\ cache' = cache /\ reply' = NoReply
    /\ UNCHANGED <<version, writer, behind, spent>>

LoadIndex(c) ==
    /\ call[c].pc = "load"
    /\ call' = [call EXCEPT ![c].pc = "compute", ![c].of = version]
    /\ UNCHANGED <<version, writer, behind, cache, spent>>
    /\ reply' = NoReply

\* The result is kept in the thread that computed it, and handed to the loop.
ComputeAndKeep(c) ==
    /\ call[c].pc = "compute"
    /\ MoveToEnd(call[c].tool,
                 [query |-> call[c].query, at |-> KeyVersion(call[c].tool, call[c].of),
                  of |-> call[c].of, meta |-> TRUE, warned |-> FALSE, sharedBy |-> {c}])
    /\ call' = [call EXCEPT ![c].pc = "dispatch"]
    /\ behind' = (behind \/ (call[c].tool = "get_blast_radius" /\ call[c].of < version))
    /\ UNCHANGED <<version, writer, spent>>
    /\ reply' = NoReply

\* The dispatcher: record the output, warn near the budget's end, strip _meta.
Dispatch(c, strip) ==
    /\ call[c].pc = "dispatch"
    /\ spent' = IF spent = Threshold THEN spent ELSE spent + 1
    /\ LET near == spent' = Threshold
       IN  /\ Answer(c, call[c].tool, TRUE, call[c].asked, call[c].current, call[c].of,
                     call[c].warned \/ near, near)
           /\ cache' = [t \in Tools |->
                [i \in DOMAIN cache[t] |->
                   IF c \in cache[t][i].sharedBy
                   THEN [cache[t][i] EXCEPT !.sharedBy = {}, !.meta = ~strip,
                                            !.warned = near]
                   ELSE cache[t][i]]]
    /\ UNCHANGED <<version, writer, behind>>

\* More than turn_gap_seconds without an output: every reader starts a new turn.
TurnGap ==
    /\ spent > 0
    /\ spent' = 0
    /\ UNCHANGED <<version, writer, behind, cache, call>>
    /\ reply' = NoReply

----------------------------------------------------------------------------
(* The writers of the index *)

Commit == version < MaxVersion /\ version' = version + 1

\* index_folder, index_repo, index_file and index_content: the index is saved in
\* the worker thread ...
IndexToolCommits ==
    /\ writer = "none"
    /\ Commit
    /\ writer' = "index"
    /\ behind' = TRUE
    /\ UNCHANGED <<cache, call, spent>>
    /\ reply' = NoReply

\* A wrong dispatcher, which clears the search cache only.
InvalidateSearchOnly ==
    /\ writer = "index"
    /\ writer' = "none"
    /\ cache' = [cache EXCEPT !["search_symbols"] = <<>>]
    /\ behind' = FALSE
    /\ UNCHANGED <<version, call, spent>>
    /\ reply' = NoReply

\* ... and then the dispatcher drops the session cache.
Invalidate ==
    /\ writer = "index"
    /\ writer' = "none"
    /\ cache' = [cache EXCEPT !["get_blast_radius"] = <<>>]
    /\ behind' = FALSE
    /\ UNCHANGED <<version, call, spent>>
    /\ reply' = NoReply

\* The watcher's reindexes clear nothing.
WatcherCommits ==
    /\ Silent
    /\ Commit
    /\ behind' = TRUE
    /\ UNCHANGED <<writer, cache, call, spent>>
    /\ reply' = NoReply

\* register_edit clears the search cache, and with reindex=True saves after that.
RegisterEdit ==
    /\ Silent
    /\ writer = "none"
    /\ cache' = [cache EXCEPT !["search_symbols"] = <<>>]
    /\ writer' \in {"none", "edit"}
    /\ UNCHANGED <<version, behind, call, spent>>
    /\ reply' = NoReply

EditCommits ==
    /\ writer = "edit"
    /\ Commit
    /\ writer' = "none"
    /\ behind' = TRUE
    /\ UNCHANGED <<cache, call, spent>>
    /\ reply' = NoReply

----------------------------------------------------------------------------
ToolNext ==
    \/ \E c \in Calls :
         \/ \E q \in Queries : Search(c, q) \/ BlastRadius(c, q)
         \/ LoadIndex(c) \/ ComputeAndKeep(c)
         \/ \E strip \in StripMeta : Dispatch(c, strip)
    \/ TurnGap
    \/ IndexToolCommits \/ Invalidate \/ WatcherCommits \/ RegisterEdit \/ EditCommits

ToolSpec == ToolInit /\ [][ToolNext]_toolVars

----------------------------------------------------------------------------
(* Properties *)

\* No call is answered from an index older than the one there was when it was asked:
\* no search at all, whoever writes the index meanwhile (search_symbols.py 790: "so
\* cache auto-invalidates on reindex"), and no get_blast_radius that finds its cache
\* in step, because an index tool has dropped it since the last commit and no result
\* of an older index was kept after it did.
AnswersCurrent ==
    reply # NoReply /\ (reply.tool = "search_symbols" \/ reply.current)
      => reply.of >= reply.asked

\* "Repeated calls with the same arguments return instantly from the in-process
\* cache" (CHANGELOG.md 6183): a hit is an answer, never an internal error.
HitAnswers == reply # NoReply => reply.ok

\* A budget warning is this turn's: "The reset fires in EVERY reader (jcm#327)"
\* (tools/turn_budget.py 13), lest the previous turn's counter is reported.
WarningIsThisTurns == reply # NoReply /\ reply.warned => reply.near
=============================================================================
