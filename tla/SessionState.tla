---------------------------- MODULE SessionState ----------------------------
(***************************************************************************)
(* tools/session_state.py and tools/session_journal.py: what a server      *)
(* keeps of a session -- the journal of the files it has read, and the     *)
(* search results it has cached -- and how both survive a restart: saved   *)
(* to one file by atexit, replayed into the next server that starts with   *)
(* session_resume.  A server that is killed saves nothing, the file is not *)
(* removed when it is restored, and all servers use the same file.         *)
(*                                                                         *)
(* An index is known by the number of the save that made it (indexed_at),  *)
(* 0 for no index.  The three dictionaries of the journal are alike: one   *)
(* is modelled.                                                            *)
(***************************************************************************)
EXTENDS Integers, Sequences, SequencesExt

CONSTANTS Servers,     \* server processes that share CODE_INDEX_PATH
          Files,       \* files a session reads
          Repos,       \* indexed repositories
          MaxReads,    \* bound: reads of each file
          MaxIndexed,  \* bound: saves of an index
          JournalMax,  \* _MAX_JOURNAL_ENTRIES
          SavedMax     \* files and results that are saved (1000, max_queries)

ASSUME SessionAssumption ==
    /\ MaxReads \in Nat /\ MaxIndexed \in Nat
    /\ JournalMax \in Nat \ {0} /\ SavedMax \in Nat \ {0}

VARIABLES up,         \* the servers that run
          journal,    \* [Servers -> files read, the least recently read first]
          results,    \* [Servers -> cached search results]
          saved,      \* the state file, if there is one
          indexedAt,  \* [Repos -> the current index]
          lastSave,   \* the number of the last save of an index
          wasRead,    \* history: how often each file was read
          served      \* the last search: the index it was for, the result's index

sessionVars == <<up, journal, results, saved, indexedAt, lastSave, wasRead, served>>

Stamps   == 0..MaxIndexed
Reads    == [file : Files, reads : Nat \ {0}]
Found    == [repo : Repos, at : Stamps, of : Stamps]
NoState  == [age |-> "none", files |-> <<>>, results |-> {}]

SessionTypeOK ==
    /\ up \in SUBSET Servers
    /\ journal \in [Servers -> Seq(Reads)]
    /\ \A s \in Servers : Len(journal[s]) <= JournalMax
    /\ results \in [Servers -> SUBSET Found]
    /\ saved \in [age : {"none", "young", "old"}, files : Seq(Reads), results : SUBSET Found]
    /\ indexedAt \in [Repos -> Stamps]
    /\ lastSave \in Stamps
    /\ wasRead \in [Files -> 0..MaxReads]
    /\ served \in [asked : Stamps, of : Stamps]

SessionInit ==
    /\ up = {}
    /\ journal = [s \in Servers |-> <<>>]
    /\ results = [s \in Servers |-> {}]
    /\ saved = NoState
    /\ indexedAt = [r \in Repos |-> 0]
    /\ lastSave = 0
    /\ wasRead = [f \in Files |-> 0]
    /\ served = [asked |-> 0, of |-> 0]

----------------------------------------------------------------------------
(* The journal: dictionaries ordered by last_ts *)

Counted(j, f) == IF \E i \in DOMAIN j : j[i].file = f
                 THEN (CHOOSE e \in Range(j) : e.file = f).reads ELSE 0

\* The dictionary without the file.
Without(j, f) == IF \E i \in DOMAIN j : j[i].file = f
                 THEN RemoveAt(j, CHOOSE i \in DOMAIN j : j[i].file = f) ELSE j

\* record_read, n times: the file becomes the last one read.  A file that is new
\* may push out the one that was read longest ago (_evict_oldest).
Recorded(j, f, n) ==
    LET moved == Append(Without(j, f), [file |-> f, reads |-> Counted(j, f) + n])
    IN  IF Len(moved) > JournalMax THEN Tail(moved) ELSE moved

ReadFile(s, f) ==
    /\ s \in up
    /\ wasRead[f] < MaxReads
    /\ wasRead' = [wasRead EXCEPT ![f] = @ + 1]
    /\ journal' = [journal EXCEPT ![s] = Recorded(@, f, 1)]
    /\ UNCHANGED <<up, results, saved, indexedAt, lastSave, served>>

----------------------------------------------------------------------------
(* The search cache and the indexes *)

\* A wrong key, of the repository alone.
KeyWithoutStamp(r) == 0

\* The key names the index the result is of.
SearchKey(r) == indexedAt[r]

\* search_symbols: the cached result of this key, or one of the index it loads.
SearchRepo(s, r) ==
    /\ s \in up
    /\ indexedAt[r] # 0
    /\ LET hits == {e \in results[s] : e.repo = r /\ e.at = SearchKey(r)}
           new  == [repo |-> r, at |-> SearchKey(r), of |-> indexedAt[r]]
       IN  \/ \E e \in hits : /\ served' = [asked |-> indexedAt[r], of |-> e.of]
                              /\ results' = results
           \/ /\ hits = {}
              /\ served' = [asked |-> indexedAt[r], of |-> new.of]
              /\ results' = [results EXCEPT ![s] = @ \cup {new}]
    /\ UNCHANGED <<up, journal, saved, indexedAt, lastSave, wasRead>>

\* Any process, this server or another, saves the index of a repository ...
SaveIndex(r) ==
    /\ lastSave < MaxIndexed
    /\ lastSave' = lastSave + 1
    /\ indexedAt' = [indexedAt EXCEPT ![r] = lastSave + 1]
    /\ UNCHANGED <<up, journal, results, saved, wasRead, served>>

\* ... or deletes it, so that list_repos does not name it (invalidate_cache).
DeleteIndex(r) ==
    /\ indexedAt[r] # 0
    /\ indexedAt' = [indexedAt EXCEPT ![r] = 0]
    /\ UNCHANGED <<up, journal, results, saved, lastSave, wasRead, served>>

----------------------------------------------------------------------------
(* A server's life *)

\* get_context sorts by last_ts, the last first, and keeps SavedMax.
MostRecent(j) == SubSeq(Reverse(j), 1, IF Len(j) < SavedMax THEN Len(j) ELSE SavedMax)

\* atexit: write the state, whatever the file held.  The results that stay are
\* those hit most: any of them, for the hits are not modelled.
Exit(s) ==
    /\ s \in up
    /\ up' = up \ {s}
    /\ \E kept \in SUBSET results[s] :
         /\ Cardinality(kept) = IF Cardinality(results[s]) < SavedMax
                                THEN Cardinality(results[s]) ELSE SavedMax
         /\ saved' = [age |-> "young", files |-> MostRecent(journal[s]), results |-> kept]
    /\ journal' = [journal EXCEPT ![s] = <<>>]
    /\ results' = [results EXCEPT ![s] = {}]
    /\ UNCHANGED <<indexedAt, lastSave, wasRead, served>>

Kill(s) ==
    /\ s \in up
    /\ up' = up \ {s}
    /\ journal' = [journal EXCEPT ![s] = <<>>]
    /\ results' = [results EXCEPT ![s] = {}]
    /\ UNCHANGED <<saved, indexedAt, lastSave, wasRead, served>>

\* session_max_age_minutes pass.
GrowOld ==
    /\ saved.age = "young"
    /\ saved' = [saved EXCEPT !.age = "old"]
    /\ UNCHANGED <<up, journal, results, indexedAt, lastSave, wasRead, served>>

\* A wrong replay, which records each file once more than it was read.
ReplayOnceMore(files) ==
    FoldLeft(LAMBDA j, e : Recorded(j, e.file, e.reads + 1), <<>>, files)

\* restore_journal: each file in the order saved, as often as it was read.
Replay(files) == FoldLeft(LAMBDA j, e : Recorded(j, e.file, e.reads), <<>>, files)

\* restore_search_cache skips a result of a repository that has another index
\* now, and keeps one of a repository that is not listed.
StillCurrent(e) == indexedAt[e.repo] # 0 => indexedAt[e.repo] = e.at

\* _restore_session_state, at the start of the server: a state that is missing
\* or too old is not used, and stays.
Start(s) ==
    /\ s \notin up
    /\ up' = up \cup {s}
    /\ IF saved.age = "young"
       THEN /\ journal' = [journal EXCEPT ![s] = Replay(saved.files)]
            /\ results' = [results EXCEPT ![s] = {e \in saved.results : StillCurrent(e)}]
       ELSE UNCHANGED <<journal, results>>
    /\ UNCHANGED <<saved, indexedAt, lastSave, wasRead, served>>

SessionNext ==
    \/ \E s \in Servers :
         \/ \E f \in Files : ReadFile(s, f)
         \/ \E r \in Repos : SearchRepo(s, r)
         \/ Exit(s) \/ Kill(s) \/ Start(s)
    \/ \E r \in Repos : SaveIndex(r) \/ DeleteIndex(r)
    \/ GrowOld

SessionSpec == SessionInit /\ [][SessionNext]_sessionVars

----------------------------------------------------------------------------
(* Properties *)

\* A search is answered from the index there is, although results outlive the
\* server that computed them, and the index may be rebuilt or deleted and built
\* again while no server runs (session_state.py 187: "skipping any where index
\* has changed").
RestoredCurrent == served.of = served.asked

\* Through saves that overwrite each other, kills, and restarts from a state that
\* was restored before, no journal counts a read twice (session_state.py 165:
\* "replay count times to preserve search frequency").
NoReadCountedTwice ==
    \A s \in Servers, f \in Files : Counted(journal[s], f) <= wasRead[f]

\* What a restarted server has been given back is still so: the answers, and the counts.
RestoredRight == RestoredCurrent /\ NoReadCountedTwice

\* What a restart keeps of the journal it keeps in order: the file that was read
\* longest ago is still the one to be evicted.
RecencyKept ==
    [][\A s \in Servers : s \notin up /\ s \in up' /\ saved.age = "young"
         => journal'[s] = Reverse(saved.files)]_sessionVars
=============================================================================
