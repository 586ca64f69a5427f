---------------------------- MODULE RepoIndexing ----------------------------
(***************************************************************************)
(* tools/index_repo.py: the index of a GitHub repository.  A call fetches  *)
(* the tree of HEAD, loads the stored index, downloads the files whose     *)
(* blobs are not the stored ones, one request each, and saves.  The tree's *)
(* SHA is stored too: while HEAD has that tree, a call returns before it   *)
(* downloads anything.  HEAD moves between any two requests, and what is   *)
(* downloaded is HEAD's file, not the tree's.                              *)
(*                                                                         *)
(* SHAs are known by what they are the hash of: a blob is a version of a   *)
(* file, 0 for none, and a tree is a function from files to blobs.  What   *)
(* discover_source_files keeps of a tree, given .gitignore, is the tree.   *)
(***************************************************************************)
EXTENDS Naturals

CONSTANTS Paths,         \* source files of the repository
          Indexers,      \* calls that run at a time
          MaxBlob,       \* bound: versions of each file
          CallsOverlap,  \* whether calls may overlap
          FetchesFail,   \* whether a request for a file may fail
          Reverts        \* whether a file may get an earlier version again

ASSUME RepoAssumption ==
    /\ MaxBlob \in Nat
    /\ CallsOverlap \in BOOLEAN /\ FetchesFail \in BOOLEAN /\ Reverts \in BOOLEAN

VARIABLES head,    \* the tree of HEAD
          newest,  \* the newest version each file has had
          stored,  \* the index
          run      \* what each call is doing

repoVars == <<head, newest, stored, run>>

Blobs == 0..MaxBlob
Tree  == [Paths -> Blobs]
\* git_head, and for each file whether it has a row, its blob_sha, its hash, and
\* what its symbols were parsed from.
Index == [git_head : Tree, row : [Paths -> BOOLEAN], blob : Tree, hash : Tree, syms : Tree]
NoIndex == [git_head |-> "no index"]
Steps == {"idle", "load", "fetch"}
\* old: existing_index; get: files_to_fetch, less those fetched; got: current_files.
RunOf == [pc : Steps, incremental : BOOLEAN, tree : Tree, old : Index \cup {NoIndex},
          get : SUBSET Paths, got : Tree]

NoBlobs == [f \in Paths |-> 0]
NoRun   == [pc |-> "idle", incremental |-> FALSE, tree |-> NoBlobs, old |-> NoIndex,
            get |-> {}, got |-> NoBlobs]

RepoTypeOK ==
    /\ head \in Tree /\ newest \in Tree
    /\ stored \in Index \cup {NoIndex}
    /\ run \in [Indexers -> RunOf]

RepoInit ==
    /\ head = NoBlobs /\ newest = NoBlobs
    /\ stored = NoIndex
    /\ run = [c \in Indexers |-> NoRun]

----------------------------------------------------------------------------
(* GitHub *)

\* A push gives a file a version, 0 if it removes it.
Push(f, v) ==
    /\ v # head[f]
    /\ Reverts \/ v \in {0, newest[f] + 1}
    /\ head' = [head EXCEPT ![f] = v]
    /\ newest' = [newest EXCEPT ![f] = IF v > @ THEN v ELSE @]
    /\ UNCHANGED <<stored, run>>

----------------------------------------------------------------------------
(* A call *)

FetchTree(c, incremental) ==
    /\ run[c].pc = "idle"
    /\ CallsOverlap \/ \A d \in Indexers : run[d].pc = "idle"
    /\ run' = [run EXCEPT ![c] = [pc |-> "load", incremental |-> incremental, tree |-> head,
                                  old |-> NoIndex, get |-> {}, got |-> NoBlobs]]
    /\ UNCHANGED <<head, newest, stored>>

Blobbed(old) == {f \in Paths : old.blob[f] # 0}
InTree(tree) == {f \in Paths : tree[f] # 0}

\* The incremental path with a diff of blobs: there is an index that has some.
DiffsBlobs(old, incremental) == incremental /\ old # NoIndex /\ Blobbed(old) # {}

\* A wrong diff, which compares the paths only.
DifferentPaths(old, tree) == {f \in Paths : (old.blob[f] = 0) # (tree[f] = 0)}

\* _changed, _new and _deleted.
Different(old, tree) == {f \in Paths : old.blob[f] # tree[f]}

\* The index, the fast paths on the tree and on the blobs, and what to download.
LoadExisting(c) ==
    /\ run[c].pc = "load"
    /\ LET tree == run[c].tree
           incremental == run[c].incremental
           diffs == DiffsBlobs(stored, incremental)
           get == IF diffs THEN Different(stored, tree) \cap InTree(tree) ELSE InTree(tree)
       IN  run' = [run EXCEPT ![c] =
             IF \/ incremental /\ stored # NoIndex /\ stored.git_head = tree
                \/ InTree(tree) = {}
                \/ diffs /\ Different(stored, tree) = {}
             THEN NoRun
             ELSE [@ EXCEPT !.pc = "fetch", !.old = stored, !.get = get]]
    /\ UNCHANGED <<head, newest, stored>>

\* fetch_with_limit: HEAD's file; a request that fails, or finds none, leaves the
\* file out of current_files.
FetchFile(c, f, fails) ==
    /\ run[c].pc = "fetch" /\ f \in run[c].get
    /\ fails => FetchesFail
    /\ run' = [run EXCEPT ![c].get = @ \ {f},
                          ![c].got[f] = IF fails THEN 0 ELSE head[f]]
    /\ UNCHANGED <<head, newest, stored>>

\* incremental_save of the files to parse and the deleted ones.  A file that was
\* not downloaded keeps its row and hash, and has neither blob nor symbols; no
\* hash is passed for the others.
Incremental(c, toParse, deleted) ==
    LET tree == run[c].tree
        got  == run[c].got
    IN  stored' =
          [git_head |-> tree,
           row  |-> [f \in Paths |-> f \in toParse \/ (f \notin deleted /\ stored.row[f])],
           blob |-> [f \in Paths |-> IF f \in toParse THEN (IF got[f] = 0 THEN 0 ELSE tree[f])
                                     ELSE IF f \in deleted THEN 0 ELSE stored.blob[f]],
           hash |-> [f \in Paths |-> IF f \in deleted THEN 0 ELSE stored.hash[f]],
           syms |-> [f \in Paths |-> IF f \in toParse THEN got[f]
                                     ELSE IF f \in deleted THEN 0 ELSE stored.syms[f]]]

\* save_index of what was downloaded.
Full(c) ==
    LET got == run[c].got
    IN  stored' =
          [git_head |-> run[c].tree,
           row  |-> [f \in Paths |-> got[f] # 0],
           blob |-> [f \in Paths |-> IF got[f] # 0 THEN run[c].tree[f] ELSE 0],
           hash |-> got,
           syms |-> got]

\* detect_changes compares hashes, for an index without blobs.
Hashed    == {f \in Paths : stored.hash[f] # 0}
Rehashed(got) == {f \in InTree(got) : stored.hash[f] # got[f]}

SaveRepo(c) ==
    /\ run[c].pc = "fetch" /\ run[c].get = {}
    /\ LET old == run[c].old
           tree == run[c].tree
           got == run[c].got
           differ == Different(old, tree)
       IN  IF DiffsBlobs(old, run[c].incremental)
           THEN Incremental(c, differ \cap InTree(tree), differ \ InTree(tree))
           ELSE IF run[c].incremental /\ old # NoIndex
           THEN IF Rehashed(got) \cup (Hashed \ InTree(got)) = {} THEN stored' = stored
                ELSE Incremental(c, Rehashed(got), Hashed \ InTree(got))
           ELSE Full(c)
    /\ run' = [run EXCEPT ![c] = NoRun]
    /\ UNCHANGED <<head, newest>>

RepoNext ==
    \/ \E f \in Paths, v \in Blobs : Push(f, v)
    \/ \E c \in Indexers :
         \/ \E incremental \in BOOLEAN : FetchTree(c, incremental)
         \/ LoadExisting(c) \/ SaveRepo(c)
         \/ \E f \in Paths, fails \in BOOLEAN : FetchFile(c, f, fails)

RepoSpec == RepoInit /\ [][RepoNext]_repoVars

----------------------------------------------------------------------------
(* Properties *)

\* What the tree SHA says is unchanged is current: while HEAD has the stored tree,
\* the symbols are those of HEAD's files, although HEAD may have moved between the
\* request for the tree and those for the files.  (Of calls that do not overlap,
\* requests that succeed, and files that do not go back: see the README.)
UnchangedIsCurrent ==
    stored # NoIndex /\ stored.git_head = head => stored.syms = head

\* "failed fetches keep their old SHA so they're retried next run" (index_repo.py
\* 488): while HEAD has the stored tree, no row of a file waits for its blob.
FailedAreRetried ==
    stored # NoIndex /\ stored.git_head = head =>
      \A f \in Paths : stored.row[f] /\ head[f] # 0 => stored.blob[f] # 0

\* The files that are listed are HEAD's, while HEAD has the stored tree.
RowsAreFiles ==
    stored # NoIndex /\ stored.git_head = head => \A f \in Paths : stored.row[f] => head[f] # 0
=============================================================================
