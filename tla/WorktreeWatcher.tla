-------------------------- MODULE WorktreeWatcher --------------------------
(***************************************************************************)
(* watch_claude_worktrees of watcher.py, with hook_event.py: one watch     *)
(* task per git worktree.  Worktrees are found in a manifest, a file to    *)
(* which the agent's hooks append a line after they have created or        *)
(* removed a worktree, and by "git worktree list" for the repositories     *)
(* given.  Two management tasks of one event loop keep up with them: one   *)
(* looks every half second for new lines, one lists the repositories and   *)
(* restarts the watch tasks that crashed.                                  *)
(*                                                                         *)
(* To stop a watch is to forget its task, wait for its end and delete the  *)
(* index; at the wait the other management task runs.  A reindex runs in a *)
(* thread that outlives its task.                                          *)
(*                                                                         *)
(* A signal, or a management task that raises, ends it all: every task is  *)
(* cancelled.  A management task that is waiting for a watch it has        *)
(* stopped swallows its own cancellation with that of the watch: it goes   *)
(* on, deletes the index, and ends only at the head of its loop, if        *)
(* stop_event is set, which a signal does and a failure does not.          *)
(***************************************************************************)
EXTENDS Naturals, Sequences, SequencesExt

CONSTANTS Folders,   \* paths of worktrees
          Polled,    \* those of the repositories given
          Hooked,    \* those that are created and removed through the hooks
          MaxEvents  \* bound: worktrees added or removed, crashes, failures

ASSUME WorktreeAssumption ==
    /\ Polled \subseteq Folders /\ Hooked \subseteq Folders
    /\ MaxEvents \in Nat

VARIABLES trees,     \* the worktrees there are
          hooks,     \* lines that a hook has still to append
          manifest,  \* the lines of the manifest
          events,    \* how many of the bounded events there were
          watch,     \* active: [Folders -> the state of the watch task]
          saving,    \* folders a thread is indexing
          indexes,   \* folders that have an index
          pcMain,    \* where watch_claude_worktrees is
          pcLines,   \* where _manifest_watcher is
          size,      \* current_size
          readTo,    \* last_size
          lines,     \* the lines it has still to treat
          pcPoll,    \* where _repos_poller is
          listed,    \* current: the worktrees git has listed
          gone       \* repos_known - current: still to be stopped

treeVars == <<trees, hooks, manifest, events, watch, saving, indexes, pcMain,
              pcLines, size, readTo, lines, pcPoll, listed, gone>>
envVars  == <<trees, hooks, manifest, events>>
taskVars == <<watch, saving, indexes>>
lineVars == <<pcLines, size, readTo, lines>>
pollVars == <<pcPoll, listed, gone>>

Line == [event : {"create", "remove"}, path : Folders]
Stopping == [stopping : Folders]
Off == [at |-> "off"]

TreeTypeOK ==
    /\ trees \in SUBSET Folders
    /\ hooks \in Seq(Line) /\ manifest \in Seq(Line)
    /\ events \in 0..MaxEvents
    /\ watch \in [Folders -> {"none", "running", "crashed", "cancelled"}]
    /\ saving \in SUBSET Folders /\ indexes \in SUBSET Folders
    /\ pcMain \in {"manifest", "repos", "run", "failed", "stopping", "stopped"}
    /\ pcLines \in {[at |-> p] : p \in {"off", "start", "poll", "read", "lines"}} \cup Stopping
    /\ size \in 0..Len(manifest) /\ readTo \in 0..Len(manifest)
    /\ lines \in Seq(Line)
    /\ pcPoll \in {[at |-> p] : p \in {"off", "sleep", "decide", "stop"}} \cup Stopping
    /\ listed \in SUBSET Polled /\ gone \in SUBSET Folders

TreeInit ==
    /\ trees = {} /\ hooks = <<>> /\ manifest = <<>> /\ events = 0
    /\ watch = [f \in Folders |-> "none"]
    /\ saving = {} /\ indexes = {}
    /\ pcMain = "manifest"
    /\ pcLines = Off /\ size = 0 /\ readTo = 0 /\ lines = <<>>
    /\ pcPoll = Off /\ listed = {} /\ gone = {}

----------------------------------------------------------------------------
(* The worktrees and the hooks *)

Happens == events < MaxEvents /\ events' = events + 1

Hook(event, f) == hooks' = IF f \in Hooked THEN Append(hooks, [event |-> event, path |-> f])
                                           ELSE hooks

\* git worktree add, by handle_hook_event or by hand.
AddTree(f) ==
    /\ Happens /\ f \notin trees
    /\ trees' = trees \cup {f}
    /\ Hook("create", f)
    /\ UNCHANGED <<manifest, taskVars, pcMain, lineVars, pollVars>>

RemoveTree(f) ==
    /\ Happens /\ f \in trees
    /\ trees' = trees \ {f}
    /\ Hook("remove", f)
    /\ UNCHANGED <<manifest, taskVars, pcMain, lineVars, pollVars>>

\* _append_manifest, after git; a hook that is killed before it appends nothing.
AppendManifest(killed) ==
    /\ hooks # <<>>
    /\ hooks' = Tail(hooks)
    /\ manifest' = IF killed THEN manifest ELSE Append(manifest, Head(hooks))
    /\ UNCHANGED <<trees, events, taskVars, pcMain, lineVars, pollVars>>

----------------------------------------------------------------------------
(* The watch tasks *)

\* _ensure_watching, for each of the folders that is a directory.
Starts(fs) == {f \in fs : watch[f] = "none" /\ f \in trees}

Start(fs) ==
    /\ watch' = [f \in Folders |-> IF f \in fs THEN "running" ELSE watch[f]]
    /\ saving' = saving \cup fs
    /\ indexes' = indexes

\* The first part of _stop_watching: the task is forgotten and cancelled.
Cancel(f) ==
    /\ watch' = [watch EXCEPT ![f] = "none"]
    /\ UNCHANGED <<saving, indexes>>

\* The rest of it, when the task has ended; a deletion that fails is logged.
DeleteIndex(f) ==
    /\ indexes' \in {indexes, indexes \ {f}}
    /\ UNCHANGED <<watch, saving>>

\* A task reindexes; its thread saves, whatever became of the task.
Reindex(f) ==
    /\ watch[f] = "running" /\ f \notin saving
    /\ saving' = saving \cup {f}
    /\ UNCHANGED <<envVars, watch, indexes, pcMain, lineVars, pollVars>>

SaveIndex(f) ==
    /\ f \in saving
    /\ saving' = saving \ {f}
    /\ indexes' = indexes \cup {f}
    /\ UNCHANGED <<envVars, watch, pcMain, lineVars, pollVars>>

Crash(f) ==
    /\ Happens /\ watch[f] = "running"
    /\ watch' = [watch EXCEPT ![f] = "crashed"]
    /\ UNCHANGED <<trees, hooks, manifest, saving, indexes, pcMain, lineVars, pollVars>>

----------------------------------------------------------------------------
(* Initial discovery, and the end *)

\* read_manifest: the paths whose last line is "create".
InManifest ==
    {f \in Folders : \E i \in DOMAIN manifest :
        /\ manifest[i] = [event |-> "create", path |-> f]
        /\ \A j \in (i + 1)..Len(manifest) : manifest[j].path # f}

\* use_manifest: the manifest exists, or there is nothing else to go by.
DiscoverManifest ==
    /\ pcMain = "manifest"
    /\ pcMain' = "repos"
    /\ pcLines' = IF manifest # <<>> \/ Polled = {} THEN [at |-> "start"] ELSE Off
    /\ Start(Starts(InManifest))
    /\ UNCHANGED <<envVars, size, readTo, lines, pollVars>>

\* The tasks are created, and main waits for a signal or for one of them to end.
Launch ==
    /\ pcMain = "repos"
    /\ pcMain' = "run"
    /\ pcPoll' = IF Polled # {} THEN [at |-> "sleep"] ELSE Off
    /\ UNCHANGED <<lineVars, listed, gone>>

DiscoverRepos ==
    /\ Launch
    /\ Start(Starts(trees \cap Polled))
    /\ UNCHANGED envVars

\* git fails, or takes more than its timeout: no worktree, and no error.
DiscoveryFails ==
    /\ Polled # {} /\ Happens
    /\ Launch
    /\ UNCHANGED <<trees, hooks, manifest, taskVars>>

\* Where a management task awaits something, or has ended.
LinesWait == pcLines \in Stopping \cup {[at |-> p] : p \in {"off", "start", "poll"}}
PollWaits == pcPoll \in Stopping \cup {[at |-> p] : p \in {"off", "sleep", "decide"}}

\* A management task that is cancelled ends, unless it waits for the end of a watch.
Ended(pc) == IF pc \in Stopping THEN pc ELSE Off

\* Every watch is cancelled; its task stays in active.
CancelWatches ==
    /\ watch' = [f \in Folders |-> IF watch[f] = "running" THEN "cancelled" ELSE watch[f]]
    /\ UNCHANGED <<saving, indexes, size, readTo, lines, listed, gone>>

\* A signal sets stop_event.
StopAll ==
    /\ pcMain = "run" /\ LinesWait /\ PollWaits
    /\ pcMain' = "stopping"
    /\ CancelWatches
    /\ pcLines' = Ended(pcLines) /\ pcPoll' = Ended(pcPoll)
    /\ UNCHANGED envVars

\* A management task raises: the manifest cannot be read, git not be run, or the index
\* store not be opened.  The other one is cancelled; stop_event is not set.
TaskFails ==
    /\ pcMain = "run" /\ Happens
    /\ pcMain' = "failed"
    /\ CancelWatches
    /\ \/ pcLines # Off /\ PollWaits /\ pcLines' = Off /\ pcPoll' = Ended(pcPoll)
       \/ pcPoll # Off /\ LinesWait /\ pcPoll' = Off /\ pcLines' = Ended(pcLines)
    /\ UNCHANGED <<trees, hooks, manifest>>

\* A signal while main still waits for the task that went on: if that task awaits the
\* event, it ends.
StopFailed ==
    /\ pcMain = "failed" /\ LinesWait /\ PollWaits
    /\ pcMain' = "stopping"
    /\ pcLines' = IF pcLines = [at |-> "poll"] THEN Off ELSE pcLines
    /\ pcPoll' = IF pcPoll = [at |-> "sleep"] THEN Off ELSE pcPoll
    /\ UNCHANGED <<envVars, taskVars, size, readTo, lines, listed, gone>>

\* The management tasks have ended, and asyncio.run cancels what else there is.
MainEnds ==
    /\ pcMain \in {"failed", "stopping"}
    /\ pcLines = Off /\ pcPoll = Off
    /\ pcMain' = "stopped"
    /\ watch' = [f \in Folders |-> "none"]
    /\ UNCHANGED <<envVars, saving, indexes, lineVars, pollVars>>

\* The management tasks run, or go on.
Managing == pcMain \in {"run", "failed", "stopping"}

\* "while not stop_event.is_set()": the head of either loop.
LoopHead(next) == IF pcMain = "stopping" THEN Off ELSE [at |-> next]

----------------------------------------------------------------------------
(* _manifest_watcher *)

AtLines(p) == Managing /\ pcLines = [at |-> p]

\* The task starts with the size the manifest has by then.
FirstSize ==
    /\ AtLines("start")
    /\ pcLines' = [at |-> "poll"]
    /\ readTo' = Len(manifest)
    /\ UNCHANGED <<envVars, taskVars, pcMain, size, lines, pollVars>>

StatManifest ==
    /\ AtLines("poll") /\ Len(manifest) > readTo
    /\ pcLines' = [at |-> "read"]
    /\ size' = Len(manifest)
    /\ UNCHANGED <<envVars, taskVars, pcMain, readTo, lines, pollVars>>

\* All the lines to the end, those included that were appended since the stat.
ReadLines ==
    /\ AtLines("read")
    /\ pcLines' = [at |-> "lines"]
    /\ lines' = SubSeq(manifest, readTo + 1, Len(manifest))
    /\ readTo' = size
    /\ UNCHANGED <<envVars, taskVars, pcMain, size, pollVars>>

TreatCreate ==
    /\ AtLines("lines") /\ lines # <<>> /\ Head(lines).event = "create"
    /\ Start(Starts({Head(lines).path}))
    /\ lines' = Tail(lines)
    /\ UNCHANGED <<envVars, pcMain, pcLines, size, readTo, pollVars>>

TreatRemove ==
    /\ AtLines("lines") /\ lines # <<>> /\ Head(lines).event = "remove"
    /\ lines' = Tail(lines)
    /\ LET f == Head(lines).path
       IN  IF watch[f] # "none" THEN Cancel(f) /\ pcLines' = [stopping |-> f]
                                ELSE UNCHANGED <<taskVars, pcLines>>
    /\ UNCHANGED <<envVars, pcMain, size, readTo, pollVars>>

LineStopped(f) ==
    /\ Managing /\ pcLines = [stopping |-> f]
    /\ DeleteIndex(f)
    /\ pcLines' = [at |-> "lines"]
    /\ UNCHANGED <<envVars, pcMain, size, readTo, lines, pollVars>>

\* A wrong loop, which looks for new lines for ever.
LinesDoneForever ==
    /\ AtLines("lines") /\ lines = <<>>
    /\ pcLines' = [at |-> "poll"]
    /\ UNCHANGED <<envVars, taskVars, pcMain, size, readTo, lines, pollVars>>

LinesDone ==
    /\ AtLines("lines") /\ lines = <<>>
    /\ pcLines' = LoopHead("poll")
    /\ UNCHANGED <<envVars, taskVars, pcMain, size, readTo, lines, pollVars>>

----------------------------------------------------------------------------
(* _repos_poller *)

AtPoll(p) == Managing /\ pcPoll = [at |-> p]

\* poll_interval passes; parse_git_worktrees runs in a thread.
ListWorktrees ==
    /\ AtPoll("sleep")
    /\ pcPoll' = [at |-> "decide"]
    /\ listed' = trees \cap Polled
    /\ UNCHANGED <<envVars, taskVars, pcMain, lineVars, gone>>

\* As in the first discovery.
ListFails ==
    /\ AtPoll("sleep") /\ Happens
    /\ pcPoll' = [at |-> "decide"]
    /\ listed' = {}
    /\ UNCHANGED <<trees, hooks, manifest, taskVars, pcMain, lineVars, gone>>

\* Every task is named "watch:...", and so is taken for one of the poller's.
ReposKnown == {f \in Folders : watch[f] # "none"}

\* A wrong poller, which starts nothing.
DecideStopsOnly ==
    /\ AtPoll("decide")
    /\ pcPoll' = [at |-> "stop"]
    /\ gone' = ReposKnown \ listed
    /\ UNCHANGED <<envVars, taskVars, pcMain, lineVars, listed>>

Decide ==
    /\ AtPoll("decide")
    /\ pcPoll' = [at |-> "stop"]
    /\ Start(Starts(listed \ ReposKnown))
    /\ gone' = (ReposKnown \cup Starts(listed)) \ listed
    /\ UNCHANGED <<envVars, pcMain, lineVars, listed>>

StopGone(f) ==
    /\ AtPoll("stop") /\ f \in gone
    /\ gone' = gone \ {f}
    /\ IF watch[f] # "none" THEN Cancel(f) /\ pcPoll' = [stopping |-> f]
                            ELSE UNCHANGED <<taskVars, pcPoll>>
    /\ UNCHANGED <<envVars, pcMain, lineVars, listed>>

GoneStopped(f) ==
    /\ Managing /\ pcPoll = [stopping |-> f]
    /\ DeleteIndex(f)
    /\ pcPoll' = [at |-> "stop"]
    /\ UNCHANGED <<envVars, pcMain, lineVars, listed, gone>>

\* "Restart crashed watcher tasks".
RestartCrashed ==
    /\ AtPoll("stop") /\ gone = {}
    /\ Start({f \in Folders : watch[f] = "crashed"})
    /\ pcPoll' = LoopHead("sleep")
    /\ UNCHANGED <<envVars, pcMain, lineVars, listed, gone>>

----------------------------------------------------------------------------
Environment ==
    \/ \E f \in Folders : AddTree(f) \/ RemoveTree(f) \/ Crash(f)
    \/ \E killed \in BOOLEAN : AppendManifest(killed)
    \/ DiscoveryFails \/ ListFails \/ StopAll \/ TaskFails \/ StopFailed

MainStep == DiscoverManifest \/ DiscoverRepos \/ MainEnds

LineStep ==
    \/ FirstSize \/ StatManifest \/ ReadLines \/ TreatCreate \/ TreatRemove \/ LinesDone
    \/ \E f \in Folders : LineStopped(f)

PollStep ==
    \/ ListWorktrees \/ Decide \/ RestartCrashed
    \/ \E f \in Folders : StopGone(f) \/ GoneStopped(f)

TreeNext ==
    \/ Environment \/ MainStep \/ LineStep \/ PollStep
    \/ \E f \in Folders : Reindex(f) \/ SaveIndex(f)

TreeSpec == TreeInit /\ [][TreeNext]_treeVars

----------------------------------------------------------------------------
(* Properties *)

Watched == {f \in Folders : watch[f] = "running"}

\* With every repository given, the worktrees that are watched come to be those
\* there are, and stay so until the clean-up, whatever lines were lost, late or read
\* twice, tasks crashed and listings failed before.
WorktreesWatched == <>[](pcMain \in {"failed", "stopping", "stopped"} \/ Watched = trees)

\* A signal ends it: a management task whose cancellation was swallowed treats the
\* lines it has, stops and restarts what it had decided to, and ends at the head of
\* its loop.
SignalEnds == pcMain = "stopping" ~> pcMain = "stopped"

\* "Wait until stop signal or a management task finishes" (watcher.py 1362), to clean
\* up and return (violated: the other task may have swallowed its cancellation, and
\* nothing tells it to end).
FailureEnds == pcMain = "failed" ~> pcMain = "stopped"

\* "Only manage worktrees discovered via repos mode -- don't touch manifest-discovered
\* ones" (watcher.py 1320).
PollerKeepsToRepos == [][\A f \in Folders : StopGone(f) => f \in Polled]_treeVars

\* A worktree that has stayed watched has an index (violated: an index is deleted
\* after the wait, when its folder may be watched again).
WatchedIsIndexed ==
    events = MaxEvents /\ pcMain = "run" /\ hooks = <<>> /\ readTo = Len(manifest)
      /\ pcLines = [at |-> "poll"] /\ pcPoll = [at |-> "sleep"] /\ saving = {}
      => Watched \subseteq indexes
=============================================================================
