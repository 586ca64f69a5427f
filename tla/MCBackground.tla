---------------------------- MODULE MCBackground ----------------------------
(***************************************************************************)
(* What runs beside the calls, in threads, children and tasks: the pool of *)
(* the AI summarizer (Summarizer), the bridge to the language servers      *)
(* (LspBridge) and the watcher of git worktrees (WorktreeWatcher).  They   *)
(* share no state: a behaviour runs one of them.                           *)
(***************************************************************************)
EXTENDS Summarizer, LspBridge, WorktreeWatcher

VARIABLE runs  \* the component that runs

BackgroundVars == <<runs, summaryVars, lspVars, treeVars>>

Init ==
    /\ runs \in {"summaries", "bridge", "worktrees"}
    /\ SummaryInit /\ LspInit /\ TreeInit

Summaries(step) ==
    runs = "summaries" /\ step /\ UNCHANGED <<runs, lspVars, treeVars>>
Bridge(step) ==
    runs = "bridge" /\ step /\ UNCHANGED <<runs, summaryVars, treeVars>>
Worktrees(step) ==
    runs = "worktrees" /\ step /\ UNCHANGED <<runs, summaryVars, lspVars>>

Next == Summaries(SummaryNext) \/ Bridge(LspNext) \/ Worktrees(TreeNext)

\* The pool's threads run, and a client's request ends, if by its timeout; the
\* thread that called the bridge runs, and each of its waits ends by a timeout;
\* the event loop runs main, and goes on with either management task.
Spec ==
    /\ Init /\ [][Next]_BackgroundVars
    /\ \A b \in Batches : WF_BackgroundVars(Summaries(WorkerStep(b)))
    /\ WF_BackgroundVars(Bridge(CallerStep))
    /\ WF_BackgroundVars(Worktrees(MainStep))
    /\ WF_BackgroundVars(Worktrees(LineStep))
    /\ WF_BackgroundVars(Worktrees(PollStep))

\* The types of the three.
BackgroundTypeOK == SummaryTypeOK /\ LspTypeOK /\ TreeTypeOK
=============================================================================
