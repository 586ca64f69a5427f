------------------------------ MODULE MCServer ------------------------------
(***************************************************************************)
(* What server processes remember between calls and fetch: the modules     *)
(* named below.  They share no state, so a behaviour runs one of them and  *)
(* leaves the others as they started: the states add up instead of         *)
(* multiplying.                                                            *)
(***************************************************************************)
EXTENDS ToolResults, SessionState, TokenTracker, RepoIndexing, ProjectConfig,
        TLC

VARIABLE runs  \* the component that runs

ServerVars == <<runs, toolVars, sessionVars, trackerVars, repoVars, configVars>>

Init ==
    /\ runs \in {"tools", "session", "tracker", "repo", "config"}
    /\ ToolInit /\ SessionInit /\ TrackerInit /\ RepoInit /\ ConfigInit

\* The components other than one are left as they started.
Only(one) ==
    /\ runs = one /\ UNCHANGED runs
    /\ one # "tools"   => UNCHANGED toolVars
    /\ one # "session" => UNCHANGED sessionVars
    /\ one # "tracker" => UNCHANGED trackerVars
    /\ one # "repo"    => UNCHANGED repoVars
    /\ one # "config"  => UNCHANGED configVars

Next ==
    \/ Only("tools")   /\ ToolNext
    \/ Only("session") /\ SessionNext
    \/ Only("tracker") /\ TrackerNext
    \/ Only("repo")    /\ RepoNext
    \/ Only("config")  /\ ConfigNext

Spec == Init /\ [][Next]_ServerVars

\* The types of all.
ServerTypeOK ==
    /\ ToolTypeOK /\ SessionTypeOK /\ TrackerTypeOK /\ RepoTypeOK /\ ConfigTypeOK

\* Nothing tells the calls, processes and threads apart, nor the data they deal with.
\* The configuration gives the same values to two of these sets, and so to the third:
\* Procs = Servers, Threads = Calls, Paths = Files, Languages = Queries.
Symmetry ==
    Permutations(Calls) \cup Permutations(Queries)
      \cup Permutations(Servers) \cup Permutations(Files)
=============================================================================
