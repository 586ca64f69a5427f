---------------------------- MODULE ImportCycles ----------------------------
(***************************************************************************)
(* _find_cycles of tools/get_repo_health.py: Kosaraju's algorithm without  *)
(* recursion.  A first pass walks the import graph depth first, with an    *)
(* iterator per file on a stack, and lists the files as they are finished; *)
(* a second pass takes them in the opposite order and collects from each   *)
(* what reaches it, against the imports, among the files not yet taken.    *)
(* What it collects, if more than one file, is a circular import.          *)
(***************************************************************************)
EXTENDS Naturals, SequencesExt

CONSTANTS Modules,    \* the files
          MaxImports  \* bound: edges of the graph

ASSUME CyclesAssumption == IsFiniteSet(Modules) /\ MaxImports \in Nat

VARIABLES pass,       \* 0 before the call, 1 and 2, 3 when it returns
          imports,    \* the graph, a set of edges
          visited,    \* the files seen in this pass
          stack,      \* the files whose iterators are not exhausted, or "work"
          finished,   \* the files, in the order they were finished
          scc,        \* what the second pass collects now
          cycles      \* sccs

cycleVars == <<pass, imports, visited, stack, finished, scc, cycles>>

CyclesTypeOK ==
    /\ pass \in 0..3
    /\ imports \in SUBSET (Modules \X Modules)
    /\ visited \in SUBSET Modules
    /\ stack \in Seq(visited) /\ finished \in Seq(Modules)
    /\ scc \in SUBSET visited
    /\ cycles \in SUBSET SUBSET Modules

CyclesInit ==
    /\ pass = 0
    /\ imports = {} /\ visited = {} /\ stack = <<>> /\ finished = <<>>
    /\ scc = {} /\ cycles = {}

Top == stack[Len(stack)]

\* The call: every file that imports or is imported is a node.
FindCycles ==
    /\ pass = 0
    /\ pass' = 1
    /\ imports' \in {e \in SUBSET {p \in Modules \X Modules : p[1] # p[2]} :
                       Cardinality(e) <= MaxImports}
    /\ UNCHANGED <<visited, stack, finished, scc, cycles>>

AllNodes == {p[1] : p \in imports} \cup {p[2] : p \in imports}

----------------------------------------------------------------------------
(* Pass 1 *)

\* The nodes are a set: any that was not visited may be the next start.
StartFrom(m) ==
    /\ pass = 1 /\ stack = <<>> /\ m \in AllNodes \ visited
    /\ visited' = visited \cup {m}
    /\ stack' = <<m>>
    /\ UNCHANGED <<pass, imports, finished, scc, cycles>>

\* The iterator of the last file on the stack yields one that was not visited.
Descend(m) ==
    /\ pass = 1 /\ stack # <<>>
    /\ <<Top, m>> \in imports /\ m \notin visited
    /\ visited' = visited \cup {m}
    /\ stack' = Append(stack, m)
    /\ UNCHANGED <<pass, imports, finished, scc, cycles>>

\* It is exhausted.
Finish ==
    /\ pass = 1 /\ stack # <<>>
    /\ \A m \in Modules : <<Top, m>> \in imports => m \in visited
    /\ stack' = Front(stack)
    /\ finished' = Append(finished, Top)
    /\ UNCHANGED <<pass, imports, visited, scc, cycles>>

EndPass1 ==
    /\ pass = 1 /\ stack = <<>> /\ AllNodes = visited
    /\ pass' = 2
    /\ visited' = {}
    /\ UNCHANGED <<imports, stack, finished, scc, cycles>>

----------------------------------------------------------------------------
(* Pass 2 *)

\* A wrong order, which takes the files as they were finished.
NextStartFirst(m) ==
    \E i \in DOMAIN finished : /\ finished[i] = m /\ m \notin visited
                               /\ \A j \in 1..(i - 1) : finished[j] \in visited

\* "for start in reversed(finish_order)": the last that is not visited.
NextStart(m) ==
    \E i \in DOMAIN finished : /\ finished[i] = m /\ m \notin visited
                               /\ \A j \in (i + 1)..Len(finished) : finished[j] \in visited

\* What was collected is kept if it is more than one file.
Kept == IF Cardinality(scc) > 1 THEN cycles \cup {scc} ELSE cycles

Collect(m) ==
    /\ pass = 2 /\ stack = <<>> /\ NextStart(m)
    /\ cycles' = Kept
    /\ visited' = visited \cup {m}
    /\ stack' = <<m>>
    /\ scc' = {m}
    /\ UNCHANGED <<pass, imports, finished>>

\* A wrong loop, which does not mark what it collects.
FollowBackUnmarked ==
    /\ pass = 2 /\ stack # <<>>
    /\ LET new == {m \in Modules \ visited : <<m, Top>> \in imports}
       IN  /\ \E order \in SetToSeqs(new) : stack' = Front(stack) \o order
           /\ scc' = scc \cup new
    /\ UNCHANGED <<pass, imports, visited, finished, cycles>>

\* work.pop(), and what imports that file.
FollowBack ==
    /\ pass = 2 /\ stack # <<>>
    /\ LET new == {m \in Modules \ visited : <<m, Top>> \in imports}
       IN  /\ visited' = visited \cup new
           /\ \E order \in SetToSeqs(new) : stack' = Front(stack) \o order
           /\ scc' = scc \cup new
    /\ UNCHANGED <<pass, imports, finished, cycles>>

Return ==
    /\ pass = 2 /\ stack = <<>> /\ visited = AllNodes
    /\ cycles' = Kept
    /\ pass' = 3
    /\ UNCHANGED <<imports, visited, stack, finished, scc>>

CyclesNext ==
    \/ FindCycles
    \/ \E m \in Modules : StartFrom(m) \/ Descend(m) \/ Collect(m)
    \/ Finish \/ EndPass1 \/ FollowBack \/ Return

CyclesSpec == CyclesInit /\ [][CyclesNext]_cycleVars

----------------------------------------------------------------------------
(* Properties *)

\* The files reached from m, in as many steps as there are files.
Reach(m) ==
    LET near[k \in Nat] ==
          IF k = 0 THEN {m}
          ELSE near[k - 1] \cup {p[2] : p \in {e \in imports : e[1] \in near[k - 1]}}
    IN  near[Cardinality(Modules)]

\* Whatever the order of the set of nodes and of the imports of a file, the cycles
\* returned are the sets of files that reach each other, each once and whole.
CyclesAreComponents ==
    pass = 3 =>
      cycles = {c \in {{n \in Reach(m) : m \in Reach(n)} : m \in Modules} :
                  Cardinality(c) > 1}
=============================================================================
