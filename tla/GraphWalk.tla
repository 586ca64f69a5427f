----------------------------- MODULE GraphWalk -----------------------------
(***************************************************************************)
(* The bounded walks of the query tools over the graph of imports or of    *)
(* calls.  All keep a work list, mark a node when they find it and do not  *)
(* expand one that is as deep as the limit; they differ in where they      *)
(* start, in the direction and in the end of the list they take from:      *)
(*   "levels"  _bfs, _bfs_importers, bfs_callers, bfs_callees, _chains_bfs *)
(*             from one node, first in first out, to a depth;              *)
(*   "live"    _reachable_from_entry_points: from every entry point, along *)
(*             imports and against them, without a limit;                  *)
(*   "impact"  _compute_impact: from one symbol, last in first out, to     *)
(*             _IMPACT_MAX_DEPTH.                                          *)
(***************************************************************************)
EXTENDS Naturals, SequencesExt

CONSTANTS Nodes,    \* files, or symbols
          MaxDepth, \* the greatest depth that is asked for
          MaxEdges  \* bound: edges of the graph

ASSUME WalkAssumption ==
    IsFiniteSet(Nodes) /\ MaxDepth \in Nat \ {0} /\ MaxEdges \in Nat

VARIABLES kind,   \* which walk it is
          edges,  \* the graph: no node is adjacent to itself
          roots,  \* where the walk starts
          limit,  \* how deep it goes
          found,  \* the nodes found ...
          depth,  \* ... and their depths
          work    \* the queue, or stack, of nodes to expand

walkVars == <<kind, edges, roots, limit, found, depth, work>>

Unlimited == Cardinality(Nodes)

WalkTypeOK ==
    /\ kind \in {"none", "levels", "live", "impact"}
    /\ edges \in SUBSET (Nodes \X Nodes)
    /\ roots \in SUBSET found
    /\ limit \in 0..MaxDepth \cup {Unlimited}
    /\ found \in SUBSET Nodes
    /\ depth \in [Nodes -> 0..Unlimited]
    /\ work \in Seq(found)

WalkInit ==
    /\ kind = "none"
    /\ edges = {} /\ roots = {} /\ limit = 0
    /\ found = {} /\ depth = [n \in Nodes |-> 0] /\ work = <<>>

Imports(n) == {m \in Nodes : <<n, m>> \in edges}

\* "Walks both directions to maximise the live set".
Adjacent(n) == IF kind = "live" THEN Imports(n) \cup {m \in Nodes : <<m, n>> \in edges}
                                ELSE Imports(n)

\* A tool is asked of an index, which has any imports, or calls.
Ask(k, starts, l) ==
    /\ kind = "none"
    /\ kind' = k /\ roots' = starts /\ limit' = l
    /\ edges' \in {e \in SUBSET {p \in Nodes \X Nodes : p[1] # p[2]} :
                     Cardinality(e) <= MaxEdges}
    /\ found' = starts
    /\ work' \in SetToSeqs(starts)
    /\ depth' = depth

----------------------------------------------------------------------------
\* A wrong queue, which is a stack as well.
TakenLast == work[Len(work)]

\* The node that is taken: the oldest of a queue, the newest of a stack.
Taken == IF kind = "impact" THEN work[Len(work)] ELSE work[1]

\* A wrong check, which expands the nodes at the limit too.
ExpandsOneMore(n) == depth[n] <= limit

Expands(n) == depth[n] < limit

\* One turn of the loop: take a node and add what it finds, in any order.
Pop ==
    /\ work # <<>>
    /\ LET n    == Taken
           rest == IF n = work[1] THEN Tail(work) ELSE Front(work)
           new  == IF Expands(n) THEN Adjacent(n) \ found ELSE {}
       IN  /\ \E order \in SetToSeqs(new) : work' = rest \o order
           /\ found' = found \cup new
           /\ depth' = [m \in Nodes |-> IF m \in new THEN depth[n] + 1 ELSE depth[m]]
    /\ UNCHANGED <<kind, edges, roots, limit>>

WalkNext ==
    \/ \E n \in Nodes, k \in {"levels", "impact"}, l \in 1..MaxDepth : Ask(k, {n}, l)
    \/ \E starts \in SUBSET Nodes : Ask("live", starts, Unlimited)
    \/ Pop

WalkSpec == WalkInit /\ [][WalkNext]_walkVars

----------------------------------------------------------------------------
(* Properties *)

\* What is within k steps of the roots.
Within[k \in Nat] ==
    IF k = 0 THEN roots
    ELSE LET near == Within[k - 1] IN near \cup UNION {Adjacent(n) : n \in near}

\* No walk, the stack's included, reports a node out of its limit.
FoundWithinLimit == found \subseteq Within[limit]

\* And the depth under which a queue's walk reports a node -- the bucket of by_depth,
\* the "depth" of a caller -- is its distance, however cycles and shared
\* neighbours interleave in the queue; and when it ends it has found every node
\* within the limit.  For "live": what is not live is not connected to an entry.
LevelsAreDistances ==
    /\ FoundWithinLimit
    /\ kind # "impact" =>
         /\ \A n \in found : n \in Within[depth[n]]
                             /\ \A k \in 0..Unlimited : k < depth[n] => n \notin Within[k]
         /\ work = <<>> => found = Within[limit]

\* The chain that impact reports is the shortest: "visited maps symbol_id -> chain
\* that reached it (shortest first-seen)" (get_call_hierarchy.py 62).
ImpactShortest ==
    kind = "impact" =>
      \A n \in found, k \in 0..Unlimited : n \in Within[k] => depth[n] <= k
=============================================================================
