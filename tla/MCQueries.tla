----------------------------- MODULE MCQueries -----------------------------
(***************************************************************************)
(* The walks of the query tools over a loaded index.  They share nothing:  *)
(* a behaviour runs one of them.                                           *)
(***************************************************************************)
EXTENDS GraphWalk, ImportCycles, BarrelLeaves, TLC

VARIABLE runs  \* the walk that runs

QueryVars == <<runs, walkVars, cycleVars, barrelVars>>

Init ==
    /\ runs \in {"walk", "cycles", "barrels"}
    /\ WalkInit /\ CyclesInit /\ BarrelInit

Next ==
    /\ UNCHANGED runs
    /\ \/ runs = "walk"    /\ WalkNext   /\ UNCHANGED <<cycleVars, barrelVars>>
       \/ runs = "cycles"  /\ CyclesNext /\ UNCHANGED <<walkVars, barrelVars>>
       \/ runs = "barrels" /\ BarrelNext /\ UNCHANGED <<walkVars, cycleVars>>

Spec == Init /\ [][Next]_QueryVars

\* The types of the three.
QueryTypeOK == WalkTypeOK /\ CyclesTypeOK /\ BarrelTypeOK

\* Nothing tells the nodes of a graph apart, nor the barrels.  (The configuration gives
\* Modules the value of Nodes.)
Symmetry == Permutations(Nodes) \cup Permutations(Barrels)
=============================================================================
