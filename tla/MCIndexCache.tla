---------------------------- MODULE MCIndexCache ----------------------------
(* Model-checking instances of IndexCache. *)
EXTENDS IndexCache, TLC

\* Neither processes nor files nor threads of one kind differ.
Symmetry == Permutations(Procs) \cup Permutations(Files)
              \cup Permutations(Loads) \cup Permutations(Saves)
=============================================================================
