--------------------------- MODULE MCProcessLock ---------------------------
(* Small instances of ProcessLock for TLC. *)
EXTENDS ProcessLock, TLC

\* The processes run the same code and every file is as good as another.
Symmetry == Permutations(Procs) \cup Permutations(Inodes)
=============================================================================
