---------------------------- MODULE MCReindex ----------------------------
(* Instances of Reindex for TLC: which callers exist, and what may go wrong. *)
EXTENDS Reindex, TLC

Symmetry == Permutations(Files) \cup Permutations(Threads)

==========================================================================
