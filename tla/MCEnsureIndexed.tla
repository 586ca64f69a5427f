-------------------------- MODULE MCEnsureIndexed --------------------------
(* Model-checking instances of EnsureIndexed. *)
EXTENDS EnsureIndexed, TLC

\* Neither tasks nor folders differ; only for runs without liveness properties.
Symmetry == Permutations(Callers) \cup Permutations(Folders)
=============================================================================
