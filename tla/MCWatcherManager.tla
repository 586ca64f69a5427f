-------------------------- MODULE MCWatcherManager --------------------------
(* Model-checking instances of WatcherManager. *)
EXTENDS WatcherManager, TLC

\* The managers are interchangeable; only for runs without liveness properties.
Symmetry == Permutations(Managers)
=============================================================================
