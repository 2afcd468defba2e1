-------------------------- MODULE MCRunCoordinator --------------------------
(* RunCoordinator for TLC: Runs and Threads are interchangeable. *)
EXTENDS RunCoordinator, TLC

Symmetry == Permutations(Runs) \cup Permutations(Threads)
=============================================================================
