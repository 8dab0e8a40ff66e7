------------------------------ MODULE MCMutexV1 ------------------------------
(* Model-checking instance of MutexV1: four goroutines for the safety     *)
(* run (symmetry keeps it small), three for the liveness run, which       *)
(* cannot use symmetry.                                                   *)
EXTENDS MutexV1, TLC

CONSTANTS g1, g2, g3, g4

MCGoroutines == {g1, g2, g3, g4}
MCGoroutines3 == {g1, g2, g3}

Symmetry == Permutations(MCGoroutines)
=============================================================================
