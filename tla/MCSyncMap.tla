------------------------------ MODULE MCSyncMap ------------------------------
(* sync.Map with model values for goroutines, keys and values, and five   *)
(* entry addresses.                                                        *)
EXTENDS SyncMap, TLC

CONSTANTS g1, g2, g3, k1, k2, v1, v2

MCGoroutines == {g1, g2}
MCGoroutines3 == {g1, g2, g3}
MCKeys == {k1, k2}
MCValues == {v1, v2}
MCValues1 == {v1}
MCEntries == 1..5

Symmetry ==
    Permutations(MCGoroutines) \cup Permutations(MCKeys) \cup Permutations(MCValues)

Symmetry3 ==
    Permutations(MCGoroutines3) \cup Permutations(MCKeys) \cup Permutations(MCValues)
=============================================================================
