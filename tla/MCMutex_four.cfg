CONSTANTS
    g1 = g1
    g2 = g2
    g3 = g3
    g4 = g4
    Goroutines <- MCGoroutines4
    ActiveSpin <- MCActiveSpin
    SplitRelease = TRUE
SPECIFICATION Spec
SYMMETRY Symmetry4
INVARIANT WokenToken
