CONSTANTS
    g1 = g1
    g2 = g2
    g3 = g3
    g4 = g4
    Goroutines <- MCGoroutines
    ActiveSpin = 0
    SplitRelease = FALSE
SPECIFICATION FairSpec
PROPERTY StarvingWaiterAcquires
