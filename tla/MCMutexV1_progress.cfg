CONSTANTS
    g1 = g1
    g2 = g2
    g3 = g3
    g4 = g4
    Goroutines <- MCGoroutines3
SPECIFICATION FairSpec
PROPERTY Progress
