CONSTANTS
    g1 = g1
    g2 = g2
    g3 = g3
    k1 = k1
    k2 = k2
    v1 = v1
    v2 = v2
    Nil = Nil
    Expunged = Expunged
    Goroutines <- MCGoroutines3
    Keys <- MCKeys
    Values <- MCValues1
    Entries <- MCEntries
    Methods = {"Store", "LoadAndDelete"}
SPECIFICATION Spec
SYMMETRY Symmetry3
VIEW View
INVARIANT ReadDirtyConsistent
