CONSTANTS
    g1 = g1
    g2 = g2
    g3 = g3
    k1 = k1
    k2 = k2
    v1 = v1
    v2 = v2
    Nil = Nil
    Expunged = Expunged
    Goroutines <- MCGoroutines
    Keys <- MCKeys
    Values <- MCValues
    Entries <- MCEntries
    Methods = {"Store", "LoadAndDelete", "Range"}
SPECIFICATION Spec
SYMMETRY Symmetry
VIEW View
PROPERTY ImplementsAbsMap
INVARIANT RangeComplete
