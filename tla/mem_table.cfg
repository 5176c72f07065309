SPECIFICATION Spec
CONSTANTS
    c1 = c1  c2 = c2  k1 = k1  k2 = k2  v1 = v1  v2 = v2
    None = None
    Callers <- TwoCallers
    Keys <- TwoKeys
    Values <- OneValue
    TTLs <- ForEverOrOne
    MaxTime = 2
INVARIANTS TypeOK StoresReachReaders HitWasAlive
SYMMETRY CallerAndKeySymmetry
