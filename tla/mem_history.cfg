SPECIFICATION Spec
CONSTANTS
    w1 = w1  w2 = w2  r1 = r1
    None = None
    Writers <- TwoWriters
    Readers <- OneReader
    Limits <- EveryLimit
    Size = 3
    TTL = 1
    MaxTime = 3
    MaxEntries = 5
INVARIANTS TypeOK IndexAgrees PageExact
PROPERTIES IsBoundedLog
