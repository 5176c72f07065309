SPECIFICATION Spec
CONSTANTS
    q1 = q1  q2 = q2  u1 = u1  u2 = u2
    None = None
    Requests <- TwoRequests
    URLs <- TwoURLs
    Pattern <- SamePattern
    Shapes <- AnyShape
    RecordHistory = TRUE
    UpstreamOnly = TRUE
    Lossy = FALSE
INVARIANTS TypeOK HistoryExact StickyHolds SourceTruthful RecordedFirstHand ReplayPriority CachePriority
SYMMETRY RequestSymmetry
