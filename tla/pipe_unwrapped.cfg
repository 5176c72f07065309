SPECIFICATION Spec
CONSTANTS
    q1 = q1  q2 = q2  u1 = u1  u2 = u2
    None = None
    Requests <- TwoRequests
    URLs <- OneURL
    Pattern <- SamePattern
    Shapes <- Replays
    RecordHistory = FALSE
    UpstreamOnly = TRUE
    Lossy = FALSE
INVARIANTS RefusedUnlessUpstream
