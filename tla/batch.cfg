SPECIFICATION FairSpec
CONSTANTS
    Corpora <- EveryPacking
    Target = 5
    MaxFiles = 2
    Concurrencies <- OneOrTwo
    MaxFails = 2
    Endpoints = 1
INVARIANTS TypeOK ReportedOnce NothingLeft
PROPERTIES RunReturns
CHECK_DEADLOCK FALSE
