SPECIFICATION Spec
CONSTANTS
    None = None
    Keep = 2
    TTL = 1
    Retries = 1
    MaxEntries = 2
    MaxTime = 2
INVARIANTS TypeOK ListedCanBeOpened
PROPERTIES YoungStayListed IsBoundedLog
