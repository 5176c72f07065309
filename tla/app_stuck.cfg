SPECIFICATION FairSpec
CONSTANTS
    pets = pets  files = files  None = None
    Services <- ApiOnly
    Static <- NoService
    Deletable <- NoService
    BadSpec <- NoEdit
    BadCode <- NoEdit
    MaxEdits = 3
CHECK_DEADLOCK FALSE
PROPERTIES RestartCompletes
