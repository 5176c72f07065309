SPECIFICATION FairSpec
CONSTANTS
    pets = pets  files = files  None = None
    Services <- Both
    Static <- StaticOnly
    Deletable <- ApiOnly
    BadSpec <- Edit2
    BadCode <- Edit3
    MaxEdits = 4
CHECK_DEADLOCK FALSE
INVARIANTS TypeOK SettledServes
PROPERTIES RestartsEnd
