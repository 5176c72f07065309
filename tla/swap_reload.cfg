SPECIFICATION Spec
CONSTANTS
    q1 = q1  q2 = q2  w1 = w1  w2 = w2  r1 = r1  r2 = r2
    Nil = Nil
    Requests <- OneRequest
    Waiters <- NoneOf
    Reloaders <- TwoReloaders
    MaxEdits = 3
    Unparsable <- Edit2
    NoBuild <- Edit3
CHECK_DEADLOCK FALSE
INVARIANTS TypeOK QuiescentFresh
PROPERTIES KeepsValidator
