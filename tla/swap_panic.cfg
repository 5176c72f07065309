SPECIFICATION Spec
CONSTANTS
    q1 = q1  q2 = q2  w1 = w1  w2 = w2  r1 = r1  r2 = r2
    Nil = Nil
    Requests <- TwoRequests
    Waiters <- NoneOf
    Reloaders <- OneReloader
    MaxEdits = 1
    Unparsable <- NoneOf
    NoBuild <- NoneOf
CHECK_DEADLOCK FALSE
INVARIANTS NoPanic
