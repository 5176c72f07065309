SPECIFICATION FairSpec
CONSTANTS
    q1 = q1  q2 = q2  w1 = w1  w2 = w2  r1 = r1  r2 = r2
    Nil = Nil
    Requests <- TwoRequests
    Waiters <- OneWaiter
    Reloaders <- OneReloader
    MaxEdits = 1
    Unparsable <- NoneOf
    NoBuild <- Edit1
CHECK_DEADLOCK FALSE
INVARIANTS PanicNeedsSwap WaiterGetsValidator
PROPERTIES WaiterReturns RequestNeverHangs ReloadCompletes
