CONSTANTS
    t1 = t1
    t2 = t2
    Thread = {t1, t2}
    NoThread = NoThread
    NINODES = 3
    Name = {"a", "b"}
    Calls <- MCCalls
SPECIFICATION Spec
INVARIANTS RefExact NotFreedInUse TreeSound
CHECK_DEADLOCK FALSE
