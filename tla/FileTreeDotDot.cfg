CONSTANTS
    t1 = t1
    t2 = t2
    Thread = {t1, t2}
    NoThread = NoThread
    NINODES = 4
    Name = {"a", "b"}
    Calls <- MCDotDot
SPECIFICATION Spec
INVARIANTS LinksCovered
CHECK_DEADLOCK FALSE
