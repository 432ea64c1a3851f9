CONSTANTS
    Thread = {t1, t2, t3}
    Block = {b1, b2}
    Val = {0, 1}
    MAXOPBLOCKS = 2
    LOGSIZE = 4
    nlog = 3
SPECIFICATION FairSpec
INVARIANTS Reserved
PROPERTIES CrashAtomic SleeperWakes
