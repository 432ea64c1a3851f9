CONSTANTS
    Thread = {t1, t2}
    NoThread = NoThread
    Block = {n1, n2, n3}
    NoBlock = NoBlock
    Val = {0, 1}
    NBUF = 2
    MaxPinned = 1
    ReadOk = {TRUE}
SPECIFICATION FairSpec
INVARIANTS RefcntExact
PROPERTIES IsBlockStore BlockServed
