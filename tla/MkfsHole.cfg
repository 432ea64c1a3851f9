CONSTANTS
    p1 = p1
    p2 = p2
    Text = Text
    NoProc = NoProc
    Proc = {p1, p2}
    InitProc = p1
    FSSIZE = 14
    BSIZE = 2
    IPB = 8
    NINODES = 5
    nlog = 1
    NDIRECT = 2
    NFILE = 2
    NOFILE = 2
    MAXOPBLOCKS = 6
    NFILES = 2
    NCALLS = 2
    ReadArg = 3
    WriteArgs = {1, 7}
CHECK_DEADLOCK FALSE
SPECIFICATION Spec
INVARIANTS WriteThrough
