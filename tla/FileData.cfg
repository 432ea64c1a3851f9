CONSTANTS
    p1 = p1
    p2 = p2
    Text = Text
    NoProc = NoProc
    Proc = {p1, p2}
    InitProc = p1
    FSSIZE = 12
    BSIZE = 2
    IPB = 8
    NINODES = 4
    nlog = 1
    NDIRECT = 2
    NFILE = 2
    NOFILE = 2
    MAXOPBLOCKS = 6
    NFILES = 1
    NCALLS = 5
    ReadArg = 3
    WriteArgs = {1, 7}
CHECK_DEADLOCK FALSE
SPECIFICATION Spec
INVARIANTS BlocksExact Settled OpFits
PROPERTIES IsByteFiles
