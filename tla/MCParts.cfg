CONSTANTS
    a1 = a1
    a2 = a2
    b1 = b1
    b2 = b2
    p1 = p1
    p2 = p2
    Proc = {p1, p2}
    InitProc = p1
    NPAGES = 13
    NPTENTRIES = 2
    NPDENTRIES = 2
    PGSIZE = 2
    SbrkArgs = {3}
    ExecSizes = {1, 3}
    Reader = {r1}
    Writer = {a1, a2}
    Nobody = Nobody
    Byte = {0, 1}
    PIPESIZE = 2
    UMAX = 4
    MaxN = 2
    Tty = {b1, b2}
    NoTty = NoTty
    Char = {"x", "nl", "^D"}
    INPUT_BUF = 3
    UintMax = 6
    ReadSizes = {2}
    PortMax = 3
    Sender = {a1, a2}
    Receiver = {s1}
    Msg = {b1, b2}
    Junk8 = Junk8
    NNODES = 3
    Kthread = {a1, a2}
    CPU = {b1, b2}
    NoCpu = NoCpu
    Core = {b1, b2}
    NoCore = NoCore
    NCONTS = 2
    NLISTED = 2
SPECIFICATION PartsSpec
SYMMETRY Symmetry
CHECK_DEADLOCK FALSE
INVARIANTS OneOwner SizeExact NoLostWakeup NoLostLine NoStuckModifier InterruptsExact BarrierExact
PROPERTIES IsPrivate IsFifo IsLineInput IsMailbox
