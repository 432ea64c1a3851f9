CONSTANTS
    NPROC = 3
    CPU = {c0}
    Boot = c0
    NoCPU = NoCPU
    MaxPid = 5
    MaxSleep = 0
    KillArgs = {}
    NCONT = 2
    PROCESS_COUNT = 2
    MCONT = 1
SPECIFICATION MCFairSpec
PROPERTIES LeaverDies
