CONSTANTS
    NPROC = 3
    CPU = {c0}
    Boot = c0
    NoCPU = NoCPU
    MaxPid = 3
    MaxSleep = 1
    KillArgs = {2, 3}
SPECIFICATION FairSpec
PROPERTIES OrphanReaped KilledExits RunnableRuns
