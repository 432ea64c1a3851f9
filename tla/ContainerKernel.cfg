CONSTANTS
    NPROC = 3
    CPU = {c0}
    Boot = c0
    NoCPU = NoCPU
    MaxPid = 5
    MaxSleep = 0
    KillArgs = {}
    NCONT = 3
    PROCESS_COUNT = 2
    MCONT = 2
SPECIFICATION MCFairSpec
INVARIANTS RunnableListed ContainerBound NoSharedStack
PROPERTIES ContainerRuns
