CONSTANTS
    NPROC = 3
    CPU = {c0, c1}
    Boot = c0
    NoCPU = NoCPU
    MaxPid = 4
    MaxSleep = 1
    KillArgs = {2, 3}
SPECIFICATION Spec
INVARIANTS TypeOK NoLostExit NoLostTick CpuAgreement NoOrphan
