-------------------------- MODULE BaseKernelProofs --------------------------
(***************************************************************************)
(* The safety properties of the kernel in xv6, for any number of slots,    *)
(* CPUs, pids and ticks: the invariant of the process table is inductive   *)
(* for BaseKernel, and the properties follow from it.                      *)
(***************************************************************************)
EXTENDS BaseKernel, ProcTableProofs

\* The scheduler takes ptable.lock.
LEMMA SchedAcquireInv ==
    ASSUME PtInv, NEW c \in CPU, SchedAcquire(c)
    PROVE  PtInv'
  <1> USE ProcTableAssumption DEF Proc, Null, InitProc, TickChan
  <1>1. PtTypeOK'
    <2>1. cursor' \in [CPU -> 1..(NPROC + 1)]
      BY DEF PtInv, PtTypeOK, SchedAcquire
    <2> QED
      BY <2>1 DEF PtInv, PtTypeOK, Phase, SchedAcquire, procvars
  <1>2. LockInv' /\ TickInv'
    BY DEF PtInv, PtTypeOK, LockInv, TickInv, SchedAcquire, procvars
  <1>3. CpuAgreement'
    BY DEF PtInv, PtTypeOK, LockInv, CpuAgreement, SchedAcquire, procvars
  <1>4. ForkInv' /\ FamilyInv'
    BY DEF PtInv, ForkInv, FamilyInv, SchedAcquire, procvars
  <1>5. NoLostExit' /\ NoLostTick'
    BY DEF PtInv, NoLostExit, NoLostTick, Zombies, Children, SchedAcquire, procvars
  <1> QED BY <1>1, <1>2, <1>3, <1>4, <1>5 DEF PtInv

\* The scheduler switches to a runnable process: it is on no other CPU,
\* because a process is taken off its CPU before ptable.lock is free again.
LEMMA SchedDispatchInv ==
    ASSUME PtInv, NEW c \in CPU, NEW p \in Proc, SchedDispatch(c, p)
    PROVE  PtInv'
  <1> USE ProcTableAssumption DEF Proc, Null, InitProc, TickChan
  <1>a. /\ state[p] = "RUNNABLE" /\ phase[c] = "scan"
        /\ \A q \in Proc : state'[q] = IF q = p THEN "RUNNING" ELSE state[q]
        /\ \A d \in CPU : running'[d] = IF d = c THEN p ELSE running[d]
        /\ \A d \in CPU : phase'[d] = IF d = c THEN "resume" ELSE phase[d]
    BY DEF PtInv, PtTypeOK, SchedDispatch
  <1>b. \A d \in CPU : running[d] # p
    <2>1. running[c] = Null /\ ptlock = c
      BY <1>a DEF PtInv, LockInv
    <2>2. \A d \in CPU : phase[d] = "swtch" => d = c
      BY <2>1 DEF PtInv, LockInv
    <2> QED
      BY <1>a, <2>1, <2>2 DEF PtInv, CpuAgreement
  <1>1. PtTypeOK'
    <2>1. cursor' \in [CPU -> 1..(NPROC + 1)]
      BY DEF PtInv, PtTypeOK, SchedDispatch
    <2> QED
      BY <2>1 DEF PtInv, PtTypeOK, ProcState, Phase, SchedDispatch
  <1>2. LockInv'
    BY <1>a DEF PtInv, PtTypeOK, LockInv, SchedDispatch
  <1>3. CpuAgreement'
    <2>1. \A d \in CPU : running[d] \in Proc \cup {Null}
      BY DEF PtInv, PtTypeOK
    <2>2. running[c] = Null
      BY <1>a DEF PtInv, LockInv
    <2> QED
      BY <1>a, <1>b, <2>1, <2>2 DEF PtInv, CpuAgreement
  <1>4. TickInv'
    BY <1>a DEF PtInv, PtTypeOK, TickInv, LockInv, SchedDispatch
  <1>5. ForkInv'
    BY <1>1, <1>a, ForkFrame DEF PtInv, PtTypeOK, Live, SchedDispatch
  <1>6. FamilyInv'
    <2>1. pc'[InitProc] # "exit" /\ parent' = parent
      BY DEF PtInv, FamilyInv, SchedDispatch
    <2> QED
      BY <1>1, <1>a, <2>1, FamilyFrame DEF Live
  <1>7. NoLostExit'
    <2>1. \A q \in Proc : Zombies(q)' = Zombies(q)
      BY <1>a DEF Zombies, Children, SchedDispatch
    <2> QED
      BY <1>a, <2>1 DEF PtInv, NoLostExit, SchedDispatch
  <1>8. NoLostTick'
    BY <1>a DEF PtInv, NoLostTick, SchedDispatch
  <1> QED BY <1>1, <1>2, <1>3, <1>4, <1>5, <1>6, <1>7, <1>8 DEF PtInv

\* The scheduler releases ptable.lock at the end of the table.
LEMMA SchedReleaseInv ==
    ASSUME PtInv, NEW c \in CPU, SchedRelease(c)
    PROVE  PtInv'
  <1> USE ProcTableAssumption DEF Proc, Null, InitProc, TickChan
  <1>1. PtTypeOK'
    BY DEF PtInv, PtTypeOK, Phase, SchedRelease, procvars
  <1>2. LockInv' /\ TickInv'
    BY DEF PtInv, PtTypeOK, LockInv, TickInv, SchedRelease, procvars
  <1>3. CpuAgreement'
    BY DEF PtInv, PtTypeOK, LockInv, CpuAgreement, SchedRelease, procvars
  <1>4. ForkInv' /\ FamilyInv'
    BY DEF PtInv, ForkInv, FamilyInv, SchedRelease, procvars
  <1>5. NoLostExit' /\ NoLostTick'
    BY DEF PtInv, NoLostExit, NoLostTick, Zombies, Children, SchedRelease, procvars
  <1> QED BY <1>1, <1>2, <1>3, <1>4, <1>5 DEF PtInv

\* fork(), in each of its steps.
LEMMA ForkStepInv ==
    ASSUME PtInv, NEW c \in CPU, NEW p \in Proc, Fork(c, p)
    PROVE  PtInv'
  <1>1. CASE ForkAlloc(c, p)
    BY <1>1, AllocSlotInv DEF ForkAlloc, SysCall, ForkPC
  <1>2. CASE ForkFail(c, p)
    BY <1>2, DropSlotInv DEF ForkFail, ForkPC
  <1>3. CASE ForkCopy(c, p)
    BY <1>3, FillSlotInv DEF ForkCopy
  <1>4. CASE ForkReady(c, p)
    BY <1>4, ReadySlotInv DEF ForkReady
  <1> QED BY <1>1, <1>2, <1>3, <1>4 DEF Fork

-----------------------------------------------------------------------------
\* The invariant of the process table is an invariant of the kernel in xv6.
THEOREM Invariance == Spec => []PtInv
  <1>1. Init => PtInv
    BY PtInitInv DEF Init
  <1>2. PtInv /\ [Next]_ptvars => PtInv'
    <2> SUFFICES ASSUME PtInv, [Next]_ptvars PROVE PtInv'
      OBVIOUS
    <2>1. ASSUME NEW c \in CPU, Scheduler(c) PROVE PtInv'
      BY <2>1, SchedAcquireInv, SchedReleaseInv, SchedReturnInv, SchedDispatchInv
         DEF Scheduler
    <2>2. ASSUME NEW c \in CPU, NEW p \in Proc, ProcStep(c, p) PROVE PtInv'
      BY <2>2, ProcStepInv
    <2>3. ASSUME NEW c \in CPU, NEW p \in Proc, Fork(c, p) PROVE PtInv'
      BY <2>3, ForkStepInv
    <2>4. ASSUME NEW c \in CPU, NEW p \in Proc, NEW z \in Proc, WaitReap(c, p, z) PROVE PtInv'
      BY <2>4, WaitReapInv
    <2>5. CASE TickStart
      BY <2>5, TickStartInv
    <2>6. CASE TickWake
      BY <2>6, TickWakeInv
    <2>7. CASE UNCHANGED ptvars
      BY <2>7, PtStutterInv
    <2> QED BY <2>1, <2>2, <2>3, <2>4, <2>5, <2>6, <2>7 DEF Next
  <1> QED BY <1>1, <1>2, PTL DEF Spec

\* The variables always have the types of the code.
THEOREM TypeCorrect == Spec => []TypeOK
  <1>1. PtInv => TypeOK
    BY DEF PtInv, TypeOK
  <1> QED BY Invariance, <1>1, PTL

\* No process sleeps in wait() while one of its children is a zombie: exit()
\* and wait() miss no wakeup, with any number of CPUs and processes.
THEOREM NoExitIsLost == Spec => []NoLostExit
  <1>1. PtInv => NoLostExit
    BY DEF PtInv
  <1> QED BY Invariance, <1>1, PTL

\* No process sleeps in sys_sleep() past its time, except while the timer
\* handler is about to wake it: sleep() and wakeup() miss no tick.
THEOREM NoTickIsLost == Spec => []NoLostTick
  <1>1. PtInv => NoLostTick
    BY DEF PtInv
  <1> QED BY Invariance, <1>1, PTL

\* A process is RUNNING exactly when one CPU, and only one, executes it,
\* except for the CPU in sched() that holds ptable.lock.
THEOREM OneCpuPerProcess == Spec => []CpuAgreement
  <1>1. PtInv => CpuAgreement
    BY DEF PtInv
  <1> QED BY Invariance, <1>1, PTL

\* Every process but init has a parent that has not exited.
THEOREM NobodyIsOrphan == Spec => []NoOrphan
  BY Invariance, PtInvNoOrphan, PTL
=============================================================================
