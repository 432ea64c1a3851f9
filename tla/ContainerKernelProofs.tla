----------------------- MODULE ContainerKernelProofs -----------------------
(***************************************************************************)
(* The process table stays sound in the kernel with containers: the steps  *)
(* that create, join and leave containers and the scheduler with one pass  *)
(* per container preserve the invariant of ProcTableProofs, for any number *)
(* of slots, CPUs and containers.  The second part is about what they add: *)
(* the lists of processes, which fork(), joinContainer() and the scheduler *)
(* read and write in different critical sections, and the stack pages that *)
(* conalloc() hands out of a container.                                    *)
(***************************************************************************)
EXTENDS ContainerKernel, ProcTableProofs, FiniteSetTheorems

\* init never joins a container: joinContainer() ends in exit(), which
\* panics for init.
InitStays ==
    pc[InitProc] \notin {"join", "leave"} /\ joining[InitProc] = NoJoin

CkInv == PtInv /\ joining \in [Proc -> Container \cup {NoJoin}] /\ InitStays

-----------------------------------------------------------------------------
\* A step that only moves the thread p on within the kernel, from a point
\* without a child to another or from one with its child to another.
LEMMA ThreadStepInv ==
    ASSUME PtInv, NEW c \in CPU, NEW p \in Proc, On(c, p), UNCHANGED threadvars,
           NEW l \in PC, Goto(p, l), pc[p] # "ticks", l # "ticks",
           l = "exit" => p # InitProc,
           \/ pc[p] \notin ForkPC /\ l \notin ForkPC
           \/ pc[p] \in ForkPC \ {"filled"} /\ l \in ForkPC \ {"filled"}
    PROVE  PtInv'
  <1> USE ProcTableAssumption DEF Proc, Null, InitProc, TickChan
  <1>a. \A q \in Proc : pc'[q] = IF q = p THEN l ELSE pc[q]
    BY DEF PtInv, PtTypeOK, Goto
  <1>1. PtTypeOK'
    BY DEF PtInv, PtTypeOK, Goto, threadvars, procvars, cpuvars
  <1>2. LockInv' /\ CpuAgreement'
    BY DEF PtInv, LockInv, CpuAgreement, threadvars, procvars, cpuvars
  <1>3. TickInv'
    BY <1>a DEF PtInv, TickInv, threadvars, procvars, cpuvars
  <1>4. ForkInv'
    <2>1. "filled" \in ForkPC
      BY DEF ForkPC
    <2>2. /\ np' = np /\ state' = state /\ parent' = parent
      BY DEF threadvars, procvars
    <2>3. \A q \in Proc : /\ pc'[q] \in ForkPC <=> pc[q] \in ForkPC
                          /\ pc'[q] = "filled" <=> pc[q] = "filled"
      BY <1>a, <2>1
    <2> QED BY <2>2, <2>3 DEF PtInv, ForkInv
  <1>5. FamilyInv'
    BY <1>a DEF PtInv, FamilyInv, threadvars, procvars, cpuvars
  <1>6. NoLostExit' /\ NoLostTick'
    BY DEF PtInv, NoLostExit, NoLostTick, Zombies, Children, threadvars, procvars,
           cpuvars
  <1> QED BY <1>1, <1>2, <1>3, <1>4, <1>5, <1>6 DEF PtInv

\* create_container().
LEMMA CreateInv ==
    ASSUME PtInv, NEW c \in CPU, NEW p \in Proc, CreateCount(c, p) \/ CreateSetup(c, p)
    PROVE  PtInv'
  <1>1. CASE CreateCount(c, p)
    BY <1>1, ThreadStepInv DEF CreateCount, SysCall, PC, ForkPC
  <1>2. CASE CreateSetup(c, p)
    BY <1>2, ThreadStepInv, On(c, p), pc[p] = "create" DEF CreateSetup, PC, ForkPC
  <1> QED BY <1>1, <1>2

\* fork(), and the part of joinContainer() that makes the child.
LEMMA ForkStepInv ==
    ASSUME PtInv, NEW c \in CPU, NEW p \in Proc, Fork(c, p)
    PROVE  PtInv'
  <1>1. CASE ForkAlloc(c, p)
    BY <1>1, AllocSlotInv DEF ForkAlloc, SysCall, ForkPC
  <1>2. CASE StackAlloc(c, p)
    BY <1>2, ThreadStepInv DEF StackAlloc, PC, ForkPC
  <1>3. CASE StackFail(c, p)
    BY <1>3, DropSlotInv DEF StackFail, ForkPC
  <1>4. CASE ForkList(c, p)
    BY <1>4, ThreadStepInv DEF ForkList, PC, ForkPC
  <1>5. CASE ForkFail(c, p)
    BY <1>5, DropSlotInv DEF ForkFail, ForkPC
  <1>6. CASE ForkFill(c, p)
    BY <1>6, FillSlotInv DEF ForkFill
  <1>7. CASE ForkReady(c, p)
    BY <1>7, ReadySlotInv DEF ForkReady
  <1> QED BY <1>1, <1>2, <1>3, <1>4, <1>5, <1>6, <1>7 DEF Fork

\* joinContainer() before and after it makes the child.
LEMMA JoinInv ==
    ASSUME PtInv, InitStays, NEW c \in CPU, NEW p \in Proc, Join(c, p)
    PROVE  PtInv'
  <1>1. ASSUME NEW k \in Container, JoinStart(c, p, k) PROVE PtInv'
    BY <1>1, ThreadStepInv DEF JoinStart, SysCall, PC, ForkPC
  <1>2. CASE JoinNoSlot(c, p)
    BY <1>2, ThreadStepInv DEF JoinNoSlot, PC, ForkPC
  <1>3. CASE Leave(c, p)
    BY <1>3, ThreadStepInv DEF Leave, PC, ForkPC, InitStays
  <1> QED BY <1>1, <1>2, <1>3 DEF Join

-----------------------------------------------------------------------------
\* The scheduler picks a process from the list of a container.
LEMMA SchedPickInv ==
    ASSUME PtInv, NEW c \in CPU, SchedPick(c)
    PROVE  PtInv'
  <1> USE ProcTableAssumption DEF Proc, Null, InitProc, TickChan
  <1>a. /\ phase[c] = "sched"
        /\ phase' = [phase EXCEPT ![c] = "pick"]
        /\ UNCHANGED <<procvars, pc, np, rem, ptlock, tklock, running, cursor, ticking>>
    BY DEF SchedPick
  <1>1. PtTypeOK'
    BY <1>a DEF PtInv, PtTypeOK, Phase, procvars
  <1>2. LockInv' /\ TickInv'
    <2>1. \A d \in CPU : phase'[d] = IF d = c THEN "pick" ELSE phase[d]
      BY <1>a DEF PtInv, PtTypeOK
    <2>2. LockInv'
      BY <1>a, <2>1 DEF PtInv, LockInv
    <2>3. TickInv'
      BY <1>a, <2>1 DEF PtInv, TickInv
    <2> QED BY <2>2, <2>3
  <1>3. CpuAgreement'
    <2>1. \A d \in CPU : phase'[d] = "swtch" <=> phase[d] = "swtch"
      BY <1>a DEF PtInv, PtTypeOK
    <2>2. running' = running /\ state' = state
      BY <1>a DEF procvars
    <2> QED BY <2>1, <2>2, CpuFrame
  <1>4. ForkInv' /\ FamilyInv'
    BY <1>a DEF PtInv, ForkInv, FamilyInv, procvars
  <1>5. NoLostExit' /\ NoLostTick'
    BY <1>a DEF PtInv, NoLostExit, NoLostTick, Zombies, Children, procvars
  <1> QED BY <1>1, <1>2, <1>3, <1>4, <1>5 DEF PtInv

\* The scheduler takes ptable.lock.
LEMMA SchedAcquireInv ==
    ASSUME PtInv, NEW c \in CPU, SchedAcquire(c)
    PROVE  PtInv'
  <1> USE ProcTableAssumption DEF Proc, Null, InitProc, TickChan
  <1>1. PtTypeOK'
    <2>1. cursor' \in [CPU -> 1..(NPROC + 1)]
      BY DEF PtInv, PtTypeOK, SchedAcquire
    <2> QED
      BY <2>1 DEF PtInv, PtTypeOK, Phase, SchedAcquire, procvars
  <1>2. LockInv' /\ TickInv'
    BY DEF PtInv, PtTypeOK, LockInv, TickInv, SchedAcquire, procvars
  <1>3. CpuAgreement'
    <2>1. \A d \in CPU : phase'[d] = "swtch" <=> phase[d] = "swtch"
      BY DEF PtInv, PtTypeOK, SchedAcquire
    <2>2. running' = running /\ state' = state
      BY DEF SchedAcquire, procvars
    <2> QED BY <2>1, <2>2, CpuFrame
  <1>4. ForkInv' /\ FamilyInv'
    BY DEF PtInv, ForkInv, FamilyInv, SchedAcquire, procvars
  <1>5. NoLostExit' /\ NoLostTick'
    BY DEF PtInv, NoLostExit, NoLostTick, Zombies, Children, SchedAcquire, procvars
  <1> QED BY <1>1, <1>2, <1>3, <1>4, <1>5 DEF PtInv

\* The scheduler switches to a runnable process: it is on no other CPU,
\* because a process is taken off its CPU before ptable.lock is free again.
LEMMA SchedDispatchInv ==
    ASSUME PtInv, NEW c \in CPU, NEW p \in Proc, SchedDispatch(c, p)
    PROVE  PtInv'
  <1> USE ProcTableAssumption DEF Proc, Null, InitProc, TickChan
  <1>a. /\ state[p] = "RUNNABLE" /\ phase[c] = "scan"
        /\ \A q \in Proc : state'[q] = IF q = p THEN "RUNNING" ELSE state[q]
        /\ \A d \in CPU : running'[d] = IF d = c THEN p ELSE running[d]
        /\ \A d \in CPU : phase'[d] = IF d = c THEN "resume" ELSE phase[d]
    BY DEF PtInv, PtTypeOK, SchedDispatch, Eligible
  <1>b. \A d \in CPU : running[d] # p
    <2>1. running[c] = Null /\ ptlock = c
      BY <1>a DEF PtInv, LockInv
    <2>2. \A d \in CPU : phase[d] = "swtch" => d = c
      BY <2>1 DEF PtInv, LockInv
    <2> QED
      BY <1>a, <2>1, <2>2 DEF PtInv, CpuAgreement
  <1>1. PtTypeOK'
    <2>1. cursor' \in [CPU -> 1..(NPROC + 1)]
      BY DEF PtInv, PtTypeOK, SchedDispatch
    <2> QED
      BY <2>1 DEF PtInv, PtTypeOK, ProcState, Phase, SchedDispatch
  <1>2. LockInv'
    BY <1>a DEF PtInv, PtTypeOK, LockInv, SchedDispatch
  <1>3. CpuAgreement'
    <2>1. \A d \in CPU : running[d] \in Proc \cup {Null}
      BY DEF PtInv, PtTypeOK
    <2>2. running[c] = Null
      BY <1>a DEF PtInv, LockInv
    <2> QED
      BY <1>a, <1>b, <2>1, <2>2 DEF PtInv, CpuAgreement
  <1>4. TickInv'
    BY <1>a DEF PtInv, PtTypeOK, TickInv, LockInv, SchedDispatch
  <1>5. ForkInv'
    BY <1>1, <1>a, ForkFrame DEF PtInv, PtTypeOK, Live, SchedDispatch
  <1>6. FamilyInv'
    <2>1. pc'[InitProc] # "exit" /\ parent' = parent
      BY DEF PtInv, FamilyInv, SchedDispatch
    <2> QED
      BY <1>1, <1>a, <2>1, FamilyFrame DEF Live
  <1>7. NoLostExit'
    <2>1. \A q \in Proc : Zombies(q)' = Zombies(q)
      BY <1>a DEF Zombies, Children, SchedDispatch
    <2> QED
      BY <1>a, <2>1 DEF PtInv, NoLostExit, SchedDispatch
  <1>8. NoLostTick'
    BY <1>a DEF PtInv, NoLostTick, SchedDispatch
  <1> QED BY <1>1, <1>2, <1>3, <1>4, <1>5, <1>6, <1>7, <1>8 DEF PtInv

\* The scheduler releases ptable.lock at the end of the table.
LEMMA SchedReleaseInv ==
    ASSUME PtInv, NEW c \in CPU, SchedRelease(c)
    PROVE  PtInv'
  <1> USE ProcTableAssumption DEF Proc, Null, InitProc, TickChan
  <1>1. PtTypeOK'
    BY DEF PtInv, PtTypeOK, Phase, SchedRelease, procvars
  <1>2. LockInv' /\ TickInv'
    BY DEF PtInv, PtTypeOK, LockInv, TickInv, SchedRelease, procvars
  <1>3. CpuAgreement'
    <2>1. \A d \in CPU : phase'[d] = "swtch" <=> phase[d] = "swtch"
      BY DEF PtInv, PtTypeOK, SchedRelease
    <2>2. running' = running /\ state' = state
      BY DEF SchedRelease, procvars
    <2> QED BY <2>1, <2>2, CpuFrame
  <1>4. ForkInv' /\ FamilyInv'
    BY DEF PtInv, ForkInv, FamilyInv, SchedRelease, procvars
  <1>5. NoLostExit' /\ NoLostTick'
    BY DEF PtInv, NoLostExit, NoLostTick, Zombies, Children, SchedRelease, procvars
  <1> QED BY <1>1, <1>2, <1>3, <1>4, <1>5 DEF PtInv

-----------------------------------------------------------------------------
\* The steps that both kernels have lead no thread into joinContainer().
LEMMA ProcStepStays ==
    ASSUME PtInv, NEW c \in CPU, NEW p \in Proc, ProcStep(c, p), NEW q \in Proc,
           pc[q] \notin {"join", "leave"}
    PROVE  pc'[q] \notin {"join", "leave"}
  <1>a. pc \in [Proc -> PC]
    BY DEF PtInv, PtTypeOK
  <1>1. CASE ResumeRelease(c, p) \/ ResumeSleep(c, p) \/ Yield(c, p)
    BY <1>a, <1>1 DEF ResumeRelease, ResumeSleep, Yield, Goto
  <1>2. CASE ExitStart(c, p) \/ ExitCommit(c, p)
    BY <1>a, <1>2 DEF ExitStart, ExitCommit, Goto
  <1>3. CASE WaitFail(c, p) \/ WaitSleep(c, p)
    BY <1>a, <1>3 DEF WaitFail, WaitSleep, Goto
  <1>4. ASSUME NEW k \in KillArgs, NEW r \in Proc, Kill(c, p, k, r)
        PROVE  pc'[q] \notin {"join", "leave"}
    BY <1>a, <1>4 DEF Kill
  <1>5. ASSUME NEW n \in 0..MaxSleep, SysSleep(c, p, n)
        PROVE  pc'[q] \notin {"join", "leave"}
    BY <1>a, <1>5 DEF SysSleep, SleepTest, Goto
  <1>6. CASE SleepCommit(c, p) \/ SleepAgain(c, p)
    BY <1>a, <1>6 DEF SleepCommit, SleepAgain, SleepTest, Goto
  <1> QED BY <1>1, <1>2, <1>3, <1>4, <1>5, <1>6 DEF ProcStep

\* Only joinContainer() changes what a thread joins, and init never calls it.
LEMMA InitStaysInv ==
    ASSUME CkInv, [Next]_vars
    PROVE  joining' \in [Proc -> Container \cup {NoJoin}] /\ InitStays'
  <1> USE ProcTableAssumption DEF Proc, InitProc
  <1> DEFINE Stays == joining' \in [Proc -> Container \cup {NoJoin}] /\ InitStays'
  <1>a. /\ PtInv /\ InitStays /\ InitProc \in Proc
        /\ pc \in [Proc -> PC] /\ np \in [Proc -> Proc \cup {Null}]
        /\ joining \in [Proc -> Container \cup {NoJoin}]
    <2>1. InitProc \in Proc
      OBVIOUS
    <2>2. PtInv /\ InitStays /\ joining \in [Proc -> Container \cup {NoJoin}]
      BY DEF CkInv
    <2>3. pc \in [Proc -> PC] /\ np \in [Proc -> Proc \cup {Null}]
      BY <2>2 DEF PtInv, PtTypeOK
    <2> QED BY <2>1, <2>2, <2>3
  <1>1. ASSUME NEW c \in CPU, Scheduler(c) PROVE Stays
    <2>1. pc' = pc /\ joining' = joining
      <3>1. CASE SchedPick(c)
        BY <3>1 DEF SchedPick, contvars
      <3>2. CASE SchedAcquire(c) \/ SchedRelease(c)
        BY <3>2 DEF SchedAcquire, SchedRelease, contvars
      <3>3. CASE SchedReturn(c) /\ UNCHANGED <<contvars, schedvars>>
        BY <3>3 DEF SchedReturn, contvars
      <3>4. ASSUME NEW p \in Proc, SchedDispatch(c, p)
            PROVE  pc' = pc /\ joining' = joining
        BY <3>4 DEF SchedDispatch, contvars
      <3> QED BY <1>1, <3>1, <3>2, <3>3, <3>4 DEF Scheduler
    <2> QED BY <1>a, <2>1 DEF InitStays
  <1>2. ASSUME NEW c \in CPU, NEW p \in Proc, ProcStep(c, p),
               UNCHANGED <<contvars, schedvars>> PROVE Stays
    BY <1>a, <1>2, ProcStepStays DEF contvars, InitStays
  <1>3. ASSUME NEW c \in CPU, NEW p \in Proc,
               CreateCount(c, p) \/ CreateSetup(c, p) PROVE Stays
    BY <1>a, <1>3 DEF CreateCount, CreateSetup, Goto, InitStays
  <1>4. ASSUME NEW c \in CPU, NEW p \in Proc, Fork(c, p) PROVE Stays
    <2>1. CASE ForkAlloc(c, p)
      BY <1>a, <2>1 DEF ForkAlloc, AllocSlot, contvars, InitStays
    <2>2. CASE StackAlloc(c, p) \/ ForkList(c, p)
      BY <1>a, <2>2 DEF StackAlloc, ForkList, Goto, InitStays
    <2>3. CASE StackFail(c, p) \/ ForkFail(c, p)
      BY <1>a, <2>3 DEF StackFail, ForkFail, DropSlot, JoinEnds, Goto, InitStays
    <2>4. CASE ForkFill(c, p)
      BY <1>a, <2>4 DEF ForkFill, FillSlot, Goto, InitStays
    <2>5. CASE ForkReady(c, p)
      BY <1>a, <2>5 DEF ForkReady, ReadySlot, Goto, contvars, InitStays
    <2> QED BY <1>4, <2>1, <2>2, <2>3, <2>4, <2>5 DEF Fork
  <1>5. ASSUME NEW c \in CPU, NEW p \in Proc, Join(c, p) PROVE Stays
    <2>1. ASSUME NEW k \in Container, JoinStart(c, p, k) PROVE Stays
      BY <1>a, <2>1 DEF JoinStart, Goto, InitStays
    <2>2. CASE JoinNoSlot(c, p)
      BY <1>a, <2>2 DEF JoinNoSlot, JoinEnds, Goto, InitStays
    <2>3. CASE Leave(c, p)
      BY <1>a, <2>3 DEF Leave, Goto, InitStays
    <2> QED BY <1>5, <2>1, <2>2, <2>3 DEF Join
  <1>6. ASSUME NEW c \in CPU, NEW p \in Proc, NEW z \in Proc, Reap(c, p, z)
        PROVE  Stays
    BY <1>a, <1>6 DEF Reap, WaitReap, JoinEnds, Goto, InitStays
  <1>7. CASE (TickStart \/ TickWake) /\ UNCHANGED <<contvars, schedvars>>
    BY <1>a, <1>7 DEF TickStart, TickWake, contvars, InitStays
  <1>8. CASE UNCHANGED vars
    BY <1>a, <1>8 DEF vars, ptvars, contvars, InitStays
  <1> QED BY <1>1, <1>2, <1>3, <1>4, <1>5, <1>6, <1>7, <1>8 DEF Next

-----------------------------------------------------------------------------
\* The invariant of the process table is an invariant of the kernel with
\* containers.
THEOREM Invariance == Spec => []CkInv
  <1>1. Init => CkInv
    BY PtInitInv, ProcTableAssumption
       DEF Init, CkInv, InitStays, PtInit, Proc, InitProc
  <1>2. CkInv /\ [Next]_vars => CkInv'
    <2> SUFFICES ASSUME CkInv, [Next]_vars PROVE PtInv'
      BY InitStaysInv DEF CkInv
    <2>a. PtInv /\ InitStays
      BY DEF CkInv
    <2>1. ASSUME NEW c \in CPU, Scheduler(c) PROVE PtInv'
      BY <2>a, <2>1, SchedPickInv, SchedAcquireInv, SchedReleaseInv, SchedReturnInv,
         SchedDispatchInv DEF Scheduler
    <2>2. ASSUME NEW c \in CPU, NEW p \in Proc, ProcStep(c, p) PROVE PtInv'
      BY <2>a, <2>2, ProcStepInv
    <2>3. ASSUME NEW c \in CPU, NEW p \in Proc,
                 CreateCount(c, p) \/ CreateSetup(c, p) PROVE PtInv'
      BY <2>a, <2>3, CreateInv
    <2>4. ASSUME NEW c \in CPU, NEW p \in Proc, Fork(c, p) PROVE PtInv'
      BY <2>a, <2>4, ForkStepInv
    <2>5. ASSUME NEW c \in CPU, NEW p \in Proc, Join(c, p) PROVE PtInv'
      BY <2>a, <2>5, JoinInv
    <2>6. ASSUME NEW c \in CPU, NEW p \in Proc, NEW z \in Proc, Reap(c, p, z) PROVE PtInv'
      BY <2>a, <2>6, WaitReapInv DEF Reap
    <2>7. CASE TickStart
      BY <2>a, <2>7, TickStartInv
    <2>8. CASE TickWake
      BY <2>a, <2>8, TickWakeInv
    <2>9. CASE UNCHANGED vars
      BY <2>a, <2>9, PtStutterInv DEF vars
    <2> QED BY <2>1, <2>2, <2>3, <2>4, <2>5, <2>6, <2>7, <2>8, <2>9 DEF Next
  <1> QED BY <1>1, <1>2, PTL DEF Spec

\* No process sleeps in wait() while one of its children is a zombie, also
\* where the child died because it joined another container.
THEOREM NoExitIsLost == Spec => []NoLostExit
  <1>1. CkInv => NoLostExit
    BY DEF CkInv, PtInv
  <1> QED BY Invariance, <1>1, PTL

\* A process is RUNNING exactly when one CPU executes it, although the
\* scheduler picks it before it takes ptable.lock.
THEOREM OneCpuPerProcess == Spec => []CpuAgreement
  <1>1. CkInv => CpuAgreement
    BY DEF CkInv, PtInv
  <1> QED BY Invariance, <1>1, PTL

\* Every process but init has a parent that has not exited, also the child
\* that joinContainer() leaves behind.
THEOREM NobodyIsOrphan == Spec => []NoOrphan
  <1>1. CkInv => NoOrphan
    BY PtInvNoOrphan DEF CkInv
  <1> QED BY Invariance, <1>1, PTL

-----------------------------------------------------------------------------
(* The lists and the pages of the containers.                              *)

\* A slot without a process that the table shows.
Blank == {"UNUSED", "EMBRYO"}

\* TypeOK without the process table, and with the domain of stack.
ContType ==
    /\ containerID \in [Proc -> Container]
    /\ stack \in [Proc -> {<<>>} \cup (Container \X Nat)]
    /\ containerNum \in 1..NCONT
    /\ listed \in [Container -> [Entry -> Proc \cup {Null}]]
    /\ generated \in [Container -> Int]
    /\ pages \in [Container -> BOOLEAN]
    /\ used \in [Container -> Nat]
    /\ allocFor \in Container
    /\ joining \in [Proc -> Container \cup {NoJoin}]

SchedType ==
    /\ cnt \in [CPU -> Container]
    /\ curLocation \in [CPU -> [Container -> 0..PROCESS_COUNT]]
    /\ pick \in [CPU -> Nat \cup {-1}]

\* The page of a process is among those that its container has handed out,
\* and it is nobody else's.
StackInv ==
    \A p \in Proc : stack[p] # <<>> /\ stack[p][1] # Host =>
       /\ stack[p][2] <= used[stack[p][1]]
       /\ \A q \in Proc : stack[q] = stack[p] => q = p

\* Pages of kalloc() have no index.
HostStackInv == \A p \in Proc : stack[p] # <<>> /\ stack[p][1] = Host => stack[p][2] = 0

\* A process dies in exit(), and goes through the end of joinContainer() only
\* if it has joined a container.
ExitInv ==
    \A p \in Proc : /\ state[p] = "ZOMBIE" => pc[p] = "exit"
                    /\ pc[p] = "leave" => joining[p] # NoJoin

IsListed(k, p) == \E i \in Entry : listed[k][i] = p

\* Every process of a container, dead or alive, is on its list, but for those
\* that have struck themselves off.
MemberInv ==
    \A p \in Proc :
       state[p] \notin Blank /\ containerID[p] # Host /\ ~Leaving(p)
          => IsListed(containerID[p], p)

\* A child is listed before it is runnable.
ChildInv ==
    \A p \in Proc : pc[p] \in {"listed", "filled"} =>
       /\ Target(p) # Host => IsListed(Target(p), np[p])
       /\ pc[p] = "filled" => containerID[np[p]] = Target(p)

ContInv ==
    /\ ContType /\ SchedType /\ StackInv /\ HostStackInv
    /\ ExitInv /\ MemberInv /\ ChildInv

\* What a step may do with a thread without touching the lists: it gives a
\* life to no slot, brings nobody back from exit(), and leads nobody into the
\* last steps of fork() and joinContainer().
Calm ==
    /\ np' = np
    /\ \A q \in Proc :
          /\ pc[q] = "exit" => pc'[q] = "exit"
          /\ pc'[q] \in {"listed", "filled", "leave"} => pc'[q] = pc[q]
          /\ state'[q] \notin Blank => state[q] \notin Blank
          /\ state'[q] = "ZOMBIE" => state[q] = "ZOMBIE" \/ pc'[q] = "exit"

LEMMA ProcStepCalm ==
    ASSUME PtInv, NEW c \in CPU, NEW p \in Proc, ProcStep(c, p)
    PROVE  Calm
  <1>a. /\ pc \in [Proc -> PC] /\ state \in [Proc -> ProcState]
        /\ chan \in [Proc -> Proc \cup {Null, TickChan}]
    BY DEF PtInv, PtTypeOK
  <1>b. ASSUME running[c] = p, phase[c] # "swtch" PROVE state[p] = "RUNNING"
    BY <1>b, RunningState
  <1>1. CASE ResumeRelease(c, p) \/ ResumeSleep(c, p)
    BY <1>a, <1>1 DEF ResumeRelease, ResumeSleep, Goto, Calm, procvars
  <1>2. CASE Yield(c, p)
    BY <1>a, <1>b, <1>2 DEF Yield, Calm, Blank
  <1>3. CASE ExitStart(c, p)
    BY <1>a, <1>3 DEF ExitStart, Goto, Calm, procvars
  <1>4. CASE ExitCommit(c, p)
    <2>1. state[p] = "RUNNING" /\ pc[p] = "exit" /\ pc' = pc /\ np' = np
      BY <1>b, <1>4 DEF ExitCommit, On
    <2>2. \A q \in Proc : q # p =>
             \/ state'[q] = state[q]
             \/ state[q] = "SLEEPING" /\ state'[q] = "RUNNABLE"
      BY <1>a, <1>4 DEF ExitCommit, ExitStates, Wakeup1
    <2> QED BY <2>1, <2>2 DEF Calm, Blank
  <1>5. CASE WaitFail(c, p) \/ WaitSleep(c, p)
    <2>1. pc[p] \in {"user", "wait"} /\ state[p] = "RUNNING"
      BY <1>b, <1>5 DEF WaitFail, WaitSleep, InWait, SysCall, On
    <2> QED BY <1>a, <1>5, <2>1 DEF WaitFail, WaitSleep, Goto, Calm, Blank
  <1>6. ASSUME NEW k \in KillArgs, NEW r \in Proc, Kill(c, p, k, r)
        PROVE  Calm
    BY <1>a, <1>6 DEF Kill, Calm, Blank
  <1>7. ASSUME NEW n \in 0..MaxSleep, SysSleep(c, p, n)
        PROVE  Calm
    BY <1>a, <1>7 DEF SysSleep, SysCall, SleepTest, Goto, Calm, procvars
  <1>8. CASE SleepCommit(c, p)
    <2>1. pc[p] = "ticks" /\ state[p] = "RUNNING"
      BY <1>b, <1>8 DEF SleepCommit, On
    <2> QED BY <1>a, <1>8, <2>1 DEF SleepCommit, Goto, Calm, Blank
  <1>9. CASE SleepAgain(c, p)
    BY <1>a, <1>9 DEF SleepAgain, SleepTest, Goto, Calm, procvars
  <1> QED BY <1>1, <1>2, <1>3, <1>4, <1>5, <1>6, <1>7, <1>8, <1>9 DEF ProcStep

\* A step that leaves the lists alone: whoever has a life after it had one
\* before it and has not come back from leaving.
LEMMA ListFrame ==
    ASSUME ExitInv, MemberInv, ChildInv, UNCHANGED <<containerID, listed>>,
           \A q \in Proc :
              /\ \/ state'[q] \in Blank
                 \/ state[q] \notin Blank /\ (Leaving(q) => Leaving(q)')
              /\ state'[q] = "ZOMBIE" => pc'[q] = "exit"
              /\ pc'[q] = "leave" => joining'[q] # NoJoin
              /\ pc'[q] \in {"listed", "filled"} =>
                    pc'[q] = pc[q] /\ np'[q] = np[q] /\ joining'[q] = joining[q]
    PROVE  ExitInv' /\ MemberInv' /\ ChildInv'
  <1>1. ExitInv'
    BY DEF ExitInv
  <1>2. MemberInv'
    BY DEF MemberInv, IsListed
  <1>3. ChildInv'
    <2> SUFFICES ASSUME NEW p \in Proc, pc'[p] \in {"listed", "filled"}
                 PROVE  /\ Target(p)' # Host => IsListed(Target(p), np[p])'
                        /\ pc'[p] = "filled" => containerID'[np'[p]] = Target(p)'
      BY DEF ChildInv
    <2>1. pc'[p] = pc[p] /\ np'[p] = np[p] /\ joining'[p] = joining[p]
      OBVIOUS
    <2>2. Target(p)' = Target(p)
      BY <2>1 DEF Target
    <2>3. IsListed(Target(p), np[p]) => IsListed(Target(p), np[p])'
      BY <2>1, <2>2 DEF IsListed
    <2> QED BY <2>1, <2>2, <2>3 DEF ChildInv
  <1> QED BY <1>1, <1>2, <1>3

\* The steps that both kernels have, and the timer.
LEMMA CalmInv ==
    ASSUME ContInv, Calm, UNCHANGED contvars
    PROVE  ContType' /\ StackInv' /\ HostStackInv' /\ ExitInv' /\ MemberInv' /\ ChildInv'
  <1>1. UNCHANGED <<containerID, stack, containerNum, listed, generated, pages, used,
                    allocFor, joining>>
    BY DEF contvars
  <1>2. ContType'
    BY <1>1 DEF ContInv, ContType
  <1>3. StackInv' /\ HostStackInv'
    BY <1>1 DEF ContInv, StackInv, HostStackInv
  <1>4. ASSUME NEW q \in Proc
        PROVE  /\ \/ state'[q] \in Blank
                  \/ state[q] \notin Blank /\ (Leaving(q) => Leaving(q)')
               /\ state'[q] = "ZOMBIE" => pc'[q] = "exit"
               /\ pc'[q] = "leave" => joining'[q] # NoJoin
               /\ pc'[q] \in {"listed", "filled"} =>
                     pc'[q] = pc[q] /\ np'[q] = np[q] /\ joining'[q] = joining[q]
    BY <1>1 DEF Calm, Leaving, ContInv, ExitInv
  <1>5. ExitInv' /\ MemberInv' /\ ChildInv'
    BY <1>1, <1>4, ListFrame DEF ContInv
  <1> QED BY <1>2, <1>3, <1>5

\* The scan of a list ends at an entry of the list.
LEMMA ScanInEntry ==
    ASSUME NEW l \in 0..PROCESS_COUNT, NEW j \in Entry
    PROVE  ScanOrder(l)[j] \in Entry
  <1>1. /\ PROCESS_COUNT \in Nat /\ PROCESS_COUNT > 0 /\ l + j - 1 \in Nat
    BY ContainerAssumption DEF Entry
  <1>2. (l + j - 1) % PROCESS_COUNT \in 0..(PROCESS_COUNT - 1)
    BY <1>1
  <1> QED BY <1>1, <1>2 DEF ScanOrder, Entry

\* The passes over the containers.
LEMMA SchedulerCont ==
    ASSUME PtInv, ContInv, NEW c \in CPU, Scheduler(c)
    PROVE  ContInv'
  <1>a. /\ state \in [Proc -> ProcState] /\ pid \in [Proc -> Nat]
    BY DEF PtInv, PtTypeOK
  <1>b. SchedType /\ ContType
    BY DEF ContInv
  <1>1. CASE SchedPick(c)
    <2>1. Calm /\ UNCHANGED contvars /\ cnt' = cnt
      BY <1>1 DEF SchedPick, Calm, procvars
    <2>2. SchedType'
      <3> DEFINE k == cnt[c]
                 order == ScanOrder(curLocation[c][k])
      <3>1. k \in Container /\ curLocation[c][k] \in 0..PROCESS_COUNT
        BY <1>b DEF SchedType
      <3>2. \A j \in Entry : order[j] \in Entry
        BY <3>1, ScanInEntry
      <3>3. CASE UNCHANGED <<pick, curLocation>>
        BY <1>b, <2>1, <3>3 DEF SchedType
      <3>4. ASSUME NEW j \in Entry, listed[k][order[j]] # Null,
                   pick' = [pick EXCEPT ![c] = pid[listed[k][order[j]]]],
                   curLocation' = [curLocation EXCEPT ![c][k] = order[j]]
            PROVE  SchedType'
        <4>1. order[j] \in 0..PROCESS_COUNT
          BY <3>2, ContainerAssumption DEF Entry
        <4>2. pid[listed[k][order[j]]] \in Nat
          <5>1. listed[k][order[j]] \in Proc \cup {Null}
            <6>1. listed[k] \in [Entry -> Proc \cup {Null}]
              BY <1>b, <3>1 DEF ContType
            <6>2. order[j] \in Entry
              BY <3>2
            <6> HIDE DEF k, order
            <6> QED BY <6>1, <6>2
          <5> QED BY <1>a, <3>4, <5>1
        <4> HIDE DEF order, k
        <4>3. pick' \in [CPU -> Nat \cup {-1}]
          BY <1>b, <3>4, <4>2 DEF SchedType
        <4>4. curLocation' \in [CPU -> [Container -> 0..PROCESS_COUNT]]
          BY <1>b, <3>4, <4>1 DEF SchedType
        <4> QED BY <1>b, <2>1, <4>3, <4>4 DEF SchedType
      <3> QED BY <1>1, <3>3, <3>4 DEF SchedPick
    <2> QED BY <2>1, <2>2, CalmInv DEF ContInv
  <1>2. CASE SchedAcquire(c) \/ (SchedReturn(c) /\ UNCHANGED <<contvars, schedvars>>)
    <2>1. Calm /\ UNCHANGED contvars /\ UNCHANGED schedvars
      BY <1>2 DEF SchedAcquire, SchedReturn, Calm, procvars
    <2>2. SchedType'
      BY <1>b, <2>1 DEF SchedType, schedvars
    <2> QED BY <2>1, <2>2, CalmInv DEF ContInv
  <1>3. CASE SchedRelease(c)
    <2>1. Calm /\ UNCHANGED contvars
      BY <1>3 DEF SchedRelease, Calm, procvars
    <2>2. SchedType'
      <3>1. /\ cnt' = [cnt EXCEPT ![c] = IF @ + 1 < containerNum THEN @ + 1 ELSE Host]
            /\ UNCHANGED <<curLocation, pick>>
        BY <1>3 DEF SchedRelease
      <3>2. cnt[c] \in Container /\ containerNum \in 1..NCONT
        BY <1>b DEF SchedType, ContType
      <3>3. (IF cnt[c] + 1 < containerNum THEN cnt[c] + 1 ELSE Host) \in Container
        BY <3>2, ContainerAssumption DEF Container, Host
      <3> QED BY <1>b, <3>1, <3>3 DEF SchedType
    <2> QED BY <2>1, <2>2, CalmInv DEF ContInv
  <1>4. ASSUME NEW p \in Proc, SchedDispatch(c, p) PROVE ContInv'
    <2>1. Calm
      BY <1>a, <1>4 DEF SchedDispatch, Eligible, Calm, Blank
    <2>2. UNCHANGED contvars /\ UNCHANGED schedvars
      BY <1>4 DEF SchedDispatch
    <2>3. SchedType'
      BY <1>b, <2>2 DEF SchedType, schedvars
    <2> QED BY <2>1, <2>2, <2>3, CalmInv DEF ContInv
  <1> QED BY <1>1, <1>2, <1>3, <1>4 DEF Scheduler

\* A step of the process p that changes no page and no list, and moves p
\* somewhere outside the last steps of fork() and joinContainer().
LEMMA MoveCont ==
    ASSUME PtInv, ContInv, NEW p \in Proc, NEW l, Goto(p, l),
           state[p] = "RUNNING", pc[p] # "exit", l \notin {"listed", "filled", "leave"},
           UNCHANGED <<containerID, listed>>,
           \A q \in Proc : /\ q # p => joining'[q] = joining[q] /\ np'[q] = np[q]
                           /\ state'[q] = state[q] \/ state'[q] = "UNUSED"
    PROVE  ExitInv' /\ MemberInv' /\ ChildInv'
  <1>1. \A q \in Proc : pc'[q] = IF q = p THEN l ELSE pc[q]
    BY DEF Goto, PtInv, PtTypeOK
  <1>2. ASSUME NEW q \in Proc
        PROVE  /\ \/ state'[q] \in Blank
                  \/ state[q] \notin Blank /\ (Leaving(q) => Leaving(q)')
               /\ state'[q] = "ZOMBIE" => pc'[q] = "exit"
               /\ pc'[q] = "leave" => joining'[q] # NoJoin
               /\ pc'[q] \in {"listed", "filled"} =>
                     pc'[q] = pc[q] /\ np'[q] = np[q] /\ joining'[q] = joining[q]
    <2>1. CASE q = p
      BY <1>1, <2>1 DEF Blank, Leaving
    <2>2. CASE q # p
      BY <1>1, <2>2 DEF Blank, Leaving, ContInv, ExitInv
    <2> QED BY <2>1, <2>2
  <1> QED BY <1>2, ListFrame DEF ContInv

\* create_container().
LEMMA CreateCont ==
    ASSUME PtInv, ContInv, NEW c \in CPU, NEW p \in Proc,
           CreateCount(c, p) \/ CreateSetup(c, p)
    PROVE  ContInv'
  <1>a. state[p] = "RUNNING"
    BY RunningState DEF CreateCount, CreateSetup, SysCall, On
  <1>b. ContType /\ SchedType /\ StackInv /\ HostStackInv
    BY DEF ContInv
  <1>1. /\ UNCHANGED <<containerID, stack, listed, used, allocFor, joining, np, state>>
        /\ UNCHANGED schedvars
    BY DEF CreateCount, CreateSetup, threadvars, procvars
  <1>2. StackInv' /\ HostStackInv' /\ SchedType'
    BY <1>b, <1>1 DEF StackInv, HostStackInv, SchedType, schedvars
  <1>3. ContType'
    <2>1. CASE CreateCount(c, p)
      <3>1. containerNum' \in 1..NCONT /\ UNCHANGED <<generated, pages>>
        BY <1>b, <2>1, ContainerAssumption DEF CreateCount, ContType
      <3> QED BY <1>b, <1>1, <3>1 DEF ContType
    <2>2. CASE CreateSetup(c, p)
      <3>1. /\ generated' = [generated EXCEPT ![containerNum - 1] = 0]
            /\ pages' = [pages EXCEPT ![containerNum - 1] = TRUE]
            /\ UNCHANGED containerNum
        BY <2>2 DEF CreateSetup
      <3>2. generated' \in [Container -> Int]
        <4>1. generated \in [Container -> Int] /\ 0 \in Int
          BY <1>b DEF ContType
        <4> QED BY <3>1, <4>1
      <3>3. pages' \in [Container -> BOOLEAN]
        BY <1>b, <3>1 DEF ContType
      <3> QED BY <1>b, <1>1, <3>1, <3>2, <3>3 DEF ContType
    <2> QED BY <2>1, <2>2
  <1>4. ExitInv' /\ MemberInv' /\ ChildInv'
    <2>1. CASE CreateCount(c, p)
      BY <1>a, <1>1, <2>1, MoveCont DEF CreateCount, SysCall
    <2>2. CASE CreateSetup(c, p)
      BY <1>a, <1>1, <2>2, MoveCont DEF CreateSetup
    <2> QED BY <2>1, <2>2
  <1> QED BY <1>2, <1>3, <1>4 DEF ContInv

\* A process that makes a child is running, and the child is not.
LEMMA ForkerRuns ==
    ASSUME PtInv, NEW c \in CPU, NEW p \in Proc, On(c, p), pc[p] \in ForkPC
    PROVE  /\ state[p] = "RUNNING" /\ np[p] \in Proc /\ state[np[p]] = "EMBRYO"
           /\ np[p] # p
           /\ \A q \in Proc : q # p => np[q] # np[p]
  <1>1. state[p] = "RUNNING"
    BY RunningState DEF On
  <1>2. np[p] \in Proc /\ state[np[p]] = "EMBRYO"
    BY DEF PtInv, PtTypeOK, ForkInv
  <1>3. \A q \in Proc : q # p => np[q] # np[p]
    BY DEF PtInv, ForkInv
  <1> QED BY <1>1, <1>2, <1>3

\* allocproc(): the slot, the stack, and the ways to fail.
LEMMA AllocCont ==
    ASSUME PtInv, ContInv, NEW c \in CPU, NEW p \in Proc, ForkAlloc(c, p)
    PROVE  ContInv'
  <1>a. state[p] = "RUNNING" /\ pc[p] \in {"user", "join"}
    BY RunningState DEF ForkAlloc, SysCall, On
  <1>b. UNCHANGED <<schedvars, contvars>>
    BY DEF ForkAlloc
  <1>c. UNCHANGED <<containerID, listed, joining>>
    BY <1>b DEF contvars
  <1>1. PICK n \in Proc : AllocSlot(c, p, n)
    BY DEF ForkAlloc
  <1>2. /\ \A q \in Proc : state'[q] = IF q = n THEN "EMBRYO" ELSE state[q]
        /\ \A q \in Proc : q # p /\ q # n => pc'[q] = pc[q] /\ np'[q] = np[q]
        /\ pc'[p] = "alloc" /\ pc'[n] = "forkret" /\ n # p
    BY <1>a, <1>1 DEF AllocSlot, PtInv, PtTypeOK
  <1>3. ExitInv' /\ MemberInv' /\ ChildInv'
    <2>1. ASSUME NEW q \in Proc
          PROVE  /\ \/ state'[q] \in Blank
                    \/ state[q] \notin Blank /\ (Leaving(q) => Leaving(q)')
                 /\ state'[q] = "ZOMBIE" => pc'[q] = "exit"
                 /\ pc'[q] = "leave" => joining'[q] # NoJoin
                 /\ pc'[q] \in {"listed", "filled"} =>
                       pc'[q] = pc[q] /\ np'[q] = np[q] /\ joining'[q] = joining[q]
      <3>1. CASE q = p
        BY <1>a, <1>2, <3>1 DEF Blank, Leaving
      <3>2. CASE q = n
        BY <1>2, <3>2 DEF Blank
      <3>3. CASE q # p /\ q # n
        BY <1>c, <1>2, <3>3 DEF Blank, Leaving, ContInv, ExitInv
      <3> QED BY <3>1, <3>2, <3>3
    <2> QED BY <1>c, <2>1, ListFrame DEF ContInv
  <1>4. ContType' /\ StackInv' /\ HostStackInv' /\ SchedType'
    <2>1. ContType'
      BY <1>b DEF ContInv, ContType, contvars
    <2>2. StackInv' /\ HostStackInv'
      BY <1>b DEF ContInv, StackInv, HostStackInv, contvars
    <2>3. SchedType'
      BY <1>b DEF ContInv, SchedType, schedvars
    <2> QED BY <2>1, <2>2, <2>3
  <1> QED BY <1>3, <1>4 DEF ContInv

\* A stack is given back.
LEMMA StackFreed ==
    ASSUME ContInv, NEW z \in Proc, UNCHANGED used,
           stack' = [stack EXCEPT ![z] = <<>>]
    PROVE  /\ stack' \in [Proc -> {<<>>} \cup (Container \X Nat)]
           /\ StackInv' /\ HostStackInv'
  <1>1. stack' \in [Proc -> {<<>>} \cup (Container \X Nat)]
    BY DEF ContInv, ContType
  <1>2. \A q \in Proc : stack'[q] = IF q = z THEN <<>> ELSE stack[q]
    BY DEF ContInv, ContType
  <1>3. StackInv' /\ HostStackInv'
    BY <1>2 DEF ContInv, StackInv, HostStackInv
  <1> QED BY <1>1, <1>3

LEMMA StackAllocCont ==
    ASSUME PtInv, ContInv, NEW c \in CPU, NEW p \in Proc, StackAlloc(c, p)
    PROVE  ContInv'
  <1>a. On(c, p) /\ pc[p] = "alloc"
    BY DEF StackAlloc
  <1>b. state[p] = "RUNNING" /\ np[p] \in Proc
    BY <1>a, ForkerRuns DEF ForkPC
  <1>c. ContType /\ SchedType /\ StackInv /\ HostStackInv
    BY DEF ContInv
  <1>1. /\ UNCHANGED <<containerID, containerNum, listed, generated, pages, allocFor,
                       joining, np, state, schedvars>>
        /\ Goto(p, "stack")
    BY DEF StackAlloc, threadvars, procvars
  <1>2. ExitInv' /\ MemberInv' /\ ChildInv'
    BY <1>a, <1>b, <1>1, MoveCont
  <1>3. SchedType'
    BY <1>c, <1>1 DEF SchedType, schedvars
  <1>4. CASE allocFor = Host /\ used' = used
             /\ stack' = [stack EXCEPT ![np[p]] = <<Host, 0>>]
    <2>0. Host \in Container
      BY ContainerAssumption DEF Host, Container
    <2>1. stack' \in [Proc -> {<<>>} \cup (Container \X Nat)]
      BY <1>c, <1>4, <2>0 DEF ContType
    <2>2. \A q \in Proc : stack'[q] = IF q = np[p] THEN <<Host, 0>> ELSE stack[q]
      BY <1>c, <1>4 DEF ContType
    <2>3. StackInv'
      BY <1>c, <1>4, <2>2 DEF StackInv
    <2>4. HostStackInv'
      BY <1>c, <2>2 DEF HostStackInv
    <2> QED BY <1>c, <1>1, <1>2, <1>3, <1>4, <2>1, <2>3, <2>4 DEF ContInv, ContType
  <1>5. CASE /\ allocFor # Host
             /\ stack' = [stack EXCEPT ![np[p]] = <<allocFor, used[allocFor] + 1>>]
             /\ used' = [used EXCEPT ![allocFor] = @ + 1]
    <2>0. allocFor \in Container /\ used[allocFor] \in Nat
      BY <1>c DEF ContType
    <2>1. stack' \in [Proc -> {<<>>} \cup (Container \X Nat)]
      <3>1. <<allocFor, used[allocFor] + 1>> \in Container \X Nat
        BY <2>0
      <3>2. stack \in [Proc -> {<<>>} \cup (Container \X Nat)]
        BY <1>c DEF ContType
      <3> QED BY <1>5, <3>1, <3>2
    <2>2. \A q \in Proc : stack'[q] = IF q = np[p] THEN <<allocFor, used[allocFor] + 1>>
                                      ELSE stack[q]
      BY <1>c, <1>5 DEF ContType
    <2>3. \A k \in Container : used'[k] = IF k = allocFor THEN used[k] + 1 ELSE used[k]
      BY <1>c, <1>5 DEF ContType
    <2>4. used' \in [Container -> Nat]
      BY <1>c, <1>5 DEF ContType
    <2>5. StackInv'
      <3> SUFFICES ASSUME NEW q \in Proc, stack'[q] # <<>>, stack'[q][1] # Host
                   PROVE  /\ stack'[q][2] <= used'[stack'[q][1]]
                          /\ \A r \in Proc : stack'[r] = stack'[q] => r = q
        BY DEF StackInv
      <3>1. ASSUME NEW r \in Proc, r # np[p], stack'[r] # <<>>, stack'[r][1] # Host
            PROVE  /\ stack[r] # <<>> /\ stack[r][1] \in Container /\ stack[r][2] \in Nat
                   /\ stack[r][1] # Host /\ stack'[r] = stack[r]
                   /\ stack[r][2] <= used[stack[r][1]]
        BY <1>c, <2>2, <3>1 DEF ContType, StackInv
      <3>2. CASE q = np[p]
        <4>1. stack'[q] = <<allocFor, used[allocFor] + 1>>
          BY <2>2, <3>2
        <4>2. ASSUME NEW r \in Proc, stack'[r] = stack'[q], r # q PROVE FALSE
          <5>1. /\ stack[r] = <<allocFor, used[allocFor] + 1>>
                /\ stack[r][2] <= used[stack[r][1]]
            BY <3>1, <3>2, <4>1, <4>2
          <5> QED BY <2>0, <5>1
        <4> QED BY <2>0, <2>3, <4>1, <4>2
      <3>3. CASE q # np[p]
        <4>1. /\ stack[q] # <<>> /\ stack[q][1] \in Container /\ stack[q][2] \in Nat
              /\ stack[q][1] # Host /\ stack'[q] = stack[q]
              /\ stack[q][2] <= used[stack[q][1]]
          BY <3>1, <3>3
        <4>2. stack'[q][2] <= used'[stack'[q][1]]
          <5>1. used[stack[q][1]] \in Nat
            BY <1>c, <4>1 DEF ContType
          <5>2. used[stack[q][1]] <= used'[stack[q][1]] /\ used'[stack[q][1]] \in Nat
            BY <2>3, <4>1, <5>1
          <5> QED BY <4>1, <5>1, <5>2
        <4>3. stack'[np[p]] # stack'[q]
          <5>1. stack'[np[p]] = <<allocFor, used[allocFor] + 1>>
            BY <1>b, <2>2
          <5>2. ASSUME stack[q] = <<allocFor, used[allocFor] + 1>> PROVE FALSE
            BY <2>0, <4>1, <5>2
          <5> QED BY <4>1, <5>1, <5>2
        <4>4. \A r \in Proc : stack'[r] = stack'[q] => r = q
          BY <1>c, <2>2, <4>1, <4>3 DEF StackInv
        <4> QED BY <4>2, <4>4
      <3> QED BY <3>2, <3>3
    <2>6. HostStackInv'
      BY <1>c, <1>5, <2>2 DEF HostStackInv
    <2> QED BY <1>c, <1>1, <1>2, <1>3, <2>1, <2>4, <2>5, <2>6 DEF ContInv, ContType
  <1> QED BY <1>4, <1>5 DEF StackAlloc

\* A failed fork() or joinContainer() gives its slot back.
LEMMA FailCont ==
    ASSUME PtInv, ContInv, NEW c \in CPU, NEW p \in Proc,
           StackFail(c, p) \/ ForkFail(c, p)
    PROVE  ContInv'
  <1>a. On(c, p) /\ pc[p] \in {"alloc", "stack"}
    BY DEF StackFail, ForkFail
  <1>b. state[p] = "RUNNING" /\ np[p] \in Proc
    BY <1>a, ForkerRuns DEF ForkPC
  <1>c. ContType /\ SchedType /\ StackInv /\ HostStackInv
    BY DEF ContInv
  <1>1. /\ UNCHANGED <<containerID, containerNum, listed, generated, pages, schedvars>>
        /\ joining' = [joining EXCEPT ![p] = NoJoin]
        /\ DropSlot(p)
    BY DEF StackFail, ForkFail, JoinEnds
  <1>2. ExitInv' /\ MemberInv' /\ ChildInv'
    <2>1. Goto(p, "user")
      BY <1>1 DEF DropSlot
    <2>2. \A q \in Proc : q # p => joining'[q] = joining[q]
      BY <1>c, <1>1 DEF ContType
    <2>3. \A q \in Proc : q # p => np'[q] = np[q]
      BY <1>1 DEF DropSlot, PtInv, PtTypeOK
    <2>4. \A q \in Proc : state'[q] = state[q] \/ state'[q] = "UNUSED"
      BY <1>1 DEF DropSlot, PtInv, PtTypeOK
    <2>5. pc[p] # "exit"
      BY <1>a
    <2> QED BY <1>b, <1>1, <2>1, <2>2, <2>3, <2>4, <2>5, MoveCont
  <1>3. SchedType'
    BY <1>c, <1>1 DEF SchedType, schedvars
  <1>4. joining' \in [Proc -> Container \cup {NoJoin}]
    BY <1>c, <1>1 DEF ContType
  <1>5. CASE StackFail(c, p)
    <2>1. UNCHANGED <<stack, allocFor>>
      BY <1>5 DEF StackFail
    <2>2. /\ used' \in [Container -> Nat]
          /\ \A k \in Container : used[k] <= used'[k] /\ used[k] \in Nat
      <3>1. used' = used \/ used' = [used EXCEPT ![allocFor] = @ + 1]
        BY <1>5 DEF StackFail
      <3>2. used \in [Container -> Nat]
        BY <1>c DEF ContType
      <3> QED BY <3>1, <3>2
    <2>3. StackInv'
      <3>1. ASSUME NEW q \in Proc, stack[q] # <<>>, stack[q][1] # Host
            PROVE  stack[q][2] <= used'[stack[q][1]]
        <4>1. stack[q][1] \in Container /\ stack[q][2] \in Nat
          BY <1>c, <3>1 DEF ContType
        <4>2. stack[q][2] <= used[stack[q][1]]
          BY <1>c, <3>1 DEF StackInv
        <4> QED BY <2>2, <4>1, <4>2
      <3> QED BY <1>c, <2>1, <3>1 DEF StackInv
    <2>4. HostStackInv'
      BY <1>c, <2>1 DEF HostStackInv
    <2>5. ContType'
      BY <1>c, <1>1, <1>4, <2>1, <2>2 DEF ContType
    <2> QED BY <1>2, <1>3, <2>3, <2>4, <2>5 DEF ContInv
  <1>6. CASE ForkFail(c, p)
    <2>1. stack' = [stack EXCEPT ![np[p]] = <<>>] /\ UNCHANGED used
      BY <1>6 DEF ForkFail
    <2>2. allocFor' \in Container
      BY <1>c, <1>6, ContainerAssumption DEF ForkFail, ResetAllocFor, ContType, Host, Container
    <2>3. /\ stack' \in [Proc -> {<<>>} \cup (Container \X Nat)]
          /\ StackInv' /\ HostStackInv'
      BY <1>b, <2>1, StackFreed
    <2>4. ContType'
      BY <1>c, <1>1, <1>4, <2>1, <2>2, <2>3 DEF ContType
    <2> QED BY <1>2, <1>3, <2>3, <2>4 DEF ContInv
  <1> QED BY <1>5, <1>6

\* An entry of a list that is free, or that the process strikes off, changes
\* nobody else's entry.
LEMMA EntryKept ==
    ASSUME NEW L \in [Container -> [Entry -> Proc \cup {Null}]], NEW k \in Container,
           NEW i \in Entry, NEW x
    PROVE  \A q, m, j : m \in Container /\ j \in Entry /\ L[m][j] = q /\ L[k][i] # q
                           => [L EXCEPT ![k][i] = x][m][j] = q
  OBVIOUS

\* The target of a fork or a join is a container.
LEMMA TargetType ==
    ASSUME ContType, NEW p \in Proc
    PROVE  Target(p) \in Container
  BY DEF ContType, Target

\* The child is listed, where nobody was.
LEMMA ForkListCont ==
    ASSUME PtInv, ContInv, NEW c \in CPU, NEW p \in Proc, ForkList(c, p)
    PROVE  ContInv'
  <1>a. On(c, p) /\ pc[p] = "stack"
    BY DEF ForkList
  <1>b. state[p] = "RUNNING" /\ np[p] \in Proc
    BY <1>a, ForkerRuns DEF ForkPC
  <1>c. ContType /\ SchedType /\ StackInv /\ HostStackInv /\ ExitInv /\ MemberInv /\ ChildInv
    BY DEF ContInv
  <1>1. /\ UNCHANGED <<containerID, stack, containerNum, pages, used, joining, np, state,
                       schedvars>>
        /\ pc' = [pc EXCEPT ![p] = "listed"]
    BY DEF ForkList, threadvars, procvars, Goto
  <1>2. \A q \in Proc : pc'[q] = IF q = p THEN "listed" ELSE pc[q]
    BY <1>1 DEF PtInv, PtTypeOK
  <1>3. StackInv' /\ HostStackInv'
    BY <1>c, <1>1 DEF StackInv, HostStackInv
  <1>4. SchedType'
    BY <1>c, <1>1 DEF SchedType, schedvars
  <1>5. Target(p) \in Container
    BY <1>c, TargetType
  <1>6. allocFor' \in Container
    BY <1>c, ContainerAssumption DEF ForkList, ResetAllocFor, ContType, Host, Container
  <1>7. /\ listed' \in [Container -> [Entry -> Proc \cup {Null}]]
        /\ generated' \in [Container -> Int]
        /\ \A q \in Proc, m \in Container : IsListed(m, q) => \E j \in Entry : listed'[m][j] = q
        /\ Target(p) # Host => \E j \in Entry : listed'[Target(p)][j] = np[p]
    <2>1. CASE /\ joining[p] = NoJoin /\ containerID[p] = Host
               /\ UNCHANGED <<listed, generated>>
      <3>1. Target(p) = Host
        BY <2>1 DEF Target
      <3> QED BY <1>c, <2>1, <3>1 DEF ContType, IsListed
    <2>2. ASSUME NEW i \in FreeEntry(Target(p)),
                 listed' = [listed EXCEPT ![Target(p)][i] = np[p]],
                 generated' = [generated EXCEPT ![Target(p)] = @ + 1]
          PROVE  /\ listed' \in [Container -> [Entry -> Proc \cup {Null}]]
                 /\ generated' \in [Container -> Int]
                 /\ \A q \in Proc, m \in Container :
                       IsListed(m, q) => \E j \in Entry : listed'[m][j] = q
                 /\ \E j \in Entry : listed'[Target(p)][j] = np[p]
      <3>1. i \in Entry /\ listed[Target(p)][i] = Null
        BY <2>2 DEF FreeEntry
      <3>2. /\ listed \in [Container -> [Entry -> Proc \cup {Null}]]
            /\ generated \in [Container -> Int]
        BY <1>c DEF ContType
      <3>3. listed' \in [Container -> [Entry -> Proc \cup {Null}]]
        BY <1>b, <1>5, <2>2, <3>1, <3>2
      <3>4. generated' \in [Container -> Int]
        BY <1>5, <2>2, <3>2
      <3>5. ASSUME NEW q \in Proc, NEW m \in Container, IsListed(m, q)
            PROVE  \E j \in Entry : listed'[m][j] = q
        <4>1. listed[Target(p)][i] # q
          BY <3>1, ProcTableAssumption DEF Proc, Null
        <4>2. PICK j \in Entry : listed[m][j] = q
          BY <3>5 DEF IsListed
        <4>3. listed'[m][j] = q
          BY <1>5, <2>2, <3>1, <3>2, <3>5, <4>1, <4>2, EntryKept
        <4> QED BY <4>3
      <3>6. listed'[Target(p)][i] = np[p]
        BY <1>5, <2>2, <3>1, <3>2
      <3> QED BY <3>1, <3>3, <3>4, <3>5, <3>6
    <2> QED BY <2>1, <2>2 DEF ForkList
  <1>8. ContType'
    BY <1>c, <1>1, <1>6, <1>7 DEF ContType
  <1>9. ExitInv'
    BY <1>b, <1>c, <1>1, <1>2 DEF ExitInv
  <1>10. MemberInv'
    <2> SUFFICES ASSUME NEW q \in Proc, state[q] \notin Blank, containerID[q] # Host,
                        ~Leaving(q)'
                 PROVE  \E j \in Entry : listed'[containerID[q]][j] = q
      BY <1>1 DEF MemberInv, IsListed
    <2>1. ~Leaving(q)
      BY <1>a, <1>1, <1>2 DEF Leaving
    <2>2. containerID[q] \in Container /\ IsListed(containerID[q], q)
      BY <1>c, <2>1 DEF MemberInv, ContType
    <2> QED BY <1>7, <2>2
  <1>11. ChildInv'
    <2> SUFFICES ASSUME NEW q \in Proc, pc'[q] \in {"listed", "filled"}
                 PROVE  /\ Target(q) # Host => \E j \in Entry : listed'[Target(q)][j] = np[q]
                        /\ pc'[q] = "filled" => containerID[np[q]] = Target(q)
      BY <1>1 DEF ChildInv, IsListed, Target
    <2>1. CASE q = p
      BY <1>2, <1>7, <2>1
    <2>2. CASE q # p
      <3>1. pc[q] = pc'[q]
        BY <1>2, <2>2
      <3>2. np[q] \in Proc
        BY <3>1 DEF PtInv, PtTypeOK, ForkInv, ForkPC
      <3>3. Target(q) \in Container
        BY <1>c, TargetType
      <3> QED BY <1>c, <1>7, <3>1, <3>2, <3>3 DEF ChildInv
    <2> QED BY <2>1, <2>2
  <1> QED BY <1>3, <1>4, <1>8, <1>9, <1>10, <1>11 DEF ContInv

\* The child gets its container; it is an embryo, so nobody counts it yet.
LEMMA ForkFillCont ==
    ASSUME PtInv, ContInv, NEW c \in CPU, NEW p \in Proc, ForkFill(c, p)
    PROVE  ContInv'
  <1>a. On(c, p) /\ pc[p] = "listed"
    BY DEF ForkFill
  <1>b. /\ state[p] = "RUNNING" /\ np[p] \in Proc /\ state[np[p]] = "EMBRYO"
        /\ \A q \in Proc : q # p => np[q] # np[p]
    BY <1>a, ForkerRuns DEF ForkPC
  <1>c. ContType /\ SchedType /\ StackInv /\ HostStackInv /\ ExitInv /\ MemberInv /\ ChildInv
    BY DEF ContInv
  <1>1. /\ UNCHANGED <<stack, containerNum, listed, generated, pages, used, allocFor,
                       joining, np, state, schedvars>>
        /\ pc' = [pc EXCEPT ![p] = "filled"]
        /\ containerID' = [containerID EXCEPT ![np[p]] = Target(p)]
    BY DEF ForkFill, FillSlot, Goto
  <1>2. \A q \in Proc : pc'[q] = IF q = p THEN "filled" ELSE pc[q]
    BY <1>1 DEF PtInv, PtTypeOK
  <1>3. \A q \in Proc : containerID'[q] = IF q = np[p] THEN Target(p) ELSE containerID[q]
    BY <1>c, <1>1 DEF ContType
  <1>4. StackInv' /\ HostStackInv' /\ SchedType'
    BY <1>c, <1>1 DEF StackInv, HostStackInv, SchedType, schedvars
  <1>5. ContType'
    <2>1. containerID' \in [Proc -> Container]
      BY <1>c, <1>1, TargetType DEF ContType
    <2> QED BY <1>c, <1>1, <2>1 DEF ContType
  <1>6. ExitInv'
    BY <1>b, <1>c, <1>1, <1>2 DEF ExitInv
  <1>7. MemberInv'
    <2> SUFFICES ASSUME NEW q \in Proc, state[q] \notin Blank, containerID'[q] # Host,
                        ~Leaving(q)'
                 PROVE  \E j \in Entry : listed[containerID'[q]][j] = q
      BY <1>1 DEF MemberInv, IsListed
    <2>1. q # np[p]
      BY <1>b DEF Blank
    <2>2. containerID'[q] = containerID[q] /\ ~Leaving(q)
      BY <1>a, <1>1, <1>2, <1>3, <2>1 DEF Leaving
    <2> QED BY <1>c, <2>2 DEF MemberInv, IsListed
  <1>8. ChildInv'
    <2> SUFFICES ASSUME NEW q \in Proc, pc'[q] \in {"listed", "filled"}
                 PROVE  /\ Target(q)' # Host => \E j \in Entry : listed[Target(q)'][j] = np[q]
                        /\ pc'[q] = "filled" => containerID'[np[q]] = Target(q)'
      BY <1>1 DEF ChildInv, IsListed
    <2>1. pc[q] \in {"listed", "filled"} /\ (q # p => pc[q] = pc'[q])
      BY <1>a, <1>2
    <2>2. q # np[p]
      BY <1>b, <2>1 DEF PtInv, ForkInv, ForkPC, Live
    <2>3. Target(q)' = Target(q)
      BY <1>1, <1>3, <2>2 DEF Target
    <2>4. Target(q) # Host => \E j \in Entry : listed[Target(q)][j] = np[q]
      BY <1>c, <2>1 DEF ChildInv, IsListed
    <2>5. ASSUME pc'[q] = "filled" PROVE containerID'[np[q]] = Target(q)
      <3>1. CASE q = p
        BY <1>b, <1>3, <3>1
      <3>2. CASE q # p
        <4>1. containerID[np[q]] = Target(q)
          BY <1>c, <2>1, <2>5, <3>2 DEF ChildInv
        <4>2. np[q] \in Proc
          BY <2>1 DEF PtInv, PtTypeOK, ForkInv, ForkPC
        <4> QED BY <1>b, <1>3, <3>2, <4>1, <4>2
      <3> QED BY <3>1, <3>2
    <2> QED BY <2>3, <2>4, <2>5
  <1> QED BY <1>4, <1>5, <1>6, <1>7, <1>8 DEF ContInv

\* The child is runnable: it is in the target, and on its list.
LEMMA ForkReadyCont ==
    ASSUME PtInv, ContInv, NEW c \in CPU, NEW p \in Proc, ForkReady(c, p)
    PROVE  ContInv'
  <1>a. On(c, p) /\ pc[p] = "filled"
    BY DEF ForkReady
  <1>b. /\ state[p] = "RUNNING" /\ np[p] \in Proc /\ state[np[p]] = "EMBRYO" /\ np[p] # p
    BY <1>a, ForkerRuns DEF ForkPC
  <1>c. ContType /\ SchedType /\ StackInv /\ HostStackInv /\ ExitInv /\ MemberInv /\ ChildInv
    BY DEF ContInv
  <1> DEFINE l == IF joining[p] = NoJoin THEN "user" ELSE "leave"
  <1>1. /\ UNCHANGED <<contvars, schedvars>>
        /\ state' = [state EXCEPT ![np[p]] = "RUNNABLE"]
        /\ np' = [np EXCEPT ![p] = Null]
        /\ pc' = [pc EXCEPT ![p] = l]
    BY DEF ForkReady, ReadySlot, Goto
  <1>d. UNCHANGED <<containerID, stack, containerNum, listed, generated, pages, used,
                    allocFor, joining>>
    BY <1>1 DEF contvars
  <1>2. /\ \A q \in Proc : pc'[q] = IF q = p THEN l ELSE pc[q]
        /\ \A q \in Proc : state'[q] = IF q = np[p] THEN "RUNNABLE" ELSE state[q]
        /\ \A q \in Proc : q # p => np'[q] = np[q]
    BY <1>1 DEF PtInv, PtTypeOK
  <1>3. StackInv' /\ HostStackInv' /\ SchedType' /\ ContType'
    <2>1. StackInv' /\ HostStackInv'
      BY <1>c, <1>d DEF StackInv, HostStackInv
    <2>2. SchedType'
      BY <1>c, <1>1 DEF SchedType, schedvars
    <2>3. ContType'
      BY <1>c, <1>d DEF ContType
    <2> QED BY <2>1, <2>2, <2>3
  <1>4. ExitInv'
    BY <1>b, <1>c, <1>d, <1>2 DEF ExitInv
  <1>5. MemberInv'
    <2> SUFFICES ASSUME NEW q \in Proc, state'[q] \notin Blank, containerID[q] # Host,
                        ~Leaving(q)'
                 PROVE  \E j \in Entry : listed[containerID[q]][j] = q
      BY <1>d DEF MemberInv, IsListed
    <2>1. CASE q = np[p]
      BY <1>a, <1>c, <2>1 DEF ChildInv, IsListed
    <2>2. CASE q # np[p]
      <3>1. state[q] \notin Blank /\ ~Leaving(q)
        BY <1>a, <1>d, <1>2, <2>2 DEF Leaving
      <3> QED BY <1>c, <3>1 DEF MemberInv, IsListed
    <2> QED BY <2>1, <2>2
  <1>6. ChildInv'
    <2> SUFFICES ASSUME NEW q \in Proc, pc'[q] \in {"listed", "filled"}
                 PROVE  /\ Target(q) # Host => \E j \in Entry : listed[Target(q)][j] = np'[q]
                        /\ pc'[q] = "filled" => containerID[np'[q]] = Target(q)
      BY <1>d DEF ChildInv, IsListed, Target
    <2>1. q # p /\ pc[q] = pc'[q]
      BY <1>2
    <2> QED BY <1>c, <1>2, <2>1 DEF ChildInv, IsListed
  <1> QED BY <1>3, <1>4, <1>5, <1>6 DEF ContInv

\* joinContainer() starts, or finds no slot.
LEMMA JoinCont ==
    ASSUME PtInv, ContInv, NEW c \in CPU, NEW p \in Proc,
           JoinNoSlot(c, p) \/ \E k \in Container : JoinStart(c, p, k)
    PROVE  ContInv'
  <1>a. state[p] = "RUNNING" /\ pc[p] # "exit"
    BY RunningState DEF JoinNoSlot, JoinStart, SysCall, On
  <1>c. ContType /\ SchedType /\ StackInv /\ HostStackInv
    BY DEF ContInv
  <1>1. /\ UNCHANGED <<containerID, stack, containerNum, listed, generated, pages, used,
                       np, state, schedvars>>
        /\ allocFor' \in Container
        /\ \E k \in Container \cup {NoJoin} : joining' = [joining EXCEPT ![p] = k]
        /\ Goto(p, "user") \/ Goto(p, "join")
    BY <1>c DEF JoinNoSlot, JoinStart, JoinEnds, threadvars, procvars, ContType
  <1>2. PICK k \in Container \cup {NoJoin} : joining' = [joining EXCEPT ![p] = k]
    BY <1>1
  <1>3. ContType'
    <2>1. joining' \in [Proc -> Container \cup {NoJoin}]
      BY <1>c, <1>2 DEF ContType
    <2> QED BY <1>c, <1>1, <2>1 DEF ContType
  <1>4. StackInv' /\ HostStackInv' /\ SchedType'
    BY <1>c, <1>1 DEF StackInv, HostStackInv, SchedType, schedvars
  <1>5. \A q \in Proc : q # p => joining'[q] = joining[q]
    BY <1>c, <1>2 DEF ContType
  <1>6. ExitInv' /\ MemberInv' /\ ChildInv'
    BY <1>a, <1>1, <1>5, MoveCont
  <1> QED BY <1>3, <1>4, <1>6 DEF ContInv

\* The caller of joinContainer() strikes one entry off: its own, or an empty
\* one.
LEMMA LeaveCont ==
    ASSUME PtInv, ContInv, NEW c \in CPU, NEW p \in Proc, Leave(c, p)
    PROVE  ContInv'
  <1>a. On(c, p) /\ pc[p] = "leave" /\ state[p] = "RUNNING"
    BY RunningState DEF Leave, On
  <1>c. ContType /\ SchedType /\ StackInv /\ HostStackInv /\ ExitInv /\ MemberInv /\ ChildInv
    BY DEF ContInv
  <1>1. /\ UNCHANGED <<containerID, stack, containerNum, pages, used, allocFor, joining, np,
                       state, schedvars>>
        /\ pc' = [pc EXCEPT ![p] = "exit"]
    BY DEF Leave, threadvars, procvars, Goto
  <1>2. \A q \in Proc : pc'[q] = IF q = p THEN "exit" ELSE pc[q]
    BY <1>1 DEF PtInv, PtTypeOK
  <1>3. StackInv' /\ HostStackInv' /\ SchedType'
    BY <1>c, <1>1 DEF StackInv, HostStackInv, SchedType, schedvars
  <1>4. Leaving(p)'
    BY <1>a, <1>c, <1>1, <1>2 DEF Leaving, ExitInv
  <1>5. /\ listed' \in [Container -> [Entry -> Proc \cup {Null}]]
        /\ generated' \in [Container -> Int]
        /\ \A q \in Proc, m \in Container :
              q # p /\ IsListed(m, q) => \E j \in Entry : listed'[m][j] = q
    <2>1. CASE UNCHANGED <<listed, generated>>
      BY <1>c, <2>1 DEF ContType, IsListed
    <2>2. ASSUME NEW i \in Entry, LeaveEntry(p, i)
          PROVE  /\ listed' \in [Container -> [Entry -> Proc \cup {Null}]]
                 /\ generated' \in [Container -> Int]
                 /\ \A q \in Proc, m \in Container :
                       q # p /\ IsListed(m, q) => \E j \in Entry : listed'[m][j] = q
      <3>1. /\ listed[containerID[p]][i] \in {p, Null}
            /\ listed' = [listed EXCEPT ![containerID[p]][i] = Null]
            /\ generated' = [generated EXCEPT ![containerID[p]] = @ - 1]
        BY <2>2 DEF LeaveEntry
      <3>2. /\ listed \in [Container -> [Entry -> Proc \cup {Null}]]
            /\ generated \in [Container -> Int]
            /\ containerID[p] \in Container
        BY <1>c DEF ContType
      <3>3. listed' \in [Container -> [Entry -> Proc \cup {Null}]]
        BY <3>1, <3>2
      <3>4. generated' \in [Container -> Int]
        BY <3>1, <3>2
      <3>5. ASSUME NEW q \in Proc, NEW m \in Container, q # p, IsListed(m, q)
            PROVE  \E j \in Entry : listed'[m][j] = q
        <4>1. listed[containerID[p]][i] # q
          BY <3>1, <3>5, ProcTableAssumption DEF Proc, Null
        <4>2. PICK j \in Entry : listed[m][j] = q
          BY <3>5 DEF IsListed
        <4>3. listed'[m][j] = q
          BY <2>2, <3>1, <3>2, <3>5, <4>1, <4>2, EntryKept
        <4> QED BY <4>3
      <3> QED BY <3>3, <3>4, <3>5
    <2> QED BY <2>1, <2>2 DEF Leave
  <1>6. ContType'
    BY <1>c, <1>1, <1>5 DEF ContType
  <1>7. ExitInv'
    BY <1>a, <1>c, <1>1, <1>2 DEF ExitInv
  <1>8. MemberInv'
    <2> SUFFICES ASSUME NEW q \in Proc, state[q] \notin Blank, containerID[q] # Host,
                        ~Leaving(q)'
                 PROVE  \E j \in Entry : listed'[containerID[q]][j] = q
      BY <1>1 DEF MemberInv, IsListed
    <2>1. q # p
      BY <1>4
    <2>2. ~Leaving(q)
      BY <1>1, <1>2, <2>1 DEF Leaving
    <2>3. containerID[q] \in Container /\ IsListed(containerID[q], q)
      BY <1>c, <2>2 DEF MemberInv, ContType
    <2> QED BY <1>5, <2>1, <2>3
  <1>9. ChildInv'
    <2> SUFFICES ASSUME NEW q \in Proc, pc'[q] \in {"listed", "filled"}
                 PROVE  /\ Target(q) # Host => \E j \in Entry : listed'[Target(q)][j] = np[q]
                        /\ pc'[q] = "filled" => containerID[np[q]] = Target(q)
      BY <1>1 DEF ChildInv, IsListed, Target
    <2>1. pc[q] = pc'[q]
      BY <1>2
    <2>2. np[q] \in Proc /\ np[q] # p
      BY <1>a, <2>1 DEF PtInv, PtTypeOK, ForkInv, ForkPC
    <2>3. Target(q) \in Container
      BY <1>c, TargetType
    <2> QED BY <1>c, <1>5, <2>1, <2>2, <2>3 DEF ChildInv
  <1> QED BY <1>3, <1>6, <1>7, <1>8, <1>9 DEF ContInv

\* wait() frees the stack of a zombie and forgets the process.
LEMMA ReapCont ==
    ASSUME PtInv, ContInv, NEW c \in CPU, NEW p \in Proc, NEW z \in Proc, Reap(c, p, z)
    PROVE  ContInv'
  <1>c. ContType /\ SchedType /\ StackInv /\ HostStackInv /\ ExitInv
    BY DEF ContInv
  <1>1. /\ UNCHANGED <<containerID, containerNum, listed, generated, pages, used, allocFor,
                       schedvars, np>>
        /\ stack' = [stack EXCEPT ![z] = <<>>]
        /\ joining' = [joining EXCEPT ![z] = NoJoin]
        /\ state' = [state EXCEPT ![z] = "UNUSED"]
        /\ pc' = [pc EXCEPT ![p] = "user"]
        /\ state[z] = "ZOMBIE"
    BY DEF Reap, WaitReap, JoinEnds, Goto, Zombies
  <1>2. state[p] = "RUNNING" /\ pc[p] # "exit"
    BY RunningState DEF Reap, WaitReap, InWait, SysCall, On
  <1>3. /\ \A q \in Proc : pc'[q] = IF q = p THEN "user" ELSE pc[q]
        /\ \A q \in Proc : state'[q] = IF q = z THEN "UNUSED" ELSE state[q]
    BY <1>1 DEF PtInv, PtTypeOK
  <1>4. \A q \in Proc : q # z => joining'[q] = joining[q]
    BY <1>c, <1>1 DEF ContType
  <1>5. pc[z] = "exit" /\ z # p
    BY <1>c, <1>1, <1>2 DEF ExitInv
  <1>6. /\ stack' \in [Proc -> {<<>>} \cup (Container \X Nat)]
        /\ StackInv' /\ HostStackInv'
    BY <1>1, StackFreed
  <1>7. ContType'
    <2>1. joining' \in [Proc -> Container \cup {NoJoin}]
      BY <1>c, <1>1 DEF ContType
    <2> QED BY <1>c, <1>1, <1>6, <2>1 DEF ContType
  <1>8. SchedType'
    BY <1>c, <1>1 DEF SchedType, schedvars
  <1>9. ASSUME NEW q \in Proc
        PROVE  /\ \/ state'[q] \in Blank
                  \/ state[q] \notin Blank /\ (Leaving(q) => Leaving(q)')
               /\ state'[q] = "ZOMBIE" => pc'[q] = "exit"
               /\ pc'[q] = "leave" => joining'[q] # NoJoin
               /\ pc'[q] \in {"listed", "filled"} =>
                     pc'[q] = pc[q] /\ np'[q] = np[q] /\ joining'[q] = joining[q]
    <2>1. CASE q = z
      BY <1>3, <1>5, <2>1 DEF Blank
    <2>2. CASE q = p
      BY <1>2, <1>3, <1>5, <2>2 DEF Blank, Leaving
    <2>3. CASE q # z /\ q # p
      BY <1>c, <1>1, <1>3, <1>4, <2>3 DEF Blank, Leaving, ExitInv
    <2> QED BY <2>1, <2>2, <2>3
  <1>10. ExitInv' /\ MemberInv' /\ ChildInv'
    BY <1>1, <1>9, ListFrame DEF ContInv
  <1> QED BY <1>6, <1>7, <1>8, <1>10 DEF ContInv

LEMMA InitCont == Init => ContInv
  <1> SUFFICES ASSUME Init PROVE ContInv
    OBVIOUS
  <1>1. InitProc \in Proc /\ Host \in Container /\ NoJoin \notin Container
    BY ProcTableAssumption, ContainerAssumption DEF InitProc, Proc, Host, Container, NoJoin
  <1>2. ContType
    <2>1. stack \in [Proc -> {<<>>} \cup (Container \X Nat)]
      <3>1. <<Host, 0>> \in Container \X Nat
        BY <1>1
      <3> QED BY <3>1 DEF Init
    <2>2. containerNum \in 1..NCONT
      BY ContainerAssumption DEF Init
    <2>3. listed \in [Container -> [Entry -> Proc \cup {Null}]]
      BY <1>1 DEF Init
    <2>4. generated \in [Container -> Int] /\ used \in [Container -> Nat]
      BY DEF Init
    <2>5. pages \in [Container -> BOOLEAN]
      BY DEF Init
    <2> QED BY <1>1, <2>1, <2>2, <2>3, <2>4, <2>5 DEF Init, ContType
  <1>3. SchedType
    <2>1. 0 \in 0..PROCESS_COUNT /\ -1 \in Nat \cup {-1}
      BY ContainerAssumption
    <2> QED BY <1>1, <2>1 DEF Init, SchedType
  <1>4. \A p \in Proc : stack[p] = <<>> \/ stack[p] = <<Host, 0>>
    BY DEF Init
  <1>5. StackInv /\ HostStackInv
    BY <1>4 DEF StackInv, HostStackInv
  <1>6. ExitInv /\ MemberInv /\ ChildInv
    BY DEF Init, PtInit, ExitInv, MemberInv, ChildInv
  <1> QED BY <1>2, <1>3, <1>5, <1>6 DEF ContInv

LEMMA NextCont == PtInv /\ ContInv /\ [Next]_vars => ContInv'
  <1> SUFFICES ASSUME PtInv, ContInv, [Next]_vars PROVE ContInv'
    OBVIOUS
  <1>1. ASSUME NEW c \in CPU, NEW p \in Proc, ProcStep(c, p),
               UNCHANGED <<contvars, schedvars>> PROVE ContInv'
    <2>1. SchedType'
      BY <1>1 DEF ContInv, SchedType, schedvars
    <2> QED BY <1>1, <2>1, ProcStepCalm, CalmInv DEF ContInv
  <1>2. CASE (TickStart \/ TickWake) /\ UNCHANGED <<contvars, schedvars>>
    <2>1. SchedType'
      BY <1>2 DEF ContInv, SchedType, schedvars
    <2>2. Calm
      <3>1. CASE TickStart
        BY <3>1 DEF TickStart, Calm, procvars
      <3>2. CASE TickWake
        BY <3>2, Wakeup1Effect DEF TickWake, Calm, Blank, PtInv, PtTypeOK
      <3> QED BY <1>2, <3>1, <3>2
    <2> QED BY <1>2, <2>1, <2>2, CalmInv DEF ContInv
  <1>3. CASE UNCHANGED vars
    <2>1. UNCHANGED <<contvars, schedvars>> /\ Calm
      BY <1>3 DEF vars, ptvars, procvars, Calm
    <2>2. SchedType'
      BY <2>1 DEF ContInv, SchedType, schedvars
    <2> QED BY <2>1, <2>2, CalmInv DEF ContInv
  <1>4. ASSUME NEW c \in CPU, NEW p \in Proc, Fork(c, p) PROVE ContInv'
    BY <1>4, AllocCont, StackAllocCont, FailCont, ForkListCont, ForkFillCont, ForkReadyCont
       DEF Fork
  <1>5. ASSUME NEW c \in CPU, NEW p \in Proc, Join(c, p) PROVE ContInv'
    BY <1>5, JoinCont, LeaveCont DEF Join
  <1>6. ASSUME NEW c \in CPU, NEW p \in Proc, NEW z \in Proc, Reap(c, p, z) PROVE ContInv'
    BY <1>6, ReapCont
  <1>7. ASSUME NEW c \in CPU, NEW p \in Proc,
               CreateCount(c, p) \/ CreateSetup(c, p) PROVE ContInv'
    BY <1>7, CreateCont
  <1>8. ASSUME NEW c \in CPU, Scheduler(c) PROVE ContInv'
    BY <1>8, SchedulerCont
  <1> QED BY <1>1, <1>2, <1>3, <1>4, <1>5, <1>6, <1>7, <1>8 DEF Next

\* The lists and the stack pages of the containers agree with the process
\* table.
THEOREM ContainerInvariance == Spec => []ContInv
  <1>1. Init => ContInv
    BY InitCont
  <1>2. CkInv => PtInv
    BY DEF CkInv
  <1> QED BY <1>1, <1>2, NextCont, Invariance, PTL DEF Spec

\* The variables of the kernel with containers have the types of the code, for
\* any number of slots, CPUs, containers and entries.
THEOREM TypeCorrect == Spec => []TypeOK
  <1>1. CkInv /\ ContInv => TypeOK
    BY DEF CkInv, PtInv, ContInv, ContType, SchedType, TypeOK
  <1> QED BY <1>1, Invariance, ContainerInvariance, PTL

\* fork() and joinContainer() list every process before it is runnable, and
\* nobody else strikes it off, so the scheduler can find every runnable process
\* of a container that is not on its way out of joinContainer().
THEOREM RunnableAreListed == Spec => []RunnableListed
  <1>1. ContInv => RunnableListed
    BY DEF ContInv, MemberInv, IsListed, Blank, RunnableListed
  <1> QED BY <1>1, ContainerInvariance, PTL

\* No page of a container is the kernel stack of two processes: conalloc()
\* hands out every page once, whichever container a stale allocFor names.
THEOREM NoStackIsShared == Spec => []NoSharedStack
  <1>1. ContInv => NoSharedStack
    <2> SUFFICES ASSUME ContInv, NEW p \in Proc, NEW q \in Proc, p # q, stack[p] # <<>>,
                        stack[p][2] \in 1..MCONT
                 PROVE  stack[p] # stack[q]
      BY DEF NoSharedStack
    <2>1. stack[p][1] # Host
      BY ContainerAssumption DEF ContInv, HostStackInv
    <2> QED BY <2>1 DEF ContInv, StackInv
  <1> QED BY <1>1, ContainerInvariance, PTL

\* Entries list at most as many elements as there are entries.
LEMMA EntriesBound ==
    ASSUME NEW S, NEW T, IsFiniteSet(T), NEW g, \A x \in S : \E i \in T : g[i] = x
    PROVE  Cardinality(S) <= Cardinality(T)
  <1> DEFINE f == [x \in S |-> CHOOSE i \in T : g[i] = x]
  <1>1. \A x \in S : f[x] \in T /\ g[f[x]] = x
    OBVIOUS
  <1>2. f \in [S -> T]
    BY <1>1
  <1>3. \A x, y \in S : f[x] = f[y] => x = y
    BY <1>1
  <1> HIDE DEF f
  <1>4. f \in Injection(S, T)
    BY <1>2, <1>3 DEF Injection, IsInjective
  <1> QED BY <1>4, FS_Injection

\* The processes of a container, zombies included, have an entry of its list
\* each, but for those that have struck themselves off and have not been waited
\* for: "-FULL" in fork() and joinContainer() bounds the container.
THEOREM ContainerIsBounded == Spec => []ContainerBound
  <1>1. ContInv => ContainerBound
    <2> SUFFICES ASSUME ContInv, NEW k \in Container \ {Host}
                 PROVE  Cardinality(Members(k)) <= PROCESS_COUNT - Cardinality(FreeEntry(k))
      BY DEF ContainerBound
    <2> DEFINE F == FreeEntry(k)
               T == Entry \ F
    <2>1. \A p \in Members(k) : \E i \in T : listed[k][i] = p
      <3>1. ASSUME NEW p \in Members(k) PROVE \E i \in T : listed[k][i] = p
        <4>1. PICK i \in Entry : listed[k][i] = p
          BY <3>1 DEF Members, ContInv, MemberInv, IsListed, Blank
        <4>2. p # Null
          BY <3>1 DEF Members, Proc, Null
        <4> QED BY <4>1, <4>2 DEF FreeEntry
      <3> QED BY <3>1
    <2>2. IsFiniteSet(Entry) /\ Cardinality(Entry) = PROCESS_COUNT /\ F \subseteq Entry
      BY ContainerAssumption, FS_Interval DEF Entry, FreeEntry
    <2> HIDE DEF F
    <2>3. IsFiniteSet(F) /\ IsFiniteSet(T)
      BY <2>2, FS_Subset
    <2>4. Cardinality(T) = PROCESS_COUNT - Cardinality(F)
      <3>1. Cardinality(T) = Cardinality(Entry) - Cardinality(Entry \cap F)
        BY <2>2, FS_Difference
      <3>2. Entry \cap F = F
        BY <2>2
      <3> QED BY <2>2, <3>1, <3>2
    <2>5. Cardinality(Members(k)) <= Cardinality(T)
      <3> HIDE DEF T
      <3> QED BY <2>1, <2>3, EntriesBound
    <2> QED BY <2>4, <2>5 DEF F
  <1> QED BY <1>1, ContainerInvariance, PTL
=====
