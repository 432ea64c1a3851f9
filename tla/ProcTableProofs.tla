-------------------------- MODULE ProcTableProofs --------------------------
(***************************************************************************)
(* The inductive invariant of the process table, and the proof that every  *)
(* operation which the two kernels share preserves it.  The theorems about *)
(* the kernels add the steps that are their own.                           *)
(***************************************************************************)
EXTENDS ProcTable, TLAPS

\* States of a process that may still run: it can be a parent.
Live == {"SLEEPING", "RUNNABLE", "RUNNING"}

\* ptable.lock is held by the CPU whose phase says so, and a CPU has a
\* process unless it is in scheduler().
LockInv ==
    /\ \A c \in CPU : ptlock = c <=> phase[c] \in {"scan", "resume", "swtch"}
    /\ \A c \in CPU : running[c] = Null <=> phase[c] \in {"sched", "pick", "scan"}

\* tickslock is held by the timer handler, or by a process that has looked
\* at the clock, has time left and is about to call sleep().
TickInv ==
    /\ ticking => tklock = Boot /\ phase[Boot] \in {"sched", "pick", "run"}
    /\ \A p \in Proc : pc[p] = "ticks" =>
          /\ rem[p] > 0
          /\ \E c \in CPU : /\ tklock = c /\ running[c] = p /\ phase[c] = "run"
                            /\ ~(ticking /\ c = Boot)

\* A process that makes a child owns one embryo, nobody else's; once the
\* child is filled in it is a child.
ForkInv ==
    \A p \in Proc :
       /\ np[p] # Null <=> pc[p] \in ForkPC
       /\ pc[p] \in ForkPC => state[p] \in Live /\ state[np[p]] = "EMBRYO"
       /\ pc[p] = "filled" => parent[np[p]] = p
       /\ \A q \in Proc : np[p] # Null /\ np[p] = np[q] => p = q

\* Parents are alive, init is alive, never exits and has no parent, and
\* every process but init has a parent.
FamilyInv ==
    /\ state[InitProc] \in Live /\ parent[InitProc] = Null /\ pc[InitProc] # "exit"
    /\ \A p \in Proc : parent[p] # Null => parent[p] # p /\ state[parent[p]] \in Live
    /\ \A p \in Proc : p # InitProc /\ state[p] \notin {"UNUSED", "EMBRYO"}
                          => parent[p] # Null

PtInv ==
    /\ PtTypeOK /\ LockInv /\ CpuAgreement /\ TickInv
    /\ ForkInv /\ FamilyInv /\ NoLostExit /\ NoLostTick

-----------------------------------------------------------------------------
(* Frame lemmas.                                                           *)

\* The process a CPU runs outside swtch() is RUNNING, and on no other CPU.
LEMMA RunningState ==
    ASSUME PtInv, NEW c \in CPU, NEW p \in Proc, running[c] = p, phase[c] # "swtch"
    PROVE  state[p] = "RUNNING" /\ p # Null /\ \A d \in CPU : running[d] = p => d = c
  BY ProcTableAssumption DEF PtInv, CpuAgreement, Proc, Null

\* wakeup1() makes some sleepers runnable and changes nothing else.
LEMMA Wakeup1Effect ==
    ASSUME NEW st \in [Proc -> ProcState], NEW ch
    PROVE  /\ Wakeup1(st, ch) \in [Proc -> ProcState]
           /\ \A q \in Proc :
                 \/ Wakeup1(st, ch)[q] = st[q] /\ (st[q] = "SLEEPING" => chan[q] # ch)
                 \/ st[q] = "SLEEPING" /\ Wakeup1(st, ch)[q] = "RUNNABLE"
  BY DEF Wakeup1, ProcState

\* A step that leaves the makers of children, their embryos and the parents
\* they have set alone preserves ForkInv.
LEMMA ForkFrame ==
    ASSUME PtInv, PtTypeOK', np' = np,
           \A q \in Proc : pc[q] \in ForkPC \/ pc'[q] \in ForkPC => pc'[q] = pc[q],
           \A q \in Proc : state[q] = "EMBRYO" => state'[q] = "EMBRYO",
           \A q \in Proc : pc[q] \in ForkPC /\ state[q] \in Live => state'[q] \in Live,
           \A q \in Proc : parent[q] # Null /\ pc[parent[q]] = "filled" => parent'[q] = parent[q]
    PROVE  ForkInv'
  <1> USE ProcTableAssumption DEF Proc, Null
  <1> SUFFICES ASSUME NEW p \in Proc
               PROVE  /\ np[p] # Null <=> pc'[p] \in ForkPC
                      /\ pc'[p] \in ForkPC => state'[p] \in Live /\ state'[np[p]] = "EMBRYO"
                      /\ pc'[p] = "filled" => parent'[np[p]] = p
                      /\ \A q \in Proc : np[p] # Null /\ np[p] = np[q] => p = q
    BY DEF ForkInv
  <1>1. np[p] # Null <=> pc'[p] \in ForkPC
    BY DEF PtInv, ForkInv
  <1>a. np[p] \in Proc \cup {Null}
    BY DEF PtInv, PtTypeOK
  <1>2. ASSUME pc'[p] \in ForkPC PROVE state'[p] \in Live /\ state'[np[p]] = "EMBRYO"
    BY <1>a, <1>1, <1>2 DEF PtInv, ForkInv
  <1>3. ASSUME pc'[p] = "filled" PROVE parent'[np[p]] = p
    <2>1. pc[p] = "filled" /\ np[p] \in Proc
      BY <1>a, <1>1, <1>3 DEF ForkPC
    <2>2. parent[np[p]] = p
      BY <2>1 DEF PtInv, ForkInv
    <2> QED BY <2>1, <2>2
  <1>4. \A q \in Proc : np[p] # Null /\ np[p] = np[q] => p = q
    BY DEF PtInv, ForkInv
  <1> QED BY <1>1, <1>2, <1>3, <1>4

\* A step that keeps parents and ends or begins no life preserves FamilyInv.
LEMMA FamilyFrame ==
    ASSUME PtInv, PtTypeOK', parent' = parent,
           \A q \in Proc : state[q] \in Live => state'[q] \in Live,
           \A q \in Proc : state[q] \in {"UNUSED", "EMBRYO"} => state'[q] \in {"UNUSED", "EMBRYO"},
           pc'[InitProc] # "exit"
    PROVE  FamilyInv'
  <1> USE ProcTableAssumption DEF Proc, Null, InitProc
  <1>1. \A p \in Proc : parent[p] \in Proc \cup {Null}
    BY DEF PtInv, PtTypeOK
  <1>2. InitProc \in Proc
    OBVIOUS
  <1> QED
    BY <1>1, <1>2 DEF PtInv, FamilyInv

\* A step that moves no process to or from a CPU preserves CpuAgreement.
LEMMA CpuFrame ==
    ASSUME PtInv, running' = running,
           \A q \in Proc : state'[q] = "RUNNING" <=> state[q] = "RUNNING",
           \A q \in Proc : state'[q] \in {"UNUSED", "EMBRYO"} => state[q] \in {"UNUSED", "EMBRYO"},
           \A d \in CPU : phase'[d] = "swtch" <=> phase[d] = "swtch"
    PROVE  CpuAgreement'
  <1>1. \A d \in CPU : running[d] \in Proc \cup {Null}
    BY DEF PtInv, PtTypeOK
  <1> QED BY <1>1 DEF PtInv, CpuAgreement

\* A step of the process on CPU c that leaves tickslock and the clock alone
\* preserves TickInv.
LEMMA TickFrame ==
    ASSUME PtInv, NEW c \in CPU, running' = running, tklock' = tklock,
           ticking' = ticking, rem' = rem,
           \A d \in CPU : d # c => phase'[d] = phase[d],
           ~(ticking /\ c = Boot),
           \A q \in Proc : pc'[q] = "ticks" => pc[q] = "ticks" /\ running[c] # q
    PROVE  TickInv'
  <1>1. ticking => tklock' = Boot /\ phase'[Boot] \in {"sched", "pick", "run"}
    BY ProcTableAssumption DEF PtInv, TickInv
  <1>2. ASSUME NEW q \in Proc, pc'[q] = "ticks"
        PROVE  rem'[q] > 0 /\ \E d \in CPU : /\ tklock' = d /\ running'[d] = q /\ phase'[d] = "run"
                                             /\ ~(ticking' /\ d = Boot)
    BY <1>2 DEF PtInv, TickInv
  <1> QED BY <1>1, <1>2 DEF TickInv

\* A process that holds tickslock for sys_sleep() is executing.
LEMMA TicksRunning ==
    ASSUME PtInv, NEW c \in CPU, NEW p \in Proc, running[c] = p, phase[c] # "run"
    PROVE  pc[p] # "ticks"
  <1> SUFFICES ASSUME pc[p] = "ticks" PROVE FALSE
    OBVIOUS
  <1>1. PICK d \in CPU : running[d] = p /\ phase[d] = "run"
    BY DEF PtInv, TickInv
  <1>2. p # Null
    BY ProcTableAssumption DEF Proc, Null
  <1>3. d = c
    BY <1>1, <1>2 DEF PtInv, CpuAgreement
  <1> QED BY <1>1, <1>3

\* The invariant is preserved by swtch() back to the scheduler (SchedReturn).
LEMMA SchedReturnInv ==
    ASSUME PtInv, NEW c \in CPU, SchedReturn(c)
    PROVE  PtInv'
  <1> USE ProcTableAssumption DEF Proc, Null, InitProc, TickChan
  <1>1. PtTypeOK'
    BY DEF PtInv, PtTypeOK, ProcState, Phase, PC, ForkPC, SchedReturn,
       procvars
  <1>2. LockInv'
    BY DEF PtInv, PtTypeOK, LockInv, SchedReturn, procvars
  <1>3. CpuAgreement'
    <2>1. \A d \in CPU : phase[d] = "swtch" => d = c
      BY DEF PtInv, LockInv, SchedReturn
    <2>2. running[c] \in Proc /\ state[running[c]] # "RUNNING"
      BY DEF PtInv, PtTypeOK, LockInv, CpuAgreement, SchedReturn
    <2>3. /\ \A d \in CPU : running'[d] = IF d = c THEN Null ELSE running[d]
          /\ \A d \in CPU : phase'[d] = IF d = c THEN "scan" ELSE phase[d]
          /\ state' = state
      BY DEF PtInv, PtTypeOK, SchedReturn, procvars
    <2>4. \A d \in CPU : running[d] \in Proc \cup {Null}
      BY DEF PtInv, PtTypeOK
    <2> QED
      BY <2>1, <2>2, <2>3, <2>4 DEF PtInv, CpuAgreement
  <1>4. TickInv'
    BY DEF PtInv, PtTypeOK, LockInv, CpuAgreement, TickInv, SchedReturn,
       procvars
  <1>5. ForkInv'
    BY <1>1, ForkFrame DEF PtInv, PtTypeOK, ForkPC, Live, SchedReturn,
       procvars
  <1>6. FamilyInv'
    <2>1. pc'[InitProc] # "exit" /\ parent' = parent /\ state' = state
      BY DEF PtInv, PtTypeOK, FamilyInv, SchedReturn, procvars
    <2> QED
      BY <1>1, <2>1, FamilyFrame
  <1>7. NoLostExit'
    BY DEF PtInv, PtTypeOK, LockInv, CpuAgreement, FamilyInv, NoLostExit,
       Zombies, Children, SchedReturn, procvars
  <1>8. NoLostTick'
    BY DEF PtInv, PtTypeOK, TickInv, NoLostTick, SchedReturn, procvars
  <1> QED BY <1>1, <1>2, <1>3, <1>4, <1>5, <1>6, <1>7, <1>8 DEF PtInv

\* The invariant is preserved by forkret and the tail of yield() (ResumeRelease).
LEMMA ResumeReleaseInv ==
    ASSUME PtInv, NEW c \in CPU, NEW p \in Proc, ResumeRelease(c, p)
    PROVE  PtInv'
  <1> USE ProcTableAssumption DEF Proc, Null, InitProc, TickChan
  <1>1. PtTypeOK'
    BY DEF PtInv, PtTypeOK, ProcState, Phase, PC, ForkPC, ResumeRelease,
       Release, Goto, procvars
  <1>2. LockInv'
    BY DEF PtInv, PtTypeOK, LockInv, ResumeRelease, Release, Goto,
       procvars
  <1>3. CpuAgreement'
    BY CpuFrame DEF PtInv, PtTypeOK, ResumeRelease, Release, Goto,
       procvars
  <1>4. TickInv'
    BY DEF PtInv, PtTypeOK, LockInv, CpuAgreement, TickInv, ResumeRelease,
       Release, Goto, procvars
  <1>5. ForkInv'
    BY <1>1, ForkFrame DEF PtInv, PtTypeOK, ForkPC, Live, ResumeRelease,
       Release, Goto, procvars
  <1>6. FamilyInv'
    <2>1. pc'[InitProc] # "exit" /\ parent' = parent /\ state' = state
      BY DEF PtInv, PtTypeOK, FamilyInv, ResumeRelease, Goto, procvars
    <2> QED
      BY <1>1, <2>1, FamilyFrame
  <1>7. NoLostExit'
    BY DEF PtInv, PtTypeOK, LockInv, CpuAgreement, FamilyInv, NoLostExit,
       Zombies, Children, ResumeRelease, Release, Goto, procvars
  <1>8. NoLostTick'
    BY DEF PtInv, PtTypeOK, TickInv, NoLostTick, ResumeRelease, Release,
       Goto, procvars
  <1> QED BY <1>1, <1>2, <1>3, <1>4, <1>5, <1>6, <1>7, <1>8 DEF PtInv

\* The invariant is preserved by the tail of sleep() (ResumeSleep).
LEMMA ResumeSleepInv ==
    ASSUME PtInv, NEW c \in CPU, NEW p \in Proc, ResumeSleep(c, p)
    PROVE  PtInv'
  <1> USE ProcTableAssumption DEF Proc, Null, InitProc, TickChan
  <1>1. PtTypeOK'
    BY DEF PtInv, PtTypeOK, ProcState, Phase, PC, ForkPC, ResumeSleep,
       Release, Goto
  <1>2. LockInv'
    BY DEF PtInv, PtTypeOK, LockInv, ResumeSleep, Release, Goto
  <1>3. CpuAgreement'
    BY CpuFrame DEF PtInv, PtTypeOK, ResumeSleep, Release, Goto
  <1>4. TickInv'
    BY DEF PtInv, PtTypeOK, LockInv, CpuAgreement, TickInv, ResumeSleep,
       Release, Goto
  <1>5. ForkInv'
    BY <1>1, ForkFrame DEF PtInv, PtTypeOK, ForkPC, Live, ResumeSleep,
       Release, Goto
  <1>6. FamilyInv'
    <2>1. pc'[InitProc] # "exit" /\ parent' = parent /\ state' = state
      BY DEF PtInv, PtTypeOK, FamilyInv, ResumeSleep, Goto
    <2> QED
      BY <1>1, <2>1, FamilyFrame
  <1>7. NoLostExit'
    BY DEF PtInv, PtTypeOK, LockInv, CpuAgreement, FamilyInv, NoLostExit,
       Zombies, Children, ResumeSleep, Release, Goto
  <1>8. NoLostTick'
    BY DEF PtInv, PtTypeOK, TickInv, NoLostTick, ResumeSleep, Release,
       Goto
  <1> QED BY <1>1, <1>2, <1>3, <1>4, <1>5, <1>6, <1>7, <1>8 DEF PtInv

\* The invariant is preserved by yield() (Yield).
LEMMA YieldInv ==
    ASSUME PtInv, NEW c \in CPU, NEW p \in Proc, Yield(c, p)
    PROVE  PtInv'
  <1> USE ProcTableAssumption DEF Proc, Null, InitProc, TickChan
  <1>a. state[p] = "RUNNING" /\ \A d \in CPU : running[d] = p => d = c
    BY RunningState DEF Yield
  <1>1. PtTypeOK'
    BY DEF PtInv, PtTypeOK, ProcState, Phase, PC, ForkPC, Yield, Sched
  <1>2. LockInv'
    BY DEF PtInv, PtTypeOK, LockInv, Yield, Sched
  <1>3. CpuAgreement'
    <2>1. /\ running' = running
          /\ \A d \in CPU : phase'[d] = IF d = c THEN "swtch" ELSE phase[d]
      BY DEF PtInv, PtTypeOK, Yield, Sched
    <2>2. \A q \in Proc : state'[q] = IF q = p THEN "RUNNABLE" ELSE state[q]
      BY DEF PtInv, PtTypeOK, Yield
    <2>3. \A d \in CPU : running[d] \in Proc \cup {Null}
      BY DEF PtInv, PtTypeOK
    <2>4. running[c] = p /\ phase[c] # "swtch"
      BY DEF Yield
    <2> QED
      BY <1>a, <2>1, <2>2, <2>3, <2>4 DEF PtInv, CpuAgreement
  <1>4. TickInv'
    BY DEF PtInv, PtTypeOK, LockInv, CpuAgreement, TickInv, Yield, Sched
  <1>5. ForkInv'
    BY <1>1, <1>a, ForkFrame DEF PtInv, PtTypeOK, ForkPC, Live, Yield,
       Sched
  <1>6. FamilyInv'
    <2>1. \A q \in Proc : state'[q] = IF q = p THEN "RUNNABLE" ELSE state[q]
      BY DEF PtInv, PtTypeOK, Yield
    <2>2. pc'[InitProc] # "exit" /\ parent' = parent
      BY DEF PtInv, PtTypeOK, FamilyInv, Yield
    <2> QED
      BY <1>1, <1>a, <2>1, <2>2, FamilyFrame DEF Live
  <1>7. NoLostExit'
    BY DEF PtInv, PtTypeOK, LockInv, CpuAgreement, FamilyInv, NoLostExit,
       Zombies, Children, Yield, Sched
  <1>8. NoLostTick'
    BY DEF PtInv, PtTypeOK, TickInv, NoLostTick, Yield, Sched
  <1> QED BY <1>1, <1>2, <1>3, <1>4, <1>5, <1>6, <1>7, <1>8 DEF PtInv

\* The invariant is preserved by the first part of exit() (ExitStart).
LEMMA ExitStartInv ==
    ASSUME PtInv, NEW c \in CPU, NEW p \in Proc, ExitStart(c, p)
    PROVE  PtInv'
  <1> USE ProcTableAssumption DEF Proc, Null, InitProc, TickChan
  <1>1. PtTypeOK'
    BY DEF PtInv, PtTypeOK, ProcState, Phase, PC, ForkPC, ExitStart, Goto,
       procvars
  <1>2. LockInv'
    <2>1. \A d \in CPU : phase'[d] = IF d = c THEN "run" ELSE phase[d]
      BY DEF PtInv, PtTypeOK, ExitStart
    <2> QED
      BY <2>1 DEF PtInv, LockInv, ExitStart
  <1>3. CpuAgreement'
    BY CpuFrame DEF PtInv, PtTypeOK, ExitStart, Goto, procvars
  <1>4. TickInv'
    BY TickFrame DEF PtInv, PtTypeOK, ExitStart, Goto
  <1>5. ForkInv'
    BY <1>1, ForkFrame DEF PtInv, PtTypeOK, ForkPC, Live, ExitStart, Goto,
       procvars
  <1>6. FamilyInv'
    <2>1. pc'[InitProc] # "exit" /\ parent' = parent /\ state' = state
      BY DEF PtInv, PtTypeOK, FamilyInv, ExitStart, Goto, procvars
    <2> QED
      BY <1>1, <2>1, FamilyFrame
  <1>7. NoLostExit'
    BY DEF PtInv, PtTypeOK, LockInv, CpuAgreement, FamilyInv, NoLostExit,
       Zombies, Children, ExitStart, Goto, procvars
  <1>8. NoLostTick'
    BY DEF PtInv, PtTypeOK, TickInv, NoLostTick, ExitStart, Goto, procvars
  <1> QED BY <1>1, <1>2, <1>3, <1>4, <1>5, <1>6, <1>7, <1>8 DEF PtInv

\* The invariant is preserved by exit() under ptable.lock (ExitCommit).
LEMMA ExitCommitInv ==
    ASSUME PtInv, NEW c \in CPU, NEW p \in Proc, ExitCommit(c, p)
    PROVE  PtInv'
  <1> USE ProcTableAssumption DEF Proc, Null, InitProc, TickChan
  <1>a. state[p] = "RUNNING" /\ \A d \in CPU : running[d] = p => d = c
    BY RunningState DEF ExitCommit, On
  <1>b. p # InitProc /\ parent[p] \in Proc \cup {Null} /\ parent[p] # p
    BY DEF PtInv, PtTypeOK, FamilyInv, ExitCommit, On
  <1>c. PICK st1 : st1 = Wakeup1(state, parent[p])
    OBVIOUS
  <1>d. PICK st2 : st2 = IF \E q \in Proc : parent[q] = p /\ state[q] = "ZOMBIE"
                         THEN Wakeup1(st1, InitProc) ELSE st1
    OBVIOUS
  <1>e. /\ st1 \in [Proc -> ProcState]
        /\ \A q \in Proc :
              \/ st1[q] = state[q] /\ (state[q] = "SLEEPING" => chan[q] # parent[p])
              \/ state[q] = "SLEEPING" /\ st1[q] = "RUNNABLE"
    <2>1. state \in [Proc -> ProcState]
      BY DEF PtInv, PtTypeOK
    <2> QED BY <1>c, <2>1, Wakeup1Effect
  <1>f. /\ st2 \in [Proc -> ProcState]
        /\ \A q \in Proc : \/ st2[q] = st1[q]
                           \/ st1[q] = "SLEEPING" /\ st2[q] = "RUNNABLE"
        /\ \A z, q \in Proc : parent[z] = p /\ state[z] = "ZOMBIE" /\ st2[q] = "SLEEPING"
                                 => chan[q] # InitProc
    BY <1>d, <1>e, Wakeup1Effect
  <1>g. /\ state' \in [Proc -> ProcState]
        /\ \A q \in Proc : state'[q] = IF q = p THEN "ZOMBIE" ELSE st2[q]
    BY <1>c, <1>d, <1>f DEF ExitCommit, ExitStates, ProcState
  <1>h. \A q \in Proc : parent'[q] = IF parent[q] = p THEN InitProc ELSE parent[q]
    BY DEF ExitCommit
  <1>i. \A q \in Proc :
           q # p => state'[q] = state[q] \/ (state[q] = "SLEEPING" /\ state'[q] = "RUNNABLE")
    BY <1>e, <1>f, <1>g
  <1>1. PtTypeOK'
    <2>1. parent' \in [Proc -> Proc \cup {Null}]
      BY DEF PtInv, PtTypeOK, ExitCommit
    <2> QED
      BY <1>g, <2>1 DEF PtInv, PtTypeOK, Phase, ExitCommit, Sched
  <1>2. LockInv'
    BY DEF PtInv, PtTypeOK, LockInv, ExitCommit, On, Sched, ExitStates,
       Wakeup1
  <1>3. CpuAgreement'
    <2>1. /\ running' = running
          /\ \A d \in CPU : phase'[d] = IF d = c THEN "swtch" ELSE phase[d]
      BY DEF PtInv, PtTypeOK, ExitCommit, Sched
    <2>2. \A d \in CPU : running[d] \in Proc \cup {Null}
      BY DEF PtInv, PtTypeOK
    <2>3. running[c] = p /\ phase[c] # "swtch"
      BY DEF ExitCommit, On
    <2> QED
      BY <1>a, <1>g, <1>i, <2>1, <2>2, <2>3 DEF PtInv, CpuAgreement
  <1>4. TickInv'
    BY <1>a, TickFrame DEF PtInv, PtTypeOK, ExitCommit, On, Sched
  <1>5. ForkInv'
    BY <1>1, <1>a, <1>g, <1>h, <1>i, ForkFrame DEF PtInv, PtTypeOK,
       ForkPC, Live, ExitCommit
  <1>6. FamilyInv'
    <2>1. \A q \in Proc : parent[q] \in Proc \cup {Null}
      BY DEF PtInv, PtTypeOK
    <2>2. pc' = pc
      BY DEF ExitCommit
    <2>3. \A q \in Proc : q # p /\ state[q] \in Live => state'[q] \in Live
      BY <1>i DEF Live
    <2>4. InitProc \in Proc /\ InitProc # Null
      OBVIOUS
    <2> QED
      BY <1>a, <1>b, <1>g, <1>h, <1>i, <2>1, <2>2, <2>3, <2>4 DEF PtInv, FamilyInv
  <1>7. NoLostExit'
    <2> SUFFICES ASSUME NEW q \in Proc, state'[q] = "SLEEPING", chan[q] = q,
                        NEW z \in Proc, parent'[z] = q, state'[z] = "ZOMBIE"
                 PROVE  FALSE
      BY DEF NoLostExit, Zombies, Children, ExitCommit
    <2>1. q # p /\ state[q] = "SLEEPING" /\ st2[q] = "SLEEPING" /\ st1[q] = "SLEEPING"
      BY <1>e, <1>f, <1>g
    <2>2. q # parent[p]
      BY <1>e, <2>1
    <2>3. CASE z = p
      BY <1>b, <1>h, <2>2, <2>3
    <2>4. CASE z # p
      <3>1. state[z] = "ZOMBIE"
        BY <1>i, <2>4
      <3>2. parent[z] # q
        BY <2>1, <3>1 DEF PtInv, NoLostExit, Zombies, Children
      <3>3. parent[z] = p /\ q = InitProc
        BY <1>h, <3>2
      <3> QED BY <1>f, <2>1, <3>1, <3>3
    <2> QED BY <2>3, <2>4
  <1>8. NoLostTick'
    BY <1>g, <1>i DEF PtInv, PtTypeOK, NoLostTick, ExitCommit
  <1> QED BY <1>1, <1>2, <1>3, <1>4, <1>5, <1>6, <1>7, <1>8 DEF PtInv

\* The invariant is preserved by wait() that finds a zombie (WaitReap).
LEMMA WaitReapInv ==
    ASSUME PtInv, NEW c \in CPU, NEW p \in Proc, NEW z \in Proc, WaitReap(c, p, z)
    PROVE  PtInv'
  <1> USE ProcTableAssumption DEF Proc, Null, InitProc, TickChan
  <1>a. state[p] = "RUNNING" /\ \A d \in CPU : running[d] = p => d = c
    BY RunningState DEF WaitReap, InWait, SysCall, On
  <1>b. state[z] = "ZOMBIE" /\ parent[z] = p /\ z # p
    BY <1>a DEF WaitReap, Zombies, Children
  <1>1. PtTypeOK'
    BY DEF PtInv, PtTypeOK, ProcState, Phase, PC, ForkPC, WaitReap,
       InWait, SysCall, On, Zombies, Children, Release, Goto
  <1>2. LockInv'
    BY DEF PtInv, PtTypeOK, LockInv, WaitReap, InWait, SysCall, On,
       Zombies, Children, Release, Goto
  <1>3. CpuAgreement'
    <2>1. /\ running' = running
          /\ \A d \in CPU : phase'[d] = IF d = c THEN "run" ELSE phase[d]
      BY DEF PtInv, PtTypeOK, WaitReap, Release
    <2>2. \A q \in Proc : state'[q] = IF q = z THEN "UNUSED" ELSE state[q]
      BY DEF PtInv, PtTypeOK, WaitReap
    <2>3. \A d \in CPU : phase[d] # "swtch"
      BY DEF PtInv, LockInv, WaitReap, InWait, SysCall, On
    <2>4. \A d \in CPU : running[d] \in Proc \cup {Null}
      BY DEF PtInv, PtTypeOK
    <2> QED
      BY <1>a, <1>b, <2>1, <2>2, <2>3, <2>4 DEF PtInv, CpuAgreement
  <1>4. TickInv'
    <2>1. pc[p] # "ticks" /\ ~(ticking /\ c = Boot)
      BY TicksRunning DEF PtInv, TickInv, WaitReap, InWait, SysCall, On
    <2>2. /\ \A q \in Proc : pc'[q] = IF q = p THEN "user" ELSE pc[q]
          /\ \A e \in CPU : e # c => phase'[e] = phase[e]
          /\ running[c] = p /\ running' = running /\ rem' = rem
          /\ tklock' = tklock /\ ticking' = ticking
      BY DEF PtInv, PtTypeOK, WaitReap, InWait, SysCall, On, Release, Goto
    <2> QED
      BY <2>1, <2>2, TickFrame
  <1>5. ForkInv'
    <2>1. /\ pc[p] \notin ForkPC
          /\ \A q \in Proc : pc'[q] = IF q = p THEN "user" ELSE pc[q]
          /\ np' = np
      BY DEF PtInv, PtTypeOK, ForkPC, WaitReap, InWait, SysCall, Goto
    <2>2. /\ \A q \in Proc : state'[q] = IF q = z THEN "UNUSED" ELSE state[q]
          /\ \A q \in Proc : parent'[q] = IF q = z THEN Null ELSE parent[q]
      BY DEF PtInv, PtTypeOK, WaitReap
    <2> QED
      BY <1>1, <1>b, <2>1, <2>2, ForkFrame DEF ForkPC, Live
  <1>6. FamilyInv'
    <2>1. \A q \in Proc : state'[q] = IF q = z THEN "UNUSED" ELSE state[q]
      BY DEF PtInv, PtTypeOK, WaitReap
    <2>2. \A q \in Proc : parent'[q] = IF q = z THEN Null ELSE parent[q]
      BY DEF PtInv, PtTypeOK, WaitReap
    <2>3. \A q \in Proc : parent[q] \in Proc \cup {Null}
      BY DEF PtInv, PtTypeOK
    <2>4. pc'[InitProc] # "exit"
      BY DEF PtInv, PtTypeOK, FamilyInv, WaitReap, Goto
    <2> QED
      BY <1>b, <2>1, <2>2, <2>3, <2>4 DEF PtInv, FamilyInv, Live
  <1>7. NoLostExit'
    <2>1. \A q \in Proc : Zombies(q)' \subseteq Zombies(q)
      BY DEF PtInv, PtTypeOK, Zombies, Children, WaitReap
    <2>2. \A q \in Proc : state'[q] = "SLEEPING" => state[q] = "SLEEPING"
      BY DEF PtInv, PtTypeOK, WaitReap
    <2>3. \A q \in Proc : chan'[q] = q => chan[q] = q
      BY DEF PtInv, PtTypeOK, WaitReap
    <2> QED
      BY <2>1, <2>2, <2>3 DEF PtInv, NoLostExit
  <1>8. NoLostTick'
    BY DEF PtInv, PtTypeOK, TickInv, NoLostTick, WaitReap, InWait,
       SysCall, On, Zombies, Children, Release, Goto
  <1> QED BY <1>1, <1>2, <1>3, <1>4, <1>5, <1>6, <1>7, <1>8 DEF PtInv

\* The invariant is preserved by wait() that gives up (WaitFail).
LEMMA WaitFailInv ==
    ASSUME PtInv, NEW c \in CPU, NEW p \in Proc, WaitFail(c, p)
    PROVE  PtInv'
  <1> USE ProcTableAssumption DEF Proc, Null, InitProc, TickChan
  <1>a. state[p] = "RUNNING" /\ \A d \in CPU : running[d] = p => d = c
    BY RunningState DEF WaitFail, InWait, SysCall, On
  <1>1. PtTypeOK'
    BY DEF PtInv, PtTypeOK, ProcState, Phase, PC, ForkPC, WaitFail,
       InWait, SysCall, On, Zombies, Children, Release, Goto
  <1>2. LockInv'
    BY DEF PtInv, PtTypeOK, LockInv, WaitFail, InWait, SysCall, On,
       Zombies, Children, Release, Goto
  <1>3. CpuAgreement'
    BY CpuFrame DEF PtInv, PtTypeOK, WaitFail, InWait, SysCall, On,
       Zombies, Children, Release, Goto
  <1>4. TickInv'
    <2>1. pc[p] # "ticks" /\ ~(ticking /\ c = Boot)
      BY TicksRunning DEF PtInv, TickInv, WaitFail, InWait, SysCall, On
    <2>2. /\ \A q \in Proc : pc'[q] = IF q = p THEN "user" ELSE pc[q]
          /\ \A e \in CPU : e # c => phase'[e] = phase[e]
          /\ running[c] = p /\ running' = running /\ rem' = rem
          /\ tklock' = tklock /\ ticking' = ticking
      BY DEF PtInv, PtTypeOK, WaitFail, InWait, SysCall, On, Release, Goto
    <2> QED
      BY <2>1, <2>2, TickFrame
  <1>5. ForkInv'
    <2>1. /\ pc[p] \notin ForkPC
          /\ \A q \in Proc : pc'[q] = IF q = p THEN "user" ELSE pc[q]
          /\ np' = np
      BY DEF PtInv, PtTypeOK, ForkPC, WaitFail, InWait, SysCall, Goto
    <2>2. state' = state /\ parent' = parent
      BY DEF WaitFail
    <2> QED
      BY <1>1, <2>1, <2>2, ForkFrame DEF ForkPC
  <1>6. FamilyInv'
    <2>1. pc'[InitProc] # "exit" /\ parent' = parent /\ state' = state
      BY DEF PtInv, PtTypeOK, FamilyInv, WaitFail, Goto
    <2> QED
      BY <1>1, <2>1, FamilyFrame
  <1>7. NoLostExit'
    BY DEF PtInv, PtTypeOK, LockInv, CpuAgreement, FamilyInv, NoLostExit,
       Zombies, Children, WaitFail, InWait, SysCall, On, Release, Goto
  <1>8. NoLostTick'
    BY DEF PtInv, PtTypeOK, TickInv, NoLostTick, WaitFail, InWait,
       SysCall, On, Zombies, Children, Release, Goto
  <1> QED BY <1>1, <1>2, <1>3, <1>4, <1>5, <1>6, <1>7, <1>8 DEF PtInv

\* The invariant is preserved by wait() that sleeps (WaitSleep).
LEMMA WaitSleepInv ==
    ASSUME PtInv, NEW c \in CPU, NEW p \in Proc, WaitSleep(c, p)
    PROVE  PtInv'
  <1> USE ProcTableAssumption DEF Proc, Null, InitProc, TickChan
  <1>a. state[p] = "RUNNING" /\ \A d \in CPU : running[d] = p => d = c
    BY RunningState DEF WaitSleep, InWait, SysCall, On
  <1>1. PtTypeOK'
    BY DEF PtInv, PtTypeOK, ProcState, Phase, PC, ForkPC, WaitSleep,
       InWait, SysCall, On, Zombies, Children, Sched, Goto
  <1>2. LockInv'
    BY DEF PtInv, PtTypeOK, LockInv, WaitSleep, InWait, SysCall, On,
       Zombies, Children, Sched, Goto
  <1>3. CpuAgreement'
    <2>1. /\ running' = running
          /\ \A d \in CPU : phase'[d] = IF d = c THEN "swtch" ELSE phase[d]
      BY DEF PtInv, PtTypeOK, WaitSleep, Sched
    <2>2. \A q \in Proc : state'[q] = IF q = p THEN "SLEEPING" ELSE state[q]
      BY DEF PtInv, PtTypeOK, WaitSleep
    <2>3. \A d \in CPU : running[d] \in Proc \cup {Null}
      BY DEF PtInv, PtTypeOK
    <2>4. running[c] = p /\ phase[c] # "swtch"
      BY DEF WaitSleep, InWait, SysCall, On
    <2> QED
      BY <1>a, <2>1, <2>2, <2>3, <2>4 DEF PtInv, CpuAgreement
  <1>4. TickInv'
    <2>1. pc[p] # "ticks" /\ ~(ticking /\ c = Boot)
      BY TicksRunning DEF PtInv, TickInv, WaitSleep, InWait, SysCall, On
    <2>2. /\ \A q \in Proc : pc'[q] = IF q = p THEN "wait" ELSE pc[q]
          /\ \A e \in CPU : e # c => phase'[e] = phase[e]
          /\ running[c] = p /\ running' = running /\ rem' = rem
          /\ tklock' = tklock /\ ticking' = ticking
      BY DEF PtInv, PtTypeOK, WaitSleep, InWait, SysCall, On, Sched, Goto
    <2> QED
      BY <2>1, <2>2, TickFrame
  <1>5. ForkInv'
    BY <1>1, <1>a, ForkFrame DEF PtInv, PtTypeOK, ForkPC, Live, WaitSleep,
       InWait, SysCall, Goto
  <1>6. FamilyInv'
    <2>1. \A q \in Proc : state'[q] = IF q = p THEN "SLEEPING" ELSE state[q]
      BY DEF PtInv, PtTypeOK, WaitSleep
    <2>2. pc'[InitProc] # "exit" /\ parent' = parent
      BY DEF PtInv, PtTypeOK, FamilyInv, WaitSleep, Goto
    <2> QED
      BY <1>1, <1>a, <2>1, <2>2, FamilyFrame DEF Live
  <1>7. NoLostExit'
    <2>1. \A q \in Proc : state'[q] = "ZOMBIE" <=> state[q] = "ZOMBIE"
      BY <1>a DEF PtInv, PtTypeOK, WaitSleep
    <2>2. \A q \in Proc : Zombies(q)' = Zombies(q)
      BY <2>1 DEF Zombies, Children, WaitSleep
    <2> QED
      BY <2>2 DEF PtInv, PtTypeOK, NoLostExit, WaitSleep
  <1>8. NoLostTick'
    BY DEF PtInv, PtTypeOK, NoLostTick, WaitSleep
  <1> QED BY <1>1, <1>2, <1>3, <1>4, <1>5, <1>6, <1>7, <1>8 DEF PtInv

\* The invariant is preserved by kill() (Kill).
LEMMA KillInv ==
    ASSUME PtInv, NEW c \in CPU, NEW p \in Proc, NEW k \in KillArgs, NEW q \in Proc, Kill(c, p, k, q)
    PROVE  PtInv'
  <1> USE ProcTableAssumption DEF Proc, Null, InitProc, TickChan
  <1>a. \A r \in Proc :
           state'[r] = state[r] \/ (state[r] = "SLEEPING" /\ state'[r] = "RUNNABLE")
    BY DEF PtInv, PtTypeOK, Kill
  <1>1. PtTypeOK'
    BY DEF PtInv, PtTypeOK, ProcState, Phase, PC, ForkPC, Kill, SysCall,
       On, cpuvars
  <1>2. LockInv'
    BY DEF PtInv, PtTypeOK, LockInv, Kill, SysCall, On, cpuvars
  <1>3. CpuAgreement'
    BY <1>a, CpuFrame DEF Kill, cpuvars
  <1>4. TickInv'
    BY DEF PtInv, PtTypeOK, LockInv, CpuAgreement, TickInv, Kill, SysCall,
       On, cpuvars
  <1>5. ForkInv'
    BY <1>1, <1>a, ForkFrame DEF Live, Kill
  <1>6. FamilyInv'
    <2>1. pc'[InitProc] # "exit" /\ parent' = parent
      BY DEF PtInv, FamilyInv, Kill
    <2> QED
      BY <1>1, <1>a, <2>1, FamilyFrame DEF Live
  <1>7. NoLostExit'
    <2>1. \A r \in Proc : Zombies(r)' = Zombies(r)
      BY <1>a DEF Zombies, Children, Kill
    <2> QED
      BY <1>a, <2>1 DEF PtInv, PtTypeOK, NoLostExit, Kill
  <1>8. NoLostTick'
    BY DEF PtInv, PtTypeOK, TickInv, NoLostTick, Kill, SysCall, On,
       cpuvars
  <1> QED BY <1>1, <1>2, <1>3, <1>4, <1>5, <1>6, <1>7, <1>8 DEF PtInv

\* The invariant is preserved by the start of sys_sleep() (SysSleep).
LEMMA SysSleepInv ==
    ASSUME PtInv, NEW c \in CPU, NEW p \in Proc, NEW n \in 0..MaxSleep, SysSleep(c, p, n)
    PROVE  PtInv'
  <1> USE ProcTableAssumption DEF Proc, Null, InitProc, TickChan
  <1>1. PtTypeOK'
    <2>1. tklock' \in CPU \cup {NoCPU} /\ pc' \in [Proc -> PC]
      BY DEF PtInv, PtTypeOK, PC, SysSleep, SysCall, On, SleepTest, Goto, procvars, cpuvars
    <2> QED
      BY <2>1 DEF PtInv, PtTypeOK, SysSleep, SysCall, On, SleepTest, Goto, procvars, cpuvars
  <1>2. LockInv'
    BY DEF PtInv, PtTypeOK, LockInv, SysSleep, SysCall, On, SleepTest,
       Goto, procvars, cpuvars
  <1>3. CpuAgreement'
    BY CpuFrame DEF PtInv, PtTypeOK, SysSleep, SysCall, On, SleepTest,
       Goto, procvars, cpuvars
  <1>4. TickInv'
    <2>1. /\ running[c] = p /\ phase[c] = "run" /\ ~(ticking /\ c = Boot)
          /\ tklock = NoCPU /\ tklock' \in {c, NoCPU} /\ (pc'[p] = "ticks" => tklock' = c)
          /\ running' = running /\ phase' = phase /\ ticking' = ticking
      BY DEF PtInv, PtTypeOK, SysSleep, SysCall, On, SleepTest, Goto, cpuvars
    <2>2. \A q \in Proc : pc[q] # "ticks"
      BY <2>1 DEF PtInv, TickInv
    <2>3. \A q \in Proc : pc'[q] = "ticks" => q = p
      BY <2>2 DEF PtInv, PtTypeOK, SysSleep, SleepTest, Goto
    <2>4. pc'[p] = "ticks" => rem'[p] > 0
      BY DEF PtInv, PtTypeOK, SysSleep, SleepTest, Goto
    <2>5. ~ticking
      BY <2>1 DEF PtInv, TickInv
    <2> QED
      BY <2>1, <2>3, <2>4, <2>5 DEF TickInv
  <1>5. ForkInv'
    <2>1. /\ pc[p] \notin ForkPC /\ pc'[p] \notin ForkPC
          /\ \A q \in Proc : q # p => pc'[q] = pc[q]
      BY DEF PtInv, PtTypeOK, ForkPC, SysSleep, SysCall, SleepTest, Goto
    <2>2. state' = state /\ parent' = parent /\ np' = np
      BY DEF SysSleep, procvars
    <2> QED
      BY <1>1, <2>1, <2>2, ForkFrame DEF ForkPC
  <1>6. FamilyInv'
    <2>1. pc'[InitProc] # "exit" /\ parent' = parent /\ state' = state
      BY DEF PtInv, PtTypeOK, FamilyInv, SysSleep, SleepTest, Goto, procvars
    <2> QED
      BY <1>1, <2>1, FamilyFrame
  <1>7. NoLostExit'
    BY DEF PtInv, PtTypeOK, LockInv, CpuAgreement, FamilyInv, NoLostExit,
       Zombies, Children, SysSleep, SysCall, On, SleepTest, Goto,
       procvars, cpuvars
  <1>8. NoLostTick'
    <2>1. state[p] = "RUNNING"
      BY RunningState DEF SysSleep, SysCall, On
    <2> QED
      BY <2>1 DEF PtInv, PtTypeOK, NoLostTick, SysSleep, procvars
  <1> QED BY <1>1, <1>2, <1>3, <1>4, <1>5, <1>6, <1>7, <1>8 DEF PtInv

\* The invariant is preserved by sleep(&ticks, &tickslock) (SleepCommit).
LEMMA SleepCommitInv ==
    ASSUME PtInv, NEW c \in CPU, NEW p \in Proc, SleepCommit(c, p)
    PROVE  PtInv'
  <1> USE ProcTableAssumption DEF Proc, Null, InitProc, TickChan
  <1>a. state[p] = "RUNNING" /\ \A d \in CPU : running[d] = p => d = c
    BY RunningState DEF SleepCommit, On
  <1>1. PtTypeOK'
    BY DEF PtInv, PtTypeOK, ProcState, Phase, PC, ForkPC, SleepCommit, On,
       Sched, Goto
  <1>2. LockInv'
    BY DEF PtInv, PtTypeOK, LockInv, SleepCommit, On, Sched, Goto
  <1>3. CpuAgreement'
    <2>1. /\ running' = running
          /\ \A d \in CPU : phase'[d] = IF d = c THEN "swtch" ELSE phase[d]
      BY DEF PtInv, PtTypeOK, SleepCommit, Sched
    <2>2. \A q \in Proc : state'[q] = IF q = p THEN "SLEEPING" ELSE state[q]
      BY DEF PtInv, PtTypeOK, SleepCommit
    <2>3. \A d \in CPU : running[d] \in Proc \cup {Null}
      BY DEF PtInv, PtTypeOK
    <2>4. running[c] = p /\ phase[c] # "swtch"
      BY DEF SleepCommit, On
    <2> QED
      BY <1>a, <2>1, <2>2, <2>3, <2>4 DEF PtInv, CpuAgreement
  <1>4. TickInv'
    BY DEF PtInv, PtTypeOK, LockInv, CpuAgreement, TickInv, SleepCommit,
       On, Sched, Goto
  <1>5. ForkInv'
    BY <1>1, <1>a, ForkFrame DEF PtInv, PtTypeOK, ForkPC, Live,
       SleepCommit, Goto
  <1>6. FamilyInv'
    <2>1. \A q \in Proc : state'[q] = IF q = p THEN "SLEEPING" ELSE state[q]
      BY DEF PtInv, PtTypeOK, SleepCommit
    <2>2. pc'[InitProc] # "exit" /\ parent' = parent
      BY DEF PtInv, PtTypeOK, FamilyInv, SleepCommit, Goto
    <2> QED
      BY <1>1, <1>a, <2>1, <2>2, FamilyFrame DEF Live
  <1>7. NoLostExit'
    <2>1. \A q \in Proc : state'[q] = "ZOMBIE" <=> state[q] = "ZOMBIE"
      BY <1>a DEF PtInv, PtTypeOK, SleepCommit
    <2>2. \A q \in Proc : Zombies(q)' = Zombies(q)
      BY <2>1 DEF Zombies, Children, SleepCommit
    <2> QED
      BY <2>2 DEF PtInv, PtTypeOK, NoLostExit, SleepCommit
  <1>8. NoLostTick'
    BY DEF PtInv, PtTypeOK, TickInv, NoLostTick, SleepCommit, On, Sched,
       Goto
  <1> QED BY <1>1, <1>2, <1>3, <1>4, <1>5, <1>6, <1>7, <1>8 DEF PtInv

\* The invariant is preserved by the loop of sys_sleep() (SleepAgain).
LEMMA SleepAgainInv ==
    ASSUME PtInv, NEW c \in CPU, NEW p \in Proc, SleepAgain(c, p)
    PROVE  PtInv'
  <1> USE ProcTableAssumption DEF Proc, Null, InitProc, TickChan
  <1>1. PtTypeOK'
    <2>1. tklock' \in CPU \cup {NoCPU} /\ pc' \in [Proc -> PC]
      BY DEF PtInv, PtTypeOK, PC, SleepAgain, On, SleepTest, Goto, procvars, cpuvars
    <2> QED
      BY <2>1 DEF PtInv, PtTypeOK, SleepAgain, On, SleepTest, Goto, procvars, cpuvars
  <1>2. LockInv'
    BY DEF PtInv, PtTypeOK, LockInv, SleepAgain, On, SleepTest, Goto,
       procvars, cpuvars
  <1>3. CpuAgreement'
    BY CpuFrame DEF PtInv, PtTypeOK, SleepAgain, On, SleepTest, Goto,
       procvars, cpuvars
  <1>4. TickInv'
    <2>1. /\ running[c] = p /\ phase[c] = "run" /\ ~(ticking /\ c = Boot)
          /\ tklock = NoCPU /\ tklock' \in {c, NoCPU} /\ (pc'[p] = "ticks" => tklock' = c)
          /\ running' = running /\ phase' = phase /\ ticking' = ticking
      BY DEF PtInv, PtTypeOK, SleepAgain, On, SleepTest, Goto, cpuvars
    <2>2. \A q \in Proc : pc[q] # "ticks"
      BY <2>1 DEF PtInv, TickInv
    <2>3. \A q \in Proc : pc'[q] = "ticks" => q = p
      BY <2>2 DEF PtInv, PtTypeOK, SleepAgain, SleepTest, Goto
    <2>4. pc'[p] = "ticks" => rem'[p] > 0
      BY DEF PtInv, PtTypeOK, SleepAgain, SleepTest, Goto
    <2>5. ~ticking
      BY <2>1 DEF PtInv, TickInv
    <2> QED
      BY <2>1, <2>3, <2>4, <2>5 DEF TickInv
  <1>5. ForkInv'
    <2>1. /\ pc[p] \notin ForkPC /\ pc'[p] \notin ForkPC
          /\ \A q \in Proc : q # p => pc'[q] = pc[q]
      BY DEF PtInv, PtTypeOK, ForkPC, SleepAgain, SleepTest, Goto
    <2>2. state' = state /\ parent' = parent /\ np' = np
      BY DEF SleepAgain, procvars
    <2> QED
      BY <1>1, <2>1, <2>2, ForkFrame DEF ForkPC
  <1>6. FamilyInv'
    <2>1. pc'[InitProc] # "exit" /\ parent' = parent /\ state' = state
      BY DEF PtInv, PtTypeOK, FamilyInv, SleepAgain, SleepTest, Goto, procvars
    <2> QED
      BY <1>1, <2>1, FamilyFrame
  <1>7. NoLostExit'
    BY DEF PtInv, PtTypeOK, LockInv, CpuAgreement, FamilyInv, NoLostExit,
       Zombies, Children, SleepAgain, On, SleepTest, Goto, procvars,
       cpuvars
  <1>8. NoLostTick'
    BY DEF PtInv, PtTypeOK, TickInv, NoLostTick, SleepAgain, On,
       SleepTest, Goto, procvars, cpuvars
  <1> QED BY <1>1, <1>2, <1>3, <1>4, <1>5, <1>6, <1>7, <1>8 DEF PtInv

\* The invariant is preserved by allocproc() under ptable.lock (AllocSlot).
LEMMA AllocSlotInv ==
    ASSUME PtInv, NEW c \in CPU, NEW p \in Proc, NEW n \in Proc, On(c, p),
           pc[p] \notin ForkPC \cup {"ticks"}, AllocSlot(c, p, n)
    PROVE  PtInv'
  <1> USE ProcTableAssumption DEF Proc, Null, InitProc, TickChan
  <1>a. state[p] = "RUNNING" /\ \A d \in CPU : running[d] = p => d = c
    BY RunningState DEF On
  <1>b. /\ \A q \in Proc : state'[q] = IF q = n THEN "EMBRYO" ELSE state[q]
        /\ \A q \in Proc : np'[q] = IF q = p THEN n ELSE np[q]
        /\ \A q \in Proc : pc'[q] = IF q = n THEN "forkret" ELSE IF q = p THEN "alloc" ELSE pc[q]
        /\ parent' = parent /\ running' = running /\ phase' = phase
        /\ state[n] = "UNUSED" /\ n # p
    BY <1>a DEF PtInv, PtTypeOK, AllocSlot, cpuvars
  <1>1. PtTypeOK'
    <2>0. nextpid \in Nat /\ pid \in [Proc -> Nat]
      BY DEF PtInv, PtTypeOK
    <2>1. pid' \in [Proc -> Nat] /\ nextpid' \in Nat
      BY <2>0 DEF AllocSlot
    <2>2. pc' \in [Proc -> PC] /\ np' \in [Proc -> Proc \cup {Null}]
      BY DEF PtInv, PtTypeOK, AllocSlot, PC, ForkPC
    <2>3. state' \in [Proc -> ProcState]
      BY DEF PtInv, PtTypeOK, AllocSlot, ProcState
    <2> QED
      BY <2>1, <2>2, <2>3 DEF PtInv, PtTypeOK, AllocSlot, cpuvars
  <1>2. LockInv'
    BY DEF PtInv, PtTypeOK, LockInv, AllocSlot, On, cpuvars
  <1>3. CpuAgreement'
    BY <1>b, CpuFrame
  <1>4. TickInv'
    <2>1. /\ running[c] = p /\ ~(ticking /\ c = Boot) /\ rem' = rem
          /\ tklock' = tklock /\ ticking' = ticking
      BY DEF AllocSlot, On
    <2>2. \A q \in Proc : pc'[q] = "ticks" => pc[q] = "ticks" /\ running[c] # q
      BY <1>b, <2>1
    <2> QED
      BY <1>b, <2>1, <2>2, TickFrame
  <1>5. ForkInv'
    <2> SUFFICES ASSUME NEW q \in Proc
                 PROVE  /\ np'[q] # Null <=> pc'[q] \in ForkPC
                        /\ pc'[q] \in ForkPC => state'[q] \in Live /\ state'[np'[q]] = "EMBRYO"
                        /\ pc'[q] = "filled" => parent'[np'[q]] = q
                        /\ \A r \in Proc : np'[q] # Null /\ np'[q] = np'[r] => q = r
      BY DEF ForkInv
    <2>1. /\ np[q] # Null <=> pc[q] \in ForkPC
          /\ pc[q] \in ForkPC => state[q] \in Live /\ state[np[q]] = "EMBRYO"
          /\ pc[q] = "filled" => parent[np[q]] = q
          /\ np[q] \in Proc \cup {Null}
      BY DEF PtInv, PtTypeOK, ForkInv
    <2>2. \A r \in Proc : np[r] # n
      <3> SUFFICES ASSUME NEW r \in Proc, np[r] = n PROVE FALSE
        OBVIOUS
      <3>1. pc[r] \in ForkPC
        BY DEF PtInv, ForkInv
      <3>2. state[n] = "EMBRYO"
        BY <3>1 DEF PtInv, ForkInv
      <3> QED BY <1>b, <3>2
    <2>3. \A r \in Proc : np[q] # Null /\ np[q] = np[r] => q = r
      BY DEF PtInv, ForkInv
    <2>4. pc[n] \notin ForkPC /\ np[n] = Null
      BY <1>b DEF PtInv, ForkInv, Live
    <2>5. /\ "alloc" \in ForkPC /\ "forkret" \notin ForkPC /\ "RUNNING" \in Live
          /\ "alloc" # "filled" /\ "forkret" # "filled" /\ "UNUSED" \notin Live
      BY DEF ForkPC, Live
    <2>6. CASE q = p
      BY <1>a, <1>b, <2>1, <2>2, <2>5, <2>6
    <2>7. CASE q = n
      BY <1>b, <2>1, <2>2, <2>3, <2>4, <2>5, <2>7
    <2>8. CASE q # p /\ q # n
      BY <1>b, <2>1, <2>2, <2>3, <2>5, <2>8
    <2> QED BY <2>6, <2>7, <2>8
  <1>6. FamilyInv'
    <2>1. \A q \in Proc : state[q] \in Live => state'[q] \in Live
      BY <1>b DEF Live
    <2>2. pc'[InitProc] # "exit"
      BY <1>b DEF PtInv, FamilyInv
    <2> QED
      BY <1>1, <1>b, <2>1, <2>2, FamilyFrame
  <1>7. NoLostExit'
    BY DEF PtInv, PtTypeOK, LockInv, CpuAgreement, FamilyInv, NoLostExit,
       Zombies, Children, AllocSlot, On, cpuvars
  <1>8. NoLostTick'
    BY DEF PtInv, PtTypeOK, TickInv, NoLostTick, AllocSlot, On, cpuvars
  <1> QED BY <1>1, <1>2, <1>3, <1>4, <1>5, <1>6, <1>7, <1>8 DEF PtInv

\* The invariant is preserved by the failures after allocproc() (DropSlot).
LEMMA DropSlotInv ==
    ASSUME PtInv, NEW c \in CPU, NEW p \in Proc, On(c, p), pc[p] \in ForkPC, DropSlot(p)
    PROVE  PtInv'
  <1> USE ProcTableAssumption DEF Proc, Null, InitProc, TickChan
  <1>a. state[p] = "RUNNING" /\ \A d \in CPU : running[d] = p => d = c
    BY RunningState DEF On
  <1>b. /\ np[p] \in Proc /\ state[np[p]] = "EMBRYO" /\ np[p] # p
        /\ \A q \in Proc : state'[q] = IF q = np[p] THEN "UNUSED" ELSE state[q]
        /\ \A q \in Proc : pc'[q] = IF q = p THEN "user" ELSE pc[q]
        /\ \A q \in Proc : np'[q] = IF q = p THEN Null ELSE np[q]
        /\ parent' = parent /\ running' = running /\ phase' = phase
    BY <1>a DEF PtInv, PtTypeOK, ForkInv, DropSlot, Goto, cpuvars
  <1>1. PtTypeOK'
    BY DEF PtInv, PtTypeOK, ProcState, Phase, PC, ForkPC, DropSlot, On,
       Goto, cpuvars
  <1>2. LockInv'
    BY DEF PtInv, PtTypeOK, LockInv, DropSlot, On, Goto, cpuvars
  <1>3. CpuAgreement'
    BY <1>b, CpuFrame
  <1>4. TickInv'
    BY <1>b, TickFrame DEF PtInv, PtTypeOK, ForkPC, DropSlot, On, Goto,
       cpuvars
  <1>5. ForkInv'
    <2> SUFFICES ASSUME NEW q \in Proc
                 PROVE  /\ np'[q] # Null <=> pc'[q] \in ForkPC
                        /\ pc'[q] \in ForkPC => state'[q] \in Live /\ state'[np'[q]] = "EMBRYO"
                        /\ pc'[q] = "filled" => parent'[np'[q]] = q
                        /\ \A r \in Proc : np'[q] # Null /\ np'[q] = np'[r] => q = r
      BY DEF ForkInv
    <2>1. /\ np[q] # Null <=> pc[q] \in ForkPC
          /\ pc[q] \in ForkPC => state[q] \in Live /\ state[np[q]] = "EMBRYO"
          /\ pc[q] = "filled" => parent[np[q]] = q
          /\ np[q] \in Proc \cup {Null}
      BY DEF PtInv, PtTypeOK, ForkInv
    <2>2. \A r \in Proc : np[q] # Null /\ np[q] = np[r] => q = r
      BY DEF PtInv, ForkInv
    <2>3. CASE q = p
      BY <1>b, <2>3 DEF ForkPC
    <2>4. CASE q # p
      <3>1. np[q] # np[p] \/ np[q] = Null
        BY <1>b, <2>4 DEF PtInv, ForkInv
      <3>2. state[q] \in Live => state'[q] \in Live
        BY <1>b DEF Live
      <3> QED BY <1>b, <2>1, <2>2, <2>4, <3>1, <3>2
    <2> QED BY <2>3, <2>4
  <1>6. FamilyInv'
    <2>1. \A q \in Proc : state[q] \in Live => state'[q] \in Live
      BY <1>b DEF Live
    <2>2. pc'[InitProc] # "exit"
      BY <1>b DEF PtInv, FamilyInv
    <2> QED
      BY <1>1, <1>b, <2>1, <2>2, FamilyFrame
  <1>7. NoLostExit'
    BY DEF PtInv, PtTypeOK, LockInv, CpuAgreement, FamilyInv, NoLostExit,
       Zombies, Children, DropSlot, On, Goto, cpuvars
  <1>8. NoLostTick'
    BY DEF PtInv, PtTypeOK, TickInv, NoLostTick, DropSlot, On, Goto,
       cpuvars
  <1> QED BY <1>1, <1>2, <1>3, <1>4, <1>5, <1>6, <1>7, <1>8 DEF PtInv

\* The invariant is preserved by fork() filling in the child (FillSlot).
LEMMA FillSlotInv ==
    ASSUME PtInv, NEW c \in CPU, NEW p \in Proc, On(c, p), pc[p] \in {"alloc", "listed"}, FillSlot(p)
    PROVE  PtInv'
  <1> USE ProcTableAssumption DEF Proc, Null, InitProc, TickChan
  <1>a. state[p] = "RUNNING" /\ \A d \in CPU : running[d] = p => d = c
    BY RunningState DEF On
  <1>b. np[p] \in Proc /\ state[np[p]] = "EMBRYO" /\ np[p] # p /\ np[p] # InitProc
    <2>1. np[p] # Null /\ state[np[p]] = "EMBRYO"
      BY DEF PtInv, ForkInv, ForkPC
    <2> QED BY <1>a, <2>1 DEF PtInv, PtTypeOK, FamilyInv, Live
  <1>1. PtTypeOK'
    BY DEF PtInv, PtTypeOK, ProcState, Phase, PC, ForkPC, FillSlot, On,
       Goto, cpuvars
  <1>2. LockInv'
    BY DEF PtInv, PtTypeOK, LockInv, FillSlot, On, Goto, cpuvars
  <1>3. CpuAgreement'
    BY CpuFrame DEF PtInv, PtTypeOK, FillSlot, On, Goto, cpuvars
  <1>4. TickInv'
    BY TickFrame DEF PtInv, PtTypeOK, FillSlot, On, Goto, cpuvars
  <1>5. ForkInv'
    <2> SUFFICES ASSUME NEW q \in Proc
                 PROVE  /\ np'[q] # Null <=> pc'[q] \in ForkPC
                        /\ pc'[q] \in ForkPC => state'[q] \in Live /\ state'[np'[q]] = "EMBRYO"
                        /\ pc'[q] = "filled" => parent'[np'[q]] = q
                        /\ \A r \in Proc : np'[q] # Null /\ np'[q] = np'[r] => q = r
      BY DEF ForkInv
    <2>1. /\ np[q] # Null <=> pc[q] \in ForkPC
          /\ pc[q] \in ForkPC => state[q] \in Live /\ state[np[q]] = "EMBRYO"
          /\ pc[q] = "filled" => parent[np[q]] = q
          /\ np[q] \in Proc \cup {Null}
      BY DEF PtInv, PtTypeOK, ForkInv
    <2>2. \A r \in Proc : np[q] # Null /\ np[q] = np[r] => q = r
      BY DEF PtInv, ForkInv
    <2>3. /\ \A r \in Proc : pc'[r] = IF r = p THEN "filled" ELSE pc[r]
          /\ \A r \in Proc : parent'[r] = IF r = np[p] THEN p ELSE parent[r]
          /\ np' = np /\ state' = state
      BY DEF PtInv, PtTypeOK, FillSlot, Goto
    <2>4. CASE q = p
      BY <1>a, <1>b, <2>1, <2>2, <2>3, <2>4 DEF ForkPC
    <2>5. CASE q # p
      BY <1>b, <2>1, <2>2, <2>3, <2>5 DEF PtInv, ForkInv, ForkPC
    <2> QED BY <2>4, <2>5
  <1>6. FamilyInv'
    <2>1. /\ \A q \in Proc : parent'[q] = IF q = np[p] THEN p ELSE parent[q]
          /\ \A q \in Proc : parent[q] \in Proc \cup {Null}
          /\ state' = state /\ pc'[InitProc] # "exit"
      BY DEF PtInv, PtTypeOK, FamilyInv, FillSlot, Goto
    <2> QED
      BY <1>a, <1>b, <2>1 DEF PtInv, FamilyInv, Live
  <1>7. NoLostExit'
    <2>1. \A q \in Proc : parent'[q] = IF q = np[p] THEN p ELSE parent[q]
      BY DEF PtInv, PtTypeOK, FillSlot
    <2>2. \A q \in Proc : Zombies(q)' = Zombies(q) \/ q = p
      BY <1>b, <2>1 DEF Zombies, Children, FillSlot
    <2> QED
      BY <1>a, <2>2 DEF PtInv, NoLostExit, FillSlot
  <1>8. NoLostTick'
    BY DEF PtInv, PtTypeOK, TickInv, NoLostTick, FillSlot, On, Goto,
       cpuvars
  <1> QED BY <1>1, <1>2, <1>3, <1>4, <1>5, <1>6, <1>7, <1>8 DEF PtInv

\* The invariant is preserved by fork() making the child runnable (ReadySlot).
LEMMA ReadySlotInv ==
    ASSUME PtInv, NEW c \in CPU, NEW p \in Proc, On(c, p), pc[p] = "filled",
           NEW l \in {"user", "leave"}, ReadySlot(p, l)
    PROVE  PtInv'
  <1> USE ProcTableAssumption DEF Proc, Null, InitProc, TickChan
  <1>a. state[p] = "RUNNING" /\ \A d \in CPU : running[d] = p => d = c
    BY RunningState DEF On
  <1>b. np[p] \in Proc /\ state[np[p]] = "EMBRYO" /\ np[p] # p /\ np[p] # InitProc
    <2>1. np[p] # Null /\ state[np[p]] = "EMBRYO"
      BY DEF PtInv, ForkInv, ForkPC
    <2> QED BY <1>a, <2>1 DEF PtInv, PtTypeOK, FamilyInv, Live
  <1>c. /\ \A q \in Proc : state'[q] = IF q = np[p] THEN "RUNNABLE" ELSE state[q]
        /\ \A q \in Proc : np'[q] = IF q = p THEN Null ELSE np[q]
        /\ \A q \in Proc : pc'[q] = IF q = p THEN l ELSE pc[q]
        /\ parent' = parent /\ running' = running /\ phase' = phase
    BY <1>b DEF PtInv, PtTypeOK, ReadySlot, Goto, cpuvars
  <1>1. PtTypeOK'
    BY DEF PtInv, PtTypeOK, ProcState, Phase, PC, ForkPC, ReadySlot, On,
       Goto, cpuvars
  <1>2. LockInv'
    BY DEF PtInv, PtTypeOK, LockInv, ReadySlot, On, Goto, cpuvars
  <1>3. CpuAgreement'
    BY <1>b, <1>c, CpuFrame
  <1>4. TickInv'
    BY TickFrame DEF PtInv, PtTypeOK, ReadySlot, On, Goto, cpuvars
  <1>5. ForkInv'
    <2> SUFFICES ASSUME NEW q \in Proc
                 PROVE  /\ np'[q] # Null <=> pc'[q] \in ForkPC
                        /\ pc'[q] \in ForkPC => state'[q] \in Live /\ state'[np'[q]] = "EMBRYO"
                        /\ pc'[q] = "filled" => parent'[np'[q]] = q
                        /\ \A r \in Proc : np'[q] # Null /\ np'[q] = np'[r] => q = r
      BY DEF ForkInv
    <2>1. /\ np[q] # Null <=> pc[q] \in ForkPC
          /\ pc[q] \in ForkPC => state[q] \in Live /\ state[np[q]] = "EMBRYO"
          /\ pc[q] = "filled" => parent[np[q]] = q
          /\ np[q] \in Proc \cup {Null}
      BY DEF PtInv, PtTypeOK, ForkInv
    <2>2. \A r \in Proc : np[q] # Null /\ np[q] = np[r] => q = r
      BY DEF PtInv, ForkInv
    <2>3. CASE q = p
      BY <1>c, <2>3 DEF ForkPC
    <2>4. CASE q # p
      <3>1. np[q] # np[p] \/ np[q] = Null
        BY <1>b, <2>4 DEF PtInv, ForkInv
      <3>2. state[q] \in Live => state'[q] \in Live
        BY <1>b, <1>c DEF Live
      <3> QED BY <1>b, <1>c, <2>1, <2>2, <2>4, <3>1, <3>2
    <2> QED BY <2>3, <2>4
  <1>6. FamilyInv'
    <2>a. pc'[InitProc] # "exit"
      BY <1>c DEF PtInv, FamilyInv
    <2>b. parent[np[p]] = p
      BY DEF PtInv, ForkInv
    <2>1. /\ pc'[InitProc] # "exit" /\ parent' = parent /\ parent[np[p]] = p
          /\ \A q \in Proc : parent[q] \in Proc \cup {Null}
      BY <1>c, <2>a, <2>b DEF PtInv, PtTypeOK
    <2>2. \A q \in Proc : state[q] \in Live => state'[q] \in Live
      BY <1>c DEF Live
    <2> QED
      BY <1>b, <1>c, <2>1, <2>2 DEF PtInv, FamilyInv
  <1>7. NoLostExit'
    BY DEF PtInv, PtTypeOK, LockInv, CpuAgreement, FamilyInv, NoLostExit,
       Zombies, Children, ReadySlot, On, Goto, cpuvars
  <1>8. NoLostTick'
    BY DEF PtInv, PtTypeOK, TickInv, NoLostTick, ReadySlot, On, Goto,
       cpuvars
  <1> QED BY <1>1, <1>2, <1>3, <1>4, <1>5, <1>6, <1>7, <1>8 DEF PtInv

\* The invariant is preserved by the timer handler up to wakeup() (TickStart).
LEMMA TickStartInv ==
    ASSUME PtInv, TickStart
    PROVE  PtInv'
  <1> USE ProcTableAssumption DEF Proc, Null, InitProc, TickChan
  <1>1. PtTypeOK'
    <2>1. \A q \in Proc : rem'[q] \in 0..MaxSleep
      BY DEF PtInv, PtTypeOK, TickStart
    <2> QED
      BY <2>1 DEF PtInv, PtTypeOK, TickStart, procvars, cpuvars
  <1>2. LockInv'
    BY DEF PtInv, PtTypeOK, LockInv, TickStart, procvars, cpuvars
  <1>3. CpuAgreement'
    BY CpuFrame DEF PtInv, PtTypeOK, TickStart, procvars, cpuvars
  <1>4. TickInv'
    BY DEF PtInv, PtTypeOK, LockInv, CpuAgreement, TickInv, TickStart,
       procvars, cpuvars
  <1>5. ForkInv'
    BY <1>1, ForkFrame DEF PtInv, PtTypeOK, ForkPC, Live, TickStart,
       procvars, cpuvars
  <1>6. FamilyInv'
    <2>1. pc'[InitProc] # "exit" /\ parent' = parent /\ state' = state
      BY DEF PtInv, PtTypeOK, FamilyInv, TickStart, procvars
    <2> QED
      BY <1>1, <2>1, FamilyFrame
  <1>7. NoLostExit'
    BY DEF PtInv, PtTypeOK, LockInv, CpuAgreement, FamilyInv, NoLostExit,
       Zombies, Children, TickStart, procvars, cpuvars
  <1>8. NoLostTick'
    BY DEF PtInv, PtTypeOK, TickInv, NoLostTick, TickStart, procvars,
       cpuvars
  <1> QED BY <1>1, <1>2, <1>3, <1>4, <1>5, <1>6, <1>7, <1>8 DEF PtInv

\* The invariant is preserved by the timer handler from wakeup() on (TickWake).
LEMMA TickWakeInv ==
    ASSUME PtInv, TickWake
    PROVE  PtInv'
  <1> USE ProcTableAssumption DEF Proc, Null, InitProc, TickChan
  <1>1. PtTypeOK'
    BY DEF PtInv, PtTypeOK, ProcState, Phase, PC, ForkPC, TickWake,
       Wakeup1
  <1>2. LockInv'
    BY DEF PtInv, PtTypeOK, LockInv, TickWake, Wakeup1
  <1>3. CpuAgreement'
    BY CpuFrame DEF PtInv, PtTypeOK, TickWake, Wakeup1
  <1>4. TickInv'
    BY DEF PtInv, PtTypeOK, LockInv, CpuAgreement, TickInv, TickWake,
       Wakeup1
  <1>5. ForkInv'
    BY <1>1, ForkFrame DEF PtInv, PtTypeOK, ForkPC, Live, TickWake,
       Wakeup1
  <1>6. FamilyInv'
    <2>1. pc'[InitProc] # "exit" /\ parent' = parent
      BY DEF PtInv, FamilyInv, TickWake
    <2> QED
      BY <1>1, <2>1, FamilyFrame DEF PtInv, PtTypeOK, Live, TickWake, Wakeup1
  <1>7. NoLostExit'
    BY DEF PtInv, PtTypeOK, LockInv, CpuAgreement, FamilyInv, NoLostExit,
       Zombies, Children, TickWake, Wakeup1
  <1>8. NoLostTick'
    BY DEF PtInv, PtTypeOK, TickInv, NoLostTick, TickWake, Wakeup1
  <1> QED BY <1>1, <1>2, <1>3, <1>4, <1>5, <1>6, <1>7, <1>8 DEF PtInv

-----------------------------------------------------------------------------
\* The invariant holds when userinit() is done and the CPUs are scheduling.
LEMMA PtInitInv == PtInit => PtInv
  <1> SUFFICES ASSUME PtInit PROVE PtInv
    OBVIOUS
  <1> USE ProcTableAssumption DEF Proc, Null, InitProc, TickChan
  <1>1. PtTypeOK
    <2>1. state \in [Proc -> ProcState] /\ pid \in [Proc -> Nat]
      BY DEF PtInit, ProcState
    <2>2. pc \in [Proc -> PC] /\ phase \in [CPU -> Phase]
      BY DEF PtInit, PC, Phase
    <2>3. rem \in [Proc -> 0..MaxSleep] /\ cursor \in [CPU -> 1..(NPROC + 1)]
      BY DEF PtInit
    <2>4. /\ parent \in [Proc -> Proc \cup {Null}] /\ np \in [Proc -> Proc \cup {Null}]
          /\ chan \in [Proc -> Proc \cup {Null, TickChan}]
          /\ running \in [CPU -> Proc \cup {Null}]
      BY DEF PtInit
    <2> QED
      BY <2>1, <2>2, <2>3, <2>4 DEF PtInit, PtTypeOK
  <1>2. LockInv /\ CpuAgreement /\ TickInv
    BY DEF PtInit, LockInv, CpuAgreement, TickInv
  <1>3. ForkInv
    BY DEF PtInit, ForkInv, ForkPC
  <1>4. FamilyInv
    BY DEF PtInit, FamilyInv, Live
  <1>5. NoLostExit /\ NoLostTick
    BY DEF PtInit, NoLostExit, NoLostTick
  <1> QED BY <1>1, <1>2, <1>3, <1>4, <1>5 DEF PtInv

\* The invariant is preserved by every step that the two kernels share.
LEMMA ProcStepInv ==
    ASSUME PtInv, NEW c \in CPU, NEW p \in Proc, ProcStep(c, p)
    PROVE  PtInv'
  BY ResumeReleaseInv, ResumeSleepInv, YieldInv, ExitStartInv, ExitCommitInv,
     WaitFailInv, WaitSleepInv, KillInv, SysSleepInv, SleepCommitInv,
     SleepAgainInv DEF ProcStep

\* The invariant is preserved when nothing changes.
LEMMA PtStutterInv ==
    ASSUME PtInv, UNCHANGED ptvars
    PROVE  PtInv'
  <1> USE DEF ptvars, procvars, cpuvars
  <1>1. PtTypeOK' /\ LockInv' /\ CpuAgreement' /\ TickInv'
    BY DEF PtInv, PtTypeOK, LockInv, CpuAgreement, TickInv
  <1>2. ForkInv' /\ FamilyInv'
    BY DEF PtInv, ForkInv, FamilyInv
  <1>3. NoLostExit' /\ NoLostTick'
    BY DEF PtInv, NoLostExit, NoLostTick, Zombies, Children
  <1> QED BY <1>1, <1>2, <1>3 DEF PtInv

\* The invariant implies that nobody is an orphan.
LEMMA PtInvNoOrphan == PtInv => NoOrphan
  BY ProcTableAssumption DEF PtInv, FamilyInv, NoOrphan, Live, Proc, Null, InitProc
=============================================================================
