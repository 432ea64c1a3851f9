---------------------------- MODULE BaseKernel ----------------------------
(***************************************************************************)
(* The kernel of the directory xv6: the process table with the fork and    *)
(* the round-robin scheduler of xv6/proc.c.                                *)
(***************************************************************************)
EXTENDS ProcTable

\* fork(): allocproc() finds a slot.
ForkAlloc(c, p) ==
    /\ SysCall(c, p)
    /\ \E n \in Proc : AllocSlot(c, p, n)

\* kalloc() of the kernel stack or copyuvm() fails: fork returns -1.
ForkFail(c, p) ==
    /\ On(c, p) /\ pc[p] = "alloc"
    /\ DropSlot(p)

\* The memory of the parent is copied, parent, files and name are set.
ForkCopy(c, p) ==
    /\ On(c, p) /\ pc[p] = "alloc"
    /\ FillSlot(p)

\* The child becomes runnable and fork returns its pid.
ForkReady(c, p) ==
    /\ On(c, p) /\ pc[p] = "filled"
    /\ ReadySlot(p, "user")

\* scheduler(): interrupts on, acquire(&ptable.lock), start at the first slot.
SchedAcquire(c) ==
    /\ phase[c] = "sched" /\ ~(ticking /\ c = Boot)
    /\ ptlock = NoCPU
    /\ ptlock' = c
    /\ phase' = [phase EXCEPT ![c] = "scan"]
    /\ cursor' = [cursor EXCEPT ![c] = 1]
    /\ UNCHANGED <<procvars, pc, np, rem, tklock, running, ticking>>

\* Mutant: the loop variable is incremented a second time in the loop.
SchedDispatchSkip(c, p) ==
    /\ phase[c] = "scan"
    /\ p >= cursor[c] /\ state[p] = "RUNNABLE"
    /\ \A q \in cursor[c]..(p - 1) : state[q] # "RUNNABLE"
    /\ running' = [running EXCEPT ![c] = p]
    /\ state' = [state EXCEPT ![p] = "RUNNING"]
    /\ phase' = [phase EXCEPT ![c] = "resume"]
    /\ cursor' = [cursor EXCEPT ![c] = p + 2]
    /\ UNCHANGED <<pid, parent, chan, killed, nextpid, pc, np, rem, ptlock,
                   tklock, ticking>>

\* Mutant: after a process has run the scan starts again at the first slot.
SchedDispatchFromFirst(c, p) ==
    /\ phase[c] = "scan"
    /\ state[p] = "RUNNABLE" /\ \A q \in 1..(p - 1) : state[q] # "RUNNABLE"
    /\ running' = [running EXCEPT ![c] = p]
    /\ state' = [state EXCEPT ![p] = "RUNNING"]
    /\ phase' = [phase EXCEPT ![c] = "resume"]
    /\ cursor' = [cursor EXCEPT ![c] = 1]
    /\ UNCHANGED <<pid, parent, chan, killed, nextpid, pc, np, rem, ptlock,
                   tklock, ticking>>

\* The scan reaches a runnable process and switches to it.
SchedDispatch(c, p) ==
    /\ phase[c] = "scan"
    /\ p >= cursor[c] /\ state[p] = "RUNNABLE"
    /\ \A q \in cursor[c]..(p - 1) : state[q] # "RUNNABLE"
    /\ running' = [running EXCEPT ![c] = p]
    /\ state' = [state EXCEPT ![p] = "RUNNING"]
    /\ phase' = [phase EXCEPT ![c] = "resume"]
    /\ cursor' = [cursor EXCEPT ![c] = p + 1]
    /\ UNCHANGED <<pid, parent, chan, killed, nextpid, pc, np, rem, ptlock,
                   tklock, ticking>>

\* The scan reaches the end of the table: release(&ptable.lock), start again.
SchedRelease(c) ==
    /\ phase[c] = "scan"
    /\ \A q \in Proc : q >= cursor[c] => state[q] # "RUNNABLE"
    /\ ptlock' = NoCPU
    /\ phase' = [phase EXCEPT ![c] = "sched"]
    /\ UNCHANGED <<procvars, pc, np, rem, tklock, running, cursor, ticking>>

-----------------------------------------------------------------------------
Fork(c, p) ==
    \/ ForkAlloc(c, p) \/ ForkFail(c, p) \/ ForkCopy(c, p) \/ ForkReady(c, p)

Scheduler(c) ==
    \/ SchedAcquire(c) \/ SchedRelease(c) \/ SchedReturn(c)
    \/ \E p \in Proc : SchedDispatch(c, p)

Init == PtInit

Next ==
    \/ \E c \in CPU : Scheduler(c)
    \/ \E c \in CPU, p \in Proc :
          \/ ProcStep(c, p)
          \/ Fork(c, p)
          \/ \E z \in Proc : WaitReap(c, p, z)
    \/ TickStart
    \/ TickWake

Spec == Init /\ [][Next]_ptvars

-----------------------------------------------------------------------------
Wait(c, p) == WaitFail(c, p) \/ WaitSleep(c, p) \/ \E z \in Proc : WaitReap(c, p, z)

\* A kernel thread that has left user space goes on with what it is doing.
KernelStep(c, p) ==
    \/ ForkFail(c, p) \/ ForkCopy(c, p) \/ ForkReady(c, p)
    \/ ExitCommit(c, p) \/ SleepCommit(c, p) \/ SleepAgain(c, p)

\* A process that the scheduler has switched to leaves swtch().
Resume(c, p) ==
    \/ ResumeRelease(c, p) \/ ResumeSleep(c, p)
    \/ phase[c] = "resume" /\ Wait(c, p)

(***************************************************************************)
(* The scheduler loops for ever, the timer keeps interrupting and the      *)
(* process that got a CPU goes on.  A kernel thread that is given the CPU  *)
(* again and again makes progress, and init calls wait() in an endless     *)
(* loop (init.c).  Fairness is strong because a step may find interrupts   *)
(* off, a lock taken or the thread preempted any finite number of times.   *)
(* Nothing is assumed of the programs other than init.                     *)
(***************************************************************************)
Fairness ==
    /\ \A c \in CPU :
          /\ SF_ptvars(Scheduler(c))
          /\ SF_ptvars(\E p \in Proc : Yield(c, p) \/ Resume(c, p))
    /\ SF_ptvars(TickStart \/ TickWake)
    /\ \A p \in Proc : SF_ptvars(\E c \in CPU : KernelStep(c, p))
    /\ SF_ptvars(\E c \in CPU : Wait(c, InitProc))

FairSpec == Spec /\ Fairness

-----------------------------------------------------------------------------
TypeOK == PtTypeOK

\* A zombie that init has inherited is reaped (proc.c: exit, wait; init.c).
OrphanReaped ==
    \A p \in Proc :
       state[p] = "ZOMBIE" /\ parent[p] = InitProc ~> state[p] = "UNUSED"

\* A killed process gives up its resources, wherever it was in the kernel
\* when kill() found it (proc.c: kill; trap.c: trap; sysproc.c: sys_sleep).
KilledExits ==
    \A p \in Proc \ {InitProc} :
       killed[p] /\ state[p] # "UNUSED" ~> state[p] \in {"ZOMBIE", "UNUSED"}

\* No runnable process is left out by the scheduler.
RunnableRuns ==
    \A p \in Proc : state[p] = "RUNNABLE" ~> state[p] # "RUNNABLE"
=============================================================================
