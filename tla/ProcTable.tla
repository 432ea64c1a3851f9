----------------------------- MODULE ProcTable -----------------------------
(***************************************************************************)
(* The process table: the state that ptable.lock protects and the          *)
(* operations on it that the two kernels of the repository share - exit,   *)
(* wait, kill, yield, sleep/wakeup on &ticks, and the way sched() hands    *)
(* ptable.lock over to the scheduler of the CPU.  How a process is created *)
(* and how the scheduler chooses the next one differ between the kernels:  *)
(* see BaseKernel and ContainerKernel, which extend this module.           *)
(*                                                                         *)
(* Every critical section under ptable.lock is one action; the points at   *)
(* which the lock is passed on (swtch) or a second lock is taken are       *)
(* separate actions, and so is everything the code does without the lock.  *)
(***************************************************************************)
EXTENDS Naturals, FiniteSets

CONSTANTS NPROC,     \* slots of ptable.proc
          CPU,       \* the processors
          Boot,      \* the processor with cpuid() = 0, which counts ticks
          NoCPU,     \* holder of a free spin lock
          MaxPid,    \* bound: no process is created once nextpid exceeds it
          MaxSleep,  \* bound: largest argument of sys_sleep
          KillArgs   \* the arguments processes pass to kill

ASSUME ProcTableAssumption ==
    /\ NPROC \in Nat \ {0}
    /\ Boot \in CPU
    /\ NoCPU \notin CPU
    /\ MaxPid \in Nat \ {0}
    /\ MaxSleep \in Nat
    /\ KillArgs \subseteq Nat

Proc     == 1..NPROC
Null     == 0             \* no process, no channel
InitProc == 1             \* initproc: userinit takes the first slot
TickChan == NPROC + 1     \* the channel &ticks; &proc[p] is the channel p

ProcState == {"UNUSED", "EMBRYO", "SLEEPING", "RUNNABLE", "RUNNING", "ZOMBIE"}

(***************************************************************************)
(* Where a kernel thread is.  "user" is user space or any point of the     *)
(* kernel without state of its own.  A thread that makes a child has       *)
(* allocated its slot ("alloc"), given it a kernel stack ("stack"), listed *)
(* it in its container ("listed") and filled it in ("filled"); "join" and  *)
(* "leave" are the first and the last part of joinContainer(), "create" is *)
(* the middle of addContainer().  A thread that was switched out resumes   *)
(* where its pc says.                                                      *)
(***************************************************************************)
ForkPC == {"alloc", "stack", "listed", "filled"}
PC == ForkPC \cup {"forkret", "user", "exit", "wait", "ticks", "slept", "reacq",
                   "join", "leave", "create"}

(***************************************************************************)
(* What a processor is doing: "sched" in scheduler() without ptable.lock   *)
(* ("pick": and the container kernel has picked a process), "scan" in it   *)
(* with the lock, "resume" just switched to a process which still holds    *)
(* the lock, "run" in a process without it, "preempt" in a process at the  *)
(* end of a timer trap, "swtch" in a process that called sched() with the  *)
(* lock held.                                                              *)
(***************************************************************************)
Phase == {"sched", "pick", "scan", "resume", "run", "preempt", "swtch"}

VARIABLES
    state, pid, parent, chan, killed,  \* struct proc, per slot
    nextpid,
    pc, np, rem,       \* per kernel thread: position, the child that fork
                       \* is making, ticks that sys_sleep still waits for
    ptlock, tklock,    \* the CPUs that hold ptable.lock and tickslock
    running,           \* per CPU: c->proc
    phase,             \* per CPU: see Phase
    cursor,            \* per CPU: next slot the scheduler's scan looks at
    ticking            \* the boot CPU is in the timer handler, with tickslock

procvars == <<state, pid, parent, chan, killed, nextpid>>
cpuvars  == <<running, phase, cursor>>
ptvars   == <<procvars, pc, np, rem, ptlock, tklock, cpuvars, ticking>>

-----------------------------------------------------------------------------
\* CPU c executes process p and holds none of the locks of this module.
On(c, p) ==
    /\ running[c] = p
    /\ phase[c] = "run"
    /\ ~(ticking /\ c = Boot)

\* p is in user space and enters the kernel with a system call; trap()
\* sends a killed process to exit() instead.
SysCall(c, p) == On(c, p) /\ pc[p] = "user" /\ ~killed[p]

Goto(p, l) == pc' = [pc EXCEPT ![p] = l]

\* The slots st with every process sleeping on ch made runnable: wakeup1.
Wakeup1(st, ch) ==
    [q \in Proc |-> IF st[q] = "SLEEPING" /\ chan[q] = ch
                    THEN "RUNNABLE" ELSE st[q]]

\* Mutant: ptable.lock is released before swtch().
SchedUnlocked(c) ==
    /\ ptlock' = NoCPU
    /\ phase' = [phase EXCEPT ![c] = "swtch"]
    /\ UNCHANGED <<running, cursor>>

\* The process running on c calls sched() while it holds ptable.lock.
Sched(c) ==
    /\ ptlock' = c
    /\ phase' = [phase EXCEPT ![c] = "swtch"]
    /\ UNCHANGED <<running, cursor>>

\* The process running on c ends its critical section and keeps the CPU.
Release(c) ==
    /\ ptlock' = NoCPU
    /\ phase' = [phase EXCEPT ![c] = "run"]
    /\ UNCHANGED <<running, cursor>>

\* swtch() has reached the scheduler: it forgets the process and, still
\* holding ptable.lock, goes on with the next slot.
SchedReturn(c) ==
    /\ phase[c] = "swtch"
    /\ running' = [running EXCEPT ![c] = Null]
    /\ phase' = [phase EXCEPT ![c] = "scan"]
    /\ UNCHANGED <<procvars, pc, np, rem, ptlock, tklock, cursor, ticking>>

-----------------------------------------------------------------------------
(* Coming back from swtch.                                                 *)

\* forkret(), which starts the process in user space, and the tail of
\* yield(), after which trap() sends a killed process to exit() unless the
\* timer had interrupted it inside the kernel.  (exit() panics when init is
\* killed: here a killed init makes no further system call.)
ResumeRelease(c, p) ==
    /\ running[c] = p /\ phase[c] = "resume"
    /\ pc[p] \notin {"wait", "slept"}
    /\ Release(c)
    /\ Goto(p, CASE pc[p] = "forkret" -> "user"
                 [] pc[p] = "user" /\ killed[p] /\ p # InitProc -> "exit"
                 [] OTHER -> pc[p])
    /\ UNCHANGED <<procvars, np, rem, tklock, ticking>>

\* The tail of sleep(&ticks, &tickslock): tidy up, release ptable.lock and
\* go for tickslock again.
ResumeSleep(c, p) ==
    /\ running[c] = p /\ phase[c] = "resume"
    /\ pc[p] = "slept"
    /\ chan' = [chan EXCEPT ![p] = Null]
    /\ Release(c)
    /\ Goto(p, "reacq")
    /\ UNCHANGED <<state, pid, parent, killed, nextpid, np, rem, tklock, ticking>>

\* yield(), at the end of a timer trap: the boot CPU has counted the tick
\* first.  The process may have been killed since trap() looked at the flag.
Yield(c, p) ==
    /\ running[c] = p
    /\ phase[c] = IF c = Boot THEN "preempt" ELSE "run"
    /\ tklock # c
    /\ ptlock = NoCPU
    /\ state' = [state EXCEPT ![p] = "RUNNABLE"]
    /\ Sched(c)
    /\ UNCHANGED <<pid, parent, chan, killed, nextpid, pc, np, rem, tklock, ticking>>

-----------------------------------------------------------------------------
(* exit and wait.                                                          *)

\* exit() up to acquire(&ptable.lock): the files are closed.  Called by the
\* process itself or by trap() because the process was killed.
ExitStart(c, p) ==
    /\ running[c] = p
    /\ phase[c] \in {"run", "preempt"}
    /\ phase[c] = "preempt" => killed[p]
    /\ ~(ticking /\ c = Boot)
    /\ pc[p] = "user"
    /\ p # InitProc
    /\ Goto(p, "exit")
    /\ phase' = [phase EXCEPT ![c] = "run"]
    /\ UNCHANGED <<procvars, np, rem, ptlock, tklock, running, cursor, ticking>>

\* Mutant: exit() does not wake the parent.
ExitStatesNoParentWakeup(p) ==
    LET st == IF \E q \in Proc : parent[q] = p /\ state[q] = "ZOMBIE"
              THEN Wakeup1(state, InitProc) ELSE state
    IN  [st EXCEPT ![p] = "ZOMBIE"]

\* The states after exit() woke the parent, handed the children of p to
\* init - waking init if one of them is a zombie - and made p a zombie.
ExitStates(p) ==
    LET st1 == Wakeup1(state, parent[p])
        st2 == IF \E q \in Proc : parent[q] = p /\ state[q] = "ZOMBIE"
               THEN Wakeup1(st1, InitProc) ELSE st1
    IN  [st2 EXCEPT ![p] = "ZOMBIE"]

\* Mutant: the children keep their dead parent.
ExitCommitNoReparent(c, p) ==
    /\ On(c, p) /\ pc[p] = "exit"
    /\ ptlock = NoCPU
    /\ state' = ExitStates(p)
    /\ Sched(c)
    /\ UNCHANGED <<pid, parent, chan, killed, nextpid, pc, np, rem, tklock, ticking>>

\* The rest of exit(), which ends in sched() and never returns.
ExitCommit(c, p) ==
    /\ On(c, p) /\ pc[p] = "exit"
    /\ ptlock = NoCPU
    /\ state' = ExitStates(p)
    /\ parent' = [q \in Proc |-> IF parent[q] = p THEN InitProc ELSE parent[q]]
    /\ Sched(c)
    /\ UNCHANGED <<pid, chan, killed, nextpid, pc, np, rem, tklock, ticking>>

Children(p) == {q \in Proc : parent[q] = p}
Zombies(p)  == {q \in Children(p) : state[q] = "ZOMBIE"}

\* p is in the loop of wait() and holds ptable.lock: it has just called
\* wait(), or sleep() has returned inside it.
InWait(c, p) ==
    \/ SysCall(c, p) /\ ptlock = NoCPU
    \/ running[c] = p /\ phase[c] = "resume" /\ pc[p] = "wait"

\* wait() frees the first zombie child in the table and returns.
WaitReap(c, p, z) ==
    /\ InWait(c, p)
    /\ z \in Zombies(p) /\ \A y \in Zombies(p) : z <= y
    /\ state' = [state EXCEPT ![z] = "UNUSED"]
    /\ pid' = [pid EXCEPT ![z] = 0]
    /\ parent' = [parent EXCEPT ![z] = Null]
    /\ killed' = [killed EXCEPT ![z] = FALSE]
    /\ chan' = [chan EXCEPT ![p] = Null]
    /\ Goto(p, "user")
    /\ Release(c)
    /\ UNCHANGED <<nextpid, np, rem, tklock, ticking>>

\* wait() gives up: no children, or the caller was killed.
WaitFail(c, p) ==
    /\ InWait(c, p)
    /\ Zombies(p) = {}
    /\ Children(p) = {} \/ killed[p]
    /\ chan' = [chan EXCEPT ![p] = Null]
    /\ Goto(p, "user")
    /\ Release(c)
    /\ UNCHANGED <<state, pid, parent, killed, nextpid, np, rem, tklock, ticking>>

\* wait() sleeps on the process itself; ptable.lock is the lock of sleep.
WaitSleep(c, p) ==
    /\ InWait(c, p)
    /\ Zombies(p) = {}
    /\ Children(p) # {} /\ ~killed[p]
    /\ chan' = [chan EXCEPT ![p] = p]
    /\ state' = [state EXCEPT ![p] = "SLEEPING"]
    /\ Goto(p, "wait")
    /\ Sched(c)
    /\ UNCHANGED <<pid, parent, killed, nextpid, np, rem, tklock, ticking>>

\* Mutant: kill() leaves a sleeping process asleep.
KillNoWakeup(c, p, k, q) ==
    /\ SysCall(c, p) /\ ptlock = NoCPU
    /\ pid[q] = k /\ \A r \in Proc : pid[r] = k => q <= r
    /\ killed' = [killed EXCEPT ![q] = TRUE]
    /\ UNCHANGED <<state, pid, parent, chan, nextpid, pc, np, rem, ptlock, tklock,
                   cpuvars, ticking>>

\* kill(k): the first slot whose pid is k is marked, and made runnable if it
\* sleeps.
Kill(c, p, k, q) ==
    /\ SysCall(c, p) /\ ptlock = NoCPU
    /\ pid[q] = k /\ \A r \in Proc : pid[r] = k => q <= r
    /\ killed' = [killed EXCEPT ![q] = TRUE]
    /\ state' = [state EXCEPT ![q] = IF @ = "SLEEPING" THEN "RUNNABLE" ELSE @]
    /\ UNCHANGED <<pid, parent, chan, nextpid, pc, np, rem, ptlock, tklock,
                   cpuvars, ticking>>

-----------------------------------------------------------------------------
(* sys_sleep and the timer: sleep() with a lock other than ptable.lock.    *)

\* Mutant: tickslock is released between the test and sleep().
SleepTestUnlocked(c, p, r) ==
    /\ tklock' = NoCPU
    /\ Goto(p, IF r = 0 \/ killed[p] THEN "user" ELSE "ticks")

\* The test of sys_sleep's loop, with tickslock held by c: the time is up or
\* the process was killed (return), or it must call sleep().
SleepTest(c, p, r) ==
    \/ /\ r = 0 \/ killed[p]
       /\ tklock' = NoCPU
       /\ Goto(p, "user")
    \/ /\ r > 0 /\ ~killed[p]
       /\ tklock' = c
       /\ Goto(p, "ticks")

\* sys_sleep(n) takes tickslock and looks at the clock for the first time.
SysSleep(c, p, n) ==
    /\ SysCall(c, p) /\ tklock = NoCPU
    /\ rem' = [rem EXCEPT ![p] = n]
    /\ SleepTest(c, p, n)
    /\ UNCHANGED <<procvars, np, ptlock, cpuvars, ticking>>

\* sleep() takes ptable.lock, only then releases tickslock, and calls sched.
SleepCommit(c, p) ==
    /\ On(c, p) /\ pc[p] = "ticks"
    /\ ptlock = NoCPU
    /\ tklock' = NoCPU
    /\ chan' = [chan EXCEPT ![p] = TickChan]
    /\ state' = [state EXCEPT ![p] = "SLEEPING"]
    /\ Goto(p, "slept")
    /\ Sched(c)
    /\ UNCHANGED <<pid, parent, killed, nextpid, np, rem, ticking>>

\* Back from sleep(): sys_sleep holds tickslock again and repeats its test.
SleepAgain(c, p) ==
    /\ On(c, p) /\ pc[p] = "reacq" /\ tklock = NoCPU
    /\ SleepTest(c, p, rem[p])
    /\ UNCHANGED <<procvars, np, rem, ptlock, cpuvars, ticking>>

\* The timer interrupts the boot CPU while it holds no lock: it takes
\* tickslock and counts the tick.
TickStart ==
    /\ phase[Boot] \in {"sched", "pick", "run"} /\ ~ticking
    /\ tklock = NoCPU
    /\ tklock' = Boot
    /\ ticking' = TRUE
    /\ rem' = [p \in Proc |-> IF rem[p] > 0 THEN rem[p] - 1 ELSE 0]
    /\ UNCHANGED <<procvars, pc, np, ptlock, cpuvars>>

\* wakeup(&ticks), release of tickslock; an interrupted process yields next.
TickWake ==
    /\ ticking /\ ptlock = NoCPU
    /\ state' = Wakeup1(state, TickChan)
    /\ tklock' = NoCPU
    /\ ticking' = FALSE
    /\ phase' = [phase EXCEPT ![Boot] = IF @ = "run" THEN "preempt" ELSE @]
    /\ UNCHANGED <<pid, parent, chan, killed, nextpid, pc, np, rem, ptlock,
                   running, cursor>>

-----------------------------------------------------------------------------
\* allocproc() under ptable.lock: the first unused slot becomes an embryo
\* with the next pid, set up to start in forkret.
AllocSlot(c, p, n) ==
    /\ ptlock = NoCPU
    /\ nextpid <= MaxPid
    /\ state[n] = "UNUSED" /\ \A q \in Proc : state[q] = "UNUSED" => n <= q
    /\ state' = [state EXCEPT ![n] = "EMBRYO"]
    /\ pid' = [pid EXCEPT ![n] = nextpid]
    /\ nextpid' = nextpid + 1
    /\ np' = [np EXCEPT ![p] = n]
    /\ pc' = [pc EXCEPT ![p] = "alloc", ![n] = "forkret"]
    /\ UNCHANGED <<parent, chan, killed, rem, ptlock, tklock, cpuvars, ticking>>

\* A step that fails after allocproc: the slot is given back without taking
\* ptable.lock, with its pid and its killed flag left as they are.
DropSlot(p) ==
    /\ state' = [state EXCEPT ![np[p]] = "UNUSED"]
    /\ np' = [np EXCEPT ![p] = Null]
    /\ Goto(p, "user")
    /\ UNCHANGED <<pid, parent, chan, killed, nextpid, rem, ptlock, tklock,
                   cpuvars, ticking>>

\* fork() fills in the child, still without ptable.lock.
FillSlot(p) ==
    /\ parent' = [parent EXCEPT ![np[p]] = p]
    /\ Goto(p, "filled")
    /\ UNCHANGED <<state, pid, chan, killed, nextpid, np, rem, ptlock, tklock,
                   cpuvars, ticking>>

\* fork() makes the child runnable under ptable.lock.
ReadySlot(p, l) ==
    /\ ptlock = NoCPU
    /\ state' = [state EXCEPT ![np[p]] = "RUNNABLE"]
    /\ np' = [np EXCEPT ![p] = Null]
    /\ Goto(p, l)
    /\ UNCHANGED <<pid, parent, chan, killed, nextpid, rem, ptlock, tklock,
                   cpuvars, ticking>>

-----------------------------------------------------------------------------
\* userinit() has made process 1 runnable; every CPU has entered scheduler().
PtInit ==
    /\ state = [p \in Proc |-> IF p = InitProc THEN "RUNNABLE" ELSE "UNUSED"]
    /\ pid = [p \in Proc |-> IF p = InitProc THEN 1 ELSE 0]
    /\ parent = [p \in Proc |-> Null]
    /\ chan = [p \in Proc |-> Null]
    /\ killed = [p \in Proc |-> FALSE]
    /\ nextpid = 2
    /\ pc = [p \in Proc |-> "forkret"]
    /\ np = [p \in Proc |-> Null]
    /\ rem = [p \in Proc |-> 0]
    /\ ptlock = NoCPU /\ tklock = NoCPU
    /\ running = [c \in CPU |-> Null]
    /\ phase = [c \in CPU |-> "sched"]
    /\ cursor = [c \in CPU |-> 1]
    /\ ticking = FALSE

\* The steps of process p on CPU c that both kernels have.
ProcStep(c, p) ==
    \/ ResumeRelease(c, p)
    \/ ResumeSleep(c, p)
    \/ Yield(c, p)
    \/ ExitStart(c, p)
    \/ ExitCommit(c, p)
    \/ WaitFail(c, p)
    \/ WaitSleep(c, p)
    \/ \E k \in KillArgs, q \in Proc : Kill(c, p, k, q)
    \/ \E n \in 0..MaxSleep : SysSleep(c, p, n)
    \/ SleepCommit(c, p)
    \/ SleepAgain(c, p)

-----------------------------------------------------------------------------
\* The variables of this module have the types of the code.
PtTypeOK ==
    /\ state \in [Proc -> ProcState]
    /\ pid \in [Proc -> Nat]
    /\ parent \in [Proc -> Proc \cup {Null}]
    /\ chan \in [Proc -> Proc \cup {Null, TickChan}]
    /\ killed \in [Proc -> BOOLEAN]
    /\ nextpid \in Nat
    /\ pc \in [Proc -> PC]
    /\ np \in [Proc -> Proc \cup {Null}]
    /\ rem \in [Proc -> 0..MaxSleep]
    /\ ptlock \in CPU \cup {NoCPU}
    /\ tklock \in CPU \cup {NoCPU}
    /\ running \in [CPU -> Proc \cup {Null}]
    /\ phase \in [CPU -> Phase]
    /\ cursor \in [CPU -> 1..(NPROC + 1)]
    /\ ticking \in BOOLEAN

\* A process that sleeps in wait() has no zombie child: no exit is missed,
\* whichever process dies and whoever inherits its children (proc.c: exit,
\* wait, sleep, wakeup1).
NoLostExit ==
    \A p \in Proc : state[p] = "SLEEPING" /\ chan[p] = p => Zombies(p) = {}

\* A process that sleeps on &ticks has time left, unless the timer handler
\* is about to wake it: no tick falls between the test of sys_sleep and the
\* moment sleep() marks the process.
NoLostTick ==
    \A p \in Proc : state[p] = "SLEEPING" /\ chan[p] = TickChan =>
                       rem[p] > 0 \/ ticking

\* A process is on one CPU exactly when it is RUNNING, except between the
\* change of its state and swtch(), when ptable.lock is held; the stack a CPU
\* stands on always belongs to a live process.
CpuAgreement ==
    /\ \A c \in CPU : running[c] # Null =>
          /\ \A d \in CPU : running[d] = running[c] => d = c
          /\ IF phase[c] = "swtch"
             THEN state[running[c]] \notin {"UNUSED", "EMBRYO", "RUNNING"}
             ELSE state[running[c]] = "RUNNING"
    /\ \A p \in Proc : state[p] = "RUNNING" => \E c \in CPU : running[c] = p

\* Every process but init has a parent that has not exited: exit() leaves no
\* child behind and nobody adopts a child without living.
NoOrphan ==
    \A p \in Proc :
       p # InitProc /\ state[p] \notin {"UNUSED", "EMBRYO"} =>
          /\ parent[p] # Null
          /\ state[parent[p]] \notin {"UNUSED", "EMBRYO", "ZOMBIE"}
=============================================================================
