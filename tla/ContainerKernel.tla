-------------------------- MODULE ContainerKernel --------------------------
(***************************************************************************)
(* The kernel of the directory xv6-structured: the process table with      *)
(* containers.  Container 0 is the host.  A process of another container   *)
(* runs only while the container's table lists it, and its kernel stack    *)
(* comes from the pages the container got when it was created.             *)
(*                                                                         *)
(* Every critical section under ctable.lock is one action.  containerNum   *)
(* and allocFor are globals that the code reads and writes without a lock: *)
(* each such access is a step of its own.                                  *)
(***************************************************************************)
EXTENDS ProcTable, Integers

CONSTANTS NCONT,          \* entries of ctable.container
          PROCESS_COUNT,  \* processes that one entry can list
          MCONT           \* stack pages that one entry owns

ASSUME ContainerAssumption ==
    /\ NCONT \in Nat \ {0}
    /\ PROCESS_COUNT \in Nat \ {0}
    /\ MCONT \in Nat \ {0}

Container == 0..(NCONT - 1)
Host      == 0
Entry     == 1..PROCESS_COUNT
NoJoin    == NCONT            \* the thread forks, it joins no container

VARIABLES
    containerID,       \* per slot of ptable.proc
    stack,             \* per slot: kstack, <<container, index>>, <<Host, 0>>
                       \* for a page of kalloc() and <<>> for no stack
    containerNum,      \* containers created so far, the host included
    listed,            \* per container: process[], the slots it lists
    generated,         \* per container: generatedProcess
    pages,             \* per container: addContainer() has set startAddr[]
    used,              \* per container: pages handed out
    allocFor,          \* the container whose pages allocproc() takes
    joining,           \* per thread: argument of joinContainer(), or NoJoin
    cnt, curLocation, pick  \* per CPU: variables of scheduler()

threadvars == <<procvars, np, rem, ptlock, tklock, cpuvars, ticking>>
contvars  == <<containerID, stack, containerNum, listed, generated, pages,
               used, allocFor, joining>>
schedvars == <<cnt, curLocation, pick>>
vars      == <<ptvars, contvars, schedvars>>

-----------------------------------------------------------------------------
(* Creating a container.                                                   *)

\* addContainer() counts the container, without a lock and without a limit:
\* NCONT bounds the count in the model.  The increment is a load and a store:
\* while another call is in addContainer() one of the two may be lost.
CreateCount(c, p) ==
    /\ SysCall(c, p)
    /\ \/ containerNum < NCONT /\ containerNum' = containerNum + 1
       \/ (\E q \in Proc : pc[q] = "create") /\ UNCHANGED containerNum
    /\ Goto(p, "create")
    /\ UNCHANGED <<threadvars, schedvars, containerID, stack, listed, generated,
                   pages, used, allocFor, joining>>

\* ... and then sets up the entry that the count names now.
CreateSetup(c, p) ==
    /\ On(c, p) /\ pc[p] = "create"
    /\ generated' = [generated EXCEPT ![containerNum - 1] = 0]
    /\ pages' = [pages EXCEPT ![containerNum - 1] = TRUE]
    /\ Goto(p, "user")
    /\ UNCHANGED <<threadvars, schedvars, containerID, stack, containerNum, listed,
                   used, allocFor, joining>>

-----------------------------------------------------------------------------
(* fork() and joinContainer(), which is a fork into another container      *)
(* whose parent exits.                                                     *)

\* joinContainer(k) names the container for allocproc(); leave_container is
\* joinContainer(0).  Programs pass an id that create_container returned.
JoinStart(c, p, k) ==
    /\ SysCall(c, p) /\ p # InitProc
    /\ k < containerNum
    /\ allocFor' = k
    /\ joining' = [joining EXCEPT ![p] = k]
    /\ Goto(p, "join")
    /\ UNCHANGED <<threadvars, schedvars,
                   containerID, stack, containerNum, listed, generated, pages,
                   used>>

\* allocproc() takes a slot, for a fork or for a join.
ForkAlloc(c, p) ==
    /\ SysCall(c, p) \/ (On(c, p) /\ pc[p] = "join")
    /\ \E n \in Proc : AllocSlot(c, p, n)
    /\ UNCHANGED <<schedvars, contvars>>

\* joinContainer() returns an error.
JoinEnds(p) == joining' = [joining EXCEPT ![p] = NoJoin]

\* No free slot (or the bound on pids): joinContainer() returns, and allocFor
\* keeps its value.
JoinNoSlot(c, p) ==
    /\ On(c, p) /\ pc[p] = "join"
    /\ ptlock = NoCPU
    /\ (\A q \in Proc : state[q] # "UNUSED") \/ nextpid > MaxPid
    /\ JoinEnds(p)
    /\ Goto(p, "user")
    /\ UNCHANGED <<threadvars, schedvars, containerID, stack, containerNum, listed,
                   generated, pages, used, allocFor>>

(***************************************************************************)
(* allocproc() allocates the stack: with kalloc(), or with conalloc() from *)
(* the container that allocFor names at this moment.  conalloc() counts    *)
(* without a limit; beyond the last page it returns the word that follows  *)
(* the array, which is not 0.                                              *)
(***************************************************************************)
StackAlloc(c, p) ==
    /\ On(c, p) /\ pc[p] = "alloc"
    /\ \/ /\ allocFor = Host
          /\ stack' = [stack EXCEPT ![np[p]] = <<Host, 0>>]
          /\ UNCHANGED used
       \/ /\ allocFor # Host
          /\ pages[allocFor] \/ used[allocFor] >= MCONT
          /\ stack' = [stack EXCEPT ![np[p]] = <<allocFor, used[allocFor] + 1>>]
          /\ used' = [used EXCEPT ![allocFor] = @ + 1]
    /\ Goto(p, "stack")
    /\ UNCHANGED <<threadvars, schedvars, containerID, containerNum, listed,
                   generated, pages, allocFor, joining>>

\* kalloc() fails now, or it failed in addContainer() and conalloc() finds no
\* page: allocproc() and its caller return, and allocFor keeps its value.
StackFail(c, p) ==
    /\ On(c, p) /\ pc[p] = "alloc"
    /\ \/ allocFor = Host /\ UNCHANGED used
       \/ /\ allocFor # Host /\ used[allocFor] < MCONT
          /\ used' = [used EXCEPT ![allocFor] = @ + 1]
    /\ DropSlot(p)
    /\ JoinEnds(p)
    /\ UNCHANGED <<schedvars, containerID, stack, containerNum, listed, generated,
                   pages, allocFor>>

\* The container that the child belongs to, and the free entries of its list.
Target(p)    == IF joining[p] = NoJoin THEN containerID[p] ELSE joining[p]
FreeEntry(k) == {i \in Entry : listed[k][i] = Null}

\* joinContainer() resets allocFor once allocproc() has returned.
ResetAllocFor(p) ==
    allocFor' = IF joining[p] = NoJoin THEN allocFor ELSE Host

\* Mutant: only joinContainer() lists the child.
ForkListJoinOnly(c, p) ==
    /\ On(c, p) /\ pc[p] = "stack"
    /\ \/ joining[p] = NoJoin /\ UNCHANGED <<listed, generated>>
       \/ /\ joining[p] # NoJoin
          /\ \E i \in FreeEntry(Target(p)) :
                listed' = [listed EXCEPT ![Target(p)][i] = np[p]]
          /\ generated' = [generated EXCEPT ![Target(p)] = @ + 1]
    /\ ResetAllocFor(p)
    /\ Goto(p, "listed")
    /\ UNCHANGED <<threadvars, schedvars,
                   containerID, stack, containerNum, pages, used, joining>>

\* Mutant: the search does not look whether an entry is taken.
ForkListReuse(c, p) ==
    /\ On(c, p) /\ pc[p] = "stack"
    /\ \/ /\ joining[p] = NoJoin /\ containerID[p] = Host
          /\ UNCHANGED <<listed, generated>>
       \/ /\ joining[p] # NoJoin \/ containerID[p] # Host
          /\ listed' = [listed EXCEPT ![Target(p)][1] = np[p]]
          /\ generated' = [generated EXCEPT ![Target(p)] = @ + 1]
    /\ ResetAllocFor(p)
    /\ Goto(p, "listed")
    /\ UNCHANGED <<threadvars, schedvars,
                   containerID, stack, containerNum, pages, used, joining>>

\* The memory is copied and the child listed; a fork on the host lists nothing.
ForkList(c, p) ==
    /\ On(c, p) /\ pc[p] = "stack"
    /\ \/ /\ joining[p] = NoJoin /\ containerID[p] = Host
          /\ UNCHANGED <<listed, generated>>
       \/ /\ joining[p] # NoJoin \/ containerID[p] # Host
          /\ \E i \in FreeEntry(Target(p)) :
                /\ \A j \in FreeEntry(Target(p)) : i <= j
                /\ listed' = [listed EXCEPT ![Target(p)][i] = np[p]]
          /\ generated' = [generated EXCEPT ![Target(p)] = @ + 1]
    /\ ResetAllocFor(p)
    /\ Goto(p, "listed")
    /\ UNCHANGED <<threadvars, schedvars,
                   containerID, stack, containerNum, pages, used, joining>>

\* copyuvm() fails, or the list of the container is full: the stack is freed.
ForkFail(c, p) ==
    /\ On(c, p) /\ pc[p] = "stack"
    /\ stack' = [stack EXCEPT ![np[p]] = <<>>]
    /\ ResetAllocFor(p)
    /\ DropSlot(p)
    /\ JoinEnds(p)
    /\ UNCHANGED <<schedvars, containerID, containerNum, listed, generated, pages,
                   used>>

\* parent, containerID, files and name of the child are set.
ForkFill(c, p) ==
    /\ On(c, p) /\ pc[p] = "listed"
    /\ FillSlot(p)
    /\ containerID' = [containerID EXCEPT ![np[p]] = Target(p)]
    /\ UNCHANGED <<schedvars, stack, containerNum, listed, generated, pages, used,
                   allocFor, joining>>

\* The child becomes runnable; joinContainer() goes on to leave its container.
ForkReady(c, p) ==
    /\ On(c, p) /\ pc[p] = "filled"
    /\ ReadySlot(p, IF joining[p] = NoJoin THEN "user" ELSE "leave")
    /\ UNCHANGED <<schedvars, contvars>>

(***************************************************************************)
(* The caller of joinContainer() strikes itself off the list of its old    *)
(* container and calls exit().  The loop reads process[i]->pid also where  *)
(* process[i] is NULL: the word it finds there belongs to the user program *)
(* and may by chance be the pid, which strikes the empty entry.            *)
(***************************************************************************)
LeaveEntry(p, i) ==
    LET l == listed[containerID[p]]
    IN  /\ l[i] \in {p, Null}
        /\ \A j \in 1..(i - 1) : l[j] # p
        /\ listed' = [listed EXCEPT ![containerID[p]][i] = Null]
        /\ generated' = [generated EXCEPT ![containerID[p]] = @ - 1]

Leave(c, p) ==
    /\ On(c, p) /\ pc[p] = "leave"
    /\ \/ \E i \in Entry : LeaveEntry(p, i)
       \/ /\ \A i \in Entry : listed[containerID[p]][i] # p
          /\ UNCHANGED <<listed, generated>>
    /\ Goto(p, "exit")
    /\ UNCHANGED <<threadvars, schedvars,
                   containerID, stack, containerNum, pages, used, allocFor,
                   joining>>

\* Mutant: wait() gives the stack of a container's process back to the count.
ReapCountsBack(c, p, z) ==
    /\ WaitReap(c, p, z)
    /\ stack' = [stack EXCEPT ![z] = <<>>]
    /\ JoinEnds(z)
    /\ used' = IF containerID[z] = Host THEN used
               ELSE [used EXCEPT ![containerID[z]] = @ - 1]
    /\ UNCHANGED <<schedvars, containerID, containerNum, listed, generated, pages,
                   allocFor>>

\* wait() frees the kernel stack of the zombie; its containerID and the lists
\* of the containers stay as they are.
Reap(c, p, z) ==
    /\ WaitReap(c, p, z)
    /\ stack' = [stack EXCEPT ![z] = <<>>]
    /\ JoinEnds(z)
    /\ UNCHANGED <<schedvars, containerID, containerNum, listed, generated, pages,
                   used, allocFor>>

-----------------------------------------------------------------------------
(* The scheduler: one pass per container.                                  *)

\* The entries of k in the order in which a scan that starts at l meets them.
ScanOrder(l) == [j \in Entry |-> ((l + j - 1) % PROCESS_COUNT) + 1]

\* Mutant: every search starts at the same entry.
SchedPickFirst(c) ==
    /\ phase[c] = "sched" /\ ~(ticking /\ c = Boot)
    /\ LET k == cnt[c]
           order == ScanOrder(curLocation[c][k])
           hits == {j \in Entry : listed[k][order[j]] # Null}
       IN  \/ hits = {} /\ UNCHANGED pick
           \/ \E j \in hits :
                 /\ \A i \in hits : j <= i
                 /\ pick' = [pick EXCEPT ![c] = pid[listed[k][order[j]]]]
    /\ phase' = [phase EXCEPT ![c] = "pick"]
    /\ UNCHANGED <<procvars, pc, np, rem, ptlock, tklock, running, cursor, ticking,
                   contvars, cnt, curLocation>>

\* Under ctable.lock the pass remembers the pid of the next listed process.
SchedPick(c) ==
    /\ phase[c] = "sched" /\ ~(ticking /\ c = Boot)
    /\ LET k == cnt[c]
           order == ScanOrder(curLocation[c][k])
           hits == {j \in Entry : listed[k][order[j]] # Null}
       IN  \/ hits = {} /\ UNCHANGED <<pick, curLocation>>
           \/ \E j \in hits :
                 /\ \A i \in hits : j <= i
                 /\ pick' = [pick EXCEPT ![c] = pid[listed[k][order[j]]]]
                 /\ curLocation' = [curLocation EXCEPT ![c][k] = order[j]]
    /\ phase' = [phase EXCEPT ![c] = "pick"]
    /\ UNCHANGED <<procvars, pc, np, rem, ptlock, tklock, running, cursor, ticking,
                   contvars, cnt>>

SchedAcquire(c) ==
    /\ phase[c] = "pick" /\ ~(ticking /\ c = Boot)
    /\ ptlock = NoCPU
    /\ ptlock' = c
    /\ phase' = [phase EXCEPT ![c] = "scan"]
    /\ cursor' = [cursor EXCEPT ![c] = 1]
    /\ UNCHANGED <<procvars, pc, np, rem, tklock, running, ticking, contvars,
                   schedvars>>

\* A pass for the host runs every runnable process of the host, a pass for
\* another container the one that was picked.
Eligible(c, p) ==
    /\ pid[p] = pick[c] \/ cnt[c] = Host
    /\ containerID[p] = cnt[c]
    /\ state[p] = "RUNNABLE"

SchedDispatch(c, p) ==
    /\ phase[c] = "scan"
    /\ p >= cursor[c] /\ Eligible(c, p)
    /\ \A q \in cursor[c]..(p - 1) : ~Eligible(c, q)
    /\ running' = [running EXCEPT ![c] = p]
    /\ state' = [state EXCEPT ![p] = "RUNNING"]
    /\ phase' = [phase EXCEPT ![c] = "resume"]
    /\ cursor' = [cursor EXCEPT ![c] = p + 1]
    /\ UNCHANGED <<pid, parent, chan, killed, nextpid, pc, np, rem, ptlock, tklock,
                   ticking, contvars, schedvars>>

\* The pass is over: the next container, or the host again.
SchedRelease(c) ==
    /\ phase[c] = "scan"
    /\ \A q \in Proc : q >= cursor[c] => ~Eligible(c, q)
    /\ ptlock' = NoCPU
    /\ phase' = [phase EXCEPT ![c] = "sched"]
    /\ cnt' = [cnt EXCEPT ![c] = IF @ + 1 < containerNum THEN @ + 1 ELSE Host]
    /\ UNCHANGED <<procvars, pc, np, rem, tklock, running, cursor, ticking,
                   contvars, curLocation, pick>>

-----------------------------------------------------------------------------
Fork(c, p) ==
    \/ ForkAlloc(c, p) \/ StackAlloc(c, p) \/ StackFail(c, p)
    \/ ForkList(c, p) \/ ForkFail(c, p) \/ ForkFill(c, p) \/ ForkReady(c, p)

Join(c, p) ==
    \/ \E k \in Container : JoinStart(c, p, k)
    \/ JoinNoSlot(c, p) \/ Leave(c, p)

Scheduler(c) ==
    \/ SchedPick(c) \/ SchedAcquire(c) \/ SchedRelease(c)
    \/ SchedReturn(c) /\ UNCHANGED <<contvars, schedvars>>
    \/ \E p \in Proc : SchedDispatch(c, p)

\* userinit() lists init in container 0 and clears the container table.
Init ==
    /\ PtInit
    /\ containerID = [p \in Proc |-> Host]
    /\ stack = [p \in Proc |-> IF p = InitProc THEN <<Host, 0>> ELSE <<>>]
    /\ containerNum = 1
    /\ listed = [k \in Container |->
                   [i \in Entry |-> IF k = Host /\ i = 1 THEN InitProc ELSE Null]]
    /\ generated = [k \in Container |-> IF k = Host THEN 1 ELSE 0]
    /\ pages = [k \in Container |-> FALSE]
    /\ used = [k \in Container |-> 0]
    /\ allocFor = Host
    /\ joining = [p \in Proc |-> NoJoin]
    /\ cnt = [c \in CPU |-> Host]
    /\ curLocation = [c \in CPU |-> [k \in Container |-> 0]]
    /\ pick = [c \in CPU |-> -1]

Next ==
    \/ \E c \in CPU : Scheduler(c)
    \/ \E c \in CPU, p \in Proc :
          \/ ProcStep(c, p) /\ UNCHANGED <<contvars, schedvars>>
          \/ CreateCount(c, p) \/ CreateSetup(c, p)
          \/ Fork(c, p) \/ Join(c, p)
          \/ \E z \in Proc : Reap(c, p, z)
    \/ TickStart /\ UNCHANGED <<contvars, schedvars>>
    \/ TickWake /\ UNCHANGED <<contvars, schedvars>>

Spec == Init /\ [][Next]_vars

-----------------------------------------------------------------------------
Wait(c, p) ==
    \/ (WaitFail(c, p) \/ WaitSleep(c, p)) /\ UNCHANGED <<contvars, schedvars>>
    \/ \E z \in Proc : Reap(c, p, z)

\* A kernel thread that has left user space goes on with what it is doing.
KernelStep(c, p) ==
    \/ CreateSetup(c, p)
    \/ pc[p] # "user" /\ Fork(c, p)
    \/ JoinNoSlot(c, p) \/ Leave(c, p)
    \/ /\ ExitCommit(c, p) \/ SleepCommit(c, p) \/ SleepAgain(c, p)
       /\ UNCHANGED <<contvars, schedvars>>

Resume(c, p) ==
    \/ /\ ResumeRelease(c, p) \/ ResumeSleep(c, p)
       /\ UNCHANGED <<contvars, schedvars>>
    \/ phase[c] = "resume" /\ Wait(c, p)

\* The fairness of BaseKernel; what follows needs no assumption on init.
Fairness ==
    /\ \A c \in CPU :
          /\ SF_vars(Scheduler(c))
          /\ SF_vars(\E p \in Proc :
                       \/ Yield(c, p) /\ UNCHANGED <<contvars, schedvars>>
                       \/ Resume(c, p))
    /\ SF_vars((TickStart \/ TickWake) /\ UNCHANGED <<contvars, schedvars>>)
    /\ \A p \in Proc \ {InitProc} : SF_vars(\E c \in CPU : KernelStep(c, p))

FairSpec == Spec /\ Fairness

-----------------------------------------------------------------------------
TypeOK ==
    /\ PtTypeOK
    /\ containerID \in [Proc -> Container]
    /\ \A p \in Proc : stack[p] = <<>> \/ stack[p] \in Container \X Nat
    /\ containerNum \in 1..NCONT
    /\ listed \in [Container -> [Entry -> Proc \cup {Null}]]
    /\ generated \in [Container -> Int]
    /\ pages \in [Container -> BOOLEAN]
    /\ used \in [Container -> Nat]
    /\ allocFor \in Container
    /\ joining \in [Proc -> Container \cup {NoJoin}]
    /\ cnt \in [CPU -> Container]
    /\ curLocation \in [CPU -> [Container -> 0..PROCESS_COUNT]]
    /\ pick \in [CPU -> Nat \cup {-1}]

\* p is the old self of a process that has joined another container.
Leaving(p) == joining[p] # NoJoin /\ pc[p] = "exit"

\* A runnable process of a container is on its list, so that the scheduler
\* can find it, unless it is on its way out of joinContainer().
RunnableListed ==
    \A p \in Proc :
       state[p] = "RUNNABLE" /\ containerID[p] # Host /\ ~Leaving(p) =>
          \E i \in Entry : listed[containerID[p]][i] = p

\* scheduler() runs every runnable process, unless it is on its way out of
\* joinContainer(): the passes over a list go past its stale entries and do not
\* stay with one of its live ones, and every container gets its pass.
ContainerRuns ==
    \A p \in Proc :
       state[p] = "RUNNABLE" /\ ~Leaving(p) ~> state[p] # "RUNNABLE"

\* "Lets kill parent process for this fork" (joinContainer): the process
\* that has left its container dies.
LeaverDies ==
    \A p \in Proc \ {InitProc} : Leaving(p) ~> state[p] = "ZOMBIE"

\* Every process of a container, a zombie too, has an entry of the list for
\* itself until it strikes itself off, so that "-FULL" of fork() and
\* joinContainer() bounds the container: stale entries of processes that are
\* gone only make the bound tighter.
Members(k) == {p \in Proc : /\ state[p] \notin {"UNUSED", "EMBRYO"}
                            /\ containerID[p] = k /\ ~Leaving(p)}
ContainerBound ==
    \A k \in Container \ {Host} :
       Cardinality(Members(k)) <= PROCESS_COUNT - Cardinality(FreeEntry(k))

\* No two processes stand on the same page of a container: conalloc() gives
\* out each of the MCONT pages once, over failed forks, overlapping creations
\* and stale values of allocFor.
NoSharedStack ==
    \A p, q \in Proc :
       p # q /\ stack[p] # <<>> /\ stack[p][2] \in 1..MCONT => stack[p] # stack[q]

\* "get memory from container" (allocproc): a process that runs on a page of
\* a container is in that container.  The stale allocFor refutes this (README,
\* "What the code does not guarantee"); no run relies on it.
StackOfOwner ==
    \A p \in Proc :
       state[p] \notin {"UNUSED", "EMBRYO"} =>
          stack[p][1] \in {Host, containerID[p]}
=============================================================================
