------------------------------ MODULE SpinLock ------------------------------
(***************************************************************************)
(* Spin locks and interrupts (spinlock.c): acquire() turns interrupts off  *)
(* with pushcli(), release() turns them on again with popcli() if that was *)
(* the outermost lock and they were on before.  The count ncli and the     *)
(* flag intena belong to the processor, but a kernel thread may go to      *)
(* sleep with a lock on one processor and come back on another, so that    *)
(* sched() carries intena over.                                            *)
(*                                                                         *)
(* A context, a kernel thread or the scheduler of a processor, has a list  *)
(* of the lock operations that it has still to do; an interrupt puts those *)
(* of its handler in front.                                                *)
(***************************************************************************)
EXTENDS Naturals, Sequences, FiniteSets

CONSTANTS CPU, NoCpu,  \* processors, and the holder of a free lock
          Kthread      \* kernel threads

ASSUME SpinAssumption == CPU \cap Kthread = {} /\ NoCpu \notin CPU

\* ptable.lock, and a lock that handlers and system calls share: tickslock,
\* cons.lock or idelock.
Lock == {"ptable", "device"}

Acq(l) == [op |-> "acquire", lock |-> l]    \* acquire(), up to pushcli()
Spin(l) == [op |-> "spin", lock |-> l]      \* its loop
Rel(l) == [op |-> "release", lock |-> l]    \* release(), up to popcli()
Do(s) == [op |-> s, lock |-> "ptable"]      \* "popcli", "sched", "resume", ...

\* wakeup() under the lock that protects the condition.
WakeupCall == <<Acq("device"), Acq("ptable"), Rel("ptable"), Rel("device")>>

\* What system calls do: wakeup(), and sleep() with its caller's lock.
SystemCalls == {
    WakeupCall,
    <<Acq("device"), Acq("ptable"), Rel("device"), Do("sched"), Rel("ptable"),
      Acq("device"), Rel("device")>>}

\* trap(): every handler of a device ends in wakeup(), and the timer makes a
\* thread yield().
Handler == WakeupCall \o <<Do("iret")>>
TimerHandler == <<Acq("ptable"), Do("sched"), Rel("ptable"), Do("iret")>>

\* A new thread starts in forkret() and goes on to the iret of trapret.
Forkret == <<Rel("ptable"), Do("trapret")>>

\* One turn of scheduler(); "loop" is its loop over the process table.
SchedulerTurn == <<Do("sti"), Acq("ptable"), Do("loop"), Rel("ptable")>>

VARIABLES
    holder,       \* per lock
    eflags,       \* per processor: the flag FL_IF
    ncli, intena, \* per processor
    cur,          \* per processor: the context that runs
    todo,         \* per context
    saved,        \* per thread: the variable intena of sched()
    stuck         \* the kernel has panicked

spinvars == <<holder, eflags, ncli, intena, cur, todo, saved, stuck>>

SpinInit ==
    /\ holder = [l \in Lock |-> NoCpu]
    /\ eflags = [c \in CPU |-> FALSE]
    /\ ncli = [c \in CPU |-> 0] /\ intena = [c \in CPU |-> FALSE]
    /\ cur = [c \in CPU |-> c]
    /\ todo = [x \in CPU \cup Kthread |-> IF x \in CPU THEN SchedulerTurn ELSE Forkret]
    /\ saved = [t \in Kthread |-> FALSE]
    /\ stuck = FALSE

\* The context of c is about to do op; it has done so.
AtOp(c, op) ==
    ~stuck /\ todo[cur[c]] # <<>> /\ Head(todo[cur[c]]).op = op
TheLock(c) == Head(todo[cur[c]]).lock
Did(c) == todo' = [todo EXCEPT ![cur[c]] = Tail(@)]
Then(c, s) == todo' = [todo EXCEPT ![cur[c]] = <<s>> \o Tail(@)]
PanicUnless(ok) == stuck' = ~ok

-----------------------------------------------------------------------------
\* Mutant: the flag is taken at every level.
pushcliEach(c) ==
    /\ eflags' = [eflags EXCEPT ![c] = FALSE]
    /\ intena' = [intena EXCEPT ![c] = eflags[c]]
    /\ ncli' = [ncli EXCEPT ![c] = @ + 1]

pushcli(c) ==
    /\ eflags' = [eflags EXCEPT ![c] = FALSE]
    /\ intena' = [intena EXCEPT ![c] = IF ncli[c] = 0 THEN eflags[c] ELSE @]
    /\ ncli' = [ncli EXCEPT ![c] = @ + 1]

Acquire(c) ==
    /\ AtOp(c, "acquire")
    /\ pushcli(c)
    /\ PanicUnless(holder[TheLock(c)] # c)
    /\ Then(c, Spin(TheLock(c)))
    /\ UNCHANGED <<holder, cur, saved>>

\* xchg() has found the lock free.
Xchg(c) ==
    /\ AtOp(c, "spin") /\ holder[TheLock(c)] = NoCpu
    /\ holder' = [holder EXCEPT ![TheLock(c)] = c]
    /\ Did(c)
    /\ UNCHANGED <<eflags, ncli, intena, cur, saved, stuck>>

Release(c) ==
    /\ AtOp(c, "release")
    /\ PanicUnless(holder[TheLock(c)] = c)
    /\ holder' = [holder EXCEPT ![TheLock(c)] = NoCpu]
    /\ Then(c, Do("popcli"))
    /\ UNCHANGED <<eflags, ncli, intena, cur, saved>>

popcli(c) ==
    /\ AtOp(c, "popcli")
    /\ PanicUnless(~eflags[c] /\ ncli[c] > 0)
    /\ ncli' = [ncli EXCEPT ![c] = @ - 1]
    /\ eflags' = [eflags EXCEPT ![c] = ncli[c] = 1 /\ intena[c]]
    /\ Did(c)
    /\ UNCHANGED <<holder, intena, cur, saved>>

-----------------------------------------------------------------------------
\* sched(), up to swtch(), which leads into the loop of scheduler().
Sched(c) ==
    LET t == cur[c] IN
    /\ AtOp(c, "sched")
    /\ PanicUnless(holder["ptable"] = c /\ ncli[c] = 1 /\ ~eflags[c])
    /\ saved' = [saved EXCEPT ![t] = intena[c]]
    /\ Then(c, Do("resume"))
    /\ cur' = [cur EXCEPT ![c] = c]
    /\ UNCHANGED <<holder, eflags, ncli, intena>>

\* sched(), after swtch(), on whatever processor.
Resume(c) ==
    /\ AtOp(c, "resume")
    /\ intena' = [intena EXCEPT ![c] = saved[cur[c]]]
    /\ Did(c)
    /\ UNCHANGED <<holder, eflags, ncli, cur, saved, stuck>>

\* scheduler() switches to a thread that is in sched() or new.
Ready(t) == todo[t] # <<>> /\ (Head(todo[t]).op = "resume" \/ todo[t] = Forkret)

Dispatch(c, t) ==
    /\ AtOp(c, "loop")
    /\ Ready(t) /\ \A d \in CPU : cur[d] # t
    /\ cur' = [cur EXCEPT ![c] = t]
    /\ UNCHANGED <<holder, eflags, ncli, intena, todo, saved, stuck>>

LoopEnds(c) ==
    /\ AtOp(c, "loop")
    /\ Did(c)
    /\ UNCHANGED <<holder, eflags, ncli, intena, cur, saved, stuck>>

\* for(;;): the next turn, which begins with sti().
Turn(c) ==
    /\ ~stuck /\ cur[c] = c /\ todo[c] = <<>>
    /\ todo' = [todo EXCEPT ![c] = SchedulerTurn]
    /\ UNCHANGED <<holder, eflags, ncli, intena, cur, saved, stuck>>

\* sti() of scheduler(), and iret: whoever was interrupted had them on, and so
\* has a new process (userinit, fork).
Enable(c) ==
    /\ \E op \in {"sti", "iret", "trapret"} : AtOp(c, op)
    /\ eflags' = [eflags EXCEPT ![c] = TRUE]
    /\ Did(c)
    /\ UNCHANGED <<holder, ncli, intena, cur, saved, stuck>>

-----------------------------------------------------------------------------
\* A program makes a system call: the gate leaves interrupts on (tvinit).
Syscall(c) ==
    /\ ~stuck /\ cur[c] \in Kthread /\ todo[cur[c]] = <<>>
    /\ \E s \in SystemCalls : todo' = [todo EXCEPT ![cur[c]] = s]
    /\ UNCHANGED <<holder, eflags, ncli, intena, cur, saved, stuck>>

\* An interrupt: the gate turns further ones off.  The timer makes a thread
\* yield, wherever it was.
Interrupt(c) ==
    /\ ~stuck /\ eflags[c]
    /\ \E h \in {Handler} \cup (IF cur[c] \in Kthread THEN {TimerHandler} ELSE {}) :
          todo' = [todo EXCEPT ![cur[c]] = h \o @]
    /\ eflags' = [eflags EXCEPT ![c] = FALSE]
    /\ UNCHANGED <<holder, ncli, intena, cur, saved, stuck>>

-----------------------------------------------------------------------------
LockStep(c) == Acquire(c) \/ Xchg(c) \/ Release(c) \/ popcli(c)

SwitchStep(c) ==
    \/ Sched(c) \/ Resume(c) \/ LoopEnds(c) \/ Turn(c) \/ Enable(c)
    \/ \E t \in Kthread : Dispatch(c, t)

SpinNext == \E c \in CPU : LockStep(c) \/ SwitchStep(c) \/ Syscall(c) \/ Interrupt(c)

SpinSpec == SpinInit /\ [][SpinNext]_spinvars

-----------------------------------------------------------------------------
Has(x, op) == \E k \in DOMAIN todo[x] : todo[x][k].op = op
InHandler(x) == Has(x, "iret")

\* The locks of c, and an acquire() or a release() that is half done.
Depth(c) ==
    Cardinality({l \in Lock : holder[l] = c})
    + IF todo[cur[c]] # <<>> /\ Head(todo[cur[c]]).op \in {"spin", "popcli"} THEN 1 ELSE 0

\* "pushcli/popcli are matched" (spinlock.c) and "intena is a property of this
\* kernel thread, not this CPU" (sched): whatever sleeps, wakes on another
\* processor and is interrupted on the way, ncli counts the locks of the
\* processor, interrupts are off with a lock and in a handler, so that no
\* handler spins on a lock of its own processor, and on in a thread that holds
\* none, so that nobody computes with the clock turned off, except on the way
\* from forkret() to the program; nothing panics.
InterruptsExact ==
    /\ ~stuck
    /\ \A c \in CPU :
          /\ ncli[c] = Depth(c)
          /\ ncli[c] > 0 \/ InHandler(cur[c]) => ~eflags[c]
          /\ ncli[c] = 0 /\ cur[c] \in Kthread => eflags[c] \/ InHandler(cur[c])
                                                        \/ Has(cur[c], "trapret")
=============================================================================
