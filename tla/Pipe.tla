------------------------------- MODULE Pipe -------------------------------
(***************************************************************************)
(* A pipe (pipe.c): writers and readers that share a ring of PIPESIZE      *)
(* bytes under p->lock, sleep on &p->nwrite and &p->nread, and close their *)
(* ends.  sleep() releases p->lock after it has taken ptable.lock, kill()  *)
(* does not take p->lock at all.                                           *)
(***************************************************************************)
EXTENDS Naturals, Sequences, FiniteSets

CONSTANTS Reader, Writer,  \* processes with a file descriptor of an end
          Nobody,          \* holder of the free lock
          Byte,
          PIPESIZE,
          UMAX,            \* the counters are unsigned and wrap at UMAX
          MaxN             \* bound: largest argument of read and write

Thread == Reader \cup Writer

ASSUME PipeAssumption ==
    /\ Reader \cap Writer = {} /\ Nobody \notin Thread
    /\ Byte # {}
    /\ PIPESIZE \in Nat \ {0}
    /\ UMAX \in Nat /\ UMAX > PIPESIZE /\ UMAX % PIPESIZE = 0
    /\ MaxN \in Nat

VARIABLES
    data, nread, nwrite, readopen, writeopen,   \* struct pipe
    lock,      \* the thread that holds p->lock
    fd,        \* the threads that still have their end open
    pc,        \* per thread, see PC
    left,      \* per thread: bytes that pipewrite or piperead still moves
    killed     \* per thread

pipevars == <<data, nread, nwrite, readopen, writeopen>>
vars == <<pipevars, lock, fd, pc, left, killed>>

\* "loop" the while loop or the copy of pipewrite, "empty" the while loop of
\* piperead, "copy" its copy, "sleep" on the way into sleep(), "asleep" in it
\* and "awake" on the way out.
PC == {"idle", "loop", "empty", "copy", "sleep", "asleep", "awake"}

Goto(t, l) == pc' = [pc EXCEPT ![t] = l]

\* wakeup() of the channel on which the threads S sleep.
Wakeup(S) == [u \in Thread |-> IF u \in S /\ pc[u] = "asleep" THEN "awake" ELSE pc[u]]

IsEmpty == nread = nwrite
IsFull  == nwrite = (nread + PIPESIZE) % UMAX

-----------------------------------------------------------------------------
(* pipewrite.                                                              *)

WriteStart(t, n) ==
    /\ t \in Writer \cap fd /\ pc[t] = "idle" /\ ~killed[t]
    /\ lock = Nobody
    /\ lock' = t
    /\ left' = [left EXCEPT ![t] = n]
    /\ Goto(t, "loop")
    /\ UNCHANGED <<pipevars, fd, killed>>

\* Mutant: the test for a full pipe is made once per call.
WriteByteUnchecked(t, v) ==
    /\ t \in Writer /\ pc[t] = "loop" /\ left[t] > 0
    /\ ~IsFull \/ left[t] = 1
    /\ data' = [data EXCEPT ![nwrite % PIPESIZE] = v]
    /\ nwrite' = (nwrite + 1) % UMAX
    /\ left' = [left EXCEPT ![t] = @ - 1]
    /\ UNCHANGED <<nread, readopen, writeopen, lock, fd, pc, killed>>

\* A byte goes into the ring.
WriteByte(t, v) ==
    /\ t \in Writer /\ pc[t] = "loop" /\ left[t] > 0
    /\ ~IsFull
    /\ data' = [data EXCEPT ![nwrite % PIPESIZE] = v]
    /\ nwrite' = (nwrite + 1) % UMAX
    /\ left' = [left EXCEPT ![t] = @ - 1]
    /\ UNCHANGED <<nread, readopen, writeopen, lock, fd, pc, killed>>

\* The pipe is full: give up, or wake the readers and sleep.
WriteFail(t) ==
    /\ t \in Writer /\ pc[t] = "loop" /\ left[t] > 0 /\ IsFull
    /\ ~readopen \/ killed[t]
    /\ lock' = Nobody
    /\ Goto(t, "idle")
    /\ UNCHANGED <<pipevars, fd, left, killed>>

WriteWait(t) ==
    /\ t \in Writer /\ pc[t] = "loop" /\ left[t] > 0 /\ IsFull
    /\ readopen /\ ~killed[t]
    /\ pc' = [Wakeup(Reader) EXCEPT ![t] = "sleep"]
    /\ UNCHANGED <<pipevars, lock, fd, left, killed>>

\* Mutant: the readers are woken only when the pipe is full.
WriteDoneQuiet(t) ==
    /\ t \in Writer /\ pc[t] = "loop" /\ left[t] = 0
    /\ pc' = [pc EXCEPT ![t] = "idle"]
    /\ lock' = Nobody
    /\ UNCHANGED <<pipevars, fd, left, killed>>

WriteDone(t) ==
    /\ t \in Writer /\ pc[t] = "loop" /\ left[t] = 0
    /\ pc' = [Wakeup(Reader) EXCEPT ![t] = "idle"]
    /\ lock' = Nobody
    /\ UNCHANGED <<pipevars, fd, left, killed>>

-----------------------------------------------------------------------------
(* piperead.                                                               *)

ReadStart(t, n) ==
    /\ t \in Reader \cap fd /\ pc[t] = "idle" /\ ~killed[t]
    /\ lock = Nobody
    /\ lock' = t
    /\ left' = [left EXCEPT ![t] = n]
    /\ Goto(t, "empty")
    /\ UNCHANGED <<pipevars, fd, killed>>

\* The pipe is empty and may still be written: give up or sleep.
ReadFail(t) ==
    /\ t \in Reader /\ pc[t] = "empty" /\ IsEmpty /\ writeopen
    /\ killed[t]
    /\ lock' = Nobody
    /\ Goto(t, "idle")
    /\ UNCHANGED <<pipevars, fd, left, killed>>

ReadWait(t) ==
    /\ t \in Reader /\ pc[t] = "empty" /\ IsEmpty /\ writeopen
    /\ ~killed[t]
    /\ Goto(t, "sleep")
    /\ UNCHANGED <<pipevars, lock, fd, left, killed>>

ReadCopy(t) ==
    /\ t \in Reader /\ pc[t] = "empty" /\ ~(IsEmpty /\ writeopen)
    /\ Goto(t, "copy")
    /\ UNCHANGED <<pipevars, lock, fd, left, killed>>

ReadByte(t) ==
    /\ t \in Reader /\ pc[t] = "copy" /\ left[t] > 0 /\ ~IsEmpty
    /\ nread' = (nread + 1) % UMAX
    /\ left' = [left EXCEPT ![t] = @ - 1]
    /\ UNCHANGED <<data, nwrite, readopen, writeopen, lock, fd, pc, killed>>

ReadDone(t) ==
    /\ t \in Reader /\ pc[t] = "copy" /\ (left[t] = 0 \/ IsEmpty)
    /\ pc' = [Wakeup(Writer) EXCEPT ![t] = "idle"]
    /\ lock' = Nobody
    /\ UNCHANGED <<pipevars, fd, left, killed>>

-----------------------------------------------------------------------------
(* sleep(), close and kill.                                                *)

\* sleep() holds ptable.lock, releases p->lock and marks the process.
SleepCommit(t) ==
    /\ pc[t] = "sleep"
    /\ lock' = Nobody
    /\ Goto(t, "asleep")
    /\ UNCHANGED <<pipevars, fd, left, killed>>

\* sleep() returns with p->lock.
SleepReturn(t) ==
    /\ pc[t] = "awake" /\ lock = Nobody
    /\ lock' = t
    /\ Goto(t, IF t \in Writer THEN "loop" ELSE "empty")
    /\ UNCHANGED <<pipevars, fd, left, killed>>

\* close(): the last process with the end open calls pipeclose(), which wakes
\* the other side.
Close(t) ==
    /\ t \in fd /\ pc[t] = "idle" /\ lock = Nobody
    /\ fd' = fd \ {t}
    /\ readopen' = (readopen /\ fd' \cap Reader # {})
    /\ writeopen' = (writeopen /\ fd' \cap Writer # {})
    /\ pc' = Wakeup((IF readopen' = readopen THEN {} ELSE Writer) \cup
                    (IF writeopen' = writeopen THEN {} ELSE Reader))
    /\ UNCHANGED <<data, nread, nwrite, lock, left, killed>>

\* kill(), under ptable.lock only.
Kill(t) ==
    /\ ~killed[t]
    /\ killed' = [killed EXCEPT ![t] = TRUE]
    /\ pc' = [pc EXCEPT ![t] = IF @ = "asleep" THEN "awake" ELSE @]
    /\ UNCHANGED <<pipevars, lock, fd, left>>

-----------------------------------------------------------------------------
\* pipealloc(): an empty pipe with both ends open.
Init ==
    /\ data = [i \in 0..(PIPESIZE - 1) |-> CHOOSE v \in Byte : TRUE]
    /\ nread = 0 /\ nwrite = 0
    /\ readopen = TRUE /\ writeopen = TRUE
    /\ lock = Nobody
    /\ fd = Thread
    /\ pc = [t \in Thread |-> "idle"]
    /\ left = [t \in Thread |-> 0]
    /\ killed = [t \in Thread |-> FALSE]

\* The steps of a thread inside pipewrite or piperead.
Inside(t) ==
    \/ \E v \in Byte : WriteByte(t, v)
    \/ WriteFail(t) \/ WriteWait(t) \/ WriteDone(t)
    \/ ReadFail(t) \/ ReadWait(t) \/ ReadCopy(t) \/ ReadByte(t) \/ ReadDone(t)
    \/ SleepCommit(t) \/ SleepReturn(t)

Next ==
    \E t \in Thread :
       \/ Inside(t)
       \/ \E n \in 0..MaxN : WriteStart(t, n) \/ ReadStart(t, n)
       \/ Close(t)
       \/ Kill(t)

Spec == Init /\ [][Next]_vars

-----------------------------------------------------------------------------
Count == (nwrite + UMAX - nread) % UMAX

TypeOK ==
    /\ data \in [0..(PIPESIZE - 1) -> Byte]
    /\ nread \in 0..(UMAX - 1) /\ nwrite \in 0..(UMAX - 1)
    /\ readopen \in BOOLEAN /\ writeopen \in BOOLEAN
    /\ lock \in Thread \cup {Nobody}
    /\ fd \subseteq Thread
    /\ pc \in [Thread -> PC]
    /\ left \in [Thread -> Nat]
    /\ killed \in [Thread -> BOOLEAN]

\* A killed writer has returned, or is about to, because the pipe is full:
\* pipewrite() wakes nobody on this path.
GaveUp == \E t \in Writer : killed[t] /\ left[t] > 0

\* Nobody sleeps through what it waits for: while p->lock is free, a sleeping
\* reader faces an empty pipe that may still be written, and a sleeping writer
\* a full one that may still be read.  The exception is the pipe that a killed
\* writer has filled and other readers have perhaps begun to empty.
NoLostWakeup ==
    lock = Nobody =>
       /\ \A t \in Reader : pc[t] = "asleep" => writeopen /\ (IsEmpty \/ GaveUp)
       /\ \A t \in Writer : pc[t] = "asleep" => readopen /\ IsFull

\* The bytes in the ring, oldest first.
Content == [k \in 1..Count |-> data[(nread + k - 1) % PIPESIZE]]

\* The ring with its wrapping counters implements the queue of bytes.
F == INSTANCE Fifo WITH q <- Content, Cap <- PIPESIZE
IsFifo == F!FSpec
=============================================================================
