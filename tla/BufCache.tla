------------------------------ MODULE BufCache ------------------------------
(***************************************************************************)
(* The buffer cache (bio.c), the sleep locks of its buffers (sleeplock.c)  *)
(* and the driver of the disk (ide.c): processes look up, lock, read,      *)
(* modify, write and release blocks, the disk answers with interrupts, and *)
(* kill() may wake a process anywhere.                                     *)
(*                                                                         *)
(* Critical sections under bcache.lock, the spin lock of a sleep lock and  *)
(* idelock are one action each.  A process holds one buffer at a time.     *)
(***************************************************************************)
EXTENDS Naturals, Sequences, FiniteSets

CONSTANTS Thread, NoThread,
          Block, NoBlock,   \* the blocks; NoBlock of a buffer never used
          Val,              \* contents of a block
          NBUF,             \* buffers of the cache
          MaxPinned,        \* blocks that the log keeps dirty at most
          ReadOk            \* the outcomes of idewait(1) after a read

ASSUME BufAssumption ==
    /\ NoThread \notin Thread /\ NoBlock \notin Block
    /\ Val # {}
    /\ NBUF \in Nat \ {0} /\ MaxPinned \in Nat
    /\ ReadOk \subseteq BOOLEAN

Buf == 1..NBUF

VARIABLES
    blockno, valid, dirty, refcnt, data,   \* struct buf
    holder,      \* per buffer: the thread that has locked b->lock
    lru,         \* the list of the cache, most recently used first
    idequeue,    \* the buffers with a request, the active one first
    disk,        \* contents of the blocks on the disk
    pc,          \* per thread, see PC
    cur,         \* per thread: the buffer it has counted in refcnt, 1 if none
    panicked     \* "bget: no buffers"

cachevars == <<blockno, refcnt, lru>>
bufvars   == <<valid, dirty, data>>
vars      == <<cachevars, bufvars, holder, idequeue, disk, pc, cur, panicked>>

(***************************************************************************)
(* "lock" in acquiresleep() and "wait" asleep in it, "locked" with the     *)
(* lock in bread(), "io" asleep in iderw() and "test" woken there, "held"  *)
(* with the buffer after bread() or bwrite(), "relse" in brelse() after    *)
(* releasesleep().                                                         *)
(***************************************************************************)
PC == {"idle", "lock", "wait", "locked", "io", "test", "held", "relse"}

Goto(t, l) == pc' = [pc EXCEPT ![t] = l]

\* wakeup(): the threads of S that are at l go to m.
Wakeup(S, l, m) == [t \in Thread |-> IF t \in S /\ pc[t] = l THEN m ELSE pc[t]]

Cached(n) == {b \in Buf : blockno[b] = n}

\* Mutant: bget() takes a buffer that the log has modified.
FreeClean == {b \in Buf : refcnt[b] = 0}

\* The buffers that bget() may recycle.
Free == {b \in Buf : refcnt[b] = 0 /\ ~dirty[b]}

-----------------------------------------------------------------------------
(* bget() and acquiresleep().                                              *)

\* Mutant: a process that finds the block cached is not counted.
BgetHitUncounted(t, n) ==
    /\ pc[t] = "idle" /\ ~panicked
    /\ \E b \in Cached(n) : cur' = [cur EXCEPT ![t] = b]
    /\ Goto(t, "lock")
    /\ UNCHANGED <<cachevars, bufvars, holder, idequeue, disk, panicked>>

\* The block is cached.
BgetHit(t, n) ==
    /\ pc[t] = "idle" /\ ~panicked
    /\ \E b \in Cached(n) :
          /\ refcnt' = [refcnt EXCEPT ![b] = @ + 1]
          /\ cur' = [cur EXCEPT ![t] = b]
    /\ Goto(t, "lock")
    /\ UNCHANGED <<blockno, lru, bufvars, holder, idequeue, disk, panicked>>

\* The least recently used free buffer is recycled.
BgetRecycle(t, n) ==
    /\ pc[t] = "idle" /\ ~panicked
    /\ Cached(n) = {}
    /\ \E i \in DOMAIN lru :
          /\ lru[i] \in Free
          /\ \A j \in (i + 1)..Len(lru) : lru[j] \notin Free
          /\ blockno' = [blockno EXCEPT ![lru[i]] = n]
          /\ valid' = [valid EXCEPT ![lru[i]] = FALSE]
          /\ dirty' = [dirty EXCEPT ![lru[i]] = FALSE]
          /\ refcnt' = [refcnt EXCEPT ![lru[i]] = 1]
          /\ cur' = [cur EXCEPT ![t] = lru[i]]
    /\ Goto(t, "lock")
    /\ UNCHANGED <<lru, data, holder, idequeue, disk, panicked>>

\* No buffer is free: panic.
BgetPanic(t, n) ==
    /\ pc[t] = "idle" /\ ~panicked
    /\ Cached(n) = {} /\ Free = {}
    /\ panicked' = TRUE
    /\ UNCHANGED <<cachevars, bufvars, holder, idequeue, disk, pc, cur>>

\* One turn of the loop in acquiresleep(): lock the buffer or sleep.
AcquireSleep(t) ==
    /\ pc[t] = "lock" /\ ~panicked
    /\ \/ /\ holder[cur[t]] = NoThread
          /\ holder' = [holder EXCEPT ![cur[t]] = t]
          /\ Goto(t, "locked")
       \/ /\ holder[cur[t]] # NoThread
          /\ Goto(t, "wait")
          /\ UNCHANGED holder
    /\ UNCHANGED <<cachevars, bufvars, idequeue, disk, cur, panicked>>

-----------------------------------------------------------------------------
(* bread(), bwrite() and log_write() with a locked buffer; iderw().        *)

\* Mutant: the request goes to the front of the queue.
IderwFront(t) ==
    /\ idequeue' = <<cur[t]>> \o idequeue
    /\ Goto(t, "io")

\* iderw(): the request is queued, and the process sleeps until ideintr().
Iderw(t) ==
    /\ idequeue' = Append(idequeue, cur[t])
    /\ Goto(t, "io")

\* bread() returns a valid buffer at once and reads another one.
Bread(t) ==
    /\ pc[t] = "locked" /\ ~panicked
    /\ \/ valid[cur[t]] /\ Goto(t, "held") /\ UNCHANGED idequeue
       \/ ~valid[cur[t]] /\ Iderw(t)
    /\ UNCHANGED <<cachevars, bufvars, holder, disk, cur, panicked>>

\* The process modifies the block and hands it to log_write(), which keeps the
\* buffer in the cache with B_DIRTY.
LogWrite(t, v) ==
    /\ pc[t] = "held" /\ ~panicked
    /\ dirty[cur[t]] \/ Cardinality({b \in Buf : dirty[b]}) < MaxPinned
    /\ data' = [data EXCEPT ![cur[t]] = v]
    /\ dirty' = [dirty EXCEPT ![cur[t]] = TRUE]
    /\ UNCHANGED <<cachevars, valid, holder, idequeue, disk, pc, cur, panicked>>

\* The process modifies the block and calls bwrite().
Bwrite(t, v) ==
    /\ pc[t] = "held" /\ ~panicked
    /\ data' = [data EXCEPT ![cur[t]] = v]
    /\ dirty' = [dirty EXCEPT ![cur[t]] = TRUE]
    /\ Iderw(t)
    /\ UNCHANGED <<cachevars, valid, holder, disk, cur, panicked>>

\* ideintr(): the active request is done, and the next one starts.  After a
\* read that failed the buffer is marked valid with its old contents.
Ideintr(ok) ==
    /\ idequeue # <<>> /\ ~panicked
    /\ LET b == Head(idequeue)
       IN  /\ disk' = IF dirty[b] THEN [disk EXCEPT ![blockno[b]] = data[b]] ELSE disk
           /\ data' = IF ~dirty[b] /\ ok
                      THEN [data EXCEPT ![b] = disk[blockno[b]]] ELSE data
           /\ valid' = [valid EXCEPT ![b] = TRUE]
           /\ dirty' = [dirty EXCEPT ![b] = FALSE]
           /\ pc' = Wakeup({t \in Thread : cur[t] = b}, "io", "test")
    /\ idequeue' = Tail(idequeue)
    /\ UNCHANGED <<cachevars, holder, cur, panicked>>

\* Back from sleep() in iderw(): repeat the test.
IderwTest(t) ==
    /\ pc[t] = "test" /\ ~panicked
    /\ Goto(t, IF valid[cur[t]] /\ ~dirty[cur[t]] THEN "held" ELSE "io")
    /\ UNCHANGED <<cachevars, bufvars, holder, idequeue, disk, cur, panicked>>

\* kill() makes a sleeping process runnable.
Kill(t) ==
    /\ pc[t] \in {"wait", "io"} /\ ~panicked
    /\ Goto(t, IF pc[t] = "wait" THEN "lock" ELSE "test")
    /\ UNCHANGED <<cachevars, bufvars, holder, idequeue, disk, cur, panicked>>

-----------------------------------------------------------------------------
(* brelse().                                                               *)

ReleaseSleep(t) ==
    /\ pc[t] = "held" /\ ~panicked
    /\ holder' = [holder EXCEPT ![cur[t]] = NoThread]
    /\ pc' = [Wakeup({u \in Thread : cur[u] = cur[t]}, "wait", "lock")
                 EXCEPT ![t] = "relse"]
    /\ UNCHANGED <<cachevars, bufvars, idequeue, disk, cur, panicked>>

\* The buffer is no longer counted; if nobody waits for it, it becomes the
\* most recently used one.
Brelse(t) ==
    /\ pc[t] = "relse" /\ ~panicked
    /\ refcnt' = [refcnt EXCEPT ![cur[t]] = @ - 1]
    /\ lru' = IF refcnt[cur[t]] = 1
              THEN <<cur[t]>> \o SelectSeq(lru, LAMBDA b : b # cur[t])
              ELSE lru
    /\ cur' = [cur EXCEPT ![t] = 1]
    /\ Goto(t, "idle")
    /\ UNCHANGED <<blockno, bufvars, holder, idequeue, disk, panicked>>

-----------------------------------------------------------------------------
\* binit(): the list holds the buffers in reverse order.
Init ==
    /\ blockno = [b \in Buf |-> NoBlock]
    /\ valid = [b \in Buf |-> FALSE] /\ dirty = [b \in Buf |-> FALSE]
    /\ refcnt = [b \in Buf |-> 0]
    /\ data = [b \in Buf |-> CHOOSE v \in Val : TRUE]
    /\ holder = [b \in Buf |-> NoThread]
    /\ lru = [i \in Buf |-> NBUF + 1 - i]
    /\ idequeue = <<>>
    /\ disk = [n \in Block |-> CHOOSE v \in Val : TRUE]
    /\ pc = [t \in Thread |-> "idle"]
    /\ cur = [t \in Thread |-> 1]
    /\ panicked = FALSE

SleepLock(t) == AcquireSleep(t) \/ ReleaseSleep(t)

Bget(t) == \E n \in Block : BgetHit(t, n) \/ BgetRecycle(t, n) \/ BgetPanic(t, n)

\* The machine stands still.
Halted == panicked /\ UNCHANGED vars

Next ==
    \/ \E t \in Thread :
          \/ Bget(t) \/ SleepLock(t) \/ Bread(t)
          \/ \E v \in Val : LogWrite(t, v) \/ Bwrite(t, v)
          \/ IderwTest(t) \/ Kill(t) \/ Brelse(t)
    \/ \E ok \in ReadOk : Ideintr(ok)
    \/ Halted

Spec == Init /\ [][Next]_vars

(***************************************************************************)
(* The disk answers every request, a thread that has the CPU goes on, and  *)
(* whoever holds a buffer releases it in the end.  acquiresleep() is not a *)
(* queue: strong fairness says that a process which finds the lock free    *)
(* again and again gets it.                                                *)
(***************************************************************************)
FairSpec ==
    /\ Spec
    /\ WF_vars(\E ok \in ReadOk : Ideintr(ok))
    /\ \A t \in Thread :
          /\ WF_vars(Bread(t) \/ IderwTest(t) \/ Brelse(t))
          /\ SF_vars(ReleaseSleep(t))
          /\ SF_vars(AcquireSleep(t) /\ holder[cur[t]] = NoThread)

-----------------------------------------------------------------------------
TypeOK ==
    /\ blockno \in [Buf -> Block \cup {NoBlock}]
    /\ valid \in [Buf -> BOOLEAN] /\ dirty \in [Buf -> BOOLEAN]
    /\ refcnt \in [Buf -> Nat] /\ data \in [Buf -> Val]
    /\ holder \in [Buf -> Thread \cup {NoThread}]
    /\ lru \in Seq(Buf) /\ Len(lru) = NBUF
    /\ idequeue \in Seq(Buf)
    /\ disk \in [Block -> Val]
    /\ pc \in [Thread -> PC] /\ cur \in [Thread -> Buf]
    /\ panicked \in BOOLEAN

\* refcnt counts exactly the processes that have found the buffer and not yet
\* released it, so that bget() recycles no buffer that somebody is about to
\* lock, and an unused block of the log stays in the cache.
RefcntExact ==
    \A b \in Buf :
       /\ refcnt[b] = Cardinality({t \in Thread : pc[t] # "idle" /\ cur[t] = b})
       /\ holder[b] # NoThread => refcnt[b] > 0

\* Nobody sleeps for a lock that is free or for a request that is not queued,
\* also when kill() wakes processes in between.
NoLostWakeup ==
    \A t \in Thread :
       /\ pc[t] = "wait" => holder[cur[t]] # NoThread
       /\ pc[t] = "io" => \E i \in DOMAIN idequeue : idequeue[i] = cur[t]

\* The value of a block: the contents of its valid buffer, or of the disk.
Value ==
    [n \in Block |-> IF \E b \in Cached(n) : valid[b]
                     THEN data[CHOOSE b \in Cached(n) : valid[b]]
                     ELSE disk[n]]

\* The owner of a block: the thread that has locked its buffer.
Owner ==
    [n \in Block |-> LET H == {t \in Thread : /\ pc[t] \in {"locked", "io", "test", "held"}
                                              /\ blockno[cur[t]] = n}
                     IN  IF H = {} THEN NoThread ELSE CHOOSE t \in H : TRUE]

\* Cache and disk together are one store of blocks: at most one buffer per
\* block, no update lost by recycling, no two processes with the same block.
BS == INSTANCE BlockStore WITH value <- Value, owner <- Owner
IsBlockStore == BS!BSpec

\* Under FairSpec a process that has called bread() gets the block.
BlockServed ==
    \A t \in Thread : pc[t] \in {"lock", "wait"} ~> pc[t] = "held" \/ panicked
=============================================================================
