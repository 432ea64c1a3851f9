-------------------------------- MODULE Log --------------------------------
(***************************************************************************)
(* The redo log of the file system (log.c): group commit of the system     *)
(* calls between begin_op() and end_op(), crashes at every write of a      *)
(* block, and recovery at the next boot.  A block is one sector, so that   *)
(* the disk writes it entirely or not at all.                              *)
(*                                                                         *)
(* Critical sections under log.lock are one action.  The buffer cache      *)
(* (bio.c) appears as the contents that bread() returns.                   *)
(***************************************************************************)
EXTENDS Naturals, Sequences, FiniteSets

CONSTANTS Thread,       \* kernel threads that make file system calls
          Block,        \* blocks outside the log
          Val,          \* contents of a block
          MAXOPBLOCKS,  \* blocks one system call may log
          LOGSIZE,      \* blocks that begin_op() reserves at most
          nlog          \* log.size: blocks of the log on disk, header included

ASSUME LogAssumption ==
    /\ Val # {}
    /\ MAXOPBLOCKS \in Nat \ {0}
    /\ LOGSIZE \in Nat /\ LOGSIZE >= MAXOPBLOCKS
    /\ nlog \in Nat

VARIABLES
    \* On disk.
    home,         \* the blocks outside the log
    logged,       \* the blocks of the log, at most LOGSIZE
    head,         \* the header block: the numbers of the logged blocks
    \* In memory.
    cache,        \* contents of the blocks in the buffer cache
    lh,           \* log.lh
    outstanding, committing,
    pc,           \* per thread: "idle", "asleep" in begin_op(), "op" between
                  \* begin_op() and end_op()
    wrote,        \* per thread: blocks that its open operation has logged
    buf,          \* per thread: the buffer with which it is in log_write()
    step, tail,   \* what commit() or recover_from_log() does next, and to
                  \* which block of the log
    panicked      \* log_write() has called panic()

diskvars == <<home, logged, head>>
memvars  == <<cache, lh, outstanding, committing, pc, wrote, buf, step, tail, panicked>>
vars     == <<diskvars, memvars>>

\* The stages of commit() and of recover_from_log().
Step == {"none", "write_log", "write_head", "install", "erase", "done",
         "read_head", "redo", "clear"}

-----------------------------------------------------------------------------
\* wakeup(&log): the sleepers repeat the test of begin_op().
Woken == [t \in Thread |-> IF pc[t] = "asleep" THEN "idle" ELSE pc[t]]

\* Mutant: the operation that begins is not counted in the reservation.
NoRoomExceptOwn == Len(lh) + outstanding * MAXOPBLOCKS > LOGSIZE

\* begin_op() may exhaust the log.
NoRoom == Len(lh) + (outstanding + 1) * MAXOPBLOCKS > LOGSIZE

\* One turn of the loop in begin_op(): sleep, or start the operation.  Threads
\* run only after recovery.
BeginOp(t) ==
    /\ step \notin {"read_head", "redo", "clear"} /\ ~panicked
    /\ pc[t] = "idle"
    /\ \/ /\ committing \/ NoRoom
          /\ pc' = [pc EXCEPT ![t] = "asleep"]
          /\ UNCHANGED outstanding
       \/ /\ ~committing /\ ~NoRoom
          /\ outstanding' = outstanding + 1
          /\ pc' = [pc EXCEPT ![t] = "op"]
    /\ UNCHANGED <<diskvars, cache, lh, committing, wrote, buf, step, tail, panicked>>

InLog(b) == \E i \in DOMAIN lh : lh[i] = b

\* The operation modifies block b in its buffer, which it has locked, and
\* calls log_write(), which tests for room without log.lock.  An operation
\* logs at most MAXOPBLOCKS blocks.
Modify(t, b, v) ==
    /\ pc[t] = "op" /\ buf[t] = {} /\ ~panicked
    /\ \A u \in Thread : b \notin buf[u]
    /\ Cardinality(wrote[t] \cup {b}) <= MAXOPBLOCKS
    /\ Len(lh) < LOGSIZE /\ Len(lh) + 1 < nlog
    /\ cache' = [cache EXCEPT ![b] = v]
    /\ buf' = [buf EXCEPT ![t] = {b}]
    /\ UNCHANGED <<diskvars, lh, outstanding, committing, pc, wrote, step, tail,
                   panicked>>

\* "too big a transaction": the machine stops.
LogPanic(t) ==
    /\ pc[t] = "op" /\ buf[t] = {} /\ ~panicked
    /\ \E b \in Block : Cardinality(wrote[t] \cup {b}) <= MAXOPBLOCKS
    /\ Len(lh) >= LOGSIZE \/ Len(lh) + 1 >= nlog
    /\ panicked' = TRUE
    /\ UNCHANGED <<diskvars, cache, lh, outstanding, committing, pc, wrote, buf, step,
                   tail>>

\* The rest of log_write(), with log.lock.
LogWrite(t) ==
    /\ buf[t] # {} /\ ~panicked
    /\ \E b \in buf[t] : lh' = IF InLog(b) THEN lh ELSE Append(lh, b)
    /\ wrote' = [wrote EXCEPT ![t] = @ \cup buf[t]]
    /\ buf' = [buf EXCEPT ![t] = {}]
    /\ UNCHANGED <<diskvars, cache, outstanding, committing, pc, step, tail, panicked>>

\* Mutant: end_op() does not reset committing when nothing was logged.
EndOpNothingLogged(t) ==
    /\ pc[t] = "op" /\ buf[t] = {} /\ ~panicked
    /\ outstanding' = outstanding - 1
    /\ wrote' = [wrote EXCEPT ![t] = {}]
    /\ \/ /\ outstanding > 1
          /\ pc' = [Woken EXCEPT ![t] = "idle"]
          /\ UNCHANGED <<committing, step, tail>>
       \/ /\ outstanding = 1
          /\ committing' = TRUE
          /\ pc' = [pc EXCEPT ![t] = "commit"]
          /\ step' = IF lh = <<>> THEN "none" ELSE "write_log"
          /\ tail' = 1
    /\ UNCHANGED <<diskvars, cache, lh, buf, panicked>>

\* end_op(): the last operation commits, another one wakes those that wait
\* for space in the log.
EndOp(t) ==
    /\ pc[t] = "op" /\ buf[t] = {} /\ ~panicked
    /\ outstanding' = outstanding - 1
    /\ wrote' = [wrote EXCEPT ![t] = {}]
    /\ \/ /\ outstanding > 1
          /\ pc' = [Woken EXCEPT ![t] = "idle"]
          /\ UNCHANGED <<committing, step, tail>>
       \/ /\ outstanding = 1
          /\ committing' = TRUE
          /\ pc' = [pc EXCEPT ![t] = "commit"]
          /\ step' = IF lh = <<>> THEN "done" ELSE "write_log"
          /\ tail' = 1
    /\ UNCHANGED <<diskvars, cache, lh, buf, panicked>>

-----------------------------------------------------------------------------
(* commit(), which the last end_op() runs without log.lock.                *)

\* After block number tail of the log comes the next one, or the stage s.
Advance(s) ==
    /\ tail' = IF tail < Len(lh) THEN tail + 1 ELSE 1
    /\ step' = IF tail < Len(lh) THEN step ELSE s

\* write_log(): a block goes from the cache to the log.
WriteLog ==
    /\ step = "write_log" /\ ~panicked
    /\ logged' = [logged EXCEPT ![tail] = cache[lh[tail]]]
    /\ Advance("write_head")
    /\ UNCHANGED <<home, head, cache, lh, outstanding, committing, pc, wrote, buf,
                   panicked>>

\* write_head(): "the true point at which the current transaction commits".
WriteHead ==
    /\ step = "write_head" /\ ~panicked
    /\ head' = lh
    /\ step' = "install"
    /\ UNCHANGED <<home, logged, cache, lh, outstanding, committing, pc, wrote, buf, tail,
                   panicked>>

\* Mutant: the header is erased before every block is in its place.
InstallErased ==
    /\ step = "install" /\ ~panicked
    /\ home' = [home EXCEPT ![lh[tail]] = logged[tail]]
    /\ cache' = [cache EXCEPT ![lh[tail]] = logged[tail]]
    /\ head' = <<>>
    /\ Advance("erase")
    /\ UNCHANGED <<logged, lh, outstanding, committing, pc, wrote, buf, panicked>>

\* install_trans(): a block goes from the log to its place.
Install ==
    /\ step = "install" /\ ~panicked
    /\ home' = [home EXCEPT ![lh[tail]] = logged[tail]]
    /\ cache' = [cache EXCEPT ![lh[tail]] = logged[tail]]
    /\ Advance("erase")
    /\ UNCHANGED <<logged, head, lh, outstanding, committing, pc, wrote, buf, panicked>>

\* log.lh.n = 0 and write_head().
Erase ==
    /\ step = "erase" /\ ~panicked
    /\ lh' = <<>> /\ head' = <<>>
    /\ step' = "done"
    /\ UNCHANGED <<home, logged, cache, outstanding, committing, pc, wrote, buf, tail,
                   panicked>>

\* The end of end_op(): the log is free again.
CommitDone ==
    /\ step = "done" /\ ~panicked
    /\ committing' = FALSE
    /\ pc' = [t \in Thread |-> IF pc[t] = "commit" THEN "idle" ELSE Woken[t]]
    /\ step' = "none"
    /\ UNCHANGED <<diskvars, cache, lh, outstanding, wrote, buf, tail, panicked>>

-----------------------------------------------------------------------------
\* The machine stops at any moment (also after a panic) and boots again: what
\* was in memory is gone, and initlog() runs before any system call.
Crash ==
    /\ cache' = home
    /\ lh' = <<>> /\ outstanding' = 0 /\ committing' = FALSE
    /\ pc' = [t \in Thread |-> "idle"]
    /\ wrote' = [t \in Thread |-> {}] /\ buf' = [t \in Thread |-> {}]
    /\ step' = "read_head" /\ tail' = 1
    /\ panicked' = FALSE
    /\ UNCHANGED diskvars

\* recover_from_log(): read_head().
ReadHead ==
    /\ step = "read_head"
    /\ lh' = head
    /\ step' = IF head = <<>> THEN "clear" ELSE "redo"
    /\ UNCHANGED <<diskvars, cache, outstanding, committing, pc, wrote, buf, tail, panicked>>

\* ... install_trans(), block by block.
Redo ==
    /\ step = "redo"
    /\ home' = [home EXCEPT ![lh[tail]] = logged[tail]]
    /\ cache' = [cache EXCEPT ![lh[tail]] = logged[tail]]
    /\ Advance("clear")
    /\ UNCHANGED <<logged, head, lh, outstanding, committing, pc, wrote, buf, panicked>>

\* ... and write_head() with an empty log.
Clear ==
    /\ step = "clear"
    /\ lh' = <<>> /\ head' = <<>>
    /\ step' = "none"
    /\ UNCHANGED <<home, logged, cache, outstanding, committing, pc, wrote, buf, tail,
                   panicked>>

-----------------------------------------------------------------------------
\* A disk with an empty log (mkfs), before initlog().
Init ==
    /\ home \in [Block -> Val]
    /\ logged \in [1..LOGSIZE -> {CHOOSE v \in Val : TRUE}]
    /\ head = <<>>
    /\ cache = home
    /\ lh = <<>>
    /\ outstanding = 0 /\ committing = FALSE
    /\ pc = [t \in Thread |-> "idle"]
    /\ wrote = [t \in Thread |-> {}] /\ buf = [t \in Thread |-> {}]
    /\ step = "read_head" /\ tail = 1
    /\ panicked = FALSE

CommitStep == WriteLog \/ WriteHead \/ Install \/ Erase \/ CommitDone
BootStep   == ReadHead \/ Redo \/ Clear

Next ==
    \/ \E t \in Thread : BeginOp(t) \/ LogWrite(t) \/ LogPanic(t) \/ EndOp(t)
    \/ \E t \in Thread, b \in Block, v \in Val : Modify(t, b, v)
    \/ CommitStep
    \/ BootStep
    \/ Crash

Spec == Init /\ [][Next]_vars

\* Every operation ends, commit() and recovery go on, and the machine does not
\* crash for ever.
FairSpec ==
    /\ Spec
    /\ WF_vars(CommitStep)
    /\ WF_vars(BootStep)
    /\ \A t \in Thread : WF_vars(LogWrite(t)) /\ SF_vars(EndOp(t))

-----------------------------------------------------------------------------
TypeOK ==
    /\ home \in [Block -> Val] /\ cache \in [Block -> Val]
    /\ logged \in [1..LOGSIZE -> Val]
    /\ head \in Seq(Block) /\ lh \in Seq(Block)
    /\ Len(head) <= LOGSIZE /\ Len(lh) <= LOGSIZE
    /\ outstanding \in Nat /\ committing \in BOOLEAN
    /\ pc \in [Thread -> {"idle", "asleep", "op", "commit"}]
    /\ wrote \in [Thread -> SUBSET Block] /\ buf \in [Thread -> SUBSET Block]
    /\ step \in Step /\ tail \in 1..LOGSIZE
    /\ panicked \in BOOLEAN

Open == {t \in Thread : pc[t] = "op"}

\* begin_op() has reserved room for everything that the open operations may
\* still log, also for the operations that began at the same time, and nobody
\* has ended a transaction that is still open.
Reserved ==
    /\ outstanding = Cardinality(Open)
    /\ committing => Open = {}
    /\ Len(lh) + outstanding * MAXOPBLOCKS <=
          LOGSIZE + Cardinality({i \in DOMAIN lh : \E t \in Open : lh[i] \in wrote[t]})

\* Whoever sleeps in begin_op() is woken: an operation is open or a commit is
\* under way, and its end_op() calls wakeup(&log).
NoLostWakeup ==
    (\E t \in Thread : pc[t] = "asleep") => committing \/ outstanding > 0

\* The contents of the disk after a crash now and the recovery that follows.
Durable ==
    [b \in Block |-> IF \E i \in DOMAIN head : head[i] = b
                     THEN logged[CHOOSE i \in DOMAIN head : head[i] = b]
                     ELSE home[b]]

Seen == IF step \in {"read_head", "redo", "clear"} THEN Durable ELSE cache

\* The log implements the atomic disk: a crash at any write of any block
\* loses or keeps all of a group of operations.
AD == INSTANCE AtomicDisk WITH mem <- Seen, dur <- Durable, open <- Open
CrashAtomic == AD!ASpec

\* Under FairSpec nobody sleeps in begin_op() for ever, unless the machine
\* has panicked.
SleeperWakes ==
    \A t \in Thread : pc[t] = "asleep" ~> pc[t] # "asleep" \/ panicked

\* The assertion of log_write(), "log.lh.n >= log.size - 1" is a panic: the
\* log never holds more blocks than it has on disk, behind which the inodes
\* begin.  Two calls that overlap refute this (README, "What the code does not
\* guarantee"); no run relies on it.
LogInside == Len(lh) < nlog
=============================================================================
