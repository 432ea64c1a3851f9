----------------------------- MODULE PoolProofs -----------------------------
(***************************************************************************)
(* Proofs about the two pools of the kernel, the buffers of the disk cache *)
(* and the pages of physical memory, for any number of processes, buffers, *)
(* blocks and pages.                                                       *)
(*                                                                         *)
(* The list lru only says which free buffer bget() recycles.  The proof    *)
(* holds for any choice among them and says nothing about the list, whose  *)
(* SelectSeq is out of the reach of the provers.                           *)
(***************************************************************************)
EXTENDS BufCache, Memory, FiniteSetTheorems, TLAPS

-----------------------------------------------------------------------------
(* The buffer cache.  The reference counts, the sleep locks and the queue  *)
(* of the disk agree, and with a disk whose reads succeed cache and disk   *)
(* together are one store of blocks.                                       *)

\* With the sleep lock of the buffer.
LockedPC == {"locked", "io", "test", "held"}

\* The processes that have found b and not yet released it.
Users(b) == {t \in Thread : pc[t] # "idle" /\ cur[t] = b}

Queued(b) == \E i \in DOMAIN idequeue : idequeue[i] = b

\* TypeOK without the list.
BufType ==
    /\ blockno \in [Buf -> Block \cup {NoBlock}]
    /\ valid \in [Buf -> BOOLEAN] /\ dirty \in [Buf -> BOOLEAN]
    /\ refcnt \in [Buf -> Nat] /\ data \in [Buf -> Val]
    /\ holder \in [Buf -> Thread \cup {NoThread}]
    /\ idequeue \in Seq(Buf)
    /\ disk \in [Block -> Val]
    /\ pc \in [Thread -> PC] /\ cur \in [Thread -> Buf]

CountInv == \A b \in Buf : IsFiniteSet(Users(b)) /\ refcnt[b] = Cardinality(Users(b))

\* A sleep lock is held by the process that is past acquiresleep().
LockInv ==
    \A b \in Buf, t \in Thread : holder[b] = t <=> pc[t] \in LockedPC /\ cur[t] = b

\* A block has one buffer, and a buffer that is used or valid has a block.
BlockInv ==
    /\ \A a, b \in Buf : blockno[a] # NoBlock /\ blockno[a] = blockno[b] => a = b
    /\ \A t \in Thread : pc[t] # "idle" => blockno[cur[t]] # NoBlock
    /\ \A b \in Buf : valid[b] => blockno[b] # NoBlock

\* A buffer is in the queue of the disk once, while its process is in iderw()
\* and the flags say that there is something to do.
QueueInv ==
    /\ \A i, j \in DOMAIN idequeue : idequeue[i] = idequeue[j] => i = j
    /\ \A i \in DOMAIN idequeue : ~valid[idequeue[i]] \/ dirty[idequeue[i]]
    /\ \A i \in DOMAIN idequeue :
          \E t \in Thread : pc[t] \in {"io", "test"} /\ cur[t] = idequeue[i]

\* What a process waits for will come: NoLostWakeup, with the processes that
\* kill() has woken.
WaitInv ==
    \A t \in Thread :
       /\ pc[t] = "io" => Queued(cur[t])
       /\ pc[t] = "test" => Queued(cur[t]) \/ (valid[cur[t]] /\ ~dirty[cur[t]])
       /\ pc[t] = "wait" => holder[cur[t]] # NoThread

\* Only contents that somebody has read are modified.
ValidInv ==
    /\ \A t \in Thread : pc[t] = "held" => valid[cur[t]]
    /\ \A b \in Buf : dirty[b] => valid[b]

BufInv == BufType /\ CountInv /\ LockInv /\ BlockInv /\ QueueInv /\ WaitInv /\ ValidInv

\* A valid buffer that is not dirty has the contents of the disk.
CleanInv == \A b \in Buf : valid[b] /\ ~dirty[b] => data[b] = disk[blockno[b]]

-----------------------------------------------------------------------------
\* A process enters or leaves the users of a buffer.
LEMMA CountMore ==
    ASSUME BufInv, NEW t \in Thread, NEW b \in Buf, pc[t] = "idle",
           pc' = [pc EXCEPT ![t] = "lock"], cur' = [cur EXCEPT ![t] = b],
           refcnt' = [refcnt EXCEPT ![b] = @ + 1]
    PROVE  CountInv'
  <1> SUFFICES ASSUME NEW a \in Buf
               PROVE  IsFiniteSet(Users(a)') /\ refcnt'[a] = Cardinality(Users(a)')
    BY DEF CountInv
  <1>1. IsFiniteSet(Users(a)) /\ refcnt[a] = Cardinality(Users(a))
    BY DEF BufInv, CountInv
  <1>2. CASE a = b
    <2>1. Users(a)' = Users(a) \cup {t} /\ t \notin Users(a)
      BY <1>2 DEF Users, BufInv, BufType
    <2>2. refcnt'[a] = refcnt[a] + 1
      BY <1>2 DEF BufInv, BufType
    <2> QED BY <1>1, <2>1, <2>2, FS_AddElement
  <1>3. CASE a # b
    <2>1. Users(a)' = Users(a) /\ refcnt'[a] = refcnt[a]
      BY <1>3 DEF Users, BufInv, BufType
    <2> QED BY <1>1, <2>1
  <1> QED BY <1>2, <1>3

LEMMA CountLess ==
    ASSUME BufInv, NEW t \in Thread, pc[t] # "idle",
           pc' = [pc EXCEPT ![t] = "idle"], cur' = [cur EXCEPT ![t] = 1],
           refcnt' = [refcnt EXCEPT ![cur[t]] = @ - 1]
    PROVE  CountInv' /\ refcnt' \in [Buf -> Nat]
  <1>1. ASSUME NEW a \in Buf
        PROVE  /\ IsFiniteSet(Users(a)') /\ refcnt'[a] = Cardinality(Users(a)')
               /\ refcnt'[a] \in Nat
    <2>1. IsFiniteSet(Users(a)) /\ refcnt[a] = Cardinality(Users(a))
      BY DEF BufInv, CountInv
    <2>2. CASE a = cur[t]
      <3>1. Users(a)' = Users(a) \ {t} /\ t \in Users(a)
        BY <2>2 DEF Users, BufInv, BufType
      <3>2. refcnt'[a] = refcnt[a] - 1
        BY <2>2 DEF BufInv, BufType
      <3>3. IsFiniteSet(Users(a)') /\ Cardinality(Users(a)') = refcnt'[a]
        BY <2>1, <3>1, <3>2, FS_RemoveElement
      <3> QED BY <3>3, FS_CardinalityType
    <2>3. CASE a # cur[t]
      <3>1. Users(a)' = Users(a) /\ refcnt'[a] = refcnt[a]
        BY <2>3 DEF Users, BufInv, BufType
      <3> QED BY <2>1, <3>1 DEF BufInv, BufType
    <2> QED BY <2>2, <2>3
  <1>2. refcnt' \in [Buf -> Nat]
    BY <1>1 DEF BufInv, BufType
  <1> QED BY <1>1, <1>2 DEF CountInv

\* A step that leaves the counts and the users alone.
LEMMA CountSame ==
    ASSUME BufInv, UNCHANGED <<refcnt, cur>>,
           \A t \in Thread : pc'[t] # "idle" <=> pc[t] # "idle"
    PROVE  CountInv'
  <1>1. \A b \in Buf : Users(b)' = Users(b)
    BY DEF Users
  <1> QED BY <1>1 DEF BufInv, CountInv

\* A buffer whose count is 0 has no user and is not in the queue.
LEMMA FreeUnused ==
    ASSUME BufInv, NEW b \in Free
    PROVE  /\ \A t \in Thread : pc[t] # "idle" => cur[t] # b
           /\ holder[b] = NoThread /\ ~Queued(b) /\ ~dirty[b] /\ b \in Buf
  <1>1. b \in Buf /\ refcnt[b] = 0 /\ ~dirty[b]
    BY DEF Free
  <1>2. Users(b) = {}
    BY <1>1, FS_EmptySet DEF BufInv, CountInv
  <1>3. \A t \in Thread : pc[t] # "idle" => cur[t] # b
    BY <1>2 DEF Users
  <1>4. holder[b] = NoThread
    <2>1. holder[b] \in Thread \cup {NoThread}
      BY <1>1 DEF BufInv, BufType
    <2>2. ASSUME holder[b] \in Thread PROVE FALSE
      <3>1. pc[holder[b]] \in LockedPC /\ cur[holder[b]] = b
        BY <1>1, <2>2 DEF BufInv, LockInv
      <3> QED BY <1>3, <2>2, <3>1 DEF LockedPC
    <2> QED BY <2>1, <2>2
  <1>5. ~Queued(b)
    BY <1>3 DEF BufInv, QueueInv, Queued
  <1> QED BY <1>1, <1>3, <1>4, <1>5

-----------------------------------------------------------------------------
(* The steps.                                                              *)

LEMMA HitInv ==
    ASSUME BufInv, NEW t \in Thread, NEW n \in Block, BgetHit(t, n)
    PROVE  BufInv'
  <1>1. PICK b \in Cached(n) : /\ refcnt' = [refcnt EXCEPT ![b] = @ + 1]
                               /\ cur' = [cur EXCEPT ![t] = b]
    BY DEF BgetHit
  <1>2. /\ b \in Buf /\ blockno[b] = n /\ pc[t] = "idle"
        /\ pc' = [pc EXCEPT ![t] = "lock"]
        /\ UNCHANGED <<blockno, valid, dirty, data, holder, idequeue, disk>>
    BY DEF BgetHit, Cached, Goto, bufvars
  <1>3. n # NoBlock
    BY BufAssumption
  <1>4. \A u \in Thread : /\ pc'[u] = IF u = t THEN "lock" ELSE pc[u]
                          /\ cur'[u] = IF u = t THEN b ELSE cur[u]
    BY <1>1, <1>2 DEF BufInv, BufType
  <1>5. BufType'
    BY <1>1, <1>2 DEF BufInv, BufType, PC
  <1>6. CountInv'
    BY <1>1, <1>2, CountMore
  <1>7. LockInv'
    BY <1>2, <1>4 DEF BufInv, LockInv, LockedPC
  <1>8. BlockInv'
    BY <1>2, <1>3, <1>4 DEF BufInv, BlockInv
  <1>9. QueueInv' /\ WaitInv' /\ ValidInv'
    <2>q. QueueInv'
      BY <1>2, <1>4 DEF BufInv, QueueInv
    <2>w. WaitInv'
      BY <1>2, <1>4 DEF BufInv, WaitInv, Queued
    <2>v. ValidInv'
      BY <1>2, <1>4 DEF BufInv, ValidInv
    <2> QED BY <2>q, <2>w, <2>v
  <1> QED BY <1>5, <1>6, <1>7, <1>8, <1>9 DEF BufInv

LEMMA RecycleInv ==
    ASSUME BufInv, NEW t \in Thread, NEW n \in Block, BgetRecycle(t, n)
    PROVE  BufInv'
  <1>1. PICK b \in Free : /\ blockno' = [blockno EXCEPT ![b] = n]
                          /\ valid' = [valid EXCEPT ![b] = FALSE]
                          /\ dirty' = [dirty EXCEPT ![b] = FALSE]
                          /\ refcnt' = [refcnt EXCEPT ![b] = 1]
                          /\ cur' = [cur EXCEPT ![t] = b]
    BY DEF BgetRecycle
  <1>2. /\ b \in Buf /\ pc[t] = "idle" /\ Cached(n) = {}
        /\ pc' = [pc EXCEPT ![t] = "lock"]
        /\ UNCHANGED <<data, holder, idequeue, disk>>
    BY DEF BgetRecycle, Goto, Free
  <1>3. /\ \A u \in Thread : pc[u] # "idle" => cur[u] # b
        /\ holder[b] = NoThread /\ ~Queued(b) /\ ~dirty[b] /\ b \in Buf
    BY FreeUnused
  <1>4. \A u \in Thread : /\ pc'[u] = IF u = t THEN "lock" ELSE pc[u]
                          /\ cur'[u] = IF u = t THEN b ELSE cur[u]
    BY <1>1, <1>2 DEF BufInv, BufType
  <1>5. \A a \in Buf : a # b => /\ blockno'[a] = blockno[a] /\ valid'[a] = valid[a]
                                /\ dirty'[a] = dirty[a]
    BY <1>1 DEF BufInv, BufType
  <1>6. blockno'[b] = n /\ ~valid'[b] /\ ~dirty'[b] /\ n # NoBlock
    BY <1>1, <1>2, BufAssumption DEF BufInv, BufType
  <1>7. BufType'
    BY <1>1, <1>2 DEF BufInv, BufType, PC
  <1>8. CountInv'
    <2>1. refcnt[b] = 0
      BY <1>1 DEF Free
    <2>2. refcnt' = [refcnt EXCEPT ![b] = @ + 1]
      BY <1>1, <1>2, <2>1 DEF BufInv, BufType
    <2> QED BY <1>1, <1>2, <2>2, CountMore
  <1>9. LockInv'
    BY <1>2, <1>3, <1>4 DEF BufInv, LockInv, LockedPC
  <1>10. BlockInv'
    <2>1. \A a \in Buf : blockno[a] # n
      BY <1>2 DEF Cached
    <2>2. \A a, d \in Buf : blockno'[a] # NoBlock /\ blockno'[a] = blockno'[d] => a = d
      BY <1>5, <1>6, <2>1 DEF BufInv, BlockInv
    <2>3. \A u \in Thread : pc'[u] # "idle" => blockno'[cur'[u]] # NoBlock
      <3>1. \A u \in Thread : cur[u] \in Buf
        BY DEF BufInv, BufType
      <3> QED BY <1>3, <1>4, <1>5, <1>6, <3>1 DEF BufInv, BlockInv
    <2>4. \A a \in Buf : valid'[a] => blockno'[a] # NoBlock
      BY <1>5, <1>6 DEF BufInv, BlockInv
    <2> QED BY <2>2, <2>3, <2>4 DEF BlockInv
  <1>11. QueueInv' /\ WaitInv' /\ ValidInv'
    <2>1. \A i \in DOMAIN idequeue : idequeue[i] # b /\ idequeue[i] \in Buf
      BY <1>3 DEF Queued, BufInv, BufType
    <2>2. \A u \in Thread : cur[u] \in Buf
      BY DEF BufInv, BufType
    <2>q. QueueInv'
      BY <1>2, <1>4, <1>5, <2>1 DEF BufInv, QueueInv
    <2>w. WaitInv'
      BY <1>2, <1>3, <1>4, <1>5, <2>2 DEF BufInv, WaitInv, Queued
    <2>v. ValidInv'
      BY <1>2, <1>3, <1>4, <1>5, <1>6, <2>2 DEF BufInv, ValidInv
    <2> QED BY <2>q, <2>w, <2>v
  <1> QED BY <1>7, <1>8, <1>9, <1>10, <1>11 DEF BufInv

LEMMA SleepLockInv ==
    ASSUME BufInv, NEW t \in Thread, SleepLock(t)
    PROVE  BufInv'
  <1> USE BufAssumption
  <1>1. UNCHANGED <<blockno, valid, dirty, refcnt, data, idequeue, disk, cur>>
    BY DEF SleepLock, AcquireSleep, ReleaseSleep, cachevars, bufvars
  <1>2. CASE AcquireSleep(t) /\ holder[cur[t]] = NoThread
    <2>1. /\ pc[t] = "lock" /\ holder' = [holder EXCEPT ![cur[t]] = t]
          /\ pc' = [pc EXCEPT ![t] = "locked"]
      BY <1>2 DEF AcquireSleep, Goto
    <2>2. \A u \in Thread : pc'[u] = IF u = t THEN "locked" ELSE pc[u]
      BY <2>1 DEF BufInv, BufType
    <2>3. \A a \in Buf : holder'[a] = IF a = cur[t] THEN t ELSE holder[a]
      BY <2>1 DEF BufInv, BufType
    <2>4. BufType'
      BY <1>1, <2>1 DEF BufInv, BufType, PC
    <2>5. CountInv'
      BY <1>1, <2>1, <2>2, CountSame
    <2>6. LockInv'
      BY <1>1, <1>2, <2>1, <2>2, <2>3 DEF BufInv, BufType, LockInv, LockedPC
    <2>7. BlockInv'
      BY <1>1, <2>1, <2>2 DEF BufInv, BlockInv
    <2>8. QueueInv' /\ WaitInv' /\ ValidInv'
      <3>q. QueueInv'
        BY <1>1, <2>1, <2>2, <2>3 DEF BufInv, BufType, QueueInv
      <3>w. WaitInv'
        BY <1>1, <2>1, <2>2, <2>3 DEF BufInv, BufType, WaitInv, Queued
      <3>v. ValidInv'
        BY <1>1, <2>1, <2>2, <2>3 DEF BufInv, BufType, ValidInv
      <3> QED BY <3>q, <3>w, <3>v
    <2> QED BY <2>4, <2>5, <2>6, <2>7, <2>8 DEF BufInv
  <1>3. CASE AcquireSleep(t) /\ holder[cur[t]] # NoThread
    <2>1. pc[t] = "lock" /\ holder' = holder /\ pc' = [pc EXCEPT ![t] = "wait"]
      BY <1>3 DEF AcquireSleep, Goto
    <2>2. \A u \in Thread : pc'[u] = IF u = t THEN "wait" ELSE pc[u]
      BY <2>1 DEF BufInv, BufType
    <2>3. BufType'
      BY <1>1, <2>1 DEF BufInv, BufType, PC
    <2>4. CountInv'
      BY <1>1, <2>1, <2>2, CountSame
    <2>5. LockInv' /\ BlockInv'
      BY <1>1, <2>1, <2>2 DEF BufInv, LockInv, LockedPC, BlockInv
    <2>6. QueueInv' /\ WaitInv' /\ ValidInv'
      <3>q. QueueInv'
        BY <1>1, <1>3, <2>1, <2>2 DEF BufInv, QueueInv
      <3>w. WaitInv'
        BY <1>1, <1>3, <2>1, <2>2 DEF BufInv, WaitInv, Queued
      <3>v. ValidInv'
        BY <1>1, <1>3, <2>1, <2>2 DEF BufInv, ValidInv
      <3> QED BY <3>q, <3>w, <3>v
    <2> QED BY <2>3, <2>4, <2>5, <2>6 DEF BufInv
  <1>4. CASE ReleaseSleep(t)
    <2>1. /\ pc[t] = "held" /\ holder' = [holder EXCEPT ![cur[t]] = NoThread]
      BY <1>4 DEF ReleaseSleep
    <2>2. \A u \in Thread : pc'[u] = IF u = t THEN "relse"
                                     ELSE IF cur[u] = cur[t] /\ pc[u] = "wait" THEN "lock"
                                     ELSE pc[u]
      BY <1>4 DEF ReleaseSleep, Wakeup
    <2>3. \A a \in Buf : holder'[a] = IF a = cur[t] THEN NoThread ELSE holder[a]
      BY <2>1 DEF BufInv, BufType
    <2>4. BufType'
      BY <1>1, <1>4, <2>1 DEF ReleaseSleep, BufInv, BufType, PC, Wakeup
    <2>5. CountInv'
      BY <1>1, <2>1, <2>2, CountSame
    <2>a. pc'[t] = "relse"
      BY <2>2
    <2>b. \A u \in Thread : /\ pc[u] # "wait" /\ u # t => pc'[u] = pc[u]
                            /\ pc[u] = "wait" => pc'[u] \in {"wait", "lock"}
                            /\ pc'[u] = "wait" => cur[u] # cur[t] /\ pc[u] = "wait"
      BY <2>1, <2>2
    <2>c. \A u \in Thread : cur[u] \in Buf
      BY DEF BufInv, BufType
    <2>6. LockInv'
      <3> SUFFICES ASSUME NEW b \in Buf, NEW u \in Thread
                   PROVE  holder'[b] = u <=> pc'[u] \in LockedPC /\ cur[u] = b
        BY <1>1 DEF LockInv
      <3>1. holder[b] = u <=> pc[u] \in LockedPC /\ cur[u] = b
        BY DEF BufInv, LockInv
      <3>2. CASE u = t
        BY <2>a, <2>c, <2>3, <3>1, <3>2 DEF LockedPC
      <3>3. CASE u # t
        <4>1. pc'[u] \in LockedPC <=> pc[u] \in LockedPC
          BY <2>b, <3>3 DEF LockedPC
        <4>2. holder[cur[t]] = t
          BY <2>1, <2>c DEF BufInv, LockInv, LockedPC
        <4> QED BY <2>3, <3>1, <3>3, <4>1, <4>2
      <3> QED BY <3>2, <3>3
    <2>7. BlockInv'
      BY <1>1, <2>1, <2>2 DEF BufInv, BlockInv
    <2>8. QueueInv'
      BY <1>1, <2>1, <2>b DEF BufInv, QueueInv
    <2>9. WaitInv'
      BY <1>1, <2>3, <2>a, <2>b, <2>c DEF BufInv, WaitInv, Queued
    <2>10. ValidInv'
      BY <1>1, <2>a, <2>b DEF BufInv, ValidInv
    <2> QED BY <2>4, <2>5, <2>6, <2>7, <2>8, <2>9, <2>10 DEF BufInv
  <1> QED BY <1>2, <1>3, <1>4 DEF SleepLock

\* The process that holds the lock of a buffer is the only one, and unless it
\* is in iderw() the buffer is not in the queue.
LEMMA HolderAlone ==
    ASSUME BufInv, NEW t \in Thread, pc[t] \in LockedPC
    PROVE  /\ holder[cur[t]] = t
           /\ \A u \in Thread : pc[u] \in LockedPC /\ cur[u] = cur[t] => u = t
           /\ pc[t] \in {"locked", "held"} => ~Queued(cur[t])
  <1>1. cur[t] \in Buf
    BY DEF BufInv, BufType
  <1>2. holder[cur[t]] = t
    BY <1>1 DEF BufInv, LockInv
  <1>3. \A u \in Thread : pc[u] \in LockedPC /\ cur[u] = cur[t] => u = t
    BY <1>1, <1>2 DEF BufInv, LockInv
  <1>4. pc[t] \in {"locked", "held"} => ~Queued(cur[t])
    BY <1>3 DEF BufInv, QueueInv, Queued, LockedPC
  <1> QED BY <1>2, <1>3, <1>4

\* iderw() puts a buffer with something to do at the end of the queue.
LEMMA IderwInv ==
    ASSUME BufInv, NEW t \in Thread, pc[t] \in {"locked", "held"}, Iderw(t),
           ~valid[cur[t]] \/ dirty'[cur[t]],
           UNCHANGED <<blockno, refcnt, valid, holder, disk, cur>>,
           data' \in [Buf -> Val], dirty' \in [Buf -> BOOLEAN],
           \A b \in Buf : b # cur[t] => dirty'[b] = dirty[b],
           dirty'[cur[t]] => valid[cur[t]]
    PROVE  BufInv'
  <1>1. /\ idequeue' = Append(idequeue, cur[t]) /\ pc' = [pc EXCEPT ![t] = "io"]
        /\ cur[t] \in Buf /\ \A u \in Thread : cur[u] \in Buf
    BY DEF Iderw, Goto, BufInv, BufType
  <1>2. \A u \in Thread : pc'[u] = IF u = t THEN "io" ELSE pc[u]
    BY <1>1 DEF BufInv, BufType
  <1>3. BufType'
    BY <1>1 DEF BufInv, BufType, PC
  <1>4. CountInv'
    BY <1>2, CountSame
  <1>5. LockInv'
    BY <1>2 DEF BufInv, LockInv, LockedPC
  <1>6. BlockInv'
    BY <1>2 DEF BufInv, BlockInv
  <1>7. /\ holder[cur[t]] = t /\ ~Queued(cur[t])
        /\ \A u \in Thread : pc[u] \in LockedPC /\ cur[u] = cur[t] => u = t
    BY HolderAlone DEF LockedPC
  <1>8. /\ DOMAIN idequeue' = DOMAIN idequeue \cup {Len(idequeue) + 1}
        /\ Len(idequeue) + 1 \notin DOMAIN idequeue
        /\ idequeue'[Len(idequeue) + 1] = cur[t]
        /\ \A i \in DOMAIN idequeue : idequeue'[i] = idequeue[i] /\ idequeue[i] \in Buf
    BY <1>1 DEF BufInv, BufType
  <1>9. \A i \in DOMAIN idequeue : idequeue[i] # cur[t]
    BY <1>7 DEF Queued
  <1>10. QueueInv'
    <2>1. \A i, j \in DOMAIN idequeue' : idequeue'[i] = idequeue'[j] => i = j
      BY <1>8, <1>9 DEF BufInv, QueueInv
    <2>2. \A i \in DOMAIN idequeue' : ~valid[idequeue'[i]] \/ dirty'[idequeue'[i]]
      BY <1>8, <1>9 DEF BufInv, QueueInv
    <2>3. ASSUME NEW i \in DOMAIN idequeue'
          PROVE  \E u \in Thread : pc'[u] \in {"io", "test"} /\ cur[u] = idequeue'[i]
      <3>1. CASE i = Len(idequeue) + 1
        BY <1>2, <1>8, <3>1
      <3>2. CASE i \in DOMAIN idequeue
        BY <1>2, <1>8, <3>2 DEF BufInv, QueueInv
      <3> QED BY <1>8, <2>3, <3>1, <3>2
    <2> QED BY <2>1, <2>2, <2>3 DEF QueueInv
  <1>11. WaitInv'
    <2>1. \A b \in Buf : Queued(b) \/ b = cur[t] => Queued(b)'
      BY <1>8 DEF Queued
    <2>2. \A u \in Thread : u # t /\ pc[u] = "test" => cur[u] # cur[t]
      BY <1>7 DEF LockedPC
    <2> QED BY <1>1, <1>2, <2>1, <2>2 DEF BufInv, WaitInv
  <1>12. ValidInv'
    BY <1>1, <1>2 DEF BufInv, ValidInv
  <1> QED BY <1>3, <1>4, <1>5, <1>6, <1>10, <1>11, <1>12 DEF BufInv

LEMMA BreadInv ==
    ASSUME BufInv, NEW t \in Thread, Bread(t)
    PROVE  BufInv'
  <1>1. /\ pc[t] = "locked" /\ cur[t] \in Buf
        /\ UNCHANGED <<blockno, refcnt, valid, dirty, data, holder, disk, cur>>
    BY DEF Bread, cachevars, bufvars, BufInv, BufType
  <1>2. CASE ~valid[cur[t]] /\ Iderw(t)
    <2>1. data' \in [Buf -> Val] /\ dirty' \in [Buf -> BOOLEAN]
      BY <1>1 DEF BufInv, BufType
    <2>2. dirty'[cur[t]] => valid[cur[t]]
      BY <1>1 DEF BufInv, ValidInv
    <2> QED BY <1>1, <1>2, <2>1, <2>2, IderwInv
  <1>3. CASE valid[cur[t]] /\ Goto(t, "held") /\ UNCHANGED idequeue
    <2>1. pc' = [pc EXCEPT ![t] = "held"] /\ idequeue' = idequeue
      BY <1>3 DEF Goto
    <2>2. \A u \in Thread : pc'[u] = IF u = t THEN "held" ELSE pc[u]
      BY <2>1 DEF BufInv, BufType
    <2>3. BufType'
      BY <1>1, <2>1 DEF BufInv, BufType, PC
    <2>4. CountInv'
      BY <1>1, <2>2, CountSame
    <2>5. LockInv' /\ BlockInv'
      BY <1>1, <2>2 DEF BufInv, LockInv, LockedPC, BlockInv
    <2>6. QueueInv'
      BY <1>1, <2>1, <2>2 DEF BufInv, QueueInv
    <2>7. WaitInv'
      BY <1>1, <2>1, <2>2 DEF BufInv, WaitInv, Queued
    <2>8. ValidInv'
      BY <1>1, <1>3, <2>2 DEF BufInv, ValidInv
    <2> QED BY <2>3, <2>4, <2>5, <2>6, <2>7, <2>8 DEF BufInv
  <1> QED BY <1>2, <1>3 DEF Bread

LEMMA WriteInv ==
    ASSUME BufInv, NEW t \in Thread, NEW v \in Val, LogWrite(t, v) \/ Bwrite(t, v)
    PROVE  BufInv'
  <1>1. /\ pc[t] = "held" /\ cur[t] \in Buf
        /\ data' = [data EXCEPT ![cur[t]] = v]
        /\ dirty' = [dirty EXCEPT ![cur[t]] = TRUE]
        /\ UNCHANGED <<blockno, refcnt, valid, holder, disk, cur>>
    BY DEF LogWrite, Bwrite, cachevars, BufInv, BufType
  <1>2. data' \in [Buf -> Val] /\ dirty' \in [Buf -> BOOLEAN]
    BY <1>1 DEF BufInv, BufType
  <1>3. dirty'[cur[t]] /\ \A b \in Buf : b # cur[t] => dirty'[b] = dirty[b]
    BY <1>1 DEF BufInv, BufType
  <1>4. valid[cur[t]]
    BY <1>1 DEF BufInv, ValidInv
  <1>5. CASE Bwrite(t, v)
    BY <1>1, <1>2, <1>3, <1>4, <1>5, IderwInv DEF Bwrite
  <1>6. CASE LogWrite(t, v)
    <2>1. UNCHANGED <<idequeue, pc>>
      BY <1>6 DEF LogWrite
    <2>2. BufType'
      BY <1>1, <1>2, <2>1 DEF BufInv, BufType
    <2>3. CountInv'
      BY <1>1, <2>1, CountSame
    <2>4. LockInv' /\ BlockInv'
      BY <1>1, <2>1 DEF BufInv, LockInv, BlockInv
    <2>5. QueueInv'
      <3>1. \A i \in DOMAIN idequeue : idequeue[i] \in Buf
        BY DEF BufInv, BufType
      <3>2. \A i \in DOMAIN idequeue : dirty[idequeue[i]] => dirty'[idequeue[i]]
        BY <1>3, <3>1
      <3> QED BY <1>1, <2>1, <3>2 DEF BufInv, QueueInv
    <2>6. WaitInv'
      <3>1. \A u \in Thread : pc[u] = "test" => cur[u] # cur[t] /\ cur[u] \in Buf
        BY <1>1, HolderAlone DEF LockedPC, BufInv, BufType
      <3> QED BY <1>1, <1>3, <2>1, <3>1 DEF BufInv, WaitInv, Queued
    <2>7. ValidInv'
      BY <1>1, <1>3, <1>4, <2>1 DEF BufInv, ValidInv
    <2> QED BY <2>2, <2>3, <2>4, <2>5, <2>6, <2>7 DEF BufInv
  <1> QED BY <1>5, <1>6

\* ideintr(): the flags of the first buffer say that nothing is left to do.
LEMMA IntrInv ==
    ASSUME BufInv, NEW ok \in ReadOk, Ideintr(ok)
    PROVE  BufInv'
  <1> DEFINE b == Head(idequeue)
  <1>1. /\ idequeue # <<>> /\ b \in Buf /\ idequeue' = Tail(idequeue)
        /\ valid' = [valid EXCEPT ![b] = TRUE] /\ dirty' = [dirty EXCEPT ![b] = FALSE]
        /\ UNCHANGED <<blockno, refcnt, holder, cur>>
    BY DEF Ideintr, cachevars, BufInv, BufType
  <1>2. /\ \A i \in DOMAIN idequeue' : /\ i + 1 \in DOMAIN idequeue
                                       /\ idequeue'[i] = idequeue[i + 1]
                                       /\ idequeue[i + 1] \in Buf
        /\ \A i \in DOMAIN idequeue : i = 1 \/ (i - 1 \in DOMAIN idequeue'
                                                /\ idequeue'[i - 1] = idequeue[i])
        /\ 1 \in DOMAIN idequeue /\ b = idequeue[1] /\ DOMAIN idequeue' \subseteq Nat \ {0}
        /\ DOMAIN idequeue \subseteq Nat \ {0}
    BY <1>1 DEF BufInv, BufType
  <1>3. PICK t \in Thread : pc[t] \in {"io", "test"} /\ cur[t] = b
    BY <1>2 DEF BufInv, QueueInv
  <1>4. blockno[b] \in Block
    BY <1>1, <1>3 DEF BufInv, BufType, BlockInv
  <1>5. \A u \in Thread : pc'[u] = IF cur[u] = b /\ pc[u] = "io" THEN "test" ELSE pc[u]
    BY DEF Ideintr, Wakeup
  <1>6. /\ valid'[b] = TRUE /\ dirty'[b] = FALSE
        /\ \A a \in Buf : a # b => valid'[a] = valid[a] /\ dirty'[a] = dirty[a]
    BY <1>1 DEF BufInv, BufType
  <1>7. BufType'
    <2>1. pc' \in [Thread -> PC]
      BY DEF Ideintr, Wakeup, BufInv, BufType, PC
    <2>2. idequeue' \in Seq(Buf)
      BY <1>1 DEF BufInv, BufType
    <2>3. disk' \in [Block -> Val] /\ data' \in [Buf -> Val]
      BY <1>1, <1>4 DEF Ideintr, BufInv, BufType
    <2>4. valid' \in [Buf -> BOOLEAN] /\ dirty' \in [Buf -> BOOLEAN]
      BY <1>1 DEF BufInv, BufType
    <2> QED BY <1>1, <2>1, <2>2, <2>3, <2>4 DEF BufInv, BufType
  <1> HIDE DEF b
  <1>8. CountInv'
    BY <1>1, <1>5, CountSame
  <1>9. LockInv'
    <2>1. \A u \in Thread : pc'[u] \in LockedPC <=> pc[u] \in LockedPC
      BY <1>5 DEF LockedPC
    <2> QED BY <1>1, <2>1 DEF BufInv, LockInv
  <1>10. BlockInv'
    <2>1. \A u \in Thread : pc'[u] # "idle" <=> pc[u] # "idle"
      BY <1>5
    <2>2. blockno[b] # NoBlock
      BY <1>4, BufAssumption
    <2> QED BY <1>1, <1>6, <2>1, <2>2 DEF BufInv, BlockInv
  <1>11. \A i \in DOMAIN idequeue' : idequeue'[i] # b
    <2>1. \A i \in DOMAIN idequeue : idequeue[i] = b => i = 1
      BY <1>2 DEF BufInv, QueueInv
    <2>2. \A i \in Nat \ {0} : i + 1 # 1
      OBVIOUS
    <2> QED BY <1>2, <2>1, <2>2
  <1>12. QueueInv'
    <2>1. \A i, j \in DOMAIN idequeue' : idequeue'[i] = idequeue'[j] => i = j
      <3>1. \A i, j \in DOMAIN idequeue' : idequeue'[i] = idequeue'[j] => i + 1 = j + 1
        BY <1>2 DEF BufInv, QueueInv
      <3>2. \A i, j \in Nat \ {0} : i + 1 = j + 1 => i = j
        OBVIOUS
      <3> QED BY <1>2, <3>1, <3>2
    <2>2. \A i \in DOMAIN idequeue' : ~valid'[idequeue'[i]] \/ dirty'[idequeue'[i]]
      <3>1. \A i \in DOMAIN idequeue' : ~valid[idequeue'[i]] \/ dirty[idequeue'[i]]
        BY <1>2 DEF BufInv, QueueInv
      <3> QED BY <1>2, <1>6, <1>11, <3>1
    <2>3. \A i \in DOMAIN idequeue' :
             \E u \in Thread : pc'[u] \in {"io", "test"} /\ cur'[u] = idequeue'[i]
      <3>1. \A i \in DOMAIN idequeue' :
               \E u \in Thread : pc[u] \in {"io", "test"} /\ cur[u] = idequeue'[i]
        BY <1>2 DEF BufInv, QueueInv
      <3>2. \A u \in Thread : pc[u] \in {"io", "test"} => pc'[u] \in {"io", "test"}
        BY <1>5
      <3> QED BY <1>1, <3>1, <3>2
    <2> QED BY <2>1, <2>2, <2>3 DEF QueueInv
  <1>13. WaitInv'
    <2>1. \A a \in Buf : Queued(a) /\ a # b => Queued(a)'
      BY <1>2 DEF Queued
    <2>2. \A u \in Thread : cur[u] \in Buf
      BY DEF BufInv, BufType
    <2>3. \A u \in Thread : /\ pc'[u] = "io" => pc[u] = "io" /\ cur[u] # b
                            /\ pc'[u] = "test" /\ cur[u] # b => pc[u] = "test"
                            /\ pc'[u] = "wait" => pc[u] = "wait"
      BY <1>5
    <2>4. \A u \in Thread : cur[u] = b => valid'[cur[u]] /\ ~dirty'[cur[u]]
      BY <1>6
    <2>5. \A u \in Thread : cur[u] # b => valid'[cur[u]] = valid[cur[u]]
                                            /\ dirty'[cur[u]] = dirty[cur[u]]
      BY <1>6, <2>2
    <2> QED BY <1>1, <2>1, <2>2, <2>3, <2>4, <2>5 DEF BufInv, WaitInv
  <1>14. ValidInv'
    <2>1. \A u \in Thread : pc'[u] = "held" => pc[u] = "held" /\ cur[u] \in Buf
      BY <1>5 DEF BufInv, BufType
    <2> QED BY <1>1, <1>6, <2>1 DEF BufInv, ValidInv
  <1> QED BY <1>7, <1>8, <1>9, <1>10, <1>12, <1>13, <1>14 DEF BufInv

LEMMA TestInv ==
    ASSUME BufInv, NEW t \in Thread, IderwTest(t) \/ Kill(t)
    PROVE  BufInv'
  <1>1. UNCHANGED <<blockno, refcnt, valid, dirty, data, holder, disk, cur, idequeue>>
    BY DEF IderwTest, Kill, cachevars, bufvars
  <1> DEFINE l == IF pc[t] = "wait" THEN "lock"
                  ELSE IF pc[t] = "io" THEN "test"
                  ELSE IF valid[cur[t]] /\ ~dirty[cur[t]] THEN "held" ELSE "io"
  <1>2. pc[t] \in {"wait", "io", "test"} /\ pc' = [pc EXCEPT ![t] = l]
    BY DEF IderwTest, Kill, Goto
  <1>3. \A u \in Thread : u # t => pc'[u] = pc[u]
    BY <1>2 DEF BufInv, BufType
  <1>4. pc'[t] = l /\ pc'[t] \in {"lock", "test", "held", "io"}
    BY <1>2 DEF BufInv, BufType
  <1>5. BufType'
    <2>1. pc' \in [Thread -> PC]
      BY <1>2 DEF BufInv, BufType, PC
    <2> QED BY <1>1, <2>1 DEF BufInv, BufType
  <1>6. CountInv'
    BY <1>1, <1>2, <1>3, <1>4, CountSame
  <1>7. LockInv'
    <2>1. pc'[t] \in LockedPC <=> pc[t] \in LockedPC
      BY <1>2, <1>4 DEF LockedPC
    <2> QED BY <1>1, <1>3, <2>1 DEF BufInv, LockInv
  <1>8. BlockInv'
    BY <1>1, <1>2, <1>3 DEF BufInv, BlockInv
  <1>9. QueueInv'
    <2>1. pc'[t] = "held" => ~Queued(cur[t])
      BY <1>2, <1>4 DEF BufInv, QueueInv, Queued
    <2>2. pc[t] \in {"io", "test"} => pc'[t] \in {"io", "test", "held"}
      BY <1>4
    <2>3. ASSUME NEW i \in DOMAIN idequeue
          PROVE  \E u \in Thread : pc'[u] \in {"io", "test"} /\ cur[u] = idequeue[i]
      <3>1. PICK u \in Thread : pc[u] \in {"io", "test"} /\ cur[u] = idequeue[i]
        BY <2>3 DEF BufInv, QueueInv
      <3>2. CASE u = t
        BY <2>1, <2>2, <2>3, <3>1, <3>2 DEF Queued
      <3>3. CASE u # t
        BY <1>3, <3>1, <3>3
      <3> QED BY <3>2, <3>3
    <2> QED BY <1>1, <2>3 DEF BufInv, QueueInv
  <1>10. WaitInv'
    <2>1. /\ pc'[t] = "io" => Queued(cur[t])
          /\ pc'[t] = "test" => Queued(cur[t])
          /\ pc'[t] # "wait"
      BY <1>2, <1>4 DEF BufInv, WaitInv
    <2> HIDE DEF l
    <2> QED BY <1>1, <1>3, <2>1 DEF BufInv, WaitInv, Queued
  <1>11. ValidInv'
    <2>1. pc'[t] = "held" => valid[cur[t]]
      BY <1>2, <1>4
    <2> HIDE DEF l
    <2> QED BY <1>1, <1>3, <2>1 DEF BufInv, ValidInv
  <1> QED BY <1>5, <1>6, <1>7, <1>8, <1>9, <1>10, <1>11 DEF BufInv

LEMMA BrelseInv ==
    ASSUME BufInv, NEW t \in Thread, Brelse(t)
    PROVE  BufInv'
  <1>1. /\ UNCHANGED <<blockno, valid, dirty, data, holder, idequeue, disk>>
        /\ pc[t] = "relse" /\ pc' = [pc EXCEPT ![t] = "idle"]
        /\ cur' = [cur EXCEPT ![t] = 1]
        /\ refcnt' = [refcnt EXCEPT ![cur[t]] = @ - 1]
    BY DEF Brelse, Goto, bufvars
  <1>2. CountInv' /\ refcnt' \in [Buf -> Nat]
    BY <1>1, CountLess
  <1>3. 1 \in Buf
    BY BufAssumption DEF Buf
  <1>4. \A u \in Thread : /\ u # t => pc'[u] = pc[u] /\ cur'[u] = cur[u]
                          /\ pc'[t] = "idle"
    BY <1>1 DEF BufInv, BufType
  <1>5. BufType'
    BY <1>1, <1>2, <1>3 DEF BufInv, BufType, PC
  <1>6. LockInv'
    BY <1>1, <1>4 DEF BufInv, LockInv, LockedPC
  <1>7. BlockInv'
    BY <1>1, <1>4 DEF BufInv, BlockInv
  <1>8. QueueInv'
    BY <1>1, <1>4 DEF BufInv, QueueInv
  <1>9. WaitInv'
    BY <1>1, <1>4 DEF BufInv, WaitInv, Queued
  <1>10. ValidInv'
    BY <1>1, <1>4 DEF BufInv, ValidInv
  <1> QED BY <1>2, <1>5, <1>6, <1>7, <1>8, <1>9, <1>10 DEF BufInv

-----------------------------------------------------------------------------
LEMMA InitInv == Init => BufInv /\ CleanInv
  <1> SUFFICES ASSUME Init PROVE BufInv /\ CleanInv
    OBVIOUS
  <1> USE BufAssumption
  <1>1. BufType
    <2>1. 1 \in Buf /\ (CHOOSE v \in Val : TRUE) \in Val
      BY DEF Buf
    <2>2. valid \in [Buf -> BOOLEAN] /\ dirty \in [Buf -> BOOLEAN]
      BY DEF Init
    <2> QED BY <2>1, <2>2 DEF Init, BufType, PC
  <1>2. CountInv
    <2>1. \A b \in Buf : Users(b) = {} /\ refcnt[b] = 0
      BY DEF Init, Users
    <2> QED BY <2>1, FS_EmptySet DEF CountInv
  <1>3. LockInv /\ BlockInv /\ QueueInv /\ WaitInv
    BY DEF Init, LockInv, LockedPC, BlockInv, QueueInv, WaitInv
  <1>4. ValidInv /\ CleanInv
    BY DEF Init, ValidInv, CleanInv
  <1> QED BY <1>1, <1>2, <1>3, <1>4 DEF BufInv

LEMMA StutterInv ==
    ASSUME BufInv, UNCHANGED <<cachevars, bufvars, holder, idequeue, disk, pc, cur>>
    PROVE  BufInv'
  <1>1. UNCHANGED <<blockno, refcnt, valid, dirty, data, holder, idequeue, disk, pc, cur>>
    BY DEF cachevars, bufvars
  <1>2. BufType'
    BY <1>1 DEF BufInv, BufType
  <1>3. CountInv'
    BY <1>1, CountSame
  <1>4. LockInv' /\ BlockInv'
    BY <1>1 DEF BufInv, LockInv, BlockInv
  <1>5. QueueInv'
    BY <1>1 DEF BufInv, QueueInv
  <1>6. WaitInv' /\ ValidInv'
    BY <1>1 DEF BufInv, WaitInv, ValidInv, Queued
  <1> QED BY <1>2, <1>3, <1>4, <1>5, <1>6 DEF BufInv

LEMMA NextInv == BufInv /\ [Next]_vars => BufInv'
  <1> SUFFICES ASSUME BufInv, [Next]_vars PROVE BufInv'
    OBVIOUS
  <1>1. ASSUME NEW t \in Thread, Bget(t) PROVE BufInv'
    <2>1. ASSUME NEW n \in Block, BgetPanic(t, n) PROVE BufInv'
      BY <2>1, StutterInv DEF BgetPanic
    <2> QED BY <1>1, <2>1, HitInv, RecycleInv DEF Bget
  <1>2. CASE UNCHANGED vars
    BY <1>2, StutterInv DEF vars
  <1> QED BY <1>1, <1>2, SleepLockInv, BreadInv, WriteInv, TestInv, BrelseInv, IntrInv
          DEF Next, Halted

\* The invariant of bio.c, sleeplock.c and ide.c.
THEOREM Invariance == Spec => []BufInv
  <1>1. Init => BufInv
    BY InitInv
  <1> QED BY <1>1, NextInv, PTL DEF Spec

\* bget() and brelse() count exactly the processes that use a buffer, and a
\* buffer that somebody has locked is counted, so that bget() recycles none
\* that is in use.
THEOREM RefcntIsExact == Spec => []RefcntExact
  <1>1. BufInv => RefcntExact
    <2> SUFFICES ASSUME BufInv, NEW b \in Buf
                 PROVE  /\ refcnt[b] = Cardinality(Users(b))
                        /\ holder[b] # NoThread => refcnt[b] > 0
      BY DEF RefcntExact, Users
    <2>1. IsFiniteSet(Users(b)) /\ refcnt[b] = Cardinality(Users(b))
      BY DEF BufInv, CountInv
    <2>2. ASSUME holder[b] # NoThread PROVE refcnt[b] > 0
      <3>1. holder[b] \in Users(b)
        <4>1. holder[b] \in Thread
          BY <2>2 DEF BufInv, BufType
        <4>2. pc[holder[b]] \in LockedPC /\ cur[holder[b]] = b
          BY <4>1 DEF BufInv, LockInv
        <4> QED BY <4>1, <4>2 DEF LockedPC, Users
      <3>2. Cardinality(Users(b)) # 0 /\ Cardinality(Users(b)) \in Nat
        BY <2>1, <3>1, FS_EmptySet, FS_CardinalityType
      <3> QED BY <2>1, <3>2
    <2> QED BY <2>1, <2>2
  <1> QED BY <1>1, Invariance, PTL

\* Nobody sleeps in acquiresleep() for a free lock or in iderw() for a request
\* that the disk does not have, also when kill() wakes processes in between.
THEOREM NoSleepIsLost == Spec => []NoLostWakeup
  <1>1. BufInv => NoLostWakeup
    BY DEF BufInv, WaitInv, Queued, NoLostWakeup
  <1> QED BY <1>1, Invariance, PTL

-----------------------------------------------------------------------------
(* The refinement of BlockStore.                                           *)

\* Value and Owner as functions of the variables that they depend on.
ValueOf(bn, va, da, di) ==
    [n \in Block |-> IF \E b \in {a \in Buf : bn[a] = n} : va[b]
                     THEN da[CHOOSE b \in {a \in Buf : bn[a] = n} : va[b]]
                     ELSE di[n]]

LEMMA ValueIs ==
    /\ Value = ValueOf(blockno, valid, data, disk)
    /\ Value' = ValueOf(blockno', valid', data', disk')
  BY DEF Value, ValueOf, Cached

LEMMA ValueAt ==
    ASSUME NEW bn, NEW va, NEW da, NEW di, NEW n \in Block,
           \A a, b \in Buf : bn[a] # NoBlock /\ bn[a] = bn[b] => a = b
    PROVE  /\ \A b \in Buf : bn[b] = n /\ va[b] => ValueOf(bn, va, da, di)[n] = da[b]
           /\ (\A b \in Buf : bn[b] = n => ~va[b]) => ValueOf(bn, va, da, di)[n] = di[n]
  <1>1. ASSUME NEW b \in Buf, bn[b] = n, va[b]
        PROVE  ValueOf(bn, va, da, di)[n] = da[b]
    <2>1. n # NoBlock
      BY BufAssumption
    <2>2. (CHOOSE d \in {a \in Buf : bn[a] = n} : va[d]) = b
      BY <1>1, <2>1
    <2> QED BY <1>1, <2>2 DEF ValueOf
  <1> QED BY <1>1 DEF ValueOf

\* The same for a step that recycles no buffer.
LEMMA ValueNext ==
    ASSUME BufInv, UNCHANGED blockno, NEW n \in Block
    PROVE  /\ \A b \in Buf : blockno[b] = n /\ valid'[b] => Value'[n] = data'[b]
           /\ (\A b \in Buf : blockno[b] = n => ~valid'[b]) => Value'[n] = disk'[n]
  <1>1. \A a, b \in Buf : blockno[a] # NoBlock /\ blockno[a] = blockno[b] => a = b
    BY DEF BufInv, BlockInv
  <1>2. Value' = ValueOf(blockno, valid', data', disk')
    BY ValueIs
  <1>3. PICK va, da, di : va = valid' /\ da = data' /\ di = disk'
    OBVIOUS
  <1>4. /\ \A b \in Buf : blockno[b] = n /\ va[b] => ValueOf(blockno, va, da, di)[n] = da[b]
        /\ (\A b \in Buf : blockno[b] = n => ~va[b]) => ValueOf(blockno, va, da, di)[n] = di[n]
    BY <1>1, ValueAt
  <1> QED BY <1>2, <1>3, <1>4

LEMMA ValueSame ==
    ASSUME \A n \in Block : Value'[n] = Value[n]
    PROVE  Value' = Value
  <1>1. Value = [n \in Block |-> Value[n]] /\ Value' = [n \in Block |-> Value'[n]]
    BY DEF Value
  <1> QED BY <1>1

\* The processes with the lock of block n, and Owner as a function of them.
Lockers(n) == {t \in Thread : pc[t] \in LockedPC /\ blockno[cur[t]] = n}

OneOf(H) == IF H = {} THEN NoThread ELSE CHOOSE t \in H : TRUE

LEMMA OwnerIs ==
    /\ Owner = [n \in Block |-> OneOf(Lockers(n))]
    /\ Owner' = [n \in Block |-> OneOf(Lockers(n)')]
  BY DEF Owner, OneOf, Lockers, LockedPC

\* The owner of one block.
LEMMA OwnerAt ==
    ASSUME NEW n \in Block
    PROVE  /\ Lockers(n) = {} => Owner[n] = NoThread
           /\ \A t \in Thread : Lockers(n) = {t} => Owner[n] = t
           /\ Lockers(n)' = {} => Owner'[n] = NoThread
           /\ \A t \in Thread : Lockers(n)' = {t} => Owner'[n] = t
           /\ Lockers(n)' = Lockers(n) => Owner'[n] = Owner[n]
  <1>1. OneOf({}) = NoThread /\ \A t \in Thread : OneOf({t}) = t
    BY DEF OneOf
  <1>2. Owner[n] = OneOf(Lockers(n)) /\ Owner'[n] = OneOf(Lockers(n)')
    BY OwnerIs
  <1> QED BY <1>1, <1>2

LEMMA OwnerSame ==
    ASSUME \A n \in Block : Lockers(n)' = Lockers(n)
    PROVE  Owner' = Owner
  <1>1. \A m \in Block : Owner'[m] = Owner[m]
    BY OwnerAt
  <1>2. Owner = [m \in Block |-> Owner[m]] /\ Owner' = [m \in Block |-> Owner'[m]]
    BY DEF Owner
  <1> QED BY <1>1, <1>2

\* A lock is taken or given back: the owner of one block changes.
LEMMA OwnerExcept ==
    ASSUME NEW n \in Block, NEW o, Owner'[n] = o,
           \A m \in Block : m # n => Lockers(m)' = Lockers(m)
    PROVE  Owner' = [Owner EXCEPT ![n] = o]
  <1>1. \A m \in Block : m # n => Owner'[m] = Owner[m]
    BY OwnerAt
  <1>2. Owner = [m \in Block |-> Owner[m]] /\ Owner' = [m \in Block |-> Owner'[m]]
    BY DEF Owner
  <1> QED BY <1>1, <1>2

\* The contents of one block change.
LEMMA ValueExcept ==
    ASSUME NEW n \in Block, NEW v, Value'[n] = v,
           \A m \in Block : m # n => Value'[m] = Value[m]
    PROVE  Value' = [Value EXCEPT ![n] = v]
  <1>1. Value = [m \in Block |-> Value[m]] /\ Value' = [m \in Block |-> Value'[m]]
    BY DEF Value
  <1> QED BY <1>1

\* The processes with a lock stay the same, and so do their blocks.
LEMMA LocksKept ==
    ASSUME \A u \in Thread : /\ pc'[u] \in LockedPC <=> pc[u] \in LockedPC
                             /\ pc[u] \in LockedPC => blockno'[cur'[u]] = blockno[cur[u]]
    PROVE  Owner' = Owner
  <1>1. \A n \in Block : Lockers(n)' = Lockers(n)
    BY DEF Lockers
  <1> QED BY <1>1, OwnerSame

\* The buffers and the disk stay the same.
LEMMA DataKept ==
    ASSUME CleanInv, UNCHANGED <<blockno, valid, dirty, data, disk>>
    PROVE  CleanInv' /\ Value' = Value
  <1>1. CleanInv'
    BY DEF CleanInv
  <1>2. Value' = Value
    BY ValueIs
  <1> QED BY <1>1, <1>2

\* A process with a lock is the only one with that block, and the owner of it.
LEMMA SoleLocker ==
    ASSUME BufInv, NEW t \in Thread, pc[t] \in LockedPC
    PROVE  /\ blockno[cur[t]] \in Block /\ Lockers(blockno[cur[t]]) = {t}
           /\ Owner[blockno[cur[t]]] = t /\ cur[t] \in Buf
  <1>1. cur[t] \in Buf /\ pc[t] # "idle"
    BY DEF BufInv, BufType, LockedPC
  <1>2. blockno[cur[t]] \in Block
    BY <1>1 DEF BufInv, BufType, BlockInv
  <1>3. ASSUME NEW u \in Thread, pc[u] \in LockedPC, blockno[cur[u]] = blockno[cur[t]]
        PROVE  u = t
    <2>1. cur[u] = cur[t]
      BY <1>1, <1>2, <1>3, BufAssumption DEF BufInv, BufType, BlockInv
    <2>2. holder[cur[t]] = t /\ holder[cur[t]] = u
      BY <1>1, <1>3, <2>1 DEF BufInv, LockInv
    <2> QED BY <2>2
  <1>4. Lockers(blockno[cur[t]]) = {t}
    BY <1>3 DEF Lockers
  <1> QED BY <1>1, <1>2, <1>4, OwnerAt

LEMMA RecycleStep ==
    ASSUME BufInv, CleanInv, NEW t \in Thread, NEW n \in Block, BgetRecycle(t, n)
    PROVE  CleanInv' /\ Value' = Value /\ Owner' = Owner
  <1>1. PICK b \in Free :
           /\ blockno' = [blockno EXCEPT ![b] = n]
           /\ valid' = [valid EXCEPT ![b] = FALSE]
           /\ dirty' = [dirty EXCEPT ![b] = FALSE]
           /\ cur' = [cur EXCEPT ![t] = b]
    BY DEF BgetRecycle
  <1>2. /\ pc[t] = "idle" /\ pc' = [pc EXCEPT ![t] = "lock"]
        /\ UNCHANGED <<data, disk>>
        /\ \A a \in Buf : blockno[a] # n
    BY DEF BgetRecycle, Goto, Cached
  <1>3. b \in Buf /\ ~dirty[b] /\ \A u \in Thread : pc[u] # "idle" => cur[u] # b
    BY FreeUnused
  <1>4. \A a \in Buf : a # b => /\ blockno'[a] = blockno[a] /\ valid'[a] = valid[a]
                                /\ dirty'[a] = dirty[a]
    BY <1>1 DEF BufInv, BufType
  <1>5. blockno'[b] = n /\ valid'[b] = FALSE
    BY <1>1, <1>3 DEF BufInv, BufType
  <1>6. CleanInv'
    BY <1>2, <1>4, <1>5 DEF CleanInv
  <1>7. Owner' = Owner
    <2>1. \A u \in Thread : u # t => pc'[u] = pc[u] /\ cur'[u] = cur[u]
      BY <1>1, <1>2 DEF BufInv, BufType
    <2>2. pc'[t] = "lock"
      BY <1>2 DEF BufInv, BufType
    <2>3. \A u \in Thread : pc'[u] \in LockedPC <=> pc[u] \in LockedPC
      BY <1>2, <2>1, <2>2 DEF LockedPC
    <2>4. \A u \in Thread : pc[u] \in LockedPC => blockno'[cur'[u]] = blockno[cur[u]]
      <3> SUFFICES ASSUME NEW u \in Thread, pc[u] \in LockedPC
                   PROVE  blockno'[cur'[u]] = blockno[cur[u]]
        OBVIOUS
      <3>1. u # t /\ pc[u] # "idle"
        BY <1>2 DEF LockedPC
      <3>2. cur'[u] = cur[u] /\ cur[u] # b /\ cur[u] \in Buf
        BY <1>3, <2>1, <3>1 DEF BufInv, BufType
      <3> QED BY <1>4, <3>2
    <2> QED BY <2>3, <2>4, LocksKept
  <1>8. ASSUME NEW m \in Block PROVE Value'[m] = Value[m]
    <2>1. /\ \A a, d \in Buf : blockno[a] # NoBlock /\ blockno[a] = blockno[d] => a = d
          /\ \A a, d \in Buf : blockno'[a] # NoBlock /\ blockno'[a] = blockno'[d] => a = d
      BY RecycleInv DEF BufInv, BlockInv
    <2>2. /\ \A a \in Buf : blockno[a] = m /\ valid[a] => Value[m] = data[a]
          /\ (\A a \in Buf : blockno[a] = m => ~valid[a]) => Value[m] = disk[m]
      BY <2>1, ValueIs, ValueAt
    <2>3. /\ \A a \in Buf : blockno'[a] = m /\ valid'[a] => Value'[m] = data[a]
          /\ (\A a \in Buf : blockno'[a] = m => ~valid'[a]) => Value'[m] = disk[m]
      BY <1>2, <2>1, ValueIs, ValueAt
    <2>4. CASE \E a \in Buf : a # b /\ blockno[a] = m /\ valid[a]
      BY <1>4, <2>2, <2>3, <2>4
    <2>5. CASE ~ \E a \in Buf : a # b /\ blockno[a] = m /\ valid[a]
      <3>1. Value'[m] = disk[m]
        BY <1>4, <1>5, <2>3, <2>5
      <3>2. CASE blockno[b] = m /\ valid[b]
        BY <1>3, <2>2, <3>1, <3>2 DEF CleanInv
      <3>3. CASE ~(blockno[b] = m /\ valid[b])
        BY <2>2, <2>5, <3>1, <3>3
      <3> QED BY <3>2, <3>3
    <2> QED BY <2>4, <2>5
  <1> QED BY <1>6, <1>7, <1>8, ValueSame

LEMMA LockStep ==
    ASSUME BufInv, CleanInv, NEW t \in Thread, AcquireSleep(t)
    PROVE  CleanInv' /\ [BS!BNext]_(BS!bvars)
  <1>1. /\ UNCHANGED <<blockno, valid, dirty, data, disk, cur>>
        /\ pc[t] = "lock"
    BY DEF AcquireSleep, cachevars, bufvars
  <1>2. CleanInv' /\ Value' = Value
    BY <1>1, DataKept
  <1>3. CASE holder[cur[t]] = NoThread /\ pc' = [pc EXCEPT ![t] = "locked"]
    <2>0. blockno[cur[t]] \in Block
      BY <1>1 DEF BufInv, BufType, BlockInv
    <2>1. PICK n \in Block : n = blockno[cur[t]] /\ cur[t] \in Buf
      BY <2>0 DEF BufInv, BufType
    <2>2. \A u \in Thread : u # t => pc'[u] = pc[u]
      BY <1>3 DEF BufInv, BufType
    <2>3. pc'[t] \in LockedPC /\ pc[t] \notin LockedPC
      BY <1>1, <1>3 DEF BufInv, BufType, LockedPC
    <2>4. Lockers(n) = {}
      <3> SUFFICES ASSUME NEW u \in Thread, pc[u] \in LockedPC, blockno[cur[u]] = n
                   PROVE  FALSE
        BY DEF Lockers
      <3>1. cur[u] = cur[t]
        BY <2>1, BufAssumption DEF BufInv, BufType, BlockInv
      <3>2. holder[cur[t]] = u
        BY <2>1, <3>1 DEF BufInv, LockInv
      <3> QED BY <1>3, <3>2, BufAssumption
    <2>5. Lockers(n)' = {t}
      BY <1>1, <2>1, <2>2, <2>3, <2>4 DEF Lockers
    <2>6. \A m \in Block : m # n => Lockers(m)' = Lockers(m)
      BY <1>1, <2>1, <2>2, <2>3 DEF Lockers
    <2>7. Owner[n] = NoThread /\ Owner'[n] = t
      BY <2>1, <2>4, <2>5, OwnerAt
    <2>8. Owner' = [Owner EXCEPT ![n] = t]
      BY <2>1, <2>6, <2>7, OwnerExcept
    <2> QED BY <1>2, <2>1, <2>7, <2>8 DEF BS!BNext, BS!Lock
  <1>4. CASE pc' = [pc EXCEPT ![t] = "wait"]
    <2>1. \A u \in Thread : pc'[u] \in LockedPC <=> pc[u] \in LockedPC
      BY <1>1, <1>4 DEF BufInv, BufType, LockedPC
    <2>2. Owner' = Owner
      BY <1>1, <2>1, LocksKept
    <2> QED BY <1>2, <2>2 DEF BS!bvars
  <1> QED BY <1>3, <1>4 DEF AcquireSleep, Goto

LEMMA UnlockStep ==
    ASSUME BufInv, CleanInv, NEW t \in Thread, ReleaseSleep(t)
    PROVE  CleanInv' /\ BS!BNext
  <1>1. /\ UNCHANGED <<blockno, valid, dirty, data, disk, cur>>
        /\ pc[t] = "held"
        /\ pc' = [Wakeup({u \in Thread : cur[u] = cur[t]}, "wait", "lock")
                     EXCEPT ![t] = "relse"]
    BY DEF ReleaseSleep, cachevars, bufvars
  <1>2. CleanInv' /\ Value' = Value
    BY <1>1, DataKept
  <1>3. PICK n \in Block : n = blockno[cur[t]] /\ Lockers(n) = {t} /\ Owner[n] = t
    BY <1>1, SoleLocker DEF LockedPC
  <1>4. pc'[t] \notin LockedPC
    BY <1>1 DEF Wakeup, LockedPC
  <1>5. \A u \in Thread : u # t => (pc'[u] \in LockedPC <=> pc[u] \in LockedPC)
    BY <1>1 DEF Wakeup, LockedPC
  <1>6. Lockers(n)' = {}
    BY <1>1, <1>3, <1>4, <1>5 DEF Lockers
  <1>7. \A m \in Block : m # n => Lockers(m)' = Lockers(m)
    BY <1>1, <1>3, <1>4, <1>5 DEF Lockers
  <1>8. Owner'[n] = NoThread
    BY <1>3, <1>6, OwnerAt
  <1>9. Owner' = [Owner EXCEPT ![n] = NoThread]
    BY <1>3, <1>7, <1>8, OwnerExcept
  <1> QED BY <1>2, <1>3, <1>9 DEF BS!BNext, BS!Unlock

\* The process with the lock modifies its block.
LEMMA DataStep ==
    ASSUME BufInv, CleanInv, BufInv', NEW t \in Thread, NEW v \in Val,
           pc[t] = "held", UNCHANGED <<blockno, valid, disk, cur>>,
           data' = [data EXCEPT ![cur[t]] = v],
           dirty' = [dirty EXCEPT ![cur[t]] = TRUE],
           \A u \in Thread : pc'[u] \in LockedPC <=> pc[u] \in LockedPC
    PROVE  CleanInv' /\ BS!BNext
  <1>1. PICK n \in Block : n = blockno[cur[t]] /\ Owner[n] = t /\ cur[t] \in Buf
    BY SoleLocker DEF LockedPC
  <1>2. valid[cur[t]]
    BY DEF BufInv, ValidInv
  <1>3. /\ data'[cur[t]] = v /\ dirty'[cur[t]] = TRUE
        /\ \A b \in Buf : b # cur[t] => data'[b] = data[b] /\ dirty'[b] = dirty[b]
    BY <1>1 DEF BufInv, BufType
  <1>4. CleanInv'
    BY <1>3 DEF CleanInv
  <1>5. Owner' = Owner
    BY LocksKept
  <1>6. \A a, b \in Buf : blockno[a] # NoBlock /\ blockno[a] = blockno[b] => a = b
    BY DEF BufInv, BlockInv
  <1>7. Value'[n] = v
    <2>1. Value'[n] = data'[cur[t]]
      BY <1>1, <1>2, ValueNext
    <2> QED BY <1>3, <2>1
  <1>8. ASSUME NEW m \in Block, m # n PROVE Value'[m] = Value[m]
    <2>1. /\ \A a \in Buf : blockno[a] = m /\ valid[a] => Value[m] = data[a]
          /\ (\A a \in Buf : blockno[a] = m => ~valid[a]) => Value[m] = disk[m]
      BY <1>6, ValueIs, ValueAt
    <2>2. /\ \A a \in Buf : blockno[a] = m /\ valid[a] => Value'[m] = data'[a]
          /\ (\A a \in Buf : blockno[a] = m => ~valid[a]) => Value'[m] = disk[m]
      BY ValueNext
    <2> QED BY <1>1, <1>3, <1>8, <2>1, <2>2
  <1>9. Value' = [Value EXCEPT ![n] = v]
    BY <1>7, <1>8, ValueExcept
  <1> QED BY <1>1, <1>4, <1>5, <1>9 DEF BS!BNext, BS!Update

\* The disk writes a dirty buffer to its block, or fills a buffer that is not
\* valid with the contents of its block.
LEMMA IntrStep ==
    ASSUME BufInv, CleanInv, Ideintr(TRUE)
    PROVE  CleanInv' /\ Value' = Value /\ Owner' = Owner
  <1>1. PICK b \in Buf : b = Head(idequeue) /\ idequeue # <<>> /\ b = idequeue[1]
                         /\ 1 \in DOMAIN idequeue
    BY DEF Ideintr, BufInv, BufType
  <1>2. /\ disk' = IF dirty[b] THEN [disk EXCEPT ![blockno[b]] = data[b]] ELSE disk
        /\ data' = IF ~dirty[b] THEN [data EXCEPT ![b] = disk[blockno[b]]] ELSE data
        /\ valid' = [valid EXCEPT ![b] = TRUE]
        /\ dirty' = [dirty EXCEPT ![b] = FALSE]
        /\ pc' = Wakeup({t \in Thread : cur[t] = b}, "io", "test")
        /\ UNCHANGED <<blockno, cur>>
    BY <1>1 DEF Ideintr, cachevars
  <1>3. ~valid[b] \/ dirty[b]
    BY <1>1 DEF BufInv, QueueInv
  <1>4. blockno[b] \in Block
    <2>1. PICK t \in Thread : pc[t] \in {"io", "test"} /\ cur[t] = b
      BY <1>1 DEF BufInv, QueueInv
    <2> QED BY <1>1, <2>1 DEF BufInv, BlockInv, BufType
  <1>5. dirty[b] => valid[b]
    BY <1>1 DEF BufInv, ValidInv
  <1>6. \A a \in Buf : a # b => valid'[a] = valid[a] /\ dirty'[a] = dirty[a] /\ data'[a] = data[a]
    BY <1>2 DEF BufInv, BufType
  <1>7. valid'[b] = TRUE /\ dirty'[b] = FALSE
    BY <1>1, <1>2 DEF BufInv, BufType
  <1>8. \A m \in Block : m # blockno[b] => disk'[m] = disk[m]
    BY <1>2 DEF BufInv, BufType
  <1>9. data'[b] = disk'[blockno[b]]
    BY <1>1, <1>2, <1>4 DEF BufInv, BufType
  <1>10. \A a, d \in Buf : blockno[a] # NoBlock /\ blockno[a] = blockno[d] => a = d
    BY DEF BufInv, BlockInv
  <1>11. CleanInv'
    <2> SUFFICES ASSUME NEW a \in Buf, valid'[a], ~dirty'[a]
                 PROVE  data'[a] = disk'[blockno[a]]
      BY <1>2 DEF CleanInv
    <2>1. CASE a = b
      BY <1>9, <2>1
    <2>2. CASE a # b
      <3>1. valid[a] /\ ~dirty[a] /\ data'[a] = data[a]
        BY <1>6, <2>2
      <3>2. blockno[a] \in Block /\ blockno[a] # blockno[b]
        BY <1>1, <1>10, <2>2, <3>1 DEF BufInv, BlockInv, BufType
      <3> QED BY <1>8, <3>1, <3>2 DEF CleanInv
    <2> QED BY <2>1, <2>2
  <1>12. Owner' = Owner
    <2>1. \A u \in Thread : pc'[u] \in LockedPC <=> pc[u] \in LockedPC
      BY <1>2 DEF Wakeup, LockedPC
    <2> QED BY <1>2, <2>1, LocksKept
  <1>13. ASSUME NEW m \in Block PROVE Value'[m] = Value[m]
    <2>1. /\ \A a \in Buf : blockno[a] = m /\ valid[a] => Value[m] = data[a]
          /\ (\A a \in Buf : blockno[a] = m => ~valid[a]) => Value[m] = disk[m]
      BY <1>10, ValueIs, ValueAt
    <2>2. /\ \A a \in Buf : blockno[a] = m /\ valid'[a] => Value'[m] = data'[a]
          /\ (\A a \in Buf : blockno[a] = m => ~valid'[a]) => Value'[m] = disk'[m]
      BY <1>2, ValueNext
    <2>3. CASE m = blockno[b]
      <3>1. Value'[m] = data'[b]
        BY <1>1, <1>7, <2>2, <2>3
      <3>2. CASE dirty[b]
        BY <1>1, <1>2, <1>5, <2>1, <2>3, <3>1, <3>2
      <3>3. CASE ~dirty[b]
        <4>1. \A a \in Buf : blockno[a] = m => ~valid[a]
          BY <1>1, <1>3, <1>10, <2>3, <3>3, BufAssumption
        <4>2. disk' = disk
          BY <1>2, <3>3
        <4> QED BY <1>9, <2>1, <2>3, <3>1, <4>1, <4>2
      <3> QED BY <3>2, <3>3
    <2>4. CASE m # blockno[b]
      BY <1>6, <1>8, <2>1, <2>2, <2>4
    <2> QED BY <2>3, <2>4
  <1> QED BY <1>11, <1>12, <1>13, ValueSame

LEMMA InitStore == Init => BS!BInit
  <1> SUFFICES ASSUME Init PROVE BS!BInit
    OBVIOUS
  <1> DEFINE v0 == CHOOSE v \in Val : TRUE
  <1>1. v0 \in Val
    BY BufAssumption
  <1>2. \A n \in Block : Value[n] = v0
    <2>1. \A n \in Block : ~ \E b \in Cached(n) : valid[b]
      BY DEF Init, Cached
    <2> QED BY <2>1 DEF Init, Value
  <1>3. Value \in [Block -> Val]
    <2>1. Value = [n \in Block |-> Value[n]]
      BY DEF Value
    <2> QED BY <1>1, <1>2, <2>1
  <1>4. \A n \in Block : Lockers(n) = {}
    BY DEF Init, Lockers, LockedPC
  <1>5. Owner = [n \in Block |-> NoThread]
    <2>1. Owner = [n \in Block |-> Owner[n]]
      BY DEF Owner
    <2> QED BY <1>4, <2>1, OwnerAt
  <1> QED BY <1>3, <1>5 DEF BS!BInit

\* The steps of one process.
LEMMA ThreadStep ==
    ASSUME BufInv, CleanInv, BufInv', NEW t \in Thread,
           \/ Bget(t) \/ SleepLock(t) \/ Bread(t)
           \/ \E v \in Val : LogWrite(t, v) \/ Bwrite(t, v)
           \/ IderwTest(t) \/ Kill(t) \/ Brelse(t)
    PROVE  CleanInv' /\ [BS!BNext]_(BS!bvars)
  <1>1. ASSUME NEW n \in Block, BgetRecycle(t, n)
        PROVE  CleanInv' /\ [BS!BNext]_(BS!bvars)
    BY <1>1, RecycleStep DEF BS!bvars
  <1>2. ASSUME NEW n \in Block, BgetHit(t, n)
        PROVE  CleanInv' /\ [BS!BNext]_(BS!bvars)
    <2>1. /\ UNCHANGED <<blockno, valid, dirty, data, disk>>
          /\ pc[t] = "idle" /\ pc' = [pc EXCEPT ![t] = "lock"]
          /\ \E b \in Buf : cur' = [cur EXCEPT ![t] = b]
      BY <1>2 DEF BgetHit, Goto, bufvars, Cached
    <2>2. \A u \in Thread : /\ u # t => pc'[u] = pc[u] /\ cur'[u] = cur[u]
                            /\ pc'[t] = "lock"
      BY <2>1 DEF BufInv, BufType
    <2>3. Owner' = Owner
      BY <2>1, <2>2, LocksKept DEF LockedPC
    <2> QED BY <2>1, <2>3, DataKept DEF BS!bvars
  <1>3. ASSUME NEW n \in Block, BgetPanic(t, n)
        PROVE  CleanInv' /\ [BS!BNext]_(BS!bvars)
    <2>1. UNCHANGED <<blockno, valid, dirty, data, disk, pc, cur>>
      BY <1>3 DEF BgetPanic, cachevars, bufvars
    <2> QED BY <2>1, DataKept, LocksKept DEF BS!bvars
  <1>4. CASE SleepLock(t)
    BY <1>4, LockStep, UnlockStep DEF SleepLock
  <1>5. CASE Bread(t)
    <2>1. /\ UNCHANGED <<blockno, valid, dirty, data, disk, cur>>
          /\ pc[t] = "locked"
          /\ pc' = [pc EXCEPT ![t] = "held"] \/ pc' = [pc EXCEPT ![t] = "io"]
      BY <1>5 DEF Bread, Goto, Iderw, cachevars, bufvars
    <2>2. \A u \in Thread : pc'[u] \in LockedPC <=> pc[u] \in LockedPC
      BY <2>1 DEF BufInv, BufType, LockedPC
    <2> QED BY <2>1, <2>2, DataKept, LocksKept DEF BS!bvars
  <1>6. ASSUME NEW v \in Val, LogWrite(t, v)
        PROVE  CleanInv' /\ BS!BNext
    BY <1>6, DataStep DEF LogWrite, cachevars
  <1>7. ASSUME NEW v \in Val, Bwrite(t, v)
        PROVE  CleanInv' /\ BS!BNext
    <2>1. /\ UNCHANGED <<blockno, valid, disk, cur>>
          /\ pc[t] = "held" /\ pc' = [pc EXCEPT ![t] = "io"]
          /\ data' = [data EXCEPT ![cur[t]] = v]
          /\ dirty' = [dirty EXCEPT ![cur[t]] = TRUE]
      BY <1>7 DEF Bwrite, Goto, Iderw, cachevars
    <2>2. \A u \in Thread : pc'[u] \in LockedPC <=> pc[u] \in LockedPC
      BY <2>1 DEF BufInv, BufType, LockedPC
    <2> QED BY <2>1, <2>2, DataStep
  <1>8. CASE IderwTest(t) \/ Kill(t)
    <2>1. /\ UNCHANGED <<blockno, valid, dirty, data, disk, cur>>
          /\ \/ pc[t] \in {"test", "io"} /\ (\/ pc' = [pc EXCEPT ![t] = "held"]
                                             \/ pc' = [pc EXCEPT ![t] = "io"]
                                             \/ pc' = [pc EXCEPT ![t] = "test"])
             \/ pc[t] = "wait" /\ pc' = [pc EXCEPT ![t] = "lock"]
      BY <1>8 DEF IderwTest, Kill, Goto, cachevars, bufvars
    <2>2. \A u \in Thread : pc'[u] \in LockedPC <=> pc[u] \in LockedPC
      BY <2>1 DEF BufInv, BufType, LockedPC
    <2> QED BY <2>1, <2>2, DataKept, LocksKept DEF BS!bvars
  <1>9. CASE Brelse(t)
    <2>1. /\ UNCHANGED <<blockno, valid, dirty, data, disk>>
          /\ pc[t] = "relse" /\ pc' = [pc EXCEPT ![t] = "idle"]
          /\ cur' = [cur EXCEPT ![t] = 1]
      BY <1>9 DEF Brelse, Goto, bufvars
    <2>2. \A u \in Thread : /\ u # t => pc'[u] = pc[u] /\ cur'[u] = cur[u]
                            /\ pc'[t] = "idle"
      BY <2>1 DEF BufInv, BufType
    <2>3. Owner' = Owner
      BY <2>1, <2>2, LocksKept DEF LockedPC
    <2> QED BY <2>1, <2>3, DataKept DEF BS!bvars
  <1> QED BY <1>1, <1>2, <1>3, <1>4, <1>5, <1>6, <1>7, <1>8, <1>9 DEF Bget

\* Cache and disk are one store of blocks, provided that no read fails: no
\* update is lost when bget() recycles a buffer, no two buffers hold the same
\* block, and only the process with the sleep lock modifies it.  After a failed
\* read ide.c marks the buffer valid with whatever it held before, so the
\* assumption is needed.
THEOREM CacheIsStore ==
    ASSUME ReadOk = {TRUE}
    PROVE  Spec => IsBlockStore
  <1>1. Init => BufInv /\ CleanInv /\ BS!BInit
    BY InitInv, InitStore
  <1>2. BufInv /\ CleanInv /\ [Next]_vars => (BufInv /\ CleanInv)' /\ [BS!BNext]_(BS!bvars)
    <2> SUFFICES ASSUME BufInv, CleanInv, [Next]_vars
                 PROVE  CleanInv' /\ [BS!BNext]_(BS!bvars)
      BY NextInv
    <2>1. BufInv'
      BY NextInv
    <2>2. CASE UNCHANGED vars
      <3>1. UNCHANGED <<blockno, valid, dirty, data, disk, pc, cur>>
        BY <2>2 DEF vars, cachevars, bufvars
      <3> QED BY <3>1, DataKept, LocksKept DEF BS!bvars
    <2>3. ASSUME NEW ok \in ReadOk, Ideintr(ok)
          PROVE  CleanInv' /\ [BS!BNext]_(BS!bvars)
      BY <2>3, IntrStep DEF BS!bvars
    <2> QED BY <2>1, <2>2, <2>3, ThreadStep DEF Next, Halted
  <1> QED BY <1>1, <1>2, PTL DEF Spec, IsBlockStore, BS!BSpec

-----------------------------------------------------------------------------
(* Physical and virtual memory.                                            *)

\* The order of the naturals, and the least element of a set of them.
LEMMA NatOrder == \E R : IsWellFoundedOn(R, Nat) /\ \A x, y \in Nat : <<x, y>> \in R <=> x < y
  <1>0. \A x, y \in Nat : <<x, y>> \in OpToRel(<, Nat) <=> x < y
    BY DEF OpToRel
  <1> QED BY <1>0, NatLessThanWellFounded, Zenon

LEMMA MinNat ==
    ASSUME NEW S, S \subseteq Nat, S # {}
    PROVE  Min(S) \in S /\ \A y \in S : Min(S) <= y
  <1>1. PICK R : IsWellFoundedOn(R, Nat) /\ \A x, y \in Nat : <<x, y>> \in R <=> x < y
    BY NatOrder
  <1>2. PICK x \in S : \A y \in S : ~(<<y, x>> \in R)
    <2>1. IsWellFoundedOn(R, Nat)
      BY <1>1
    <2> QED BY <2>1, WFMin, Zenon
  <1>3. ASSUME NEW y \in S PROVE x <= y
    <2>1. x \in Nat /\ y \in Nat
      OBVIOUS
    <2>2. ~(y < x)
      BY <1>1, <1>2, <2>1
    <2> QED BY <2>1, <2>2
  <1>4. \E z \in S : \A y \in S : z <= y
    BY <1>3
  <1> QED BY <1>4 DEF Min

-----------------------------------------------------------------------------
(* Arithmetic of pages.                                                    *)

LEMMA MulMono ==
    ASSUME NEW a \in Nat, NEW b \in Nat, NEW c \in Nat, a <= b
    PROVE  a * c <= b * c
  <1>1. PICK d \in Nat : b = a + d
    <2>1. b - a \in Nat /\ b = a + (b - a)
      OBVIOUS
    <2> QED BY <2>1
  <1>2. b * c = a * c + d * c /\ d * c \in Nat /\ a * c \in Nat
    BY <1>1
  <1> QED BY <1>2

LEMMA DivIs ==
    ASSUME NEW n \in Nat, NEW d \in Nat \ {0}
    PROVE  n \div d \in Nat /\ (n \div d) * d <= n /\ n < (n \div d) * d + d
  OBVIOUS

LEMMA RoundUp ==
    ASSUME NEW n \in Nat
    PROVE  /\ PGROUNDUP(n) \in Nat
           /\ \A b \in Nat : b < PGROUNDUP(n) <=> b * PGSIZE < n
  <1> DEFINE P == PGSIZE
             m == n + P - 1
             q == m \div P
  <1>1. P \in Nat \ {0} /\ m \in Nat /\ m = (n + P) - 1
    BY MemoryAssumption
  <1>2. PGROUNDUP(n) = q
    BY DEF PGROUNDUP
  <1> HIDE DEF P, m
  <1>3. q \in Nat /\ q * P <= m /\ m < q * P + P
    BY <1>1, DivIs
  <1> HIDE DEF q
  <1>4. q * P \in Nat /\ n <= q * P /\ q * P < n + P
    BY <1>1, <1>3
  <1>5. ASSUME NEW b \in Nat PROVE b < q <=> b * P < n
    <2>1. CASE b < q
      <3>1. (b + 1) * P <= q * P
        BY <1>1, <1>3, <2>1, MulMono
      <3>2. (b + 1) * P = b * P + P /\ b * P \in Nat
        BY <1>1
      <3> QED BY <1>1, <1>4, <2>1, <3>1, <3>2
    <2>2. CASE q <= b
      <3>1. q * P <= b * P /\ b * P \in Nat
        BY <1>1, <1>3, <2>2, MulMono
      <3> QED BY <1>1, <1>3, <1>4, <2>2, <3>1
    <2> QED BY <1>3, <2>1, <2>2
  <1> QED BY <1>2, <1>3, <1>5 DEF P

LEMMA PageNumbers ==
    /\ KERNBASE \in Nat /\ 0 \in VPage /\ 0 \in Table /\ VPage \subseteq Nat
    /\ \A b \in Nat : b * PGSIZE < KERNBASE => b \in VPage
    /\ \A b \in VPage : b * PGSIZE < KERNBASE /\ PDX(b) \in Table
  <1> DEFINE T == NPTENTRIES
             D == NPDENTRIES
             N == T * D
             P == PGSIZE
  <1>1. P \in Nat \ {0} /\ T \in Nat \ {0} /\ D \in Nat \ {0} /\ KERNBASE = N * P
    BY MemoryAssumption DEF KERNBASE
  <1>2. VPage = 0..(N - 1) /\ Table = 0..(D - 1)
    BY DEF VPage, Table
  <1> HIDE DEF P, T, D
  <1>3. N \in Nat /\ N > 0
    <2>1. 1 * D <= T * D
      BY <1>1, MulMono
    <2> QED BY <1>1, <2>1
  <1>4. N = D * T
    BY <1>1
  <1> HIDE DEF N
  <1>5. KERNBASE \in Nat /\ 0 \in VPage /\ 0 \in Table /\ VPage \subseteq Nat
    BY <1>1, <1>2, <1>3
  <1>6. ASSUME NEW b \in Nat, b * P < KERNBASE PROVE b \in VPage
    <2>1. CASE N <= b
      <3>1. N * P <= b * P /\ b * P \in Nat
        BY <1>1, <1>3, <2>1, MulMono
      <3> QED BY <1>1, <1>5, <1>6, <3>1
    <2> QED BY <1>2, <1>3, <2>1
  <1>7. ASSUME NEW b \in VPage PROVE b * P < KERNBASE /\ PDX(b) \in Table
    <2>1. b \in Nat /\ b + 1 <= N
      BY <1>2, <1>3
    <2>2. (b + 1) * P <= N * P /\ (b + 1) * P = b * P + P /\ b * P \in Nat
      BY <1>1, <1>3, <2>1, MulMono
    <2>3. b * P < KERNBASE
      BY <1>1, <1>3, <2>2
    <2>4. PICK q : q = b \div T
      OBVIOUS
    <2>5. q \in Nat /\ q * T <= b
      BY <1>1, <2>1, <2>4, DivIs
    <2>6. CASE D <= q
      <3>1. D * T <= q * T /\ q * T \in Nat
        BY <1>1, <2>5, <2>6, MulMono
      <3> QED BY <1>3, <1>4, <2>1, <2>5, <3>1
    <2>7. CASE q < D
      BY <1>1, <1>2, <2>3, <2>4, <2>5, <2>7 DEF PDX, T
    <2> QED BY <1>1, <2>5, <2>6, <2>7
  <1> QED BY <1>5, <1>6, <1>7 DEF P

-----------------------------------------------------------------------------
(* Who owns a page.  own is a function from a set P of places to the pages *)
(* that they hold, or Null; fl counts a page on the free list.             *)

Page0 == Page \cup {Null}

Own(P, own, fl, lo) ==
    /\ \A g \in Page : fl[g] \in {0, 1} /\ (g \in lo => fl[g] = 0)
    /\ \A x \in P : own[x] # Null => own[x] \in Page /\ fl[own[x]] = 0 /\ own[x] \notin lo
    /\ \A x, y \in P : own[x] # Null /\ own[x] = own[y] => x = y
    /\ \A g \in Page : fl[g] = 0 /\ g \notin lo => \E x \in P : own[x] = g

\* Place x holds g now, and the others what they held.
Becomes(P, own, own2, x, g) == \A y \in P : own2[y] = IF y = x THEN g ELSE own[y]

\* A page goes from the list to a place that was free.
LEMMA OwnTake ==
    ASSUME NEW P, NEW own, NEW own2, NEW fl, NEW fl2, NEW lo, NEW x \in P, NEW g \in Page,
           Own(P, own, fl, lo), own[x] = Null, fl[g] > 0, Becomes(P, own, own2, x, g),
           \A h \in Page : fl2[h] = IF h = g THEN fl[h] - 1 ELSE fl[h]
    PROVE  Own(P, own2, fl2, lo)
  <1>1. g # Null /\ fl[g] = 1 /\ fl2[g] = 0 /\ g \notin lo
    BY DEF Own, Page, Null
  <1>2. \A h \in Page : h # g => fl2[h] = fl[h]
    OBVIOUS
  <1>3. \A y \in P : y # x => own2[y] = own[y] /\ own[y] # g
    BY <1>1 DEF Own, Becomes
  <1>4. own2[x] = g
    BY DEF Becomes
  <1>5. \A h \in Page : fl2[h] \in {0, 1} /\ (h \in lo => fl2[h] = 0)
    BY <1>1, <1>2 DEF Own
  <1>6. \A y \in P : own2[y] # Null => own2[y] \in Page /\ fl2[own2[y]] = 0 /\ own2[y] \notin lo
    BY <1>1, <1>2, <1>3, <1>4 DEF Own
  <1>7. \A y, z \in P : own2[y] # Null /\ own2[y] = own2[z] => y = z
    BY <1>1, <1>3, <1>4 DEF Own
  <1>8. ASSUME NEW h \in Page, fl2[h] = 0, h \notin lo PROVE \E y \in P : own2[y] = h
    <2>1. CASE h = g
      BY <1>4, <2>1
    <2>2. CASE h # g
      <3>1. PICK y \in P : own[y] = h
        BY <1>2, <1>8, <2>2 DEF Own
      <3>2. y # x
        BY <3>1 DEF Page, Null
      <3> QED BY <1>3, <3>1, <3>2
    <2> QED BY <2>1, <2>2
  <1> QED BY <1>5, <1>6, <1>7, <1>8 DEF Own

\* A page goes back to the list.
LEMMA OwnGive ==
    ASSUME NEW P, NEW own, NEW own2, NEW fl, NEW fl2, NEW lo, NEW x \in P,
           Own(P, own, fl, lo), own[x] # Null, Becomes(P, own, own2, x, Null),
           \A h \in Page : fl2[h] = IF h = own[x] THEN fl[h] + 1 ELSE fl[h]
    PROVE  Own(P, own2, fl2, lo)
  <1> DEFINE g == own[x]
  <1>1. g \in Page /\ fl[g] = 0 /\ fl2[g] = 1 /\ g \notin lo
    BY DEF Own
  <1>2. \A h \in Page : h # g => fl2[h] = fl[h]
    OBVIOUS
  <1>3. \A y \in P : y # x => own2[y] = own[y] /\ own[y] # g
    BY DEF Own, Becomes
  <1>4. own2[x] = Null
    BY DEF Becomes
  <1>5. \A h \in Page : fl2[h] \in {0, 1} /\ (h \in lo => fl2[h] = 0)
    BY <1>1, <1>2 DEF Own
  <1>6. \A y \in P : own2[y] # Null => own2[y] \in Page /\ fl2[own2[y]] = 0 /\ own2[y] \notin lo
    BY <1>1, <1>2, <1>3, <1>4 DEF Own
  <1>7. \A y, z \in P : own2[y] # Null /\ own2[y] = own2[z] => y = z
    BY <1>3, <1>4 DEF Own
  <1>8. ASSUME NEW h \in Page, fl2[h] = 0, h \notin lo PROVE \E y \in P : own2[y] = h
    <2>1. h # g
      BY <1>1, <1>8
    <2>2. PICK y \in P : own[y] = h
      BY <1>2, <1>8, <2>1 DEF Own
    <2> QED BY <1>3, <2>1, <2>2
  <1> QED BY <1>5, <1>6, <1>7, <1>8 DEF Own

\* Two groups of places change what they hold.
LEMMA OwnSwap ==
    ASSUME NEW P, NEW own, NEW own2, NEW fl, NEW lo, NEW pi, Own(P, own, fl, lo),
           \A x \in P : pi[x] \in P /\ pi[pi[x]] = x /\ own2[x] = own[pi[x]]
    PROVE  Own(P, own2, fl, lo)
  <1>1. \A x \in P : own2[x] # Null => own2[x] \in Page /\ fl[own2[x]] = 0 /\ own2[x] \notin lo
    BY DEF Own
  <1>2. ASSUME NEW x \in P, NEW y \in P, own2[x] # Null, own2[x] = own2[y] PROVE x = y
    <2>1. pi[x] = pi[y]
      BY <1>2 DEF Own
    <2> QED BY <2>1
  <1>3. ASSUME NEW g \in Page, fl[g] = 0, g \notin lo PROVE \E x \in P : own2[x] = g
    <2>1. PICK x \in P : own[x] = g
      BY <1>3 DEF Own
    <2>2. pi[x] \in P /\ own2[pi[x]] = g
      BY <2>1
    <2> QED BY <2>2
  <1> QED BY <1>1, <1>2, <1>3 DEF Own

\* A group of places is forgotten.
LEMMA OwnLose ==
    ASSUME NEW P, NEW own, NEW own2, NEW fl, NEW lo, NEW lo2, NEW Q, Q \subseteq P,
           Own(P, own, fl, lo), lo2 = lo \cup ({own[x] : x \in Q} \ {Null}),
           \A x \in P : own2[x] = IF x \in Q THEN Null ELSE own[x]
    PROVE  Own(P, own2, fl, lo2)
  <1>1. \A g : g \in lo2 <=> g \in lo \/ (g # Null /\ \E x \in Q : own[x] = g)
    OBVIOUS
  <1>2. \A g \in Page : fl[g] \in {0, 1} /\ (g \in lo2 => fl[g] = 0)
    BY <1>1 DEF Own
  <1>3. \A x \in P : own2[x] # Null => own2[x] \in Page /\ fl[own2[x]] = 0 /\ own2[x] \notin lo2
    BY <1>1 DEF Own
  <1>4. \A x, y \in P : own2[x] # Null /\ own2[x] = own2[y] => x = y
    BY DEF Own
  <1>5. ASSUME NEW g \in Page, fl[g] = 0, g \notin lo2 PROVE \E x \in P : own2[x] = g
    <2>1. g \notin lo /\ g # Null
      BY <1>1, <1>5 DEF Page, Null
    <2>2. PICK x \in P : own[x] = g
      BY <1>5, <2>1 DEF Own
    <2>3. x \notin Q
      BY <1>1, <1>5, <2>1, <2>2
    <2> QED BY <2>2, <2>3
  <1> QED BY <1>2, <1>3, <1>4, <1>5 DEF Own

\* The places of the kernel.
SpaceAt(k, p, e) == <<k, p, e>>
StackAt(p) == <<"kstack", p, <<"page", 0>>>>
HeldAt(p) == <<"held", p, <<"page", 0>>>>
Dir == <<"dir", 0>>
Kern == <<"kern", 0>>
Tab(t) == <<"tab", t>>
PteOf(b) == <<"pte", b>>

SpaceOf(k, p) == IF k = "vm" THEN vm[p] ELSE work[p]
OwnMap == [x \in Place |-> PageAt(x)]

LEMMA Entries ==
    /\ Dir \in Entry /\ Kern \in Entry /\ Dir # Kern
    /\ \A t \in Table : Tab(t) \in Entry /\ Tab(t) # Dir /\ Tab(t) # Kern
    /\ \A b \in VPage : PteOf(b) \in Entry /\ PteOf(b) # Dir /\ PteOf(b) # Kern
    /\ \A t \in Table, b \in VPage : Tab(t) # PteOf(b)
    /\ \A t, u \in Table : Tab(t) = Tab(u) => t = u
    /\ \A b, c \in VPage : PteOf(b) = PteOf(c) => b = c
    /\ \A e \in Entry : \/ e = Dir \/ e = Kern \/ \E t \in Table : e = Tab(t)
                        \/ \E b \in VPage : e = PteOf(b)
  <1>1. \A e \in Entry : \/ e = Dir \/ e = Kern \/ \E t \in Table : e = Tab(t)
                         \/ \E b \in VPage : e = PteOf(b)
    BY DEF Entry, Dir, Kern, Tab, PteOf
  <1> QED BY <1>1 DEF Entry, Dir, Kern, Tab, PteOf

LEMMA EntryIs ==
    ASSUME NEW s
    PROVE  /\ EntryOf(s, Dir) = s.dir /\ EntryOf(s, Kern) = s.kern
           /\ \A t \in Table : EntryOf(s, Tab(t)) = s.tab[t]
           /\ \A b \in VPage : EntryOf(s, PteOf(b)) = s.pte[b].page
  BY DEF EntryOf, Dir, Kern, Tab, PteOf

LEMMA Places ==
    /\ \A p \in Proc : StackAt(p) \in Place /\ HeldAt(p) \in Place
    /\ \A k \in {"vm", "work"}, p \in Proc, e \in Entry : SpaceAt(k, p, e) \in Place
    /\ \A x \in Place : \/ \E p \in Proc : x = StackAt(p) \/ x = HeldAt(p)
                        \/ \E k \in {"vm", "work"}, p \in Proc, e \in Entry : x = SpaceAt(k, p, e)
    /\ \A p, q \in Proc : StackAt(p) # HeldAt(q) /\ (StackAt(p) = StackAt(q) => p = q)
                          /\ (HeldAt(p) = HeldAt(q) => p = q)
    /\ \A k \in {"vm", "work"}, p, q \in Proc, e \in Entry :
          SpaceAt(k, p, e) # StackAt(q) /\ SpaceAt(k, p, e) # HeldAt(q)
    /\ \A k, j \in {"vm", "work"}, p, q \in Proc, e, d \in Entry :
          SpaceAt(k, p, e) = SpaceAt(j, q, d) => k = j /\ p = q /\ e = d
  <1>1. \A x \in Place : \/ \E p \in Proc : x = StackAt(p) \/ x = HeldAt(p)
                         \/ \E k \in {"vm", "work"}, p \in Proc, e \in Entry : x = SpaceAt(k, p, e)
    BY DEF Place, StackAt, HeldAt, SpaceAt
  <1> QED BY <1>1 DEF Place, StackAt, HeldAt, SpaceAt

LEMMA MapIs ==
    /\ \A p \in Proc : OwnMap[StackAt(p)] = kstack[p] /\ OwnMap[HeldAt(p)] = call[p].held
    /\ \A k \in {"vm", "work"}, p \in Proc, e \in Entry :
          OwnMap[SpaceAt(k, p, e)] = EntryOf(SpaceOf(k, p), e)
  <1>1. \A p \in Proc : PageAt(StackAt(p)) = kstack[p] /\ PageAt(HeldAt(p)) = call[p].held
    BY DEF PageAt, StackAt, HeldAt
  <1>2. \A k \in {"vm", "work"}, p \in Proc, e \in Entry :
          PageAt(SpaceAt(k, p, e)) = EntryOf(SpaceOf(k, p), e)
    BY DEF PageAt, SpaceAt, SpaceOf
  <1> QED BY <1>1, <1>2, Places DEF OwnMap

LEMMA MapIsNext ==
    /\ \A p \in Proc : OwnMap'[StackAt(p)] = kstack'[p] /\ OwnMap'[HeldAt(p)] = call'[p].held
    /\ \A p \in Proc, e \in Entry : OwnMap'[SpaceAt("vm", p, e)] = EntryOf(vm'[p], e)
                                    /\ OwnMap'[SpaceAt("work", p, e)] = EntryOf(work'[p], e)
  <1>1. \A p \in Proc : PageAt(StackAt(p))' = kstack'[p] /\ PageAt(HeldAt(p))' = call'[p].held
    BY DEF PageAt, StackAt, HeldAt
  <1>2. \A p \in Proc, e \in Entry : PageAt(SpaceAt("vm", p, e))' = EntryOf(vm'[p], e)
                                     /\ PageAt(SpaceAt("work", p, e))' = EntryOf(work'[p], e)
    BY DEF PageAt, SpaceAt
  <1> QED BY <1>1, <1>2, Places DEF OwnMap

\* What a step leaves alone.
SameHeld == \A q \in Proc : call'[q].held = call[q].held
SameStacks == \A q \in Proc : kstack'[q] = kstack[q]
SameSpaces(k, p) ==
    /\ \A q \in Proc, e \in Entry : (k = "vm" /\ q = p) \/ EntryOf(vm'[q], e) = EntryOf(vm[q], e)
    /\ \A q \in Proc, e \in Entry : (k = "work" /\ q = p) \/ EntryOf(work'[q], e) = EntryOf(work[q], e)

LEMMA BecomesVm ==
    ASSUME NEW p \in Proc, NEW e \in Entry, NEW g, SameHeld, SameStacks, SameSpaces("vm", p),
           \A d \in Entry : EntryOf(vm'[p], d) = IF d = e THEN g ELSE EntryOf(vm[p], d)
    PROVE  Becomes(Place, OwnMap, OwnMap', SpaceAt("vm", p, e), g)
  <1>1. ASSUME NEW y \in Place PROVE OwnMap'[y] = IF y = SpaceAt("vm", p, e) THEN g ELSE OwnMap[y]
    <2>1. CASE \E q \in Proc : y = StackAt(q) \/ y = HeldAt(q)
      BY <2>1, Places, MapIs, MapIsNext DEF SameHeld, SameStacks
    <2>2. CASE \E q \in Proc, d \in Entry : y = SpaceAt("work", q, d)
      <3>1. PICK q \in Proc, d \in Entry : y = SpaceAt("work", q, d)
        BY <2>2
      <3>2. y # SpaceAt("vm", p, e)
        BY <3>1, Places
      <3>3. OwnMap[y] = EntryOf(work[q], d) /\ OwnMap'[y] = EntryOf(work'[q], d)
        BY <3>1, MapIs, MapIsNext DEF SpaceOf
      <3> QED BY <3>2, <3>3 DEF SameSpaces
    <2>3. CASE \E q \in Proc, d \in Entry : y = SpaceAt("vm", q, d)
      <3>1. PICK q \in Proc, d \in Entry : y = SpaceAt("vm", q, d)
        BY <2>3
      <3>2. y = SpaceAt("vm", p, e) <=> q = p /\ d = e
        BY <3>1, Places
      <3>3. OwnMap[y] = EntryOf(vm[q], d) /\ OwnMap'[y] = EntryOf(vm'[q], d)
        BY <3>1, MapIs, MapIsNext DEF SpaceOf
      <3> QED BY <3>2, <3>3 DEF SameSpaces
    <2> QED BY <2>1, <2>2, <2>3, Places
  <1> QED BY <1>1 DEF Becomes

LEMMA BecomesWork ==
    ASSUME NEW p \in Proc, NEW e \in Entry, NEW g, SameHeld, SameStacks, SameSpaces("work", p),
           \A d \in Entry : EntryOf(work'[p], d) = IF d = e THEN g ELSE EntryOf(work[p], d)
    PROVE  Becomes(Place, OwnMap, OwnMap', SpaceAt("work", p, e), g)
  <1>1. ASSUME NEW y \in Place PROVE OwnMap'[y] = IF y = SpaceAt("work", p, e) THEN g ELSE OwnMap[y]
    <2>1. CASE \E q \in Proc : y = StackAt(q) \/ y = HeldAt(q)
      BY <2>1, Places, MapIs, MapIsNext DEF SameHeld, SameStacks
    <2>2. CASE \E q \in Proc, d \in Entry : y = SpaceAt("vm", q, d)
      <3>1. PICK q \in Proc, d \in Entry : y = SpaceAt("vm", q, d)
        BY <2>2
      <3>2. y # SpaceAt("work", p, e)
        BY <3>1, Places
      <3>3. OwnMap[y] = EntryOf(vm[q], d) /\ OwnMap'[y] = EntryOf(vm'[q], d)
        BY <3>1, MapIs, MapIsNext DEF SpaceOf
      <3> QED BY <3>2, <3>3 DEF SameSpaces
    <2>3. CASE \E q \in Proc, d \in Entry : y = SpaceAt("work", q, d)
      <3>1. PICK q \in Proc, d \in Entry : y = SpaceAt("work", q, d)
        BY <2>3
      <3>2. y = SpaceAt("work", p, e) <=> q = p /\ d = e
        BY <3>1, Places
      <3>3. OwnMap[y] = EntryOf(work[q], d) /\ OwnMap'[y] = EntryOf(work'[q], d)
        BY <3>1, MapIs, MapIsNext DEF SpaceOf
      <3> QED BY <3>2, <3>3 DEF SameSpaces
    <2> QED BY <2>1, <2>2, <2>3, Places
  <1> QED BY <1>1 DEF Becomes

SpacesKept == \A q \in Proc, e \in Entry :
    EntryOf(vm'[q], e) = EntryOf(vm[q], e) /\ EntryOf(work'[q], e) = EntryOf(work[q], e)

LEMMA BecomesHeld ==
    ASSUME NEW p \in Proc, NEW g, SameStacks, SpacesKept,
           \A q \in Proc : call'[q].held = IF q = p THEN g ELSE call[q].held
    PROVE  Becomes(Place, OwnMap, OwnMap', HeldAt(p), g)
  <1>1. ASSUME NEW y \in Place PROVE OwnMap'[y] = IF y = HeldAt(p) THEN g ELSE OwnMap[y]
    <2>1. CASE \E q \in Proc : y = StackAt(q)
      BY <2>1, Places, MapIs, MapIsNext DEF SameStacks
    <2>2. CASE \E q \in Proc : y = HeldAt(q)
      BY <2>2, Places, MapIs, MapIsNext
    <2>3. CASE \E k \in {"vm", "work"}, q \in Proc, d \in Entry : y = SpaceAt(k, q, d)
      <3>1. PICK k \in {"vm", "work"}, q \in Proc, d \in Entry : y = SpaceAt(k, q, d)
        BY <2>3
      <3>2. y # HeldAt(p)
        BY <3>1, Places
      <3>3. OwnMap'[y] = OwnMap[y]
        BY <3>1, MapIs, MapIsNext DEF SpaceOf, SpacesKept
      <3> QED BY <3>2, <3>3
    <2> QED BY <2>1, <2>2, <2>3, Places
  <1> QED BY <1>1 DEF Becomes

LEMMA BecomesStack ==
    ASSUME NEW p \in Proc, NEW g, SameHeld, SpacesKept,
           \A q \in Proc : kstack'[q] = IF q = p THEN g ELSE kstack[q]
    PROVE  Becomes(Place, OwnMap, OwnMap', StackAt(p), g)
  <1>1. ASSUME NEW y \in Place PROVE OwnMap'[y] = IF y = StackAt(p) THEN g ELSE OwnMap[y]
    <2>1. CASE \E q \in Proc : y = HeldAt(q)
      BY <2>1, Places, MapIs, MapIsNext DEF SameHeld
    <2>2. CASE \E q \in Proc : y = StackAt(q)
      BY <2>2, Places, MapIs, MapIsNext
    <2>3. CASE \E k \in {"vm", "work"}, q \in Proc, d \in Entry : y = SpaceAt(k, q, d)
      <3>1. PICK k \in {"vm", "work"}, q \in Proc, d \in Entry : y = SpaceAt(k, q, d)
        BY <2>3
      <3>2. y # StackAt(p)
        BY <3>1, Places
      <3>3. OwnMap'[y] = OwnMap[y]
        BY <3>1, MapIs, MapIsNext DEF SpaceOf, SpacesKept
      <3> QED BY <3>2, <3>3
    <2> QED BY <2>1, <2>2, <2>3, Places
  <1> QED BY <1>1 DEF Becomes

\* Nothing changes hands.
LEMMA OwnKept ==
    ASSUME Own(Place, OwnMap, freelist, lost), SameHeld, SameStacks, SpacesKept,
           freelist' = freelist, lost' = lost
    PROVE  Own(Place, OwnMap, freelist, lost)'
  <1>1. ASSUME NEW y \in Place PROVE OwnMap'[y] = OwnMap[y]
    <2>1. CASE \E q \in Proc : y = HeldAt(q) \/ y = StackAt(q)
      BY <2>1, MapIs, MapIsNext DEF SameHeld, SameStacks
    <2>2. CASE \E k \in {"vm", "work"}, q \in Proc, d \in Entry : y = SpaceAt(k, q, d)
      BY <2>2, MapIs, MapIsNext DEF SpaceOf, SpacesKept
    <2> QED BY <2>1, <2>2, Places
  <1> QED BY <1>1 DEF Own, Place, Entry, Table, VPage, Page

LEMMA KallocIs ==
    ASSUME freelist \in [Page -> Nat], NEW v, Kalloc(v)
    PROVE  /\ First \in Page /\ freelist[First] > 0 /\ freelist' \in [Page -> Nat]
           /\ \A h \in Page : freelist'[h] = IF h = First THEN freelist[h] - 1 ELSE freelist[h]
  <1>1. First \in FreePages
    BY MinNat DEF First, FreePages, Page, Kalloc
  <1>2. First \in Page /\ freelist[First] > 0
    BY <1>1 DEF FreePages
  <1>3. freelist' = [freelist EXCEPT ![First] = @ - 1]
    BY DEF Kalloc
  <1> QED BY <1>2, <1>3

LEMMA KfreeIs ==
    ASSUME freelist \in [Page -> Nat], NEW g \in Page, Kfree(g)
    PROVE  /\ freelist' \in [Page -> Nat]
           /\ \A h \in Page : freelist'[h] = IF h = g THEN freelist[h] + 1 ELSE freelist[h]
  BY DEF Kfree

-----------------------------------------------------------------------------
(* The invariant: types, ownership, and how far each call has come.        *)

Pte == [page : Page0, u : BOOLEAN]
Space == [dir : Page0, kern : Page0, tab : [Table -> Page0], pte : [VPage -> Pte]]
Ops == {"none", "fork", "exec", "stack", "sbrk", "execed", "wait"}
Ats == {"user", "kstack", "dir", "kern", "grow", "table", "undo", "drop", "shrink", "freevm", "tables", "failed", "done"}
Call == [op : Ops, at : Ats, a : Nat, old : Nat, new : Nat, held : Page0, child : Proc]

MemTypes ==
    /\ freelist \in [Page -> Nat]
    /\ state \in [Proc -> {"UNUSED", "EMBRYO", "RUNNING", "ZOMBIE"}]
    /\ kstack \in [Proc -> Page0]
    /\ sz \in [Proc -> Nat]
    /\ vm \in [Proc -> Space] /\ work \in [Proc -> Space]
    /\ call \in [Proc -> Call]
    /\ lost \subseteq Page

Pages(s) == {b \in VPage : s.pte[b].page # Null}
Below(n) == {b \in VPage : b * PGSIZE < n}
Clean(s) == \A b \in VPage : s.pte[b].page = Null => s.pte[b].u = FALSE

OpAt(op) ==
    CASE op = "none" -> {"user"}
      [] op = "fork" -> {"kstack", "dir", "kern", "grow", "table", "drop", "freevm", "tables", "failed"}
      [] op = "exec" -> {"dir", "kern", "grow", "table", "undo", "drop", "freevm", "tables", "failed"}
      [] op = "stack" -> {"grow", "table", "undo", "drop", "freevm", "tables", "failed"}
      [] op = "sbrk" -> {"grow", "table", "undo", "drop", "shrink", "failed"}
      [] op \in {"execed", "wait"} -> {"freevm", "tables", "done"}

\* work
NoWork(k) == k.op \in {"none", "sbrk"} \/ k.at \in {"kstack", "dir", "failed", "done"}
WorkOK(k, w) ==
    /\ NoWork(k) => w = NoSpace
    /\ ~NoWork(k) => w.dir # Null
    /\ k.at = "kern" => w.kern = Null /\ w.tab = NoSpace.tab /\ w.pte = NoSpace.pte
    /\ k.at = "tables" => \A b \in VPage : w.pte[b].page = Null
HeldOK(k) ==
    /\ k.at \in {"table", "drop"} => k.held # Null
    /\ k.at \notin {"table", "drop", "undo"} => k.held = Null
GrowOK(k, s) ==
    /\ k.new <= KERNBASE /\ k.old <= k.new
    /\ k.at \in {"kstack", "dir", "kern"} => k.a = 0
    /\ k.at \in {"grow", "table"} => Pages(s) = {b \in VPage : b < k.a} /\ \A b \in 0..(k.a - 1) : b * PGSIZE < k.new
    /\ k.at = "table" => k.a * PGSIZE < k.new /\ s.tab[PDX(k.a)] = Null
SizeOK(k, v, z) ==
    /\ z <= KERNBASE
    /\ k.op # "sbrk" => Pages(v) = {} \/ Pages(v) = Below(z)
    /\ k.op = "fork" => k.new = z
    /\ k.op = "sbrk" =>
          /\ k.at # "shrink" => k.old = z
          /\ k.at = "shrink" => k.new = z
          /\ k.at \in {"undo", "shrink"} => k.a = PGROUNDUP(k.old)
          /\ Below(k.old) \subseteq Pages(v) /\ Pages(v) \subseteq Below(k.new)
          /\ k.at \in {"drop", "failed"} => Pages(v) = Below(z)
CallOK(k, w, v, z) ==
    /\ k.at \in OpAt(k.op) /\ (k.op = "none" => k = Idle)
    /\ Clean(w) /\ Clean(v)
    /\ HeldOK(k) /\ WorkOK(k, w)
    /\ GrowOK(k, IF k.op = "sbrk" THEN v ELSE w)
    /\ SizeOK(k, v, z)

Waited(q) == \E p \in Proc : call[p].op = "wait" /\ call[p].child = q
SlotOK(p) ==
    /\ call[p].op # "none" => state[p] = "RUNNING"
    /\ state[p] \in {"UNUSED", "EMBRYO"} => vm[p] = NoSpace
    /\ state[p] = "UNUSED" => kstack[p] = Null
    /\ state[p] \in {"RUNNING", "ZOMBIE"} /\ ~Waited(p) => kstack[p] # Null /\ vm[p].dir # Null
ChildOK(p) ==
    LET c == call[p].child IN
    /\ call[p].op = "fork" => state[c] = "EMBRYO" /\ (kstack[c] = Null <=> call[p].at = "kstack")
    /\ call[p].op = "wait" => state[c] = "ZOMBIE" /\ kstack[c] = Null /\ vm[c] = NoSpace
Apart == \A p, q \in Proc :
    /\ call[p].op = "fork" /\ call[q].op = "fork" /\ call[p].child = call[q].child => p = q
    /\ call[p].op = "wait" /\ call[q].op = "wait" => p = q

MemInv ==
    /\ MemTypes /\ Own(Place, OwnMap, freelist, lost) /\ Apart
    /\ \A p \in Proc : CallOK(call[p], work[p], vm[p], sz[p]) /\ SlotOK(p) /\ ChildOK(p)

LEMMA RunningHas ==
    ASSUME MemInv, NEW p \in Proc, state[p] = "RUNNING"
    PROVE  kstack[p] # Null /\ vm[p].dir # Null /\ ~Waited(p)
  <1>1. ~Waited(p)
    BY DEF MemInv, ChildOK, Waited
  <1> QED BY <1>1 DEF MemInv, SlotOK

\* A step of p in its call that concerns no other process.
LEMMA CallStep ==
    ASSUME MemInv, NEW p \in Proc, state' = state, kstack' = kstack, lost' = lost,
           freelist' \in [Page -> Nat], NEW k \in Call, NEW w \in Space, NEW v \in Space, NEW z \in Nat,
           call' = [call EXCEPT ![p] = k], work' = [work EXCEPT ![p] = w], vm' = [vm EXCEPT ![p] = v],
           sz' = [sz EXCEPT ![p] = z], CallOK(k, w, v, z), Own(Place, OwnMap, freelist, lost)',
           state[p] = "RUNNING", v.dir # Null,
           k.op \in {"fork", "wait"} => k.op = call[p].op /\ k.child = call[p].child
                                        /\ (k.at = "kstack" <=> call[p].at = "kstack"),
           call[p].op = "wait" => k.op = "wait"
    PROVE  MemInv'
  <1>1. /\ \A q \in Proc : call'[q] = IF q = p THEN k ELSE call[q]
        /\ \A q \in Proc : work'[q] = IF q = p THEN w ELSE work[q]
        /\ \A q \in Proc : vm'[q] = IF q = p THEN v ELSE vm[q]
        /\ \A q \in Proc : sz'[q] = IF q = p THEN z ELSE sz[q]
    BY DEF MemInv, MemTypes
  <1>2. MemTypes'
    BY DEF MemInv, MemTypes
  <1>3. Apart'
    BY <1>1 DEF MemInv, Apart
  <1>4. ASSUME NEW q \in Proc PROVE CallOK(call'[q], work'[q], vm'[q], sz'[q])
    <2>1. CASE q = p
      BY <1>1, <2>1
    <2>2. CASE q # p
      BY <1>1, <2>2 DEF MemInv
    <2> QED BY <2>1, <2>2
  <1>5. \A q \in Proc : Waited(q) => Waited(q)'
    BY <1>1 DEF Waited
  <1>6. ASSUME NEW q \in Proc PROVE SlotOK(q)'
    <2>1. CASE q = p
      <3>1. kstack[p] # Null
        BY RunningHas
      <3> QED BY <1>1, <2>1, <3>1 DEF SlotOK
    <2>2. CASE q # p
      <3>1. SlotOK(q) /\ (Waited(q) => Waited(q)')
        BY <1>5 DEF MemInv
      <3>2. call'[q] = call[q] /\ vm'[q] = vm[q]
        BY <1>1, <2>2
      <3> QED BY <3>1, <3>2 DEF SlotOK
    <2> QED BY <2>1, <2>2
  <1>7. ASSUME NEW q \in Proc PROVE ChildOK(q)'
    <2>1. ChildOK(q) /\ ChildOK(p) /\ call[q] \in Call
      BY DEF MemInv, MemTypes
    <2>2. call[q].child \in Proc /\ k.child \in Proc
      BY <2>1 DEF Call
    <2>3. CASE q = p
      <3>1. call'[q] = k
        BY <1>1, <2>3
      <3>2. k.op = "wait" => k.child # p
        BY <2>1 DEF ChildOK
      <3>3. k.op = "wait" => vm'[k.child] = vm[k.child]
        BY <1>1, <2>2, <3>2
      <3> QED BY <2>1, <3>1, <3>3 DEF ChildOK
    <2>4. CASE q # p
      <3>1. call'[q] = call[q]
        BY <1>1, <2>4
      <3>2. call[q].op = "wait" => call[q].child # p
        BY <2>1 DEF ChildOK
      <3>3. call[q].op = "wait" => vm'[call[q].child] = vm[call[q].child]
        BY <1>1, <2>2, <3>2
      <3> QED BY <2>1, <3>1, <3>3 DEF ChildOK
    <2> QED BY <2>3, <2>4
  <1> QED BY <1>2, <1>3, <1>4, <1>6, <1>7 DEF MemInv

-----------------------------------------------------------------------------
(* Steps that move no page.                                                *)

\* The call and the memory of p by name.
Names(p, k, w, v, z) ==
    /\ k = call[p] /\ w = work[p] /\ v = vm[p] /\ z = sz[p]
    /\ k \in Call /\ w \in Space /\ v \in Space /\ z \in Nat /\ CallOK(k, w, v, z)

LEMMA Named ==
    ASSUME MemInv, NEW p \in Proc
    PROVE  \E k, w, v, z : Names(p, k, w, v, z)
  <1>1. PICK k, w, v, z : k = call[p] /\ w = work[p] /\ v = vm[p] /\ z = sz[p]
    OBVIOUS
  <1>2. k \in Call /\ w \in Space /\ v \in Space /\ z \in Nat /\ CallOK(k, w, v, z)
    BY <1>1 DEF MemInv, MemTypes
  <1>3. Names(p, k, w, v, z)
    BY <1>1, <1>2 DEF Names
  <1> QED BY <1>3

LEMMA QuietStep ==
    ASSUME MemInv, NEW p \in Proc, NEW k, NEW w, NEW v, NEW z, Names(p, k, w, v, z),
           NEW k2 \in Call, NEW z2 \in Nat, call' = [call EXCEPT ![p] = k2], sz' = [sz EXCEPT ![p] = z2],
           state' = state, kstack' = kstack, lost' = lost, freelist' = freelist, work' = work, vm' = vm,
           k2.held = k.held, CallOK(k2, w, v, z2), state[p] = "RUNNING",
           k2.op \in {"fork", "wait"} => k2.op = k.op /\ k2.child = k.child /\ (k2.at = "kstack" <=> k.at = "kstack"),
           k.op = "wait" => k2.op = "wait"
    PROVE  MemInv'
  <1>1. k = call[p] /\ w = work[p] /\ v = vm[p] /\ w \in Space /\ v \in Space
    BY DEF Names
  <1>2. work' = [work EXCEPT ![p] = w] /\ vm' = [vm EXCEPT ![p] = v] /\ freelist' \in [Page -> Nat]
    BY <1>1 DEF MemInv, MemTypes
  <1>3. SameHeld
    BY <1>1 DEF SameHeld, MemInv, MemTypes
  <1>4. SameStacks /\ SpacesKept
    BY DEF SameStacks, SpacesKept
  <1>5. Own(Place, OwnMap, freelist, lost)'
    BY <1>3, <1>4, OwnKept DEF MemInv
  <1>6. v.dir # Null
    BY <1>1, RunningHas
  <1> QED BY <1>1, <1>2, <1>5, <1>6, CallStep

\* A call that a process begins from its program.
LEMMA IdleIs ==
    /\ Idle \in Call /\ Idle.op = "none" /\ Idle.at = "user" /\ Idle.a = 0 /\ Idle.old = 0
    /\ Idle.new = 0 /\ Idle.held = Null /\ Idle.child = InitProc
  BY MemoryAssumption DEF Idle, Call, Ops, Ats, Page0

LEMMA NoSpaceIs ==
    /\ NoSpace \in Space /\ NoSpace.dir = Null /\ NoSpace.kern = Null
    /\ \A t \in Table : NoSpace.tab[t] = Null
    /\ \A b \in VPage : NoSpace.pte[b].page = Null /\ NoSpace.pte[b].u = FALSE
    /\ Pages(NoSpace) = {} /\ Clean(NoSpace)
    /\ \A e \in Entry : EntryOf(NoSpace, e) = Null
  <1>1. /\ NoSpace \in Space /\ NoSpace.dir = Null /\ NoSpace.kern = Null
        /\ \A t \in Table : NoSpace.tab[t] = Null
        /\ \A b \in VPage : NoSpace.pte[b].page = Null /\ NoSpace.pte[b].u = FALSE
    BY DEF NoSpace, Space, Pte, Page0
  <1>2. \A e \in Entry : EntryOf(NoSpace, e) = Null
    BY <1>1, Entries, EntryIs
  <1> QED BY <1>1, <1>2 DEF Pages, Clean

LEMMA ExecStartInv ==
    ASSUME MemInv, NEW p \in Proc, NEW n \in ExecSizes, ExecStart(p, n)
    PROVE  MemInv'
  <1>1. PICK k, w, v, z : Names(p, k, w, v, z)
    BY Named
  <1>2. PICK k2 : k2 = [Idle EXCEPT !.op = "exec", !.at = "dir", !.new = n]
    OBVIOUS
  <1>3. n \in Nat /\ n <= KERNBASE
    BY MemoryAssumption, PageNumbers DEF KERNBASE
  <1>4. /\ k2 \in Call /\ k2.op = "exec" /\ k2.at = "dir" /\ k2.new = n /\ k2.old = 0 /\ k2.a = 0
        /\ k2.held = Null
    BY <1>2, <1>3, IdleIs DEF Call, Ops, Ats
  <1>5. k.op = "none" /\ k = Idle /\ w = NoSpace /\ state[p] = "RUNNING"
    BY <1>1 DEF Names, ExecStart, Running, CallOK, WorkOK, NoWork
  <1>6. CallOK(k2, w, v, z)
    <2>1. k2.at \in OpAt(k2.op) /\ HeldOK(k2) /\ WorkOK(k2, w)
      BY <1>4, <1>5 DEF OpAt, HeldOK, WorkOK, NoWork
    <2>2. GrowOK(k2, w)
      BY <1>3, <1>4 DEF GrowOK
    <2>3. SizeOK(k2, v, z)
      BY <1>1, <1>4, <1>5 DEF Names, CallOK, SizeOK
    <2> QED BY <1>1, <1>4, <2>1, <2>2, <2>3 DEF Names, CallOK
  <1>7. call' = [call EXCEPT ![p] = k2] /\ sz' = [sz EXCEPT ![p] = z] /\ z \in Nat
        /\ state' = state /\ kstack' = kstack /\ lost' = lost /\ freelist' = freelist /\ work' = work /\ vm' = vm
    BY <1>1, <1>2 DEF ExecStart, Names, MemInv, MemTypes
  <1>8. k2.held = k.held
    BY <1>4, <1>5, IdleIs
  <1> QED BY <1>1, <1>4, <1>5, <1>6, <1>7, <1>8, QuietStep

\* Pages of a process that runs.
LEMMA RunningPages ==
    ASSUME MemInv, NEW p \in Proc, Running(p)
    PROVE  /\ call[p].op = "none" /\ call[p] = Idle /\ work[p] = NoSpace /\ state[p] = "RUNNING"
           /\ sz[p] \in Nat /\ sz[p] <= KERNBASE /\ Pages(vm[p]) = Below(sz[p])
  <1>1. call[p].op = "none" /\ state[p] = "RUNNING" /\ vm[p].pte[0].page # Null
    BY DEF Running
  <1>2. CallOK(call[p], work[p], vm[p], sz[p]) /\ sz[p] \in Nat
    BY DEF MemInv, MemTypes
  <1>3. call[p] = Idle /\ work[p] = NoSpace
    BY <1>1, <1>2 DEF CallOK, WorkOK, NoWork
  <1>4. 0 \in Pages(vm[p])
    BY <1>1, PageNumbers DEF Pages
  <1>5. sz[p] <= KERNBASE /\ (Pages(vm[p]) = {} \/ Pages(vm[p]) = Below(sz[p]))
    BY <1>1, <1>2 DEF CallOK, SizeOK
  <1> QED BY <1>1, <1>2, <1>3, <1>4, <1>5

LEMMA SbrkGrowInv ==
    ASSUME MemInv, NEW p \in Proc, NEW n \in SbrkArgs, SbrkGrow(p, n)
    PROVE  MemInv'
  <1>1. PICK k, w, v, z : Names(p, k, w, v, z)
    BY Named
  <1>1a. k = call[p] /\ w = work[p] /\ v = vm[p] /\ z = sz[p] /\ v \in Space /\ CallOK(k, w, v, z)
    BY <1>1 DEF Names
  <1>2. PICK k2, a, m : /\ k2 = [Idle EXCEPT !.op = "sbrk", !.at = "grow", !.a = a, !.old = z, !.new = m]
                        /\ a = PGROUNDUP(z) /\ m = z + n
    OBVIOUS
  <1>3. z \in Nat /\ Pages(v) = Below(z) /\ k = Idle /\ w = NoSpace /\ state[p] = "RUNNING" /\ z <= KERNBASE
    BY <1>1a, RunningPages DEF SbrkGrow
  <1>4. a \in Nat /\ m \in Nat /\ m < KERNBASE /\ z <= m /\ KERNBASE \in Nat
    BY <1>1a, <1>2, <1>3, MemoryAssumption, RoundUp, PageNumbers DEF SbrkGrow
  <1>5. /\ k2 \in Call /\ k2.op = "sbrk" /\ k2.at = "grow" /\ k2.new = m /\ k2.old = z /\ k2.a = a
        /\ k2.held = Null
    BY <1>2, <1>3, <1>4, IdleIs DEF Call, Ops, Ats
  <1>6. \A b \in Nat : b < a <=> b * PGSIZE < z
    BY <1>2, <1>3, RoundUp
  <1>7. CallOK(k2, w, v, z)
    <2>1. k2.at \in OpAt(k2.op) /\ HeldOK(k2) /\ WorkOK(k2, w)
      BY <1>3, <1>5 DEF OpAt, HeldOK, WorkOK, NoWork
    <2>2. GrowOK(k2, v)
      <3>1. Pages(v) = {b \in VPage : b < a}
        BY <1>3, <1>6, PageNumbers DEF Below
      <3>2. ASSUME NEW b \in 0..(a - 1) PROVE b * PGSIZE < m
        <4>1. b \in Nat /\ b < a /\ b * PGSIZE \in Nat
          BY <1>4, MemoryAssumption
        <4> QED BY <1>3, <1>4, <1>6, <4>1
      <3> QED BY <1>4, <1>5, <3>1, <3>2 DEF GrowOK
    <2>3. SizeOK(k2, v, z)
      <3>1. Below(z) \subseteq Below(m)
        <4>1. \A b \in VPage : b * PGSIZE \in Nat
          BY PageNumbers, MemoryAssumption
        <4> QED BY <1>3, <1>4, <4>1 DEF Below
      <3> QED BY <1>3, <1>5, <3>1 DEF SizeOK
    <2> QED BY <1>1a, <1>5, <2>1, <2>2, <2>3 DEF CallOK
  <1>8. call' = [call EXCEPT ![p] = k2] /\ sz' = [sz EXCEPT ![p] = z] /\ z \in Nat
        /\ state' = state /\ kstack' = kstack /\ lost' = lost /\ freelist' = freelist /\ work' = work /\ vm' = vm
    BY <1>1a, <1>2 DEF SbrkGrow, MemInv, MemTypes
  <1>9. k2.held = k.held /\ k.op = "none"
    BY <1>3, <1>5, IdleIs
  <1> QED BY <1>1, <1>3, <1>5, <1>7, <1>8, <1>9, QuietStep

LEMMA SbrkShrinkInv ==
    ASSUME MemInv, NEW p \in Proc, NEW n \in SbrkArgs, SbrkShrink(p, n)
    PROVE  MemInv'
  <1>1. PICK k, w, v, z : Names(p, k, w, v, z)
    BY Named
  <1>1a. k = call[p] /\ w = work[p] /\ v = vm[p] /\ z = sz[p] /\ v \in Space /\ CallOK(k, w, v, z)
    BY <1>1 DEF Names
  <1>2. PICK k2, a, m : /\ k2 = [Idle EXCEPT !.op = "sbrk", !.at = "shrink", !.a = a, !.old = m, !.new = z]
                        /\ a = PGROUNDUP(m) /\ m = z - n
    OBVIOUS
  <1>3. z \in Nat /\ Pages(v) = Below(z) /\ k = Idle /\ w = NoSpace /\ state[p] = "RUNNING" /\ z <= KERNBASE
    BY <1>1a, RunningPages DEF SbrkShrink
  <1>4. a \in Nat /\ m \in Nat /\ m <= z /\ KERNBASE \in Nat
    BY <1>1a, <1>2, <1>3, MemoryAssumption, RoundUp, PageNumbers DEF SbrkShrink
  <1>5. /\ k2 \in Call /\ k2.op = "sbrk" /\ k2.at = "shrink" /\ k2.new = z /\ k2.old = m /\ k2.a = a
        /\ k2.held = Null
    BY <1>2, <1>3, <1>4, IdleIs DEF Call, Ops, Ats
  <1>7. CallOK(k2, w, v, z)
    <2>1. k2.at \in OpAt(k2.op) /\ HeldOK(k2) /\ WorkOK(k2, w)
      BY <1>3, <1>5 DEF OpAt, HeldOK, WorkOK, NoWork
    <2>2. GrowOK(k2, v)
      BY <1>3, <1>4, <1>5 DEF GrowOK
    <2>3. SizeOK(k2, v, z)
      <3>1. Below(m) \subseteq Below(z)
        <4>1. \A b \in VPage : b * PGSIZE \in Nat
          BY PageNumbers, MemoryAssumption
        <4> QED BY <1>3, <1>4, <4>1 DEF Below
      <3> QED BY <1>2, <1>3, <1>5, <3>1 DEF SizeOK
    <2> QED BY <1>1a, <1>5, <2>1, <2>2, <2>3 DEF CallOK
  <1>8. call' = [call EXCEPT ![p] = k2] /\ sz' = [sz EXCEPT ![p] = z] /\ z \in Nat
        /\ state' = state /\ kstack' = kstack /\ lost' = lost /\ freelist' = freelist /\ work' = work /\ vm' = vm
    BY <1>1a, <1>2 DEF SbrkShrink, MemInv, MemTypes
  <1>9. k2.held = k.held /\ k.op = "none"
    BY <1>3, <1>5, IdleIs
  <1> QED BY <1>1, <1>3, <1>5, <1>7, <1>8, <1>9, QuietStep

\* The fields of a call.
LEMMA CallFields ==
    ASSUME NEW k \in Call
    PROVE  /\ k.op \in Ops /\ k.at \in Ats /\ k.a \in Nat /\ k.old \in Nat /\ k.new \in Nat
           /\ k.held \in Page0 /\ k.child \in Proc
  BY DEF Call

\* A size in pages.
LEMMA BelowIs ==
    ASSUME NEW n \in Nat, n <= KERNBASE, NEW a \in Nat, \A b \in 0..(a - 1) : b * PGSIZE < n
    PROVE  a * PGSIZE >= n => {b \in VPage : b < a} = Below(n)
  <1> SUFFICES ASSUME a * PGSIZE >= n PROVE {b \in VPage : b < a} = Below(n)
    OBVIOUS
  <1>1. ASSUME NEW b \in VPage PROVE b < a <=> b * PGSIZE < n
    <2>1. b \in Nat /\ PGSIZE \in Nat /\ b * PGSIZE \in Nat
      BY PageNumbers, MemoryAssumption
    <2>2. CASE b < a
      <3>1. b \in 0..(a - 1)
        BY <2>1, <2>2
      <3> QED BY <2>2, <3>1
    <2>3. CASE a <= b
      <3>1. a * PGSIZE <= b * PGSIZE /\ a * PGSIZE \in Nat
        BY <2>1, <2>3, MulMono
      <3> QED BY <2>1, <2>3, <3>1
    <2> QED BY <2>1, <2>2, <2>3
  <1> QED BY <1>1 DEF Below

\* A process in a call runs.
LEMMA InCall ==
    ASSUME MemInv, NEW p \in Proc, call[p].op # "none"
    PROVE  state[p] = "RUNNING"
  BY DEF MemInv, SlotOK

LEMMA UndoDoneInv ==
    ASSUME MemInv, NEW p \in Proc, UndoDone(p)
    PROVE  MemInv'
  <1>1. PICK k, w, v, z : Names(p, k, w, v, z)
    BY Named
  <1>2. /\ k = call[p] /\ w = work[p] /\ v = vm[p] /\ z = sz[p] /\ k \in Call /\ w \in Space /\ v \in Space
        /\ z \in Nat /\ CallOK(k, w, v, z)
    BY <1>1 DEF Names
  <1>3. PICK s \in Ats : s = IF k.held # Null THEN "drop" ELSE IF k.op = "sbrk" THEN "failed" ELSE "freevm"
    BY DEF Ats
  <1>4. PICK k2 : k2 = [k EXCEPT !.at = s]
    OBVIOUS
  <1>5. /\ k2 \in Call /\ k2.at = s /\ k2.op = k.op /\ k2.a = k.a /\ k2.old = k.old /\ k2.new = k.new
        /\ k2.held = k.held /\ k2.child = k.child
    BY <1>2, <1>4 DEF Call
  <1>6. k.at = "undo" /\ k.op \in {"exec", "stack", "sbrk"}
    BY <1>2, CallFields DEF UndoDone, CallOK, OpAt, Ops
  <1>7. CallOK(k2, w, v, z)
    <2>1. k2.at \in OpAt(k2.op) /\ k2.op # "none"
      BY <1>3, <1>5, <1>6 DEF OpAt
    <2>2. HeldOK(k2)
      BY <1>3, <1>5 DEF HeldOK
    <2>3. WorkOK(k2, w)
      BY <1>2, <1>3, <1>5, <1>6 DEF CallOK, WorkOK, NoWork
    <2>4. GrowOK(k2, IF k2.op = "sbrk" THEN v ELSE w)
      BY <1>2, <1>3, <1>5, <1>6 DEF CallOK, GrowOK
    <2>5. CASE k.op = "sbrk"
      <3>1. Present(v, k.a, k.new) = {} /\ k.a = PGROUNDUP(k.old) /\ k.old = z
            /\ Below(k.old) \subseteq Pages(v) /\ Pages(v) \subseteq Below(k.new)
        BY <1>2, <1>6, <2>5 DEF UndoDone, Target, CallOK, SizeOK
      <3>2. k.a \in Nat /\ \A b \in Nat : b < k.a <=> b * PGSIZE < z
        BY <1>2, <3>1, RoundUp
      <3>3. ASSUME NEW b \in Pages(v) PROVE b \in Below(z)
        <4>1. b \in VPage /\ b \in Nat /\ b * PGSIZE < k.new /\ v.pte[b].page # Null
          BY <3>1, PageNumbers DEF Pages, Below
        <4>2. ~(k.a <= b)
          BY <3>1, <4>1 DEF Present
        <4> QED BY <3>2, <4>1, <4>2 DEF Below
      <3>4. Pages(v) = Below(z)
        BY <3>1, <3>3
      <3> QED BY <1>2, <1>3, <1>5, <2>5, <2>1, <2>2, <2>3, <2>4, <3>1, <3>4 DEF CallOK, SizeOK
    <2>6. CASE k.op # "sbrk"
      <3>1. SizeOK(k2, v, z)
        BY <1>2, <1>5, <1>6, <2>6 DEF CallOK, SizeOK
      <3> QED BY <1>2, <2>1, <2>2, <2>3, <2>4, <3>1 DEF CallOK
    <2> QED BY <2>5, <2>6
  <1>8. call' = [call EXCEPT ![p] = k2] /\ sz' = [sz EXCEPT ![p] = z]
        /\ state' = state /\ kstack' = kstack /\ lost' = lost /\ freelist' = freelist /\ work' = work /\ vm' = vm
    BY <1>2, <1>3, <1>4 DEF UndoDone, MemInv, MemTypes
  <1>9. state[p] = "RUNNING"
    BY <1>2, <1>6, InCall
  <1> QED BY <1>1, <1>2, <1>5, <1>6, <1>7, <1>8, <1>9, QuietStep

\* A call returns.
LEMMA BackToUser ==
    ASSUME NEW w, w = NoSpace, NEW v, Clean(v), NEW z \in Nat, z <= KERNBASE, Pages(v) = {} \/ Pages(v) = Below(z)
    PROVE  CallOK(Idle, w, v, z)
  <1>1. KERNBASE \in Nat
    BY PageNumbers
  <1>2. GrowOK(Idle, w)
    BY <1>1, IdleIs DEF GrowOK
  <1>3. HeldOK(Idle) /\ WorkOK(Idle, w) /\ SizeOK(Idle, v, z) /\ Idle.at \in OpAt(Idle.op)
    BY IdleIs DEF HeldOK, WorkOK, NoWork, SizeOK, OpAt
  <1> QED BY <1>2, <1>3, IdleIs, NoSpaceIs DEF CallOK

LEMMA ShrinkDoneInv ==
    ASSUME MemInv, NEW p \in Proc, ShrinkDone(p)
    PROVE  MemInv'
  <1>1. PICK k, w, v, z : Names(p, k, w, v, z)
    BY Named
  <1>2. /\ k = call[p] /\ w = work[p] /\ v = vm[p] /\ z = sz[p] /\ k \in Call /\ w \in Space /\ v \in Space
        /\ z \in Nat /\ CallOK(k, w, v, z)
    BY <1>1 DEF Names
  <1>3. PICK z2 : z2 = IF k.old = 0 THEN z ELSE k.old
    OBVIOUS
  <1>4. k.at = "shrink" /\ k.op = "sbrk" /\ z2 \in Nat
    BY <1>2, <1>3, CallFields DEF ShrinkDone, CallOK, OpAt, Ops
  <1>5. /\ Present(v, k.a, k.new) = {} /\ k.a = PGROUNDUP(k.old) /\ k.new = z /\ w = NoSpace /\ Clean(v)
        /\ Below(k.old) \subseteq Pages(v) /\ Pages(v) \subseteq Below(k.new) /\ z <= KERNBASE /\ k.old <= z
        /\ k.old \in Nat
    BY <1>2, <1>4, CallFields DEF ShrinkDone, CallOK, SizeOK, WorkOK, NoWork, GrowOK
  <1>6. k.a \in Nat /\ \A b \in Nat : b < k.a <=> b * PGSIZE < k.old
    BY <1>5, RoundUp
  <1>7. ASSUME NEW b \in Pages(v) PROVE b \in Below(k.old)
    <2>1. b \in VPage /\ b \in Nat /\ b * PGSIZE < k.new /\ v.pte[b].page # Null
      BY <1>5, PageNumbers DEF Pages, Below
    <2>2. ~(k.a <= b)
      BY <1>5, <2>1 DEF Present
    <2> QED BY <1>6, <2>1, <2>2 DEF Below
  <1>8. Pages(v) = Below(k.old)
    BY <1>5, <1>7
  <1>9. k.old = 0 => Pages(v) = {}
    <2>1. \A b \in VPage : b * PGSIZE \in Nat
      BY PageNumbers, MemoryAssumption
    <2> QED BY <1>8, <2>1 DEF Below
  <1>10. KERNBASE \in Nat
    BY PageNumbers
  <1>11. z2 <= KERNBASE
    BY <1>2, <1>3, <1>5, <1>10
  <1>12. CallOK(Idle, w, v, z2)
    BY <1>3, <1>4, <1>5, <1>8, <1>9, <1>11, BackToUser
  <1>13. call' = [call EXCEPT ![p] = Idle] /\ sz' = [sz EXCEPT ![p] = z2]
        /\ state' = state /\ kstack' = kstack /\ lost' = lost /\ freelist' = freelist /\ work' = work /\ vm' = vm
    BY <1>2, <1>3 DEF ShrinkDone, MemInv, MemTypes
  <1>14. state[p] = "RUNNING"
    BY <1>2, <1>4, InCall
  <1>15. Idle.held = k.held
    BY <1>2, <1>4, IdleIs DEF CallOK, HeldOK
  <1> QED BY <1>1, <1>4, <1>12, <1>13, <1>14, <1>15, IdleIs, QuietStep

LEMMA SbrkDoneInv ==
    ASSUME MemInv, NEW p \in Proc, SbrkDone(p)
    PROVE  MemInv'
  <1>1. PICK k, w, v, z : Names(p, k, w, v, z)
    BY Named
  <1>2. /\ k = call[p] /\ w = work[p] /\ v = vm[p] /\ z = sz[p] /\ k \in Call /\ w \in Space /\ v \in Space
        /\ z \in Nat /\ CallOK(k, w, v, z)
    BY <1>1 DEF Names
  <1>3. k.at = "grow" /\ k.op = "sbrk" /\ k.a * PGSIZE >= k.new
    BY <1>2 DEF SbrkDone
  <1>4. /\ Pages(v) = {b \in VPage : b < k.a} /\ \A b \in 0..(k.a - 1) : b * PGSIZE < k.new
    BY <1>2, <1>3 DEF CallOK, GrowOK
  <1>5. k.new <= KERNBASE /\ w = NoSpace /\ Clean(v) /\ k.new \in Nat /\ k.a \in Nat
    BY <1>2, <1>3, CallFields DEF CallOK, WorkOK, NoWork, GrowOK
  <1>6. Pages(v) = Below(k.new)
    BY <1>3, <1>4, <1>5, BelowIs
  <1>7. CallOK(Idle, w, v, k.new)
    BY <1>5, <1>6, BackToUser
  <1>8. call' = [call EXCEPT ![p] = Idle] /\ sz' = [sz EXCEPT ![p] = k.new]
        /\ state' = state /\ kstack' = kstack /\ lost' = lost /\ freelist' = freelist /\ work' = work /\ vm' = vm
    BY <1>2 DEF SbrkDone
  <1>9. state[p] = "RUNNING"
    BY <1>2, <1>3, InCall
  <1>10. Idle.held = k.held
    BY <1>2, <1>3, IdleIs DEF CallOK, HeldOK
  <1> QED BY <1>1, <1>3, <1>5, <1>7, <1>8, <1>9, <1>10, IdleIs, QuietStep

-----------------------------------------------------------------------------
(* Steps that only move on in the call.                                    *)

\* k2 is the call k at the point s, on page a.
MovesTo(k, k2, s, a) ==
    /\ k2 \in Call /\ k2.at = s /\ k2.op = k.op /\ k2.a = a /\ k2.old = k.old /\ k2.new = k.new
    /\ k2.held = k.held /\ k2.child = k.child

LEMMA MoveAt ==
    ASSUME NEW k \in Call, NEW s \in Ats, NEW k2, k2 = [k EXCEPT !.at = s]
    PROVE  MovesTo(k, k2, s, k.a)
  BY DEF MovesTo, Call

LEMMA MoveAtPage ==
    ASSUME NEW k \in Call, NEW s \in Ats, NEW a \in Nat, NEW k2, k2 = [k EXCEPT !.at = s, !.a = a]
    PROVE  MovesTo(k, k2, s, a)
  BY DEF MovesTo, Call

\* The call k goes to k2, which is sound, and nothing else changes but mem.
LEMMA MoveStep ==
    ASSUME MemInv, NEW p \in Proc, NEW k, NEW w, NEW v, NEW z, Names(p, k, w, v, z),
           NEW s, NEW a, NEW k2, MovesTo(k, k2, s, a), call' = [call EXCEPT ![p] = k2],
           UNCHANGED <<freelist, state, kstack, sz, vm, work, lost>>, CallOK(k2, w, v, z),
           k.op # "none", k.at # "kstack", s # "kstack"
    PROVE  MemInv'
  <1>1. state[p] = "RUNNING" /\ z \in Nat /\ z = sz[p]
    BY InCall DEF Names
  <1>2. sz' = [sz EXCEPT ![p] = z]
    BY <1>1 DEF MemInv, MemTypes
  <1>3. /\ k2 \in Call /\ k2.held = k.held /\ k2.op = k.op /\ k2.child = k.child /\ k2.at = s
    BY DEF MovesTo
  <1>4. state' = state /\ kstack' = kstack /\ lost' = lost /\ freelist' = freelist /\ work' = work /\ vm' = vm
    OBVIOUS
  <1> QED BY <1>1, <1>2, <1>3, <1>4, QuietStep

\* A call in which nothing was allocated fails.
LEMMA DirFails ==
    ASSUME NEW k \in Call, NEW w, NEW v, NEW z, CallOK(k, w, v, z), k.at = "dir", NEW k2, MovesTo(k, k2, "failed", k.a)
    PROVE  CallOK(k2, w, v, z)
  <1>1. k.op \in {"fork", "exec"} /\ k2.op = k.op /\ k2.at = "failed"
    BY CallFields DEF CallOK, OpAt, Ops, MovesTo
  <1>2. k2.at \in OpAt(k2.op) /\ k2.op # "none"
    BY <1>1 DEF OpAt
  <1>3. HeldOK(k2) /\ WorkOK(k2, w) /\ GrowOK(k2, w) /\ SizeOK(k2, v, z)
    BY <1>1 DEF CallOK, MovesTo, HeldOK, WorkOK, NoWork, GrowOK, SizeOK
  <1> QED BY <1>1, <1>2, <1>3 DEF CallOK

\* An address space that is being built is given up.
LEMMA GoesToFreevm ==
    ASSUME NEW k \in Call, NEW w, NEW v, NEW z, CallOK(k, w, v, z), k.at \in {"kern", "grow"},
           k.op \in {"fork", "exec", "stack"}, NEW k2, NEW a, MovesTo(k, k2, "freevm", a)
    PROVE  CallOK(k2, w, v, z)
  <1>1. k2.op = k.op /\ k2.at = "freevm"
    BY DEF MovesTo
  <1>2. k2.at \in OpAt(k2.op) /\ k2.op # "none"
    BY <1>1 DEF OpAt
  <1>3. HeldOK(k2) /\ WorkOK(k2, w)
    BY <1>1 DEF CallOK, MovesTo, HeldOK, WorkOK, NoWork
  <1>4. GrowOK(k2, w)
    BY <1>1 DEF CallOK, MovesTo, GrowOK
  <1>5. SizeOK(k2, v, z)
    BY <1>1 DEF CallOK, MovesTo, SizeOK
  <1> QED BY <1>1, <1>2, <1>3, <1>4, <1>5 DEF CallOK

\* allocuvm() gives up.
LEMMA GoesToUndo ==
    ASSUME NEW k \in Call, NEW w, NEW v, NEW z, CallOK(k, w, v, z), k.at \in {"grow", "table"},
           k.op # "fork", NEW k2, NEW a, MovesTo(k, k2, "undo", a), a = PGROUNDUP(k.old)
    PROVE  CallOK(k2, w, v, z)
  <1>1. k.op \in {"exec", "stack", "sbrk"} /\ k2.op = k.op /\ k2.at = "undo" /\ k2.a = a /\ k2.old = k.old
    BY CallFields DEF CallOK, OpAt, Ops, MovesTo
  <1>2. k2.at \in OpAt(k2.op) /\ k2.op # "none"
    BY <1>1 DEF OpAt
  <1>3. HeldOK(k2) /\ WorkOK(k2, w)
    BY <1>1 DEF CallOK, MovesTo, HeldOK, WorkOK, NoWork
  <1>4. GrowOK(k2, IF k.op = "sbrk" THEN v ELSE w)
    BY <1>1 DEF CallOK, MovesTo, GrowOK
  <1>5. SizeOK(k2, v, z)
    BY <1>1 DEF CallOK, MovesTo, SizeOK
  <1> QED BY <1>1, <1>2, <1>3, <1>4, <1>5 DEF CallOK

\* copyuvm() gives up with a page in its hands.
LEMMA GoesToDrop ==
    ASSUME NEW k \in Call, NEW w, NEW v, NEW z, CallOK(k, w, v, z), k.at = "table",
           k.op = "fork", NEW k2, NEW a, MovesTo(k, k2, "drop", a)
    PROVE  CallOK(k2, w, v, z)
  <1>1. k2.op = k.op /\ k2.at = "drop"
    BY DEF MovesTo
  <1>2. k2.at \in OpAt(k2.op) /\ k2.op # "none"
    BY <1>1 DEF OpAt
  <1>3. HeldOK(k2) /\ WorkOK(k2, w)
    BY <1>1 DEF CallOK, MovesTo, HeldOK, WorkOK, NoWork
  <1>4. GrowOK(k2, w)
    BY <1>1 DEF CallOK, MovesTo, GrowOK
  <1>5. SizeOK(k2, v, z)
    BY <1>1 DEF CallOK, MovesTo, SizeOK
  <1> QED BY <1>1, <1>2, <1>3, <1>4, <1>5 DEF CallOK

\* The user part of an address space is free.
LEMMA GoesToTables ==
    ASSUME NEW k \in Call, NEW w, NEW v, NEW z, CallOK(k, w, v, z), k.at = "freevm",
           Present(w, 0, KERNBASE) = {}, NEW k2, MovesTo(k, k2, "tables", k.a)
    PROVE  CallOK(k2, w, v, z)
  <1>1. k.op \in {"fork", "exec", "stack", "execed", "wait"} /\ k2.op = k.op /\ k2.at = "tables"
    BY CallFields DEF CallOK, OpAt, Ops, MovesTo
  <1>2. k2.at \in OpAt(k2.op) /\ k2.op # "none"
    BY <1>1 DEF OpAt
  <1>3. \A b \in VPage : w.pte[b].page = Null
    <2>1. ASSUME NEW b \in VPage PROVE 0 <= b /\ b * PGSIZE < KERNBASE
      BY PageNumbers
    <2>2. ASSUME NEW b \in VPage PROVE b \notin Present(w, 0, KERNBASE)
      OBVIOUS
    <2> QED BY <2>1, <2>2 DEF Present
  <1>4. HeldOK(k2) /\ WorkOK(k2, w)
    BY <1>1, <1>3 DEF CallOK, MovesTo, HeldOK, WorkOK, NoWork
  <1>5. GrowOK(k2, w)
    BY <1>1 DEF CallOK, MovesTo, GrowOK
  <1>6. SizeOK(k2, v, z)
    BY <1>1 DEF CallOK, MovesTo, SizeOK
  <1> QED BY <1>1, <1>2, <1>4, <1>5, <1>6 DEF CallOK

\* The call of p goes from k to k2 and nothing else changes but mem.
Moved(p, k2) ==
    call' = [call EXCEPT ![p] = k2] /\ UNCHANGED <<freelist, state, kstack, sz, vm, work, lost>>

LEMMA SetupDirFails ==
    ASSUME MemInv, NEW p \in Proc, call[p].at = "dir", Moved(p, [call[p] EXCEPT !.at = "failed"])
    PROVE  MemInv'
  <1>1. PICK k, w, v, z : Names(p, k, w, v, z)
    BY Named
  <1>2. k = call[p] /\ k \in Call /\ CallOK(k, w, v, z)
    BY <1>1 DEF Names
  <1>3. PICK k2 : k2 = [k EXCEPT !.at = "failed"]
    OBVIOUS
  <1>4. MovesTo(k, k2, "failed", k.a)
    BY <1>2, <1>3, MoveAt DEF Ats
  <1>5. CallOK(k2, w, v, z)
    BY <1>2, <1>4, DirFails
  <1>6. k.op # "none"
    BY <1>2 DEF CallOK, OpAt
  <1> QED BY <1>1, <1>2, <1>3, <1>4, <1>5, <1>6, MoveStep DEF Moved

LEMMA FreevmStarts ==
    ASSUME MemInv, NEW p \in Proc, call[p].at \in {"kern", "grow"}, call[p].op # "sbrk",
           NEW a \in Nat, Moved(p, [call[p] EXCEPT !.at = "freevm", !.a = a])
    PROVE  MemInv'
  <1>1. PICK k, w, v, z : Names(p, k, w, v, z)
    BY Named
  <1>2. k = call[p] /\ k \in Call /\ CallOK(k, w, v, z)
    BY <1>1 DEF Names
  <1>3. PICK k2 : k2 = [k EXCEPT !.at = "freevm", !.a = a]
    OBVIOUS
  <1>4. MovesTo(k, k2, "freevm", a)
    BY <1>2, <1>3, MoveAtPage DEF Ats
  <1>5. k.op \in {"fork", "exec", "stack"}
    BY <1>2, CallFields DEF CallOK, OpAt, Ops
  <1>6. CallOK(k2, w, v, z)
    BY <1>2, <1>4, <1>5, GoesToFreevm
  <1> QED BY <1>1, <1>2, <1>3, <1>4, <1>5, <1>6, MoveStep DEF Moved

LEMMA UndoStarts ==
    ASSUME MemInv, NEW p \in Proc, call[p].at \in {"grow", "table"}, call[p].op # "fork",
           Moved(p, [call[p] EXCEPT !.at = "undo", !.a = PGROUNDUP(call[p].old)])
    PROVE  MemInv'
  <1>1. PICK k, w, v, z : Names(p, k, w, v, z)
    BY Named
  <1>2. k = call[p] /\ k \in Call /\ CallOK(k, w, v, z)
    BY <1>1 DEF Names
  <1>3. PICK k2, a : k2 = [k EXCEPT !.at = "undo", !.a = a] /\ a = PGROUNDUP(k.old)
    OBVIOUS
  <1>4. a \in Nat
    BY <1>2, <1>3, CallFields, RoundUp
  <1>5. MovesTo(k, k2, "undo", a)
    BY <1>2, <1>3, <1>4, MoveAtPage DEF Ats
  <1>6. k.op # "none"
    BY <1>2, CallFields DEF CallOK, OpAt, Ops
  <1>7. CallOK(k2, w, v, z)
    BY <1>2, <1>3, <1>5, GoesToUndo
  <1> QED BY <1>1, <1>2, <1>3, <1>5, <1>6, <1>7, MoveStep DEF Moved

LEMMA DropStarts ==
    ASSUME MemInv, NEW p \in Proc, call[p].at = "table", call[p].op = "fork",
           NEW a \in Nat, Moved(p, [call[p] EXCEPT !.at = "drop", !.a = a])
    PROVE  MemInv'
  <1>1. PICK k, w, v, z : Names(p, k, w, v, z)
    BY Named
  <1>2. k = call[p] /\ k \in Call /\ CallOK(k, w, v, z)
    BY <1>1 DEF Names
  <1>3. PICK k2 : k2 = [k EXCEPT !.at = "drop", !.a = a]
    OBVIOUS
  <1>4. MovesTo(k, k2, "drop", a)
    BY <1>2, <1>3, MoveAtPage DEF Ats
  <1>5. CallOK(k2, w, v, z)
    BY <1>2, <1>4, GoesToDrop
  <1> QED BY <1>1, <1>2, <1>3, <1>4, <1>5, MoveStep DEF Moved

LEMMA TablesStart ==
    ASSUME MemInv, NEW p \in Proc, call[p].at = "freevm", Present(work[p], 0, KERNBASE) = {},
           Moved(p, [call[p] EXCEPT !.at = "tables"])
    PROVE  MemInv'
  <1>1. PICK k, w, v, z : Names(p, k, w, v, z)
    BY Named
  <1>2. k = call[p] /\ w = work[p] /\ k \in Call /\ CallOK(k, w, v, z)
    BY <1>1 DEF Names
  <1>3. PICK k2 : k2 = [k EXCEPT !.at = "tables"]
    OBVIOUS
  <1>4. MovesTo(k, k2, "tables", k.a)
    BY <1>2, <1>3, MoveAt DEF Ats
  <1>5. k.op # "none"
    BY <1>2, CallFields DEF CallOK, OpAt, Ops
  <1>6. CallOK(k2, w, v, z)
    BY <1>2, <1>4, GoesToTables
  <1> QED BY <1>1, <1>2, <1>3, <1>4, <1>5, <1>6, MoveStep DEF Moved

\* exec() has its segment and goes on with the stack.
LEMMA ExecLoadInv ==
    ASSUME MemInv, NEW p \in Proc, ExecLoad(p)
    PROVE  MemInv'
  <1>1. PICK k, w, v, z : Names(p, k, w, v, z)
    BY Named
  <1>2. k = call[p] /\ w = work[p] /\ z = sz[p] /\ k \in Call /\ z \in Nat /\ CallOK(k, w, v, z)
    BY <1>1 DEF Names
  <1>3. k.op = "exec" /\ k.at = "grow" /\ k.a * PGSIZE >= k.new /\ k.new \in Nat /\ k.a \in Nat /\ k.old \in Nat
    BY <1>2, CallFields DEF ExecLoad
  <1>4. PICK u, top : u = PGROUNDUP(k.new) /\ top = u * PGSIZE
    OBVIOUS
  <1>5. u \in Nat /\ top \in Nat /\ PGSIZE \in Nat /\ KERNBASE \in Nat
    BY <1>3, <1>4, RoundUp, MemoryAssumption, PageNumbers
  <1>6. ~(u < u) /\ k.new <= top
    BY <1>3, <1>4, <1>5, RoundUp
  <1>7. CASE call' = [call EXCEPT ![p].op = "stack", ![p].old = top, ![p].new = top + 2 * PGSIZE] /\ top + 2 * PGSIZE < KERNBASE
    <2>1. PICK n : n = top + 2 * PGSIZE
      OBVIOUS
    <2>2. n \in Nat /\ top <= n /\ n <= KERNBASE /\ k.new <= n
      BY <1>3, <1>5, <1>6, <1>7, <2>1
    <2>3. PICK k2 : k2 = [k EXCEPT !.op = "stack", !.old = top, !.new = n]
      OBVIOUS
    <2>4. /\ k2 \in Call /\ k2.op = "stack" /\ k2.at = "grow" /\ k2.a = k.a /\ k2.old = top /\ k2.new = n
          /\ k2.held = k.held
      BY <1>2, <1>3, <1>5, <2>2, <2>3 DEF Call, Ops
    <2>5. GrowOK(k2, w)
      <3>1. Pages(w) = {b \in VPage : b < k.a} /\ \A b \in 0..(k.a - 1) : b * PGSIZE < k.new
        BY <1>2, <1>3 DEF CallOK, GrowOK
      <3>2. \A b \in 0..(k.a - 1) : b * PGSIZE < n
        <4>1. \A b \in 0..(k.a - 1) : b * PGSIZE \in Nat
          BY <1>3, <1>5
        <4> QED BY <1>3, <2>2, <3>1, <4>1
      <3> QED BY <2>2, <2>4, <3>1, <3>2 DEF GrowOK
    <2>6. HeldOK(k2) /\ WorkOK(k2, w) /\ SizeOK(k2, v, z) /\ k2.at \in OpAt(k2.op)
      BY <1>2, <1>3, <2>4 DEF CallOK, HeldOK, WorkOK, NoWork, SizeOK, OpAt
    <2>7. CallOK(k2, w, v, z)
      BY <1>2, <2>4, <2>5, <2>6 DEF CallOK
    <2>8. call' = [call EXCEPT ![p] = k2] /\ sz' = [sz EXCEPT ![p] = z] /\ state' = state /\ kstack' = kstack
          /\ lost' = lost /\ freelist' = freelist /\ work' = work /\ vm' = vm
      BY <1>2, <1>7, <2>1, <2>3 DEF ExecLoad, MemInv, MemTypes
    <2>9. state[p] = "RUNNING"
      BY <1>2, <1>3, InCall
    <2> QED BY <1>1, <1>2, <1>3, <2>4, <2>7, <2>8, <2>9, QuietStep
  <1>8. CASE call' = [call EXCEPT ![p].at = "freevm"]
    <2>1. call' = [call EXCEPT ![p] = [call[p] EXCEPT !.at = "freevm", !.a = k.a]]
      BY <1>2, <1>8 DEF MemInv, MemTypes, Call
    <2>2. UNCHANGED <<freelist, state, kstack, sz, vm, work, lost>>
      BY DEF ExecLoad
    <2> QED BY <1>2, <1>3, <2>1, <2>2, FreevmStarts DEF Moved
  <1> QED BY <1>2, <1>4, <1>7, <1>8 DEF ExecLoad

-----------------------------------------------------------------------------
(* Steps that move a page.                                                 *)

LEMMA OwnNext ==
    ASSUME Own(Place, OwnMap', freelist', lost')
    PROVE  Own(Place, OwnMap, freelist, lost)'
  BY DEF Own, Place, Entry, Table, VPage, Page

\* The address space s2 is s but for the entry e, which holds g.
Put(s, s2, e, g) == \A d \in Entry : EntryOf(s2, d) = IF d = e THEN g ELSE EntryOf(s, d)

PutFields(s, s2, e, g) ==
    /\ s2.dir = IF e = Dir THEN g ELSE s.dir
    /\ s2.kern = IF e = Kern THEN g ELSE s.kern
    /\ \A t \in Table : s2.tab[t] = IF e = Tab(t) THEN g ELSE s.tab[t]
    /\ \A b \in VPage : s2.pte[b].page = IF e = PteOf(b) THEN g ELSE s.pte[b].page

LEMMA PutFrom ==
    ASSUME NEW s, NEW s2, NEW e \in Entry, NEW g, PutFields(s, s2, e, g)
    PROVE  Put(s, s2, e, g)
  <1>1. /\ EntryOf(s, Dir) = s.dir /\ EntryOf(s, Kern) = s.kern
        /\ \A t \in Table : EntryOf(s, Tab(t)) = s.tab[t]
        /\ \A b \in VPage : EntryOf(s, PteOf(b)) = s.pte[b].page
    BY EntryIs
  <1>2. /\ EntryOf(s2, Dir) = s2.dir /\ EntryOf(s2, Kern) = s2.kern
        /\ \A t \in Table : EntryOf(s2, Tab(t)) = s2.tab[t]
        /\ \A b \in VPage : EntryOf(s2, PteOf(b)) = s2.pte[b].page
    BY EntryIs
  <1>3. ASSUME NEW d \in Entry PROVE EntryOf(s2, d) = IF d = e THEN g ELSE EntryOf(s, d)
    <2>1. CASE d = Dir
      BY <1>1, <1>2, <2>1 DEF PutFields
    <2>2. CASE d = Kern
      BY <1>1, <1>2, <2>2 DEF PutFields
    <2>3. CASE \E u \in Table : d = Tab(u)
      BY <1>1, <1>2, <2>3 DEF PutFields
    <2>4. CASE \E b \in VPage : d = PteOf(b)
      BY <1>1, <1>2, <2>4 DEF PutFields
    <2> QED BY <2>1, <2>2, <2>3, <2>4, Entries
  <1> QED BY <1>3 DEF Put

LEMMA PutDir ==
    ASSUME NEW s \in Space, NEW g \in Page0, NEW s2, s2 = [s EXCEPT !.dir = g]
    PROVE  /\ s2 \in Space /\ Put(s, s2, Dir, g)
           /\ s2.dir = g /\ s2.kern = s.kern /\ s2.tab = s.tab /\ s2.pte = s.pte
  <1>1. s2 \in Space /\ s2.dir = g /\ s2.kern = s.kern /\ s2.tab = s.tab /\ s2.pte = s.pte
    BY DEF Space
  <1>2. PutFields(s, s2, Dir, g)
    BY <1>1, Entries DEF PutFields
  <1>3. Put(s, s2, Dir, g)
    BY <1>2, Entries, PutFrom
  <1> QED BY <1>1, <1>3

LEMMA PutKern ==
    ASSUME NEW s \in Space, NEW g \in Page0, NEW s2, s2 = [s EXCEPT !.kern = g]
    PROVE  /\ s2 \in Space /\ Put(s, s2, Kern, g)
           /\ s2.dir = s.dir /\ s2.kern = g /\ s2.tab = s.tab /\ s2.pte = s.pte
  <1>1. s2 \in Space /\ s2.dir = s.dir /\ s2.kern = g /\ s2.tab = s.tab /\ s2.pte = s.pte
    BY DEF Space
  <1>2. PutFields(s, s2, Kern, g)
    BY <1>1, Entries DEF PutFields
  <1>3. Put(s, s2, Kern, g)
    BY <1>2, Entries, PutFrom
  <1> QED BY <1>1, <1>3

LEMMA PutTab ==
    ASSUME NEW s \in Space, NEW t \in Table, NEW g \in Page0, NEW s2, s2 = [s EXCEPT !.tab[t] = g]
    PROVE  /\ s2 \in Space /\ Put(s, s2, Tab(t), g)
           /\ s2.dir = s.dir /\ s2.kern = s.kern /\ s2.pte = s.pte
  <1>1. s2 \in Space /\ s2.dir = s.dir /\ s2.kern = s.kern /\ s2.pte = s.pte
        /\ \A u \in Table : s2.tab[u] = IF u = t THEN g ELSE s.tab[u]
    BY DEF Space
  <1>2. PutFields(s, s2, Tab(t), g)
    BY <1>1, Entries DEF PutFields
  <1>3. Put(s, s2, Tab(t), g)
    BY <1>2, Entries, PutFrom
  <1> QED BY <1>1, <1>3

LEMMA PutPte ==
    ASSUME NEW s \in Space, NEW b \in VPage, NEW g \in Page0, NEW f \in BOOLEAN, NEW s2,
           s2 = Mapped(s, b, g, f)
    PROVE  /\ s2 \in Space /\ Put(s, s2, PteOf(b), g)
           /\ s2.dir = s.dir /\ s2.kern = s.kern /\ s2.tab = s.tab
           /\ \A c \in VPage : c # b => s2.pte[c] = s.pte[c]
           /\ s2.pte[b].page = g /\ s2.pte[b].u = f
  <1>1. s2 \in Space /\ s2.dir = s.dir /\ s2.kern = s.kern /\ s2.tab = s.tab
        /\ (\A c \in VPage : c # b => s2.pte[c] = s.pte[c])
    BY DEF Space, Pte, Mapped
  <1>1a. s2.pte[b].page = g /\ s2.pte[b].u = f
    BY DEF Space, Pte, Mapped
  <1>2. PutFields(s, s2, PteOf(b), g)
    BY <1>1, <1>1a, Entries DEF PutFields
  <1>3. Put(s, s2, PteOf(b), g)
    BY <1>2, Entries, PutFrom
  <1> QED BY <1>1, <1>1a, <1>3

\* The address spaces of p become w2 and v2.
NewSpaces(p, w2, v2) == work' = [work EXCEPT ![p] = w2] /\ vm' = [vm EXCEPT ![p] = v2]

LEMMA WorkBecomes ==
    ASSUME MemInv, NEW p \in Proc, NEW e \in Entry, NEW g, NEW w2, NewSpaces(p, w2, vm[p]),
           Put(work[p], w2, e, g), SameHeld, kstack' = kstack
    PROVE  Becomes(Place, OwnMap, OwnMap', SpaceAt("work", p, e), g)
  <1>1. (\A q \in Proc : vm'[q] = vm[q]) /\ \A q \in Proc : work'[q] = IF q = p THEN w2 ELSE work[q]
    BY DEF MemInv, MemTypes, NewSpaces
  <1>2. SameStacks /\ SameSpaces("work", p)
    BY <1>1 DEF SameStacks, SameSpaces
  <1>3. \A d \in Entry : EntryOf(work'[p], d) = IF d = e THEN g ELSE EntryOf(work[p], d)
    BY <1>1 DEF Put
  <1> QED BY <1>2, <1>3, BecomesWork

LEMMA VmBecomes ==
    ASSUME MemInv, NEW p \in Proc, NEW e \in Entry, NEW g, NEW v2, NewSpaces(p, work[p], v2),
           Put(vm[p], v2, e, g), SameHeld, kstack' = kstack
    PROVE  Becomes(Place, OwnMap, OwnMap', SpaceAt("vm", p, e), g)
  <1>1. (\A q \in Proc : work'[q] = work[q]) /\ \A q \in Proc : vm'[q] = IF q = p THEN v2 ELSE vm[q]
    BY DEF MemInv, MemTypes, NewSpaces
  <1>2. SameStacks /\ SameSpaces("vm", p)
    BY <1>1 DEF SameStacks, SameSpaces
  <1>3. \A d \in Entry : EntryOf(vm'[p], d) = IF d = e THEN g ELSE EntryOf(vm[p], d)
    BY <1>1 DEF Put
  <1> QED BY <1>2, <1>3, BecomesVm

\* kalloc() into a place that holds nothing, and kfree() of what a place holds.
LEMMA TakeAt ==
    ASSUME MemInv, NEW x \in Place, NEW f, Kalloc(f), lost' = lost, OwnMap[x] = Null,
           Becomes(Place, OwnMap, OwnMap', x, First)
    PROVE  Own(Place, OwnMap, freelist, lost)' /\ freelist' \in [Page -> Nat] /\ First \in Page
  <1>1. freelist \in [Page -> Nat] /\ Own(Place, OwnMap, freelist, lost)
    BY DEF MemInv, MemTypes
  <1>2. /\ First \in Page /\ freelist[First] > 0 /\ freelist' \in [Page -> Nat]
        /\ \A h \in Page : freelist'[h] = IF h = First THEN freelist[h] - 1 ELSE freelist[h]
    BY <1>1, KallocIs
  <1>3. PICK g, own, own2, fl, fl2 : g = First /\ own = OwnMap /\ own2 = OwnMap' /\ fl = freelist /\ fl2 = freelist'
    OBVIOUS
  <1>4. Own(Place, own2, fl2, lost)
    BY <1>1, <1>2, <1>3, OwnTake
  <1> QED BY <1>2, <1>3, <1>4, OwnNext

LEMMA GiveAt ==
    ASSUME MemInv, NEW x \in Place, NEW g, g = OwnMap[x], g # Null, Kfree(g), lost' = lost,
           Becomes(Place, OwnMap, OwnMap', x, Null)
    PROVE  Own(Place, OwnMap, freelist, lost)' /\ freelist' \in [Page -> Nat]
  <1>1. freelist \in [Page -> Nat] /\ Own(Place, OwnMap, freelist, lost)
    BY DEF MemInv, MemTypes
  <1>2. g \in Page
    BY <1>1 DEF Own
  <1>3. /\ freelist' \in [Page -> Nat]
        /\ \A h \in Page : freelist'[h] = IF h = g THEN freelist[h] + 1 ELSE freelist[h]
    BY <1>1, <1>2, KfreeIs
  <1>4. PICK own, own2, fl, fl2 : own = OwnMap /\ own2 = OwnMap' /\ fl = freelist /\ fl2 = freelist'
    OBVIOUS
  <1>5. Own(Place, own2, fl2, lost)
    BY <1>1, <1>3, <1>4, OwnGive
  <1> QED BY <1>3, <1>4, <1>5, OwnNext

\* The call goes on: it is the same call, and it holds the same page.
CallGoesOn(k, k2) == k2.op = k.op /\ k2.child = k.child /\ k2.held = k.held /\ k.at # "kstack" /\ k2.at # "kstack"

\* A step of p that changes its call and its address spaces.
SpaceStep(p, k2, w2, v2) ==
    call' = [call EXCEPT ![p] = k2] /\ NewSpaces(p, w2, v2) /\ UNCHANGED <<state, kstack, sz, lost>>

LEMMA SpaceStepIs ==
    ASSUME MemInv, NEW p \in Proc, NEW k, NEW w, NEW v, NEW z, Names(p, k, w, v, z),
           NEW k2 \in Call, NEW w2 \in Space, NEW v2 \in Space, SpaceStep(p, k2, w2, v2), k.op # "none",
           k2.op = k.op, k2.child = k.child, k.at # "kstack", k2.at # "kstack", v2.dir # Null,
           CallOK(k2, w2, v2, z), Own(Place, OwnMap, freelist, lost)', freelist' \in [Page -> Nat]
    PROVE  MemInv'
  <1>1. k = call[p] /\ z = sz[p] /\ z \in Nat /\ state[p] = "RUNNING"
    BY InCall DEF Names
  <1>2. sz' = [sz EXCEPT ![p] = z]
    BY <1>1 DEF SpaceStep, MemInv, MemTypes
  <1>3. call' = [call EXCEPT ![p] = k2] /\ work' = [work EXCEPT ![p] = w2] /\ vm' = [vm EXCEPT ![p] = v2]
        /\ state' = state /\ kstack' = kstack /\ lost' = lost
    BY DEF SpaceStep, NewSpaces
  <1> QED BY <1>1, <1>2, <1>3, CallStep

LEMMA GoesOnHeld ==
    ASSUME MemInv, NEW p \in Proc, NEW k, NEW k2, k = call[p], CallGoesOn(k, k2), call' = [call EXCEPT ![p] = k2]
    PROVE  SameHeld
  BY DEF SameHeld, CallGoesOn, MemInv, MemTypes

LEMMA TakeWork ==
    ASSUME MemInv, NEW p \in Proc, NEW k, NEW w, NEW v, NEW z, Names(p, k, w, v, z),
           NEW k2 \in Call, NEW w2 \in Space, SpaceStep(p, k2, w2, v), k.op # "none", CallGoesOn(k, k2),
           CallOK(k2, w2, v, z), NEW e \in Entry, NEW f, Kalloc(f),
           EntryOf(w, e) = Null, Put(w, w2, e, First)
    PROVE  MemInv'
  <1>1. k = call[p] /\ w = work[p] /\ v = vm[p] /\ w \in Space /\ v \in Space /\ v.dir # Null
    BY InCall, RunningHas DEF Names
  <1>2. PICK x : x = SpaceAt("work", p, e)
    OBVIOUS
  <1>3. x \in Place /\ OwnMap[x] = EntryOf(w, e)
    BY <1>1, <1>2, Places, MapIs DEF SpaceOf
  <1>4. SameHeld /\ kstack' = kstack /\ lost' = lost /\ NewSpaces(p, w2, v)
    BY <1>1, GoesOnHeld DEF SpaceStep
  <1>5. Becomes(Place, OwnMap, OwnMap', x, First)
    BY <1>1, <1>2, <1>4, WorkBecomes
  <1>6. Own(Place, OwnMap, freelist, lost)' /\ freelist' \in [Page -> Nat]
    BY <1>3, <1>4, <1>5, TakeAt
  <1> QED BY <1>1, <1>6, SpaceStepIs DEF CallGoesOn

LEMMA GiveWork ==
    ASSUME MemInv, NEW p \in Proc, NEW k, NEW w, NEW v, NEW z, Names(p, k, w, v, z),
           NEW k2 \in Call, NEW w2 \in Space, SpaceStep(p, k2, w2, v), k.op # "none", CallGoesOn(k, k2),
           CallOK(k2, w2, v, z), NEW e \in Entry, NEW f, f = EntryOf(w, e), f # Null, Kfree(f),
           Put(w, w2, e, Null)
    PROVE  MemInv'
  <1>1. k = call[p] /\ w = work[p] /\ v = vm[p] /\ w \in Space /\ v \in Space /\ v.dir # Null
    BY InCall, RunningHas DEF Names
  <1>2. PICK x : x = SpaceAt("work", p, e)
    OBVIOUS
  <1>3. x \in Place /\ OwnMap[x] = EntryOf(w, e)
    BY <1>1, <1>2, Places, MapIs DEF SpaceOf
  <1>4. SameHeld /\ kstack' = kstack /\ lost' = lost /\ NewSpaces(p, w2, v)
    BY <1>1, GoesOnHeld DEF SpaceStep
  <1>5. Becomes(Place, OwnMap, OwnMap', x, Null)
    BY <1>1, <1>2, <1>4, WorkBecomes
  <1>6. Own(Place, OwnMap, freelist, lost)' /\ freelist' \in [Page -> Nat]
    BY <1>3, <1>4, <1>5, GiveAt
  <1> QED BY <1>1, <1>6, SpaceStepIs DEF CallGoesOn

LEMMA TakeVm ==
    ASSUME MemInv, NEW p \in Proc, NEW k, NEW w, NEW v, NEW z, Names(p, k, w, v, z),
           NEW k2 \in Call, NEW v2 \in Space, SpaceStep(p, k2, w, v2), k.op # "none", CallGoesOn(k, k2),
           CallOK(k2, w, v2, z), NEW e \in Entry, NEW f, Kalloc(f),
           EntryOf(v, e) = Null, Put(v, v2, e, First), v2.dir # Null
    PROVE  MemInv'
  <1>1. k = call[p] /\ w = work[p] /\ v = vm[p] /\ w \in Space /\ v \in Space /\ v.dir # Null
    BY InCall, RunningHas DEF Names
  <1>2. PICK x : x = SpaceAt("vm", p, e)
    OBVIOUS
  <1>3. x \in Place /\ OwnMap[x] = EntryOf(v, e)
    BY <1>1, <1>2, Places, MapIs DEF SpaceOf
  <1>4. SameHeld /\ kstack' = kstack /\ lost' = lost /\ NewSpaces(p, w, v2)
    BY <1>1, GoesOnHeld DEF SpaceStep
  <1>5. Becomes(Place, OwnMap, OwnMap', x, First)
    BY <1>1, <1>2, <1>4, VmBecomes
  <1>6. Own(Place, OwnMap, freelist, lost)' /\ freelist' \in [Page -> Nat]
    BY <1>3, <1>4, <1>5, TakeAt
  <1> QED BY <1>1, <1>6, SpaceStepIs DEF CallGoesOn

LEMMA GiveVm ==
    ASSUME MemInv, NEW p \in Proc, NEW k, NEW w, NEW v, NEW z, Names(p, k, w, v, z),
           NEW k2 \in Call, NEW v2 \in Space, SpaceStep(p, k2, w, v2), k.op # "none", CallGoesOn(k, k2),
           CallOK(k2, w, v2, z), NEW e \in Entry, NEW f, f = EntryOf(v, e), f # Null, Kfree(f),
           Put(v, v2, e, Null), v2.dir # Null
    PROVE  MemInv'
  <1>1. k = call[p] /\ w = work[p] /\ v = vm[p] /\ w \in Space /\ v \in Space /\ v.dir # Null
    BY InCall, RunningHas DEF Names
  <1>2. PICK x : x = SpaceAt("vm", p, e)
    OBVIOUS
  <1>3. x \in Place /\ OwnMap[x] = EntryOf(v, e)
    BY <1>1, <1>2, Places, MapIs DEF SpaceOf
  <1>4. SameHeld /\ kstack' = kstack /\ lost' = lost /\ NewSpaces(p, w, v2)
    BY <1>1, GoesOnHeld DEF SpaceStep
  <1>5. Becomes(Place, OwnMap, OwnMap', x, Null)
    BY <1>1, <1>2, <1>4, VmBecomes
  <1>6. Own(Place, OwnMap, freelist, lost)' /\ freelist' \in [Page -> Nat]
    BY <1>3, <1>4, <1>5, GiveAt
  <1> QED BY <1>1, <1>6, SpaceStepIs DEF CallGoesOn

\* The calls and address spaces of p after a step, in full.
LEMMA StepIs ==
    ASSUME MemInv, NEW p \in Proc, NEW k, NEW w, NEW v, NEW z, Names(p, k, w, v, z)
    PROVE  /\ k = call[p] /\ w = work[p] /\ v = vm[p] /\ z = sz[p] /\ k \in Call /\ w \in Space /\ v \in Space
           /\ z \in Nat /\ CallOK(k, w, v, z) /\ call \in [Proc -> Call] /\ work \in [Proc -> Space]
           /\ vm \in [Proc -> Space] /\ sz \in [Proc -> Nat]
           /\ work = [work EXCEPT ![p] = w] /\ vm = [vm EXCEPT ![p] = v] /\ sz = [sz EXCEPT ![p] = z]
           /\ call = [call EXCEPT ![p] = k]
  BY DEF Names, MemInv, MemTypes

LEMMA FirstIs ==
    ASSUME MemInv, NEW f, Kalloc(f)
    PROVE  First \in Page /\ First # Null /\ First \in Page0
  <1>1. First \in Page
    BY KallocIs DEF MemInv, MemTypes
  <1> QED BY <1>1 DEF Page, Page0, Null

LEMMA SetupDirInv ==
    ASSUME MemInv, NEW p \in Proc, SetupDir(p)
    PROVE  MemInv'
  <1>1. PICK k, w, v, z : Names(p, k, w, v, z)
    BY Named
  <1>2. /\ k = call[p] /\ w = work[p] /\ v = vm[p] /\ k \in Call /\ w \in Space /\ CallOK(k, w, v, z)
        /\ call \in [Proc -> Call] /\ work \in [Proc -> Space] /\ vm = [vm EXCEPT ![p] = v]
    BY <1>1, StepIs
  <1>3. k.at = "dir" /\ k.op \in {"fork", "exec"}
    BY <1>2, CallFields DEF SetupDir, CallOK, OpAt, Ops
  <1>4. CASE Kalloc(Zero) /\ work' = [work EXCEPT ![p].dir = First] /\ call' = [call EXCEPT ![p].at = "kern"]
    <2>1. PICK k2, g, w2 : k2 = [k EXCEPT !.at = "kern"] /\ g = First /\ w2 = [w EXCEPT !.dir = g]
      OBVIOUS
    <2>2. MovesTo(k, k2, "kern", k.a)
      BY <1>2, <2>1, MoveAt DEF Ats
    <2>3. g \in Page0 /\ g # Null
      BY <1>4, <2>1, FirstIs
    <2>4. /\ w2 \in Space /\ Put(w, w2, Dir, g)
          /\ w2.dir = g /\ w2.kern = w.kern /\ w2.tab = w.tab /\ w2.pte = w.pte
      BY <1>2, <2>1, <2>3, PutDir
    <2>5. w = NoSpace
      BY <1>2, <1>3 DEF CallOK, WorkOK, NoWork
    <2>6. k2 \in Call /\ k2.op = k.op /\ k2.at = "kern" /\ CallGoesOn(k, k2)
      BY <1>3, <2>2 DEF MovesTo, CallGoesOn
    <2>7. CallOK(k2, w2, v, z)
      <3>1. k2.at \in OpAt(k2.op) /\ HeldOK(k2)
        BY <1>2, <1>3, <2>6 DEF OpAt, HeldOK, CallOK, CallGoesOn
      <3>2. WorkOK(k2, w2)
        BY <2>3, <2>4, <2>5, <2>6, <1>3, NoSpaceIs DEF WorkOK, NoWork
      <3>3. GrowOK(k2, w2)
        BY <1>2, <1>3, <2>2, <2>6 DEF CallOK, GrowOK, MovesTo
      <3>4. SizeOK(k2, v, z)
        BY <1>2, <1>3, <2>2, <2>6 DEF CallOK, SizeOK, MovesTo
      <3>5. Clean(w2) /\ Clean(v)
        BY <1>2, <2>4 DEF CallOK, Clean
      <3> QED BY <1>3, <2>6, <3>1, <3>2, <3>3, <3>4, <3>5 DEF CallOK
    <2>8. SpaceStep(p, k2, w2, v)
      BY <1>2, <1>4, <2>1 DEF SpaceStep, NewSpaces, SetupDir
    <2>9. EntryOf(w, Dir) = Null /\ Dir \in Entry
      BY <2>5, NoSpaceIs, Entries
    <2> QED BY <1>1, <1>3, <1>4, <2>1, <2>4, <2>6, <2>7, <2>8, <2>9, TakeWork
  <1>5. CASE OutOfMemory /\ UNCHANGED work /\ call' = [call EXCEPT ![p].at = "failed"]
    <2>1. Moved(p, [call[p] EXCEPT !.at = "failed"])
      BY <1>2, <1>5 DEF Moved, SetupDir, OutOfMemory
    <2> QED BY <1>2, <1>3, <2>1, SetupDirFails
  <1> QED BY <1>4, <1>5 DEF SetupDir

LEMMA SetupKernInv ==
    ASSUME MemInv, NEW p \in Proc, SetupKern(p)
    PROVE  MemInv'
  <1>1. PICK k, w, v, z : Names(p, k, w, v, z)
    BY Named
  <1>2. /\ k = call[p] /\ w = work[p] /\ v = vm[p] /\ k \in Call /\ w \in Space /\ CallOK(k, w, v, z)
        /\ call \in [Proc -> Call] /\ work \in [Proc -> Space] /\ vm = [vm EXCEPT ![p] = v]
    BY <1>1, StepIs
  <1>3. k.at = "kern" /\ k.op \in {"fork", "exec"}
    BY <1>2, CallFields DEF SetupKern, CallOK, OpAt, Ops
  <1>4. CASE Kalloc(Zero) /\ work' = [work EXCEPT ![p].kern = First] /\ call' = [call EXCEPT ![p].at = "grow"]
    <2>1. PICK k2, g, w2 : k2 = [k EXCEPT !.at = "grow"] /\ g = First /\ w2 = [w EXCEPT !.kern = g]
      OBVIOUS
    <2>2. MovesTo(k, k2, "grow", k.a)
      BY <1>2, <2>1, MoveAt DEF Ats
    <2>3. g \in Page0 /\ g # Null
      BY <1>4, <2>1, FirstIs
    <2>4. /\ w2 \in Space /\ Put(w, w2, Kern, g)
          /\ w2.dir = w.dir /\ w2.kern = g /\ w2.tab = w.tab /\ w2.pte = w.pte
      BY <1>2, <2>1, <2>3, PutKern
    <2>5. w.dir # Null /\ w.kern = Null /\ w.pte = NoSpace.pte
      BY <1>2, <1>3 DEF CallOK, WorkOK, NoWork
    <2>6. k2 \in Call /\ k2.op = k.op /\ k2.at = "grow" /\ CallGoesOn(k, k2) /\ k2.a = 0 /\ k2.new = k.new /\ k2.old = k.old
      BY <1>2, <1>3, <2>2 DEF MovesTo, CallGoesOn, CallOK, GrowOK
    <2>7. CallOK(k2, w2, v, z)
      <3>1. k2.at \in OpAt(k2.op) /\ HeldOK(k2)
        BY <1>2, <1>3, <2>6 DEF OpAt, HeldOK, CallOK, CallGoesOn
      <3>2. WorkOK(k2, w2)
        BY <2>3, <2>4, <2>5, <2>6, <1>3 DEF WorkOK, NoWork
      <3>3. GrowOK(k2, w2)
        <4>1. Pages(w2) = {b \in VPage : b < 0}
          BY <2>4, <2>5, NoSpaceIs, PageNumbers DEF Pages
        <4> QED BY <1>2, <1>3, <2>6, <4>1 DEF CallOK, GrowOK
      <3>4. SizeOK(k2, v, z)
        BY <1>2, <1>3, <2>2, <2>6 DEF CallOK, SizeOK, MovesTo
      <3>5. Clean(w2) /\ Clean(v)
        BY <1>2, <2>4 DEF CallOK, Clean
      <3> QED BY <1>3, <2>6, <3>1, <3>2, <3>3, <3>4, <3>5 DEF CallOK
    <2>8. SpaceStep(p, k2, w2, v)
      BY <1>2, <1>4, <2>1 DEF SpaceStep, NewSpaces, SetupKern
    <2>9. EntryOf(w, Kern) = Null /\ Kern \in Entry
      BY <2>5, EntryIs, Entries
    <2> QED BY <1>1, <1>3, <1>4, <2>1, <2>4, <2>6, <2>7, <2>8, <2>9, TakeWork
  <1>5. CASE OutOfMemory /\ UNCHANGED work /\ call' = [call EXCEPT ![p].at = "freevm"]
    <2>1. call' = [call EXCEPT ![p] = [call[p] EXCEPT !.at = "freevm", !.a = k.a]]
      BY <1>2, <1>5 DEF Call
    <2>2. Moved(p, [call[p] EXCEPT !.at = "freevm", !.a = k.a])
      BY <1>5, <2>1 DEF Moved, SetupKern, OutOfMemory
    <2>3. k.a \in Nat
      BY <1>2, CallFields
    <2> QED BY <1>2, <1>3, <2>2, <2>3, FreevmStarts
  <1> QED BY <1>4, <1>5 DEF SetupKern

\* The address space that the call works on.
TargetOf(k, w, v) == IF k.op = "sbrk" THEN v ELSE w
WorkAfter(k, w, s) == IF k.op = "sbrk" THEN w ELSE s
VmAfter(k, v, s) == IF k.op = "sbrk" THEN s ELSE v

LEMMA Targets ==
    ASSUME MemInv, NEW p \in Proc, NEW k, NEW w, NEW v, NEW z, Names(p, k, w, v, z)
    PROVE  /\ Target(p) = TargetOf(k, w, v)
           /\ \A s : SetTarget(p, s) => NewSpaces(p, WorkAfter(k, w, s), VmAfter(k, v, s))
  <1>1. /\ k = call[p] /\ w = work[p] /\ v = vm[p] /\ work = [work EXCEPT ![p] = w] /\ vm = [vm EXCEPT ![p] = v]
    BY StepIs
  <1>2. Target(p) = TargetOf(k, w, v)
    BY <1>1 DEF Target, TargetOf
  <1>3. ASSUME NEW s, SetTarget(p, s) PROVE NewSpaces(p, WorkAfter(k, w, s), VmAfter(k, v, s))
    <2>1. CASE k.op = "sbrk"
      BY <1>1, <1>3, <2>1 DEF SetTarget, NewSpaces, WorkAfter, VmAfter
    <2>2. CASE k.op # "sbrk"
      BY <1>1, <1>3, <2>2 DEF SetTarget, NewSpaces, WorkAfter, VmAfter
    <2> QED BY <2>1, <2>2
  <1> QED BY <1>2, <1>3

\* kalloc() and kfree() of an entry of that address space.
LEMMA TakeTarget ==
    ASSUME MemInv, NEW p \in Proc, NEW k, NEW w, NEW v, NEW z, Names(p, k, w, v, z),
           NEW s, s = TargetOf(k, w, v), NEW s2 \in Space, NEW w2, w2 = WorkAfter(k, w, s2), NEW v2, v2 = VmAfter(k, v, s2),
           NEW k2 \in Call, SpaceStep(p, k2, w2, v2), k.op # "none", CallGoesOn(k, k2), s2.dir = s.dir,
           CallOK(k2, w2, v2, z), NEW e \in Entry, NEW f, Kalloc(f), EntryOf(s, e) = Null, Put(s, s2, e, First)
    PROVE  MemInv'
  <1>1. v = vm[p] /\ v.dir # Null
    BY InCall, RunningHas DEF Names
  <1>2. CASE k.op = "sbrk"
    <2>1. s = v /\ v2 = s2 /\ w2 = w
      BY <1>2 DEF TargetOf, WorkAfter, VmAfter
    <2>2. v2 \in Space /\ v2.dir # Null /\ EntryOf(v, e) = Null /\ Put(v, v2, e, First)
      BY <1>1, <2>1
    <2>3. SpaceStep(p, k2, w, v2) /\ CallOK(k2, w, v2, z)
      BY <2>1
    <2> HIDE DEF SpaceStep
    <2> QED BY <2>2, <2>3, TakeVm
  <1>3. CASE k.op # "sbrk"
    <2>1. s = w /\ v2 = v /\ w2 = s2
      BY <1>3 DEF TargetOf, WorkAfter, VmAfter
    <2>2. w2 \in Space /\ EntryOf(w, e) = Null /\ Put(w, w2, e, First)
      BY <2>1
    <2>3. SpaceStep(p, k2, w2, v) /\ CallOK(k2, w2, v, z)
      BY <2>1
    <2> QED BY <2>2, <2>3, TakeWork
  <1> QED BY <1>2, <1>3

LEMMA GiveTarget ==
    ASSUME MemInv, NEW p \in Proc, NEW k, NEW w, NEW v, NEW z, Names(p, k, w, v, z),
           NEW s, s = TargetOf(k, w, v), NEW s2 \in Space, NEW w2, w2 = WorkAfter(k, w, s2), NEW v2, v2 = VmAfter(k, v, s2),
           NEW k2 \in Call, SpaceStep(p, k2, w2, v2), k.op # "none", CallGoesOn(k, k2), s2.dir = s.dir,
           CallOK(k2, w2, v2, z), NEW e \in Entry, NEW f, f = EntryOf(s, e), f # Null, Kfree(f), Put(s, s2, e, Null)
    PROVE  MemInv'
  <1>1. v = vm[p] /\ v.dir # Null
    BY InCall, RunningHas DEF Names
  <1>2. CASE k.op = "sbrk"
    <2>1. s = v /\ v2 = s2 /\ w2 = w
      BY <1>2 DEF TargetOf, WorkAfter, VmAfter
    <2>2. v2 \in Space /\ v2.dir # Null /\ f = EntryOf(v, e) /\ Put(v, v2, e, Null)
      BY <1>1, <2>1
    <2>3. SpaceStep(p, k2, w, v2) /\ CallOK(k2, w, v2, z)
      BY <2>1
    <2> QED BY <2>2, <2>3, GiveVm
  <1>3. CASE k.op # "sbrk"
    <2>1. s = w /\ v2 = v /\ w2 = s2
      BY <1>3 DEF TargetOf, WorkAfter, VmAfter
    <2>2. w2 \in Space /\ f = EntryOf(w, e) /\ Put(w, w2, e, Null)
      BY <2>1
    <2>3. SpaceStep(p, k2, w2, v) /\ CallOK(k2, w2, v, z)
      BY <2>1
    <2> QED BY <2>2, <2>3, GiveWork
  <1> QED BY <1>2, <1>3

\* The loop has entered its page.
Entered(s, s2, a) ==
    /\ s2 \in Space /\ s2.dir = s.dir /\ s2.pte[a].page # Null
    /\ \A c \in VPage : c # a => s2.pte[c] = s.pte[c]

LEMMA GrowsBy ==
    ASSUME NEW k \in Call, NEW w \in Space, NEW v \in Space, NEW z \in Nat, CallOK(k, w, v, z), k.at \in {"grow", "table"},
           NEW a, a = k.a, a * PGSIZE < k.new, NEW s, s = TargetOf(k, w, v), NEW s2, Entered(s, s2, a),
           NEW k2 \in Call, k2.op = k.op, k2.at = "grow", k2.a = a + 1, k2.old = k.old, k2.new = k.new,
           k2.held = Null, NEW w2, w2 = WorkAfter(k, w, s2), NEW v2, v2 = VmAfter(k, v, s2)
    PROVE  CallOK(k2, w2, v2, z)
  <1>1. k.op \in {"fork", "exec", "stack", "sbrk"} /\ a \in Nat /\ k.new \in Nat /\ k.old \in Nat
    BY CallFields DEF CallOK, OpAt, Ops
  <1>2. k.new <= KERNBASE /\ k.old <= k.new /\ Pages(s) = {b \in VPage : b < a}
        /\ \A b \in 0..(a - 1) : b * PGSIZE < k.new
    BY DEF CallOK, GrowOK, TargetOf
  <1>3. a \in VPage /\ KERNBASE \in Nat /\ VPage \subseteq Nat
    <2>1. KERNBASE \in Nat /\ a * PGSIZE \in Nat
      BY <1>1, PageNumbers, MemoryAssumption
    <2>2. a * PGSIZE < KERNBASE
      BY <1>1, <1>2, <2>1
    <2> QED BY <1>1, <2>2, PageNumbers
  <1>4. Pages(s2) = {b \in VPage : b < a + 1}
    <2>1. \A b \in VPage : b \in Pages(s2) <=> b = a \/ b \in Pages(s)
      BY <1>3 DEF Pages, Entered
    <2>2. \A b \in VPage : b \in Pages(s2) <=> b < a + 1
      BY <1>1, <1>2, <1>3, <2>1
    <2> QED BY <2>2 DEF Pages
  <1>5. \A b \in 0..((a + 1) - 1) : b * PGSIZE < k.new
    <2>1. \A b \in 0..((a + 1) - 1) : b = a \/ b \in 0..(a - 1)
      BY <1>1
    <2> QED BY <1>2, <2>1
  <1>6. GrowOK(k2, s2)
    BY <1>2, <1>4, <1>5 DEF GrowOK
  <1>7. Clean(s) /\ Clean(w) /\ Clean(v)
    BY DEF CallOK, TargetOf
  <1>8. Clean(s2)
    BY <1>3, <1>7 DEF Clean, Entered
  <1>9. k2.at \in OpAt(k2.op) /\ HeldOK(k2) /\ k2.op # "none"
    BY <1>1 DEF OpAt, HeldOK
  <1>10. CASE k.op = "sbrk"
    <2>1. s = v /\ w2 = w /\ v2 = s2
      BY <1>10 DEF TargetOf, WorkAfter, VmAfter
    <2>2. WorkOK(k2, w2)
      BY <1>10, <2>1 DEF CallOK, WorkOK, NoWork
    <2>3. Below(k.old) \subseteq Pages(v) /\ k.old = z /\ z <= KERNBASE
      BY <1>10 DEF CallOK, SizeOK
    <2>4. Pages(v) \subseteq Pages(s2) /\ Pages(s2) \subseteq Below(k.new)
      <3>1. Pages(v) \subseteq Pages(s2)
        BY <1>2, <1>1, <1>3, <1>4, <2>1
      <3>2. \A b \in Pages(s2) : b \in VPage /\ b \in 0..((a + 1) - 1)
        BY <1>1, <1>3, <1>4
      <3> QED BY <1>5, <3>1, <3>2 DEF Below
    <2>5. SizeOK(k2, v2, z)
      BY <1>10, <2>1, <2>3, <2>4 DEF SizeOK
    <2> QED BY <1>6, <1>7, <1>8, <1>9, <1>10, <2>1, <2>2, <2>5 DEF CallOK
  <1>11. CASE k.op # "sbrk"
    <2>1. s = w /\ w2 = s2 /\ v2 = v
      BY <1>11 DEF TargetOf, WorkAfter, VmAfter
    <2>2. WorkOK(k2, w2)
      BY <1>1, <1>11, <2>1 DEF CallOK, WorkOK, NoWork, Entered
    <2>3. SizeOK(k2, v2, z)
      BY <1>11, <2>1 DEF CallOK, SizeOK
    <2> QED BY <1>6, <1>7, <1>8, <1>9, <1>11, <2>1, <2>2, <2>3 DEF CallOK
  <1> QED BY <1>10, <1>11

\* What every place holds after a step of p.
MapBecomes(p, k2, w2, v2) ==
    /\ \A q \in Proc : OwnMap'[StackAt(q)] = OwnMap[StackAt(q)]
    /\ \A q \in Proc : OwnMap'[HeldAt(q)] = IF q = p THEN k2.held ELSE OwnMap[HeldAt(q)]
    /\ \A q \in Proc, e \in Entry :
          OwnMap'[SpaceAt("vm", q, e)] = IF q = p THEN EntryOf(v2, e) ELSE OwnMap[SpaceAt("vm", q, e)]
    /\ \A q \in Proc, e \in Entry :
          OwnMap'[SpaceAt("work", q, e)] = IF q = p THEN EntryOf(w2, e) ELSE OwnMap[SpaceAt("work", q, e)]

LEMMA MapAfter ==
    ASSUME MemInv, NEW p \in Proc, NEW k2, NEW w2, NEW v2, call' = [call EXCEPT ![p] = k2],
           NewSpaces(p, w2, v2), kstack' = kstack
    PROVE  MapBecomes(p, k2, w2, v2)
  <1>1. /\ \A q \in Proc : call'[q] = IF q = p THEN k2 ELSE call[q]
        /\ \A q \in Proc : work'[q] = IF q = p THEN w2 ELSE work[q]
        /\ \A q \in Proc : vm'[q] = IF q = p THEN v2 ELSE vm[q]
    BY DEF MemInv, MemTypes, NewSpaces
  <1>2. \A q \in Proc : OwnMap'[StackAt(q)] = OwnMap[StackAt(q)]
    BY MapIs, MapIsNext
  <1>3. \A q \in Proc : OwnMap'[HeldAt(q)] = IF q = p THEN k2.held ELSE OwnMap[HeldAt(q)]
    BY <1>1, MapIs, MapIsNext
  <1>4. ASSUME NEW q \in Proc, NEW e \in Entry
        PROVE  /\ OwnMap'[SpaceAt("vm", q, e)] = IF q = p THEN EntryOf(v2, e) ELSE OwnMap[SpaceAt("vm", q, e)]
               /\ OwnMap'[SpaceAt("work", q, e)] = IF q = p THEN EntryOf(w2, e) ELSE OwnMap[SpaceAt("work", q, e)]
    <2>1. OwnMap[SpaceAt("vm", q, e)] = EntryOf(vm[q], e) /\ OwnMap[SpaceAt("work", q, e)] = EntryOf(work[q], e)
      BY MapIs DEF SpaceOf
    <2>2. OwnMap'[SpaceAt("vm", q, e)] = EntryOf(vm'[q], e) /\ OwnMap'[SpaceAt("work", q, e)] = EntryOf(work'[q], e)
      BY MapIsNext
    <2> QED BY <1>1, <2>1, <2>2
  <1> QED BY <1>2, <1>3, <1>4 DEF MapBecomes

\* A step of p that changes its call and the page in its hands.
LEMMA HeldBecomes ==
    ASSUME MemInv, NEW p \in Proc, NEW k, NEW w, NEW v, NEW z, Names(p, k, w, v, z), NEW k2, SpaceStep(p, k2, w, v)
    PROVE  Becomes(Place, OwnMap, OwnMap', HeldAt(p), k2.held)
  <1>1. w = work[p] /\ v = vm[p] /\ call' = [call EXCEPT ![p] = k2] /\ NewSpaces(p, w, v) /\ kstack' = kstack
    BY DEF Names, SpaceStep
  <1>2. SameStacks
    BY <1>1 DEF SameStacks
  <1>3. SpacesKept
    BY <1>1 DEF SpacesKept, NewSpaces, MemInv, MemTypes
  <1>4. \A q \in Proc : call'[q].held = IF q = p THEN k2.held ELSE call[q].held
    BY <1>1 DEF MemInv, MemTypes
  <1> QED BY <1>2, <1>3, <1>4, BecomesHeld

LEMMA TakeHeld ==
    ASSUME MemInv, NEW p \in Proc, NEW k, NEW w, NEW v, NEW z, Names(p, k, w, v, z),
           NEW k2 \in Call, SpaceStep(p, k2, w, v), k.op # "none", CallOK(k2, w, v, z),
           k2.op = k.op, k2.child = k.child, k.at # "kstack", k2.at # "kstack",
           NEW f, Kalloc(f), k.held = Null, k2.held = First
    PROVE  MemInv'
  <1>1. k = call[p] /\ v = vm[p] /\ w \in Space /\ v \in Space /\ v.dir # Null
    BY InCall, RunningHas DEF Names
  <1>2. PICK x : x = HeldAt(p)
    OBVIOUS
  <1>3. x \in Place /\ OwnMap[x] = Null
    BY <1>1, <1>2, Places, MapIs
  <1>4. Becomes(Place, OwnMap, OwnMap', x, First)
    BY <1>2, HeldBecomes
  <1>5. lost' = lost
    BY DEF SpaceStep
  <1>6. Own(Place, OwnMap, freelist, lost)' /\ freelist' \in [Page -> Nat]
    BY <1>3, <1>4, <1>5, TakeAt
  <1> QED BY <1>1, <1>6, SpaceStepIs

LEMMA GiveHeld ==
    ASSUME MemInv, NEW p \in Proc, NEW k, NEW w, NEW v, NEW z, Names(p, k, w, v, z),
           NEW k2 \in Call, SpaceStep(p, k2, w, v), k.op # "none", CallOK(k2, w, v, z),
           k2.op = k.op, k2.child = k.child, k.at # "kstack", k2.at # "kstack",
           Kfree(k.held), k.held # Null, k2.held = Null
    PROVE  MemInv'
  <1>1. k = call[p] /\ v = vm[p] /\ w \in Space /\ v \in Space /\ v.dir # Null
    BY InCall, RunningHas DEF Names
  <1>2. PICK x, g : x = HeldAt(p) /\ g = k.held
    OBVIOUS
  <1>3. x \in Place /\ g = OwnMap[x]
    BY <1>1, <1>2, Places, MapIs
  <1>4. Becomes(Place, OwnMap, OwnMap', x, Null)
    BY <1>2, HeldBecomes
  <1>5. lost' = lost /\ g # Null /\ Kfree(g)
    BY <1>2 DEF SpaceStep
  <1>6. Own(Place, OwnMap, freelist, lost)' /\ freelist' \in [Page -> Nat]
    BY <1>3, <1>4, <1>5, GiveAt
  <1> QED BY <1>1, <1>6, SpaceStepIs

LEMMA GrowPageInv ==
    ASSUME MemInv, NEW p \in Proc, GrowPage(p)
    PROVE  MemInv'
  <1>1. PICK k, w, v, z : Names(p, k, w, v, z)
    BY Named
  <1>2. /\ k = call[p] /\ w = work[p] /\ v = vm[p] /\ k \in Call /\ w \in Space /\ v \in Space /\ z \in Nat
        /\ CallOK(k, w, v, z) /\ call \in [Proc -> Call] /\ work = [work EXCEPT ![p] = w] /\ vm = [vm EXCEPT ![p] = v]
    BY <1>1, StepIs
  <1>3. PICK a, s : a = k.a /\ s = TargetOf(k, w, v)
    OBVIOUS
  <1>4. k.at = "grow" /\ a * PGSIZE < k.new /\ k.op \in {"fork", "exec", "stack", "sbrk"} /\ a \in Nat /\ k.held = Null
    BY <1>2, <1>3, CallFields DEF GrowPage, CallOK, OpAt, Ops, HeldOK
  <1>5. s = Target(p) /\ s \in Space
    BY <1>1, <1>2, <1>3, Targets DEF TargetOf
  <1>6. UNCHANGED <<state, kstack, sz, lost>>
    BY DEF GrowPage
  <1>7. a \in VPage /\ EntryOf(s, PteOf(a)) = Null /\ PteOf(a) \in Entry
    <2>1. KERNBASE \in Nat /\ a * PGSIZE \in Nat /\ k.new \in Nat
      BY <1>2, <1>4, CallFields, PageNumbers, MemoryAssumption
    <2>2. k.new <= KERNBASE /\ Pages(s) = {b \in VPage : b < a}
      BY <1>2, <1>3, <1>4 DEF CallOK, GrowOK, TargetOf
    <2>3. a \in VPage
      BY <1>4, <2>1, <2>2, PageNumbers
    <2>4. a \notin Pages(s)
      BY <1>4, <2>2
    <2> QED BY <2>3, <2>4, EntryIs, Entries DEF Pages
  <1>8. CASE Kalloc(Fill(p, a)) /\ s.tab[PDX(a)] = Null
             /\ call' = [call EXCEPT ![p].at = "table", ![p].held = First] /\ UNCHANGED <<vm, work>>
    <2>1. PICK g, f : g = First /\ f = Fill(p, a)
      OBVIOUS
    <2>2. g \in Page0 /\ g # Null
      BY <1>8, <2>1, FirstIs
    <2>3. PICK k2 : k2 = [k EXCEPT !.at = "table", !.held = g]
      OBVIOUS
    <2>4. /\ k2 \in Call /\ k2.at = "table" /\ k2.op = k.op /\ k2.a = a /\ k2.old = k.old /\ k2.new = k.new
          /\ k2.held = g /\ k2.child = k.child
      BY <1>2, <1>3, <2>2, <2>3 DEF Call, Ats
    <2>5. SpaceStep(p, k2, w, v)
      BY <1>2, <1>6, <1>8, <2>1, <2>3 DEF SpaceStep, NewSpaces
    <2>6. CallOK(k2, w, v, z)
      <3>1. k2.at \in OpAt(k2.op) /\ HeldOK(k2)
        BY <1>4, <2>2, <2>4 DEF OpAt, HeldOK
      <3>2. WorkOK(k2, w) /\ SizeOK(k2, v, z)
        BY <1>2, <1>4, <2>4 DEF CallOK, WorkOK, NoWork, SizeOK
      <3>3. GrowOK(k2, s)
        BY <1>2, <1>3, <1>4, <1>8, <2>4 DEF CallOK, GrowOK, TargetOf
      <3> QED BY <1>2, <1>3, <1>4, <2>4, <3>1, <3>2, <3>3 DEF CallOK, TargetOf
    <2> QED BY <1>1, <1>4, <1>8, <2>1, <2>4, <2>5, <2>6, TakeHeld
  <1>9. CASE Kalloc(Fill(p, a)) /\ SetTarget(p, Mapped(s, a, First, Flag(p, a))) /\ call' = [call EXCEPT ![p].a = a + 1]
    <2>1. PICK g, f, b : g = First /\ f = Fill(p, a) /\ b \in BOOLEAN /\ b = Flag(p, a)
      <3>1. Flag(p, a) \in BOOLEAN
        BY DEF Flag
      <3> QED BY <3>1
    <2>2. g \in Page0 /\ g # Null
      BY <1>9, <2>1, FirstIs
    <2>3. PICK s2 : s2 = Mapped(s, a, g, b)
      OBVIOUS
    <2>4. /\ s2 \in Space /\ Put(s, s2, PteOf(a), g) /\ s2.dir = s.dir /\ s2.pte[a].page = g
          /\ \A c \in VPage : c # a => s2.pte[c] = s.pte[c]
      BY <1>5, <1>7, <2>1, <2>2, <2>3, PutPte
    <2>5. Entered(s, s2, a)
      BY <2>2, <2>4 DEF Entered
    <2>6. PICK k2 : k2 = [k EXCEPT !.a = a + 1]
      OBVIOUS
    <2>7. /\ k2 \in Call /\ k2.at = "grow" /\ k2.op = k.op /\ k2.a = a + 1 /\ k2.old = k.old /\ k2.new = k.new
          /\ k2.held = Null /\ k2.child = k.child
      BY <1>2, <1>4, <2>6 DEF Call
    <2>8. PICK w2, v2 : w2 = WorkAfter(k, w, s2) /\ v2 = VmAfter(k, v, s2)
      OBVIOUS
    <2>9. CallOK(k2, w2, v2, z)
      BY <1>2, <1>3, <1>4, <2>5, <2>7, <2>8, GrowsBy
    <2>10. SetTarget(p, s2)
      BY <1>9, <2>1, <2>3
    <2>11. NewSpaces(p, w2, v2)
      BY <1>1, <2>8, <2>10, Targets
    <2>12. SpaceStep(p, k2, w2, v2) /\ CallGoesOn(k, k2)
      BY <1>2, <1>4, <1>6, <1>9, <2>6, <2>7, <2>11 DEF SpaceStep, CallGoesOn
    <2>13. k.op # "none" /\ Kalloc(f) /\ Put(s, s2, PteOf(a), First)
      BY <1>4, <1>9, <2>1, <2>4
    <2> QED BY <1>1, <1>3, <1>7, <2>4, <2>7, <2>8, <2>9, <2>12, <2>13, TakeTarget
  <1>10. CASE OutOfMemory /\ UNCHANGED <<vm, work>> /\ k.op = "fork"
              /\ call' = [call EXCEPT ![p].at = "freevm", ![p].a = PGROUNDUP(k.old)]
    <2>1. PICK b : b = PGROUNDUP(k.old)
      OBVIOUS
    <2>2. b \in Nat
      BY <1>2, <2>1, CallFields, RoundUp
    <2>3. Moved(p, [call[p] EXCEPT !.at = "freevm", !.a = b])
      BY <1>2, <1>6, <1>10, <2>1 DEF Moved, OutOfMemory
    <2> QED BY <1>2, <1>4, <1>10, <2>2, <2>3, FreevmStarts
  <1>11. CASE OutOfMemory /\ UNCHANGED <<vm, work>> /\ k.op # "fork"
              /\ call' = [call EXCEPT ![p].at = "undo", ![p].a = PGROUNDUP(k.old)]
    <2>1. Moved(p, [call[p] EXCEPT !.at = "undo", !.a = PGROUNDUP(call[p].old)])
      BY <1>2, <1>6, <1>11 DEF Moved, OutOfMemory
    <2> QED BY <1>2, <1>4, <1>11, <2>1, UndoStarts
  <1> QED BY <1>2, <1>3, <1>5, <1>8, <1>9, <1>10, <1>11 DEF GrowPage

\* A page moves from place h to place x, which was free, and a new one is taken at y.
Shifted(own, own2, x, y, h, g) ==
    \A d \in Place : own2[d] = IF d = x THEN own[h] ELSE IF d = h THEN Null ELSE IF d = y THEN g ELSE own[d]

LEMMA ShiftAt ==
    ASSUME MemInv, NEW x \in Place, NEW y \in Place, NEW h \in Place, x # y, x # h, y # h,
           OwnMap[x] = Null, OwnMap[y] = Null, NEW f, Kalloc(f), lost' = lost,
           Shifted(OwnMap, OwnMap', x, y, h, First)
    PROVE  Own(Place, OwnMap, freelist, lost)' /\ freelist' \in [Page -> Nat]
  <1>1. freelist \in [Page -> Nat] /\ Own(Place, OwnMap, freelist, lost)
    BY DEF MemInv, MemTypes
  <1>2. /\ First \in Page /\ freelist[First] > 0 /\ freelist' \in [Page -> Nat]
        /\ \A d \in Page : freelist'[d] = IF d = First THEN freelist[d] - 1 ELSE freelist[d]
    BY <1>1, KallocIs
  <1>3. PICK g, own, own2, fl, fl2 : g = First /\ own = OwnMap /\ own2 = OwnMap' /\ fl = freelist /\ fl2 = freelist'
    OBVIOUS
  <1>4. PICK pi : pi = [d \in Place |-> IF d = x THEN h ELSE IF d = h THEN x ELSE d]
    OBVIOUS
  <1>5. PICK own1 : own1 = [d \in Place |-> own[pi[d]]]
    OBVIOUS
  <1>6. \A d \in Place : pi[d] \in Place /\ pi[pi[d]] = d /\ own1[d] = own[pi[d]]
    BY <1>4, <1>5
  <1>7. Own(Place, own1, fl, lost)
    BY <1>1, <1>3, <1>6, OwnSwap
  <1>8. own1[y] = Null
    BY <1>3, <1>4, <1>5
  <1>9. Becomes(Place, own1, own2, y, g)
    BY <1>3, <1>4, <1>5 DEF Becomes, Shifted
  <1>10. Own(Place, own2, fl2, lost)
    BY <1>2, <1>3, <1>7, <1>8, <1>9, OwnTake
  <1> QED BY <1>2, <1>3, <1>10, OwnNext

\* The places of the address space that the call works on.
KindOf(k) == IF k.op = "sbrk" THEN "vm" ELSE "work"

\* The held page is entered into the target, and its page table with it.
LEMMA TableShifts ==
    ASSUME MemInv, NEW p \in Proc, NEW k, NEW w, NEW v, NEW z, Names(p, k, w, v, z),
           NEW s, s = TargetOf(k, w, v), NEW s2, NEW w2, w2 = WorkAfter(k, w, s2), NEW v2, v2 = VmAfter(k, v, s2),
           NEW k2, SpaceStep(p, k2, w2, v2), k2.held = Null, NEW e \in Entry, NEW t \in Entry, NEW s1, NEW g,
           Put(s, s1, t, g), Put(s1, s2, e, k.held), e # t, NEW x, x = SpaceAt(KindOf(k), p, e), NEW y, y = SpaceAt(KindOf(k), p, t)
    PROVE  /\ Shifted(OwnMap, OwnMap', x, y, HeldAt(p), g) /\ x \in Place /\ y \in Place /\ HeldAt(p) \in Place
           /\ x # y /\ x # HeldAt(p) /\ y # HeldAt(p) /\ OwnMap[x] = EntryOf(s, e) /\ OwnMap[y] = EntryOf(s, t)
  <1>1. k = call[p] /\ w = work[p] /\ v = vm[p]
    BY DEF Names
  <1>2. KindOf(k) \in {"vm", "work"}
    BY DEF KindOf
  <1>3. x \in Place /\ y \in Place /\ HeldAt(p) \in Place /\ x # y /\ x # HeldAt(p) /\ y # HeldAt(p)
    BY <1>2, Places
  <1>4. OwnMap[x] = EntryOf(s, e) /\ OwnMap[y] = EntryOf(s, t) /\ OwnMap[HeldAt(p)] = k.held
    BY <1>1, <1>2, MapIs DEF SpaceOf, KindOf, TargetOf
  <1>5. \A d \in Entry : EntryOf(s2, d) = IF d = e THEN k.held ELSE IF d = t THEN g ELSE EntryOf(s, d)
    BY DEF Put
  <1>6. /\ \A q \in Proc : OwnMap'[StackAt(q)] = OwnMap[StackAt(q)]
        /\ \A q \in Proc : OwnMap'[HeldAt(q)] = IF q = p THEN Null ELSE OwnMap[HeldAt(q)]
        /\ \A q \in Proc, d \in Entry :
              OwnMap'[SpaceAt("vm", q, d)] = IF q = p THEN EntryOf(v2, d) ELSE OwnMap[SpaceAt("vm", q, d)]
        /\ \A q \in Proc, d \in Entry :
              OwnMap'[SpaceAt("work", q, d)] = IF q = p THEN EntryOf(w2, d) ELSE OwnMap[SpaceAt("work", q, d)]
    <2>1. call' = [call EXCEPT ![p] = k2] /\ NewSpaces(p, w2, v2) /\ kstack' = kstack
      BY DEF SpaceStep
    <2>2. MapBecomes(p, k2, w2, v2)
      BY <2>1, MapAfter
    <2> QED BY <2>2 DEF MapBecomes
  <1>7. ASSUME NEW j \in {"vm", "work"}, NEW q \in Proc, NEW d \in Entry
        PROVE  OwnMap'[SpaceAt(j, q, d)] = IF q = p /\ j = KindOf(k) THEN EntryOf(s2, d) ELSE OwnMap[SpaceAt(j, q, d)]
    <2>1. OwnMap[SpaceAt("vm", p, d)] = EntryOf(v, d) /\ OwnMap[SpaceAt("work", p, d)] = EntryOf(w, d)
      BY <1>1, MapIs DEF SpaceOf
    <2>2. CASE j = "vm"
      BY <1>6, <2>1, <2>2 DEF KindOf, VmAfter
    <2>3. CASE j = "work"
      BY <1>6, <2>1, <2>3 DEF KindOf, WorkAfter
    <2> QED BY <2>2, <2>3
  <1>8. ASSUME NEW d \in Place
        PROVE  OwnMap'[d] = IF d = x THEN OwnMap[HeldAt(p)] ELSE IF d = HeldAt(p) THEN Null ELSE IF d = y THEN g ELSE OwnMap[d]
    <2>1. CASE \E q \in Proc : d = StackAt(q)
      BY <1>2, <1>6, <2>1, Places
    <2>2. CASE \E q \in Proc : d = HeldAt(q)
      BY <1>2, <1>6, <2>2, Places
    <2>3. CASE \E j \in {"vm", "work"}, q \in Proc, n \in Entry : d = SpaceAt(j, q, n)
      <3>1. PICK j \in {"vm", "work"}, q \in Proc, n \in Entry : d = SpaceAt(j, q, n)
        BY <2>3
      <3>2. (d = x <=> j = KindOf(k) /\ q = p /\ n = e) /\ (d = y <=> j = KindOf(k) /\ q = p /\ n = t) /\ d # HeldAt(p)
        BY <1>2, <3>1, Places
      <3>3. OwnMap'[d] = IF q = p /\ j = KindOf(k) THEN EntryOf(s2, n) ELSE OwnMap[d]
        BY <1>7, <3>1
      <3>4. q = p /\ j = KindOf(k) => OwnMap[d] = EntryOf(s, n)
        BY <1>1, <3>1, MapIs DEF SpaceOf, KindOf, TargetOf
      <3> QED BY <1>4, <1>5, <3>2, <3>3, <3>4
    <2> QED BY <2>1, <2>2, <2>3, Places
  <1> QED BY <1>3, <1>4, <1>8 DEF Shifted

LEMMA GrowTableInv ==
    ASSUME MemInv, NEW p \in Proc, GrowTable(p)
    PROVE  MemInv'
  <1>1. PICK k, w, v, z : Names(p, k, w, v, z)
    BY Named
  <1>2. /\ k = call[p] /\ w = work[p] /\ v = vm[p] /\ k \in Call /\ w \in Space /\ v \in Space /\ z \in Nat
        /\ CallOK(k, w, v, z) /\ call \in [Proc -> Call] /\ work = [work EXCEPT ![p] = w] /\ vm = [vm EXCEPT ![p] = v]
    BY <1>1, StepIs
  <1>3. PICK a, s : a = k.a /\ s = TargetOf(k, w, v)
    OBVIOUS
  <1>4. k.at = "table" /\ a * PGSIZE < k.new /\ k.op \in {"fork", "exec", "stack", "sbrk"} /\ a \in Nat
        /\ k.held # Null /\ k.held \in Page0
    BY <1>2, <1>3, CallFields DEF GrowTable, CallOK, OpAt, Ops, HeldOK, GrowOK
  <1>5. s = Target(p) /\ s \in Space
    BY <1>1, <1>2, <1>3, Targets DEF TargetOf
  <1>6. UNCHANGED <<state, kstack, sz, lost>>
    BY DEF GrowTable
  <1>7. a \in VPage /\ EntryOf(s, PteOf(a)) = Null /\ PteOf(a) \in Entry
    <2>1. KERNBASE \in Nat /\ a * PGSIZE \in Nat /\ k.new \in Nat
      BY <1>2, <1>4, CallFields, PageNumbers, MemoryAssumption
    <2>2. k.new <= KERNBASE /\ Pages(s) = {b \in VPage : b < a}
      BY <1>2, <1>3, <1>4 DEF CallOK, GrowOK, TargetOf
    <2>3. a \in VPage
      BY <1>4, <2>1, <2>2, PageNumbers
    <2>4. a \notin Pages(s)
      BY <1>4, <2>2
    <2> QED BY <2>3, <2>4, EntryIs, Entries DEF Pages
  <1>8. PICK t : t = PDX(a)
    OBVIOUS
  <1>9. t \in Table /\ EntryOf(s, Tab(t)) = Null /\ Tab(t) \in Entry /\ Tab(t) # PteOf(a)
    <2>1. t \in Table
      BY <1>7, <1>8, PageNumbers
    <2>2. s.tab[t] = Null
      BY <1>2, <1>3, <1>4, <1>8 DEF CallOK, GrowOK, TargetOf
    <2> QED BY <1>7, <2>1, <2>2, EntryIs, Entries
  <1>10. CASE /\ Kalloc(Zero)
              /\ SetTarget(p, Mapped([s EXCEPT !.tab[t] = First], a, k.held, Flag(p, a)))
              /\ call' = [call EXCEPT ![p].at = "grow", ![p].a = a + 1, ![p].held = Null]
    <2>1. PICK g, h, b : g = First /\ h = k.held /\ b \in BOOLEAN /\ b = Flag(p, a)
      <3>1. Flag(p, a) \in BOOLEAN
        BY DEF Flag
      <3> QED BY <3>1
    <2>2. g \in Page0 /\ g # Null /\ h \in Page0 /\ h # Null
      BY <1>4, <1>10, <2>1, FirstIs
    <2>3. PICK s1 : s1 = [s EXCEPT !.tab[t] = g]
      OBVIOUS
    <2>4. s1 \in Space /\ Put(s, s1, Tab(t), g) /\ s1.dir = s.dir /\ s1.pte = s.pte
      BY <1>5, <1>9, <2>2, <2>3, PutTab
    <2>5. PICK s2 : s2 = Mapped(s1, a, h, b)
      OBVIOUS
    <2>6. /\ s2 \in Space /\ Put(s1, s2, PteOf(a), h) /\ s2.dir = s1.dir /\ s2.pte[a].page = h
          /\ \A c \in VPage : c # a => s2.pte[c] = s1.pte[c]
      <3>1. s1 \in Space /\ a \in VPage /\ h \in Page0 /\ b \in BOOLEAN
        BY <1>7, <2>1, <2>2, <2>4
      <3> QED BY <2>5, <3>1, PutPte
    <2>7. Entered(s, s2, a)
      BY <2>2, <2>4, <2>6 DEF Entered
    <2>8. PICK k2, m, o : k2 = [k EXCEPT !.at = "grow", !.a = m, !.held = o] /\ m = a + 1 /\ o = Null
      OBVIOUS
    <2>9. /\ k2 \in Call /\ k2.at = "grow" /\ k2.op = k.op /\ k2.a = a + 1 /\ k2.old = k.old /\ k2.new = k.new
          /\ k2.held = Null /\ k2.child = k.child
      <3>1. m \in Nat /\ o \in Page0
        BY <1>4, <2>8 DEF Page0
      <3>2. /\ k2 \in Call /\ k2.at = "grow" /\ k2.op = k.op /\ k2.a = m /\ k2.old = k.old /\ k2.new = k.new
            /\ k2.held = o /\ k2.child = k.child
        BY <1>2, <2>8, <3>1 DEF Call, Ats
      <3> QED BY <2>8, <3>2
    <2>10. PICK w2, v2 : w2 = WorkAfter(k, w, s2) /\ v2 = VmAfter(k, v, s2)
      OBVIOUS
    <2>11. CallOK(k2, w2, v2, z)
      BY <1>2, <1>3, <1>4, <2>7, <2>9, <2>10, GrowsBy
    <2>12. SetTarget(p, s2)
      BY <1>10, <2>1, <2>3, <2>5
    <2>13. NewSpaces(p, w2, v2)
      BY <1>1, <2>10, <2>12, Targets
    <2>14. SpaceStep(p, k2, w2, v2)
      BY <1>2, <1>6, <1>10, <2>8, <2>13 DEF SpaceStep
    <2>15. PICK x, y, e, n : /\ x = SpaceAt(KindOf(k), p, e) /\ y = SpaceAt(KindOf(k), p, n) /\ e = PteOf(a) /\ n = Tab(t)
      OBVIOUS
    <2>16. /\ Shifted(OwnMap, OwnMap', x, y, HeldAt(p), g) /\ x \in Place /\ y \in Place /\ HeldAt(p) \in Place
           /\ x # y /\ x # HeldAt(p) /\ y # HeldAt(p) /\ OwnMap[x] = EntryOf(s, e) /\ OwnMap[y] = EntryOf(s, n)
      <3>1. e \in Entry /\ n \in Entry /\ e # n /\ Put(s, s1, n, g) /\ Put(s1, s2, e, k.held) /\ k2.held = Null
        BY <1>7, <1>9, <2>1, <2>4, <2>6, <2>9, <2>15
      <3> QED BY <1>1, <1>3, <2>10, <2>14, <2>15, <3>1, TableShifts
    <2>17. PICK h1 : h1 = HeldAt(p)
      OBVIOUS
    <2>18. Own(Place, OwnMap, freelist, lost)' /\ freelist' \in [Page -> Nat]
      <3>1. OwnMap[x] = Null /\ OwnMap[y] = Null /\ Shifted(OwnMap, OwnMap', x, y, h1, First) /\ lost' = lost
        BY <1>6, <1>7, <1>9, <2>1, <2>15, <2>16, <2>17
      <3> QED BY <1>10, <2>16, <2>17, <3>1, ShiftAt
    <2>19. w2 \in Space /\ v2 \in Space /\ v2.dir # Null
      <3>1. v.dir # Null
        BY <1>2, <1>4, InCall, RunningHas
      <3>2. s2.dir = s.dir
        BY <2>4, <2>6
      <3>3. CASE k.op = "sbrk"
        BY <1>2, <1>3, <2>6, <2>10, <3>1, <3>2, <3>3 DEF WorkAfter, VmAfter, TargetOf
      <3>4. CASE k.op # "sbrk"
        BY <1>2, <2>6, <2>10, <3>1, <3>4 DEF WorkAfter, VmAfter
      <3> QED BY <3>3, <3>4
    <2> QED BY <1>1, <1>4, <2>9, <2>11, <2>14, <2>18, <2>19, SpaceStepIs
  <1>11. CASE OutOfMemory /\ UNCHANGED <<vm, work>> /\ k.op = "fork"
              /\ call' = [call EXCEPT ![p].at = "drop", ![p].a = PGROUNDUP(k.old)]
    <2>1. PICK b : b = PGROUNDUP(k.old)
      OBVIOUS
    <2>2. b \in Nat
      BY <1>2, <2>1, CallFields, RoundUp
    <2>3. Moved(p, [call[p] EXCEPT !.at = "drop", !.a = b])
      BY <1>2, <1>6, <1>11, <2>1 DEF Moved, OutOfMemory
    <2> QED BY <1>2, <1>4, <1>11, <2>2, <2>3, DropStarts
  <1>12. CASE OutOfMemory /\ UNCHANGED <<vm, work>> /\ k.op # "fork"
              /\ call' = [call EXCEPT ![p].at = "undo", ![p].a = PGROUNDUP(k.old)]
    <2>1. Moved(p, [call[p] EXCEPT !.at = "undo", !.a = PGROUNDUP(call[p].old)])
      BY <1>2, <1>6, <1>12 DEF Moved, OutOfMemory
    <2> QED BY <1>2, <1>4, <1>12, <2>1, UndoStarts
  <1> QED BY <1>2, <1>3, <1>5, <1>8, <1>10, <1>11, <1>12 DEF GrowTable

\* A page of the user part goes back.
Cleared(s, s2, m) ==
    /\ s2 \in Space /\ Put(s, s2, PteOf(m), Null) /\ s2.dir = s.dir
    /\ \A c \in VPage : c # m => s2.pte[c] = s.pte[c]
    /\ s2.pte[m].page = Null /\ s2.pte[m].u = FALSE

LEMMA Unmaps ==
    ASSUME NEW s \in Space, NEW m \in VPage, NEW s2, s2 = Unmapped(s, m)
    PROVE  Cleared(s, s2, m)
  <1>1. PICK g, f : g = Null /\ f = FALSE
    OBVIOUS
  <1>2. g \in Page0 /\ f \in BOOLEAN /\ s2 = Mapped(s, m, g, f)
    BY <1>1 DEF Page0, Unmapped, Mapped
  <1>3. /\ s2 \in Space /\ Put(s, s2, PteOf(m), g) /\ s2.dir = s.dir
        /\ (\A c \in VPage : c # m => s2.pte[c] = s.pte[c])
        /\ s2.pte[m].page = g /\ s2.pte[m].u = f
    BY <1>2, PutPte
  <1> QED BY <1>1, <1>3 DEF Cleared

LEMMA UnmapsPages ==
    ASSUME NEW s, NEW s2, NEW m, Cleared(s, s2, m)
    PROVE  /\ \A b \in VPage : b \in Pages(s2) <=> b \in Pages(s) /\ b # m
           /\ Clean(s) => Clean(s2)
  <1>1. \A b \in VPage : b \in Pages(s2) <=> b \in Pages(s) /\ b # m
    BY DEF Pages, Cleared
  <1>2. Clean(s) => Clean(s2)
    BY DEF Clean, Cleared
  <1> QED BY <1>1, <1>2

LEMMA DeallocInv ==
    ASSUME MemInv, NEW p \in Proc, Dealloc(p)
    PROVE  MemInv'
  <1>1. PICK k, w, v, z : Names(p, k, w, v, z)
    BY Named
  <1>2. /\ k = call[p] /\ w = work[p] /\ v = vm[p] /\ k \in Call /\ w \in Space /\ v \in Space /\ z \in Nat
        /\ CallOK(k, w, v, z) /\ call = [call EXCEPT ![p] = k]
    BY <1>1, StepIs
  <1>3. PICK s : s = TargetOf(k, w, v)
    OBVIOUS
  <1>4. k.at \in {"undo", "shrink"} /\ k.op \in {"exec", "stack", "sbrk"} /\ k.old \in Nat /\ k.a \in Nat
    BY <1>2, CallFields DEF Dealloc, CallOK, OpAt, Ops
  <1>5. s = Target(p) /\ s \in Space
    BY <1>1, <1>2, <1>3, Targets DEF TargetOf
  <1>6. PICK A, m : A = Present(s, k.a, k.new) /\ m = Min(A)
    OBVIOUS
  <1>7. A # {} /\ Kfree(s.pte[m].page) /\ SetTarget(p, Unmapped(s, m)) /\ UNCHANGED <<state, kstack, sz, call, lost>>
    BY <1>2, <1>5, <1>6 DEF Dealloc
  <1>8. m \in VPage /\ k.a <= m /\ s.pte[m].page # Null
    <2>1. A \subseteq Nat
      BY <1>6, PageNumbers DEF Present
    <2>2. m \in A
      BY <1>6, <1>7, <2>1, MinNat
    <2> QED BY <1>6, <2>2 DEF Present
  <1>9. PICK s2, g, e : s2 = Unmapped(s, m) /\ g = s.pte[m].page /\ e = PteOf(m)
    OBVIOUS
  <1>10. /\ s2 \in Space /\ Put(s, s2, PteOf(m), Null) /\ s2.dir = s.dir
         /\ (\A c \in VPage : c # m => s2.pte[c] = s.pte[c])
         /\ s2.pte[m].page = Null /\ s2.pte[m].u = FALSE
    <2>1. Cleared(s, s2, m)
      BY <1>5, <1>8, <1>9, Unmaps
    <2> QED BY <2>1 DEF Cleared
  <1>11. (\A b \in VPage : b \in Pages(s2) <=> b \in Pages(s) /\ b # m) /\ (Clean(s) => Clean(s2))
    <2>1. Cleared(s, s2, m)
      BY <1>10 DEF Cleared
    <2> QED BY <2>1, UnmapsPages
  <1>12. PICK w2, v2 : w2 = WorkAfter(k, w, s2) /\ v2 = VmAfter(k, v, s2)
    OBVIOUS
  <1>13. CallOK(k, w2, v2, z)
    <2>1. k.at \in OpAt(k.op) /\ HeldOK(k) /\ k.op # "none" /\ Clean(w) /\ Clean(v) /\ WorkOK(k, w) /\ SizeOK(k, v, z)
      BY <1>2, <1>4 DEF CallOK
    <2>2. GrowOK(k, s2)
      BY <1>2, <1>4 DEF CallOK, GrowOK
    <2>3. CASE k.op = "sbrk"
      <3>1. w2 = w /\ v2 = s2 /\ s = v
        BY <1>3, <1>12, <2>3 DEF WorkAfter, VmAfter, TargetOf
      <3>2. \A b \in Nat : b < k.a <=> b * PGSIZE < k.old
        BY <1>4, <2>1, <2>3, RoundUp DEF SizeOK
      <3>3. m \notin Below(k.old)
        BY <1>4, <1>8, <3>2, PageNumbers DEF Below
      <3>4. Below(k.old) \subseteq Pages(v2) /\ Pages(v2) \subseteq Below(k.new)
        <4>1. Below(k.old) \subseteq Pages(v) /\ Pages(v) \subseteq Below(k.new)
          BY <2>1, <2>3 DEF SizeOK
        <4>2. \A b \in Pages(v2) : b \in VPage
          BY DEF Pages
        <4>3. \A b \in Below(k.old) : b \in VPage
          BY DEF Below
        <4> QED BY <1>11, <3>1, <3>3, <4>1, <4>2, <4>3
      <3>5. SizeOK(k, v2, z)
        BY <1>4, <2>1, <2>3, <3>4 DEF SizeOK
      <3> QED BY <1>11, <2>1, <2>2, <2>3, <3>1, <3>5 DEF CallOK
    <2>4. CASE k.op # "sbrk"
      <3>1. w2 = s2 /\ v2 = v /\ s = w
        BY <1>3, <1>12, <2>4 DEF WorkAfter, VmAfter, TargetOf
      <3>2. WorkOK(k, w2)
        BY <1>4, <1>10, <2>1, <2>4, <3>1 DEF WorkOK, NoWork
      <3> QED BY <1>11, <2>1, <2>2, <2>4, <3>1, <3>2 DEF CallOK
    <2> QED BY <2>3, <2>4
  <1>14. NewSpaces(p, w2, v2)
    BY <1>1, <1>7, <1>9, <1>12, Targets
  <1>15. SpaceStep(p, k, w2, v2) /\ CallGoesOn(k, k)
    BY <1>2, <1>4, <1>7, <1>14 DEF SpaceStep, CallGoesOn
  <1>16. e \in Entry /\ g = EntryOf(s, e) /\ g # Null /\ Kfree(g) /\ Put(s, s2, e, Null) /\ k.op # "none"
    BY <1>4, <1>7, <1>8, <1>9, <1>10, Entries, EntryIs
  <1> QED BY <1>1, <1>2, <1>3, <1>10, <1>12, <1>13, <1>15, <1>16, GiveTarget

LEMMA DropInv ==
    ASSUME MemInv, NEW p \in Proc, Drop(p)
    PROVE  MemInv'
  <1>1. PICK k, w, v, z : Names(p, k, w, v, z)
    BY Named
  <1>2. /\ k = call[p] /\ w = work[p] /\ v = vm[p] /\ k \in Call /\ w \in Space /\ v \in Space /\ z \in Nat
        /\ CallOK(k, w, v, z) /\ call \in [Proc -> Call] /\ work = [work EXCEPT ![p] = w] /\ vm = [vm EXCEPT ![p] = v]
    BY <1>1, StepIs
  <1>3. k.at = "drop" /\ k.op \in {"fork", "exec", "stack", "sbrk"} /\ k.held # Null
    BY <1>2, CallFields DEF Drop, CallOK, OpAt, Ops, HeldOK
  <1>4. PICK k2, s, o : k2 = [k EXCEPT !.held = o, !.at = s] /\ o = Null /\ s = IF k.op = "sbrk" THEN "failed" ELSE "freevm"
    OBVIOUS
  <1>5. o \in Page0 /\ s \in Ats
    BY <1>4 DEF Page0, Ats
  <1>6. /\ k2 \in Call /\ k2.at = s /\ k2.op = k.op /\ k2.a = k.a /\ k2.old = k.old /\ k2.new = k.new
        /\ k2.held = o /\ k2.child = k.child
    BY <1>2, <1>4, <1>5 DEF Call
  <1>7. CallOK(k2, w, v, z)
    <2>1. k2.at \in OpAt(k2.op) /\ HeldOK(k2) /\ k2.op # "none"
      BY <1>3, <1>4, <1>6 DEF OpAt, HeldOK
    <2>2. WorkOK(k2, w)
      BY <1>2, <1>3, <1>4, <1>6 DEF CallOK, WorkOK, NoWork
    <2>3. GrowOK(k2, IF k.op = "sbrk" THEN v ELSE w)
      BY <1>2, <1>3, <1>4, <1>6 DEF CallOK, GrowOK
    <2>4. SizeOK(k2, v, z)
      BY <1>2, <1>3, <1>4, <1>6 DEF CallOK, SizeOK
    <2> QED BY <1>2, <1>6, <2>1, <2>2, <2>3, <2>4 DEF CallOK
  <1>8. SpaceStep(p, k2, w, v) /\ Kfree(k.held)
    BY <1>2, <1>4 DEF SpaceStep, NewSpaces, Drop
  <1>9. k2.at # "kstack" /\ k.op # "none" /\ k2.held = Null
    BY <1>3, <1>4, <1>6
  <1> QED BY <1>1, <1>3, <1>6, <1>7, <1>8, <1>9, GiveHeld

\* An address space that is being freed loses the entry e.
LEMMA FreeStep ==
    ASSUME MemInv, NEW p \in Proc, NEW k, NEW w, NEW v, NEW z, Names(p, k, w, v, z), k.at \in {"freevm", "tables"},
           NEW w2 \in Space, SpaceStep(p, k, w2, v), w2.dir = w.dir, Clean(w2),
           \A b \in VPage : w.pte[b].page = Null => w2.pte[b].page = Null,
           NEW e \in Entry, NEW g, g = EntryOf(w, e), g # Null, Kfree(g), Put(w, w2, e, Null)
    PROVE  MemInv'
  <1>1. k = call[p] /\ k \in Call /\ CallOK(k, w, v, z)
    BY StepIs
  <1>2. k.op \in {"fork", "exec", "stack", "execed", "wait"}
    BY <1>1, CallFields DEF CallOK, OpAt, Ops
  <1>3. CallOK(k, w2, v, z)
    <2>1. WorkOK(k, w2)
      BY <1>1, <1>2 DEF CallOK, WorkOK, NoWork
    <2>2. GrowOK(k, w2)
      BY <1>1, <1>2 DEF CallOK, GrowOK
    <2> QED BY <1>1, <1>2, <2>1, <2>2 DEF CallOK
  <1>4. CallGoesOn(k, k) /\ k.op # "none"
    BY <1>2 DEF CallGoesOn
  <1> QED BY <1>1, <1>3, <1>4, GiveWork

LEMMA FreeUserInv ==
    ASSUME MemInv, NEW p \in Proc, FreeUser(p)
    PROVE  MemInv'
  <1>1. PICK k, w, v, z : Names(p, k, w, v, z)
    BY Named
  <1>2. /\ k = call[p] /\ w = work[p] /\ v = vm[p] /\ k \in Call /\ w \in Space /\ CallOK(k, w, v, z)
        /\ call \in [Proc -> Call] /\ call = [call EXCEPT ![p] = k] /\ vm = [vm EXCEPT ![p] = v] /\ work \in [Proc -> Space]
    BY <1>1, StepIs
  <1>3. PICK A, m : A = Present(w, 0, KERNBASE) /\ m = Min(A)
    OBVIOUS
  <1>4. k.at = "freevm" /\ UNCHANGED <<state, kstack, sz, vm, lost>>
    BY <1>2 DEF FreeUser
  <1>5. CASE A # {} /\ Kfree(w.pte[m].page) /\ work' = [work EXCEPT ![p] = Unmapped(@, m)] /\ UNCHANGED call
    <2>1. m \in VPage /\ w.pte[m].page # Null
      <3>1. A \subseteq Nat
        BY <1>3, PageNumbers DEF Present
      <3>2. m \in A
        BY <1>3, <1>5, <3>1, MinNat
      <3> QED BY <1>3, <3>2 DEF Present
    <2>2. PICK w2, g, e : w2 = Unmapped(w, m) /\ g = w.pte[m].page /\ e = PteOf(m)
      OBVIOUS
    <2>3. /\ w2 \in Space /\ Put(w, w2, PteOf(m), Null) /\ w2.dir = w.dir
          /\ (\A c \in VPage : c # m => w2.pte[c] = w.pte[c])
          /\ w2.pte[m].page = Null /\ w2.pte[m].u = FALSE
      <3>1. Cleared(w, w2, m)
        BY <1>2, <2>1, <2>2, Unmaps
      <3> QED BY <3>1 DEF Cleared
    <2>4. Clean(w2)
      <3>1. Cleared(w, w2, m) /\ Clean(w)
        BY <1>2, <2>3 DEF Cleared, CallOK
      <3> QED BY <3>1, UnmapsPages
    <2>5. \A b \in VPage : w.pte[b].page = Null => w2.pte[b].page = Null
      BY <2>3
    <2>6. SpaceStep(p, k, w2, v)
      BY <1>2, <1>4, <1>5, <2>2 DEF SpaceStep, NewSpaces
    <2>7. e \in Entry /\ g = EntryOf(w, e) /\ g # Null /\ Kfree(g) /\ Put(w, w2, e, Null)
      BY <1>5, <2>1, <2>2, <2>3, Entries, EntryIs
    <2> QED BY <1>1, <1>4, <2>3, <2>4, <2>5, <2>6, <2>7, FreeStep
  <1>6. CASE A = {} /\ call' = [call EXCEPT ![p].at = "tables"] /\ UNCHANGED <<freelist, mem, work>>
    <2>1. Moved(p, [call[p] EXCEPT !.at = "tables"])
      BY <1>2, <1>4, <1>6 DEF Moved
    <2> QED BY <1>2, <1>3, <1>4, <1>6, <2>1, TablesStart
  <1> QED BY <1>2, <1>3, <1>5, <1>6 DEF FreeUser

LEMMA FreeTableInv ==
    ASSUME MemInv, NEW p \in Proc, FreeTable(p)
    PROVE  MemInv'
  <1>1. PICK k, w, v, z : Names(p, k, w, v, z)
    BY Named
  <1>2. /\ k = call[p] /\ w = work[p] /\ v = vm[p] /\ k \in Call /\ w \in Space /\ CallOK(k, w, v, z)
        /\ call = [call EXCEPT ![p] = k] /\ vm = [vm EXCEPT ![p] = v] /\ work \in [Proc -> Space]
    BY <1>1, StepIs
  <1>3. PICK T, m : T = {t \in Table : w.tab[t] # Null} /\ m = Min(T)
    OBVIOUS
  <1>4. k.at = "tables" /\ UNCHANGED <<state, kstack, sz, vm, call, lost>> /\ Null \in Page0 /\ Clean(w)
    BY <1>2 DEF FreeTable, Page0, CallOK
  <1>5. CASE T # {} /\ Kfree(w.tab[m]) /\ work' = [work EXCEPT ![p].tab[m] = Null]
    <2>1. m \in Table /\ w.tab[m] # Null
      <3>1. T \subseteq Nat
        BY <1>3 DEF Table
      <3>2. m \in T
        BY <1>3, <1>5, <3>1, MinNat
      <3> QED BY <1>3, <3>2
    <2>2. PICK w2, g, e, o : w2 = [w EXCEPT !.tab[m] = o] /\ g = w.tab[m] /\ e = Tab(m) /\ o = Null
      OBVIOUS
    <2>3. w2 \in Space /\ Put(w, w2, Tab(m), o) /\ w2.dir = w.dir /\ w2.pte = w.pte
      BY <1>2, <1>4, <2>1, <2>2, PutTab
    <2>4. Clean(w2) /\ \A b \in VPage : w.pte[b].page = Null => w2.pte[b].page = Null
      BY <1>4, <2>3 DEF Clean
    <2>5. SpaceStep(p, k, w2, v)
      BY <1>2, <1>4, <1>5, <2>2 DEF SpaceStep, NewSpaces
    <2>6. e \in Entry /\ g = EntryOf(w, e) /\ g # Null /\ Kfree(g) /\ Put(w, w2, e, Null)
      BY <1>5, <2>1, <2>2, <2>3, Entries, EntryIs
    <2> QED BY <1>1, <1>4, <2>3, <2>4, <2>5, <2>6, FreeStep
  <1>6. CASE w.kern # Null /\ Kfree(w.kern) /\ work' = [work EXCEPT ![p].kern = Null]
    <2>2. PICK w2, g, e, o : w2 = [w EXCEPT !.kern = o] /\ g = w.kern /\ e = Kern /\ o = Null
      OBVIOUS
    <2>3. w2 \in Space /\ Put(w, w2, Kern, o) /\ w2.dir = w.dir /\ w2.pte = w.pte
      BY <1>2, <1>4, <2>2, PutKern
    <2>4. Clean(w2) /\ \A b \in VPage : w.pte[b].page = Null => w2.pte[b].page = Null
      BY <1>4, <2>3 DEF Clean
    <2>5. SpaceStep(p, k, w2, v)
      BY <1>2, <1>4, <1>6, <2>2 DEF SpaceStep, NewSpaces
    <2>6. e \in Entry /\ g = EntryOf(w, e) /\ g # Null /\ Kfree(g) /\ Put(w, w2, e, Null)
      BY <1>6, <2>2, <2>3, Entries, EntryIs
    <2> QED BY <1>1, <1>4, <2>3, <2>4, <2>5, <2>6, FreeStep
  <1> QED BY <1>2, <1>3, <1>5, <1>6 DEF FreeTable

LEMMA FreeDirInv ==
    ASSUME MemInv, NEW p \in Proc, FreeDir(p)
    PROVE  MemInv'
  <1>1. PICK k, w, v, z : Names(p, k, w, v, z)
    BY Named
  <1>2. /\ k = call[p] /\ w = work[p] /\ v = vm[p] /\ k \in Call /\ w \in Space /\ CallOK(k, w, v, z)
        /\ call \in [Proc -> Call] /\ vm = [vm EXCEPT ![p] = v] /\ work \in [Proc -> Space]
    BY <1>1, StepIs
  <1>3. k.at = "tables" /\ k.op \in {"fork", "exec", "stack", "execed", "wait"}
    BY <1>2, CallFields DEF FreeDir, CallOK, OpAt, Ops
  <1>4. PICK k2, s : k2 = [k EXCEPT !.at = s] /\ s = IF k.op \in {"execed", "wait"} THEN "done" ELSE "failed"
    OBVIOUS
  <1>5. s \in Ats
    BY <1>4 DEF Ats
  <1>6. MovesTo(k, k2, s, k.a)
    BY <1>2, <1>4, <1>5, MoveAt
  <1>7. PICK w2, g, o, e : w2 = [w EXCEPT !.dir = o] /\ g = w.dir /\ o = Null /\ e = Dir
    OBVIOUS
  <1>8. w2 \in Space /\ Put(w, w2, Dir, o) /\ w2.dir = o /\ w2.kern = w.kern /\ w2.tab = w.tab /\ w2.pte = w.pte
    <2>1. o \in Page0
      BY <1>7 DEF Page0
    <2> QED BY <1>2, <1>7, <2>1, PutDir
  <1>9. w2 = NoSpace
    <2>1. w.kern = Null /\ \A t \in Table : w.tab[t] = Null
      BY <1>2 DEF FreeDir
    <2>2. \A b \in VPage : w.pte[b].page = Null /\ w.pte[b].u = FALSE
      BY <1>2, <1>3 DEF CallOK, WorkOK, Clean
    <2>3. w2.tab = [t \in Table |-> Null]
      BY <1>8, <2>1 DEF Space
    <2>4. w2.pte = [b \in VPage |-> [page |-> Null, u |-> FALSE]]
      <3>1. \A b \in VPage : w2.pte[b] = [page |-> Null, u |-> FALSE]
        BY <1>8, <2>2 DEF Space, Pte
      <3>2. w2.pte \in [VPage -> Pte]
        BY <1>8 DEF Space
      <3> QED BY <3>1, <3>2
    <2> QED BY <1>7, <1>8, <2>1, <2>3, <2>4 DEF NoSpace, Space
  <1>10. CallOK(k2, w2, v, z)
    <2>1. k2.at \in OpAt(k2.op) /\ k2.op # "none" /\ k2.op = k.op /\ k2.at = s
      BY <1>3, <1>4, <1>6 DEF OpAt, MovesTo
    <2>2. HeldOK(k2)
      BY <1>2, <1>3, <1>4, <1>6 DEF CallOK, HeldOK, MovesTo
    <2>3. WorkOK(k2, w2)
      BY <1>4, <1>9, <2>1 DEF WorkOK, NoWork
    <2>4. GrowOK(k2, w2)
      BY <1>2, <1>3, <1>4, <1>6 DEF CallOK, GrowOK, MovesTo
    <2>5. SizeOK(k2, v, z)
      BY <1>2, <1>3, <1>4, <1>6 DEF CallOK, SizeOK, MovesTo
    <2> QED BY <1>2, <1>3, <1>9, <2>1, <2>2, <2>3, <2>4, <2>5, NoSpaceIs DEF CallOK
  <1>11. SpaceStep(p, k2, w2, v)
    BY <1>2, <1>4, <1>7 DEF SpaceStep, NewSpaces, FreeDir
  <1>12. k2 \in Call /\ CallGoesOn(k, k2) /\ k.op # "none"
    BY <1>3, <1>4, <1>6 DEF MovesTo, CallGoesOn
  <1>13. e \in Entry /\ g = EntryOf(w, e) /\ g # Null /\ Kfree(g) /\ Put(w, w2, e, Null)
    BY <1>2, <1>3, <1>7, <1>8, Entries, EntryIs DEF FreeDir, CallOK, WorkOK, NoWork
  <1> QED BY <1>1, <1>8, <1>10, <1>11, <1>12, <1>13, GiveWork

\* The process a gets the address space that b built, and b the one of a.
Swapped(own, own1, a, b) ==
    /\ \A q \in Proc : own1[StackAt(q)] = own[StackAt(q)] /\ own1[HeldAt(q)] = own[HeldAt(q)]
    /\ \A q \in Proc, e \in Entry :
          own1[SpaceAt("vm", q, e)] = IF q = a THEN own[SpaceAt("work", b, e)] ELSE own[SpaceAt("vm", q, e)]
    /\ \A q \in Proc, e \in Entry :
          own1[SpaceAt("work", q, e)] = IF q = b THEN own[SpaceAt("vm", a, e)] ELSE own[SpaceAt("work", q, e)]

LEMMA OwnSwapped ==
    ASSUME NEW a \in Proc, NEW b \in Proc, NEW own, NEW own1, NEW fl, NEW lo, Own(Place, own, fl, lo),
           Swapped(own, own1, a, b)
    PROVE  Own(Place, own1, fl, lo)
  <1>1. PICK pi : pi = [d \in Place |-> IF d[1] = "vm" /\ d[2] = a THEN SpaceAt("work", b, d[3])
                                        ELSE IF d[1] = "work" /\ d[2] = b THEN SpaceAt("vm", a, d[3]) ELSE d]
    OBVIOUS
  <1>2. \A q \in Proc : pi[StackAt(q)] = StackAt(q) /\ pi[HeldAt(q)] = HeldAt(q)
    <2>1. \A q \in Proc : StackAt(q)[1] = "kstack" /\ HeldAt(q)[1] = "held"
      BY DEF StackAt, HeldAt
    <2> QED BY <1>1, <2>1, Places
  <1>3. ASSUME NEW q \in Proc, NEW e \in Entry
        PROVE  /\ pi[SpaceAt("vm", q, e)] = IF q = a THEN SpaceAt("work", b, e) ELSE SpaceAt("vm", q, e)
               /\ pi[SpaceAt("work", q, e)] = IF q = b THEN SpaceAt("vm", a, e) ELSE SpaceAt("work", q, e)
    <2>1. \A j \in {"vm", "work"} : SpaceAt(j, q, e)[1] = j /\ SpaceAt(j, q, e)[2] = q /\ SpaceAt(j, q, e)[3] = e
      BY DEF SpaceAt
    <2>2. SpaceAt("vm", q, e) \in Place /\ SpaceAt("work", q, e) \in Place
      BY Places
    <2> QED BY <1>1, <2>1, <2>2
  <1> HIDE DEF SpaceAt
  <1>4. ASSUME NEW d \in Place PROVE pi[d] \in Place /\ pi[pi[d]] = d /\ own1[d] = own[pi[d]]
    <2>1. CASE \E q \in Proc : d = StackAt(q) \/ d = HeldAt(q)
      BY <1>2, <2>1, Places DEF Swapped
    <2>2. CASE \E q \in Proc, e \in Entry : d = SpaceAt("vm", q, e)
      <3>1. PICK q \in Proc, e \in Entry : d = SpaceAt("vm", q, e)
        BY <2>2
      <3>2. own1[d] = IF q = a THEN own[SpaceAt("work", b, e)] ELSE own[d]
        BY <3>1 DEF Swapped
      <3>3. CASE q = a
        <4>1. pi[d] = SpaceAt("work", b, e) /\ pi[pi[d]] = SpaceAt("vm", a, e)
          BY <1>3, <3>1, <3>3
        <4> QED BY <3>1, <3>2, <3>3, <4>1, Places
      <3>4. CASE q # a
        <4>1. pi[d] = d
          BY <1>3, <3>1, <3>4
        <4> QED BY <3>2, <3>4, <4>1
      <3> QED BY <3>3, <3>4
    <2>3. CASE \E q \in Proc, e \in Entry : d = SpaceAt("work", q, e)
      <3>1. PICK q \in Proc, e \in Entry : d = SpaceAt("work", q, e)
        BY <2>3
      <3>2. own1[d] = IF q = b THEN own[SpaceAt("vm", a, e)] ELSE own[d]
        BY <3>1 DEF Swapped
      <3>3. CASE q = b
        <4>1. pi[d] = SpaceAt("vm", a, e) /\ pi[pi[d]] = SpaceAt("work", b, e)
          BY <1>3, <3>1, <3>3
        <4> QED BY <3>1, <3>2, <3>3, <4>1, Places
      <3>4. CASE q # b
        <4>1. pi[d] = d
          BY <1>3, <3>1, <3>4
        <4> QED BY <3>2, <3>4, <4>1
      <3> QED BY <3>3, <3>4
    <2> QED BY <2>1, <2>2, <2>3, Places
  <1> QED BY <1>4, OwnSwap

\* All that a step of p changes, but the lists of pages and their contents.
StepTo(p, k, w, v, z) ==
    /\ call' = [call EXCEPT ![p] = k] /\ work' = [work EXCEPT ![p] = w] /\ vm' = [vm EXCEPT ![p] = v]
    /\ sz' = [sz EXCEPT ![p] = z] /\ UNCHANGED <<state, kstack, lost>>

LEMMA CallStepTo ==
    ASSUME MemInv, NEW p \in Proc, NEW k \in Call, NEW w \in Space, NEW v \in Space, NEW z \in Nat,
           StepTo(p, k, w, v, z), freelist' \in [Page -> Nat], CallOK(k, w, v, z), Own(Place, OwnMap, freelist, lost)',
           state[p] = "RUNNING", v.dir # Null, k.op \notin {"fork", "wait"}, call[p].op # "wait"
    PROVE  MemInv'
  <1>1. /\ call' = [call EXCEPT ![p] = k] /\ work' = [work EXCEPT ![p] = w] /\ vm' = [vm EXCEPT ![p] = v]
        /\ sz' = [sz EXCEPT ![p] = z] /\ state' = state /\ kstack' = kstack /\ lost' = lost
    BY DEF StepTo
  <1> QED BY <1>1, CallStep

\* clearpteu() changes nothing of an address space but the user bit of one page.
OnlyUser(w, s) ==
    /\ s \in Space /\ s.dir = w.dir /\ s.kern = w.kern /\ s.tab = w.tab
    /\ \A c \in VPage : s.pte[c].page = w.pte[c].page
    /\ \A c \in VPage : s.pte[c] = w.pte[c] \/ s.pte[c].u = FALSE

LEMMA ClearPte ==
    ASSUME NEW w \in Space, NEW b, NEW s, s = clearpteu(w, b)
    PROVE  OnlyUser(w, s)
  <1>1. s.dir = w.dir /\ s.kern = w.kern /\ s.tab = w.tab
    BY DEF Space, clearpteu
  <1>2. s.pte \in [VPage -> Pte]
    BY DEF Space, Pte, clearpteu
  <1>3. s \in Space
    BY <1>1, <1>2 DEF Space, clearpteu
  <1>4. ASSUME NEW c \in VPage, c # b PROVE s.pte[c] = w.pte[c]
    BY <1>4 DEF Space, clearpteu
  <1>5. ASSUME NEW c \in VPage, c = b PROVE s.pte[c].page = w.pte[c].page /\ s.pte[c].u = FALSE
    BY <1>5 DEF Space, Pte, clearpteu
  <1>6. \A c \in VPage : s.pte[c].page = w.pte[c].page
    BY <1>4, <1>5
  <1>7. \A c \in VPage : s.pte[c] = w.pte[c] \/ s.pte[c].u = FALSE
    BY <1>4, <1>5
  <1> QED BY <1>1, <1>3, <1>6, <1>7 DEF OnlyUser

\* exec() commits to the new image.
LEMMA ExecCommitSucceeds ==
    ASSUME MemInv, NEW p \in Proc, NEW k, NEW w, NEW v, NEW z, Names(p, k, w, v, z),
           k.op = "stack", k.at = "grow", k.a * PGSIZE >= k.new, NEW b, NEW s, s = clearpteu(w, b),
           work' = [work EXCEPT ![p] = v], vm' = [vm EXCEPT ![p] = s], sz' = [sz EXCEPT ![p] = k.new],
           call' = [call EXCEPT ![p].op = "execed", ![p].at = "freevm"], UNCHANGED <<freelist, state, kstack, lost>>
    PROVE  MemInv'
  <1>1. /\ k = call[p] /\ w = work[p] /\ v = vm[p] /\ k \in Call /\ w \in Space /\ v \in Space /\ CallOK(k, w, v, z)
        /\ call \in [Proc -> Call]
    BY StepIs
  <1>2. /\ s \in Space /\ s.dir = w.dir /\ s.kern = w.kern /\ s.tab = w.tab
        /\ \A c \in VPage : s.pte[c].page = w.pte[c].page
        /\ \A c \in VPage : s.pte[c] = w.pte[c] \/ s.pte[c].u = FALSE
    <2>1. OnlyUser(w, s)
      BY <1>1, ClearPte
    <2> QED BY <2>1 DEF OnlyUser
  <1>3. Clean(s) /\ Pages(s) = Pages(w) /\ Clean(v)
    <2>1. Clean(w) /\ Clean(v)
      BY <1>1 DEF CallOK
    <2>2. Clean(s)
      BY <1>2, <2>1 DEF Clean
    <2> QED BY <1>2, <2>1, <2>2 DEF Pages
  <1>4. \A e \in Entry : EntryOf(s, e) = EntryOf(w, e)
    <2>1. PutFields(w, s, Dir, w.dir)
      BY <1>2, Entries DEF PutFields
    <2>2. Put(w, s, Dir, w.dir)
      BY <2>1, Entries, PutFrom
    <2> QED BY <2>2, EntryIs DEF Put
  <1>5. PICK k2 : k2 = [k EXCEPT !.op = "execed", !.at = "freevm"]
    OBVIOUS
  <1>6. /\ k2 \in Call /\ k2.at = "freevm" /\ k2.op = "execed" /\ k2.a = k.a /\ k2.old = k.old /\ k2.new = k.new
        /\ k2.held = k.held /\ k2.child = k.child
    BY <1>1, <1>5 DEF Call, Ops, Ats
  <1>7. v.dir # Null /\ w.dir # Null /\ state[p] = "RUNNING"
    BY <1>1, InCall, RunningHas DEF CallOK, WorkOK, NoWork
  <1>8. k.new \in Nat /\ k.a \in Nat /\ k.new <= KERNBASE /\ k.old <= k.new /\ Pages(w) = {c \in VPage : c < k.a}
        /\ \A c \in 0..(k.a - 1) : c * PGSIZE < k.new
    BY <1>1, CallFields DEF CallOK, GrowOK
  <1>9. Pages(s) = Below(k.new)
    BY <1>3, <1>8, BelowIs
  <1>10. CallOK(k2, v, s, k.new)
    <2>1. k2.at \in OpAt(k2.op) /\ HeldOK(k2)
      BY <1>1, <1>6 DEF OpAt, HeldOK, CallOK
    <2>2. WorkOK(k2, v) /\ GrowOK(k2, v) /\ SizeOK(k2, s, k.new)
      BY <1>6, <1>7, <1>8, <1>9 DEF WorkOK, NoWork, GrowOK, SizeOK
    <2> QED BY <1>3, <1>6, <2>1, <2>2 DEF CallOK
  <1>11. call' = [call EXCEPT ![p] = k2]
    BY <1>1, <1>5
  <1>12. MapBecomes(p, k2, v, s)
    BY <1>11, MapAfter DEF NewSpaces
  <1>13. Swapped(OwnMap, OwnMap', p, p)
    <2>1. \A e \in Entry : OwnMap[SpaceAt("vm", p, e)] = EntryOf(v, e) /\ OwnMap[SpaceAt("work", p, e)] = EntryOf(w, e)
      BY <1>1, MapIs DEF SpaceOf
    <2>2. OwnMap[HeldAt(p)] = k2.held
      BY <1>1, <1>6, MapIs
    <2> QED BY <1>4, <1>12, <2>1, <2>2 DEF Swapped, MapBecomes
  <1>14. Own(Place, OwnMap, freelist, lost)'
    <2>1. PICK own, own2 : own = OwnMap /\ own2 = OwnMap'
      OBVIOUS
    <2>2. Own(Place, own2, freelist, lost)
      BY <1>13, <2>1, OwnSwapped DEF MemInv
    <2> QED BY <2>1, <2>2, OwnNext
  <1>15. freelist' \in [Page -> Nat] /\ state' = state /\ kstack' = kstack /\ lost' = lost /\ s.dir # Null
    BY <1>2, <1>7 DEF MemInv, MemTypes
  <1>16. PICK n : n = k.new
    OBVIOUS
  <1>17. n \in Nat /\ sz' = [sz EXCEPT ![p] = n] /\ CallOK(k2, v, s, n) /\ call[p].op # "wait" /\ k2.op \notin {"fork", "wait"}
    BY <1>1, <1>6, <1>8, <1>10, <1>16
  <1>18. StepTo(p, k2, v, s, n)
    BY <1>11, <1>15, <1>17 DEF StepTo
  <1> QED BY <1>1, <1>2, <1>6, <1>7, <1>14, <1>15, <1>17, <1>18, CallStepTo

LEMMA ExecCommitInv ==
    ASSUME MemInv, NEW p \in Proc, ExecCommit(p)
    PROVE  MemInv'
  <1>1. PICK k, w, v, z : Names(p, k, w, v, z)
    BY Named
  <1>2. k = call[p] /\ w = work[p] /\ v = vm[p] /\ k \in Call /\ call \in [Proc -> Call] /\ k.a \in Nat
    BY <1>1, StepIs, CallFields
  <1>3. k.op = "stack" /\ k.at = "grow" /\ k.a * PGSIZE >= k.new /\ UNCHANGED <<freelist, state, kstack, lost>>
    BY <1>2 DEF ExecCommit
  <1>4. PICK b, s : b = k.new \div PGSIZE - 2 /\ s = clearpteu(w, b)
    OBVIOUS
  <1>5. CASE /\ work' = [work EXCEPT ![p] = v] /\ vm' = [vm EXCEPT ![p] = s] /\ sz' = [sz EXCEPT ![p] = k.new]
             /\ call' = [call EXCEPT ![p].op = "execed", ![p].at = "freevm"]
    BY <1>1, <1>3, <1>4, <1>5, ExecCommitSucceeds
  <1>6. CASE call' = [call EXCEPT ![p].at = "freevm"] /\ UNCHANGED <<work, vm, sz, mem>>
    <2>1. call' = [call EXCEPT ![p] = [call[p] EXCEPT !.at = "freevm", !.a = k.a]]
      BY <1>2, <1>6 DEF Call
    <2> QED BY <1>2, <1>3, <1>6, <2>1, FreevmStarts DEF Moved
  <1> QED BY <1>2, <1>4, <1>5, <1>6 DEF ExecCommit

-----------------------------------------------------------------------------
(* Steps of p that change the slot of another process c.                   *)

ChildTo(p, c, k, w, v, z, st, g) ==
    /\ call' = [call EXCEPT ![p] = k] /\ work' = [work EXCEPT ![p] = w]
    /\ vm' = [vm EXCEPT ![c] = v] /\ sz' = [sz EXCEPT ![c] = z]
    /\ state' = [state EXCEPT ![c] = st] /\ kstack' = [kstack EXCEPT ![c] = g]

\* What the slot c must be, given the call k of p.
ChildIs(c, k, v, st, g) ==
    /\ st \in {"UNUSED", "EMBRYO"} => v = NoSpace
    /\ st = "UNUSED" => g = Null
    /\ st \in {"RUNNING", "ZOMBIE"} /\ k.op # "wait" => g # Null /\ v.dir # Null
    /\ k.op \in {"fork", "wait"} => k.child = c
    /\ k.op = "fork" => st = "EMBRYO" /\ (g = Null <=> k.at = "kstack")
    /\ k.op = "wait" => st = "ZOMBIE" /\ g = Null /\ v = NoSpace

\* The slot c is in no call but perhaps in that of p.
Alone(p, c) ==
    /\ c # p /\ call[c].op = "none"
    /\ call[p].op \in {"fork", "wait"} => call[p].child = c
    /\ \A q \in Proc : q # p /\ call[q].op \in {"fork", "wait"} => call[q].child # c

LEMMA ChildStep ==
    ASSUME MemInv, NEW p \in Proc, NEW c \in Proc, state[p] = "RUNNING", Alone(p, c),
           NEW k \in Call, NEW w \in Space, NEW v \in Space, NEW z \in Nat,
           NEW st \in {"UNUSED", "EMBRYO", "RUNNING", "ZOMBIE"}, NEW g \in Page0,
           ChildTo(p, c, k, w, v, z, st, g), ChildIs(c, k, v, st, g), lost' \subseteq Page,
           freelist' \in [Page -> Nat], Own(Place, OwnMap, freelist, lost)',
           CallOK(k, w, vm[p], sz[p]), CallOK(call[c], work[c], v, z),
           k.op = "wait" => \A q \in Proc : q = p \/ call[q].op # "wait"
    PROVE  MemInv'
  <1>1. /\ \A q \in Proc : call'[q] = IF q = p THEN k ELSE call[q]
        /\ \A q \in Proc : work'[q] = IF q = p THEN w ELSE work[q]
        /\ \A q \in Proc : vm'[q] = IF q = c THEN v ELSE vm[q]
        /\ \A q \in Proc : sz'[q] = IF q = c THEN z ELSE sz[q]
        /\ \A q \in Proc : state'[q] = IF q = c THEN st ELSE state[q]
        /\ \A q \in Proc : kstack'[q] = IF q = c THEN g ELSE kstack[q]
    BY DEF MemInv, MemTypes, ChildTo
  <1>2. MemTypes'
    BY DEF MemInv, MemTypes, ChildTo
  <1>3. Apart'
    <2>1. Apart
      BY DEF MemInv
    <2>2. \A q \in Proc : q # p /\ k.op = "fork" /\ call[q].op = "fork" => call[q].child # k.child
      BY DEF Alone, ChildIs
    <2>3. \A q \in Proc : q # p /\ k.op = "wait" => call[q].op # "wait"
      OBVIOUS
    <2> QED BY <1>1, <2>1, <2>2, <2>3 DEF Apart
  <1>4. ASSUME NEW q \in Proc PROVE CallOK(call'[q], work'[q], vm'[q], sz'[q])
    <2>1. CASE q = p
      BY <1>1, <2>1 DEF Alone
    <2>2. CASE q = c
      BY <1>1, <2>2 DEF Alone
    <2>3. CASE q # p /\ q # c
      BY <1>1, <2>3 DEF MemInv
    <2> QED BY <2>1, <2>2, <2>3
  <1>5. \A q \in Proc : q # c /\ Waited(q) => Waited(q)'
    BY <1>1 DEF Waited, Alone
  <1>6. k.op = "wait" => Waited(c)'
    BY <1>1 DEF Waited, ChildIs
  <1>7. ASSUME NEW q \in Proc PROVE SlotOK(q)'
    <2>1. CASE q = p
      <3>1. kstack[p] # Null /\ vm[p].dir # Null
        BY RunningHas
      <3> QED BY <1>1, <2>1, <3>1 DEF SlotOK, Alone
    <2>2. CASE q = c
      BY <1>1, <1>6, <2>2 DEF SlotOK, Alone, ChildIs
    <2>3. CASE q # p /\ q # c
      <3>1. SlotOK(q) /\ (Waited(q) => Waited(q)')
        BY <1>5, <2>3 DEF MemInv
      <3>2. call'[q] = call[q] /\ vm'[q] = vm[q] /\ state'[q] = state[q] /\ kstack'[q] = kstack[q]
        BY <1>1, <2>3
      <3> QED BY <3>1, <3>2 DEF SlotOK
    <2> QED BY <2>1, <2>2, <2>3
  <1>8. ASSUME NEW q \in Proc PROVE ChildOK(q)'
    <2>1. ChildOK(q) /\ call[q].child \in Proc /\ k.child \in Proc
      BY CallFields DEF MemInv, MemTypes
    <2>2. CASE q = p
      BY <1>1, <2>1, <2>2 DEF ChildOK, ChildIs
    <2>3. CASE q # p
      <3>1. call'[q] = call[q]
        BY <1>1, <2>3
      <3>2. PICK d : d = call[q].child
        OBVIOUS
      <3>3. call[q].op \in {"fork", "wait"} => d # c
        BY <2>3, <3>2 DEF Alone
      <3>4. d # c => state'[d] = state[d] /\ kstack'[d] = kstack[d] /\ vm'[d] = vm[d]
        BY <1>1, <2>1, <3>2
      <3> QED BY <2>1, <3>1, <3>2, <3>3, <3>4 DEF ChildOK
    <2> QED BY <2>2, <2>3
  <1> QED BY <1>2, <1>3, <1>4, <1>7, <1>8 DEF MemInv

\* The slot that a fork() or a wait() is about.
LEMMA ForkedAlone ==
    ASSUME MemInv, NEW p \in Proc, call[p].op \in {"fork", "wait"}, NEW c, c = call[p].child
    PROVE  Alone(p, c) /\ c \in Proc /\ state[p] = "RUNNING" /\ call[c] = Idle /\ work[c] = NoSpace
  <1>1. c \in Proc /\ state[p] = "RUNNING" /\ state[c] \in {"EMBRYO", "ZOMBIE"}
    BY InCall, CallFields DEF MemInv, MemTypes, ChildOK
  <1>2. c # p /\ call[c].op = "none"
    BY <1>1, InCall
  <1>3. ASSUME NEW q \in Proc, q # p, call[q].op \in {"fork", "wait"} PROVE call[q].child # c
    <2>1. ChildOK(p) /\ ChildOK(q) /\ Apart
      BY DEF MemInv
    <2> QED BY <1>3, <2>1 DEF ChildOK, Apart
  <1>4. CallOK(call[c], work[c], vm[c], sz[c])
    BY <1>1 DEF MemInv
  <1>5. call[c] = Idle /\ work[c] = NoSpace
    BY <1>2, <1>4 DEF CallOK, WorkOK, NoWork
  <1> QED BY <1>1, <1>2, <1>3, <1>5 DEF Alone

\* A slot that nobody is about to fill or to free.
LEMMA OthersAlone ==
    ASSUME MemInv, NEW p \in Proc, NEW c \in Proc, Running(p), PtableFree, state[c] \in {"UNUSED", "ZOMBIE"}
    PROVE  Alone(p, c) /\ state[p] = "RUNNING" /\ call[c] = Idle /\ work[c] = NoSpace
  <1>1. state[p] = "RUNNING" /\ call[p].op = "none" /\ c # p
    BY DEF Running
  <1>2. call[c].op = "none"
    BY InCall
  <1>3. ASSUME NEW q \in Proc, q # p, call[q].op \in {"fork", "wait"} PROVE call[q].child # c
    <2>1. ChildOK(q) /\ call[q].op = "fork"
      BY <1>3 DEF MemInv, PtableFree
    <2> QED BY <2>1 DEF ChildOK
  <1>4. CallOK(call[c], work[c], vm[c], sz[c])
    BY DEF MemInv
  <1>5. call[c] = Idle /\ work[c] = NoSpace
    BY <1>2, <1>4 DEF CallOK, WorkOK, NoWork
  <1> QED BY <1>1, <1>2, <1>3, <1>5 DEF Alone

\* Types of a slot.
LEMMA SlotTypes ==
    ASSUME MemInv, NEW c \in Proc
    PROVE  /\ vm[c] \in Space /\ sz[c] \in Nat /\ kstack[c] \in Page0 /\ work[c] \in Space
           /\ state[c] \in {"UNUSED", "EMBRYO", "RUNNING", "ZOMBIE"} /\ call[c] \in Call
           /\ vm = [vm EXCEPT ![c] = vm[c]] /\ sz = [sz EXCEPT ![c] = sz[c]] /\ kstack = [kstack EXCEPT ![c] = kstack[c]]
           /\ state = [state EXCEPT ![c] = state[c]] /\ work = [work EXCEPT ![c] = work[c]]
           /\ CallOK(call[c], work[c], vm[c], sz[c]) /\ SlotOK(c) /\ ChildOK(c) /\ lost \subseteq Page
           /\ freelist \in [Page -> Nat] /\ Own(Place, OwnMap, freelist, lost)
  BY DEF MemInv, MemTypes

LEMMA ForkStartInv ==
    ASSUME MemInv, NEW p \in Proc, NEW c \in Proc, ForkStart(p, c)
    PROVE  MemInv'
  <1>1. PICK k, w, v, z : Names(p, k, w, v, z)
    BY Named
  <1>2. k = call[p] /\ w = work[p] /\ v = vm[p] /\ z = sz[p] /\ v \in Space /\ z \in Nat /\ CallOK(k, w, v, z) /\ w \in Space
    BY <1>1, StepIs
  <1>3. /\ k = Idle /\ w = NoSpace /\ z <= KERNBASE /\ Pages(v) = Below(z) /\ state[c] = "UNUSED"
        /\ Running(p) /\ PtableFree
    BY <1>2, RunningPages DEF ForkStart
  <1>4. PICK k2 : k2 = [Idle EXCEPT !.op = "fork", !.at = "kstack", !.child = c, !.new = z]
    OBVIOUS
  <1>5. /\ k2 \in Call /\ k2.op = "fork" /\ k2.at = "kstack" /\ k2.new = z /\ k2.old = 0 /\ k2.a = 0
        /\ k2.held = Null /\ k2.child = c
    BY <1>2, <1>4, IdleIs DEF Call, Ops, Ats
  <1>6. CallOK(k2, w, v, z)
    <2>1. k2.at \in OpAt(k2.op) /\ HeldOK(k2) /\ WorkOK(k2, w)
      BY <1>3, <1>5 DEF OpAt, HeldOK, WorkOK, NoWork
    <2>2. GrowOK(k2, w)
      BY <1>2, <1>3, <1>5 DEF GrowOK
    <2>3. SizeOK(k2, v, z)
      BY <1>3, <1>5 DEF SizeOK
    <2> QED BY <1>2, <1>5, <2>1, <2>2, <2>3 DEF CallOK
  <1>7. Alone(p, c) /\ state[p] = "RUNNING"
    BY <1>3, OthersAlone
  <1>8. PICK v2, z2, g : v2 = vm[c] /\ z2 = sz[c] /\ g = kstack[c]
    OBVIOUS
  <1>9. /\ v2 \in Space /\ z2 \in Nat /\ g \in Page0 /\ CallOK(call[c], work[c], v2, z2) /\ g = Null /\ v2 = NoSpace
        /\ lost \subseteq Page /\ freelist \in [Page -> Nat]
    BY <1>3, <1>8, SlotTypes DEF SlotOK
  <1>10. ChildTo(p, c, k2, w, v2, z2, "EMBRYO", g)
    <2>1. work = [work EXCEPT ![p] = w]
      BY <1>1, StepIs
    <2> QED BY <1>2, <1>4, <1>8, <2>1, SlotTypes DEF ChildTo, ForkStart
  <1>11. ChildIs(c, k2, v2, "EMBRYO", g)
    BY <1>5, <1>9 DEF ChildIs
  <1>12. Own(Place, OwnMap, freelist, lost)'
    <2>1. SameHeld
      <3>1. \A q \in Proc : call'[q] = IF q = p THEN k2 ELSE call[q]
        BY <1>10 DEF ChildTo, MemInv, MemTypes
      <3> QED BY <1>2, <1>3, <1>5, <3>1, IdleIs DEF SameHeld
    <2>2. SameStacks /\ SpacesKept /\ freelist' = freelist /\ lost' = lost
      BY DEF SameStacks, SpacesKept, ForkStart
    <2> QED BY <2>1, <2>2, OwnKept DEF MemInv
  <1>13. lost' \subseteq Page /\ freelist' \in [Page -> Nat] /\ CallOK(k2, w, vm[p], sz[p]) /\ k2.op # "wait"
    BY <1>2, <1>5, <1>6, <1>9 DEF ForkStart
  <1> QED BY <1>2, <1>5, <1>7, <1>9, <1>10, <1>11, <1>12, <1>13, ChildStep

\* What every place holds after such a step.
ChildMap(p, c, k, w, v, g) ==
    /\ \A q \in Proc : OwnMap'[StackAt(q)] = IF q = c THEN g ELSE OwnMap[StackAt(q)]
    /\ \A q \in Proc : OwnMap'[HeldAt(q)] = IF q = p THEN k.held ELSE OwnMap[HeldAt(q)]
    /\ \A q \in Proc, e \in Entry :
          OwnMap'[SpaceAt("vm", q, e)] = IF q = c THEN EntryOf(v, e) ELSE OwnMap[SpaceAt("vm", q, e)]
    /\ \A q \in Proc, e \in Entry :
          OwnMap'[SpaceAt("work", q, e)] = IF q = p THEN EntryOf(w, e) ELSE OwnMap[SpaceAt("work", q, e)]

LEMMA ChildMaps ==
    ASSUME MemInv, NEW p \in Proc, NEW c \in Proc, NEW k, NEW w, NEW v, NEW z, NEW st, NEW g,
           ChildTo(p, c, k, w, v, z, st, g)
    PROVE  ChildMap(p, c, k, w, v, g)
  <1>1. /\ \A q \in Proc : call'[q] = IF q = p THEN k ELSE call[q]
        /\ \A q \in Proc : work'[q] = IF q = p THEN w ELSE work[q]
        /\ \A q \in Proc : vm'[q] = IF q = c THEN v ELSE vm[q]
        /\ \A q \in Proc : kstack'[q] = IF q = c THEN g ELSE kstack[q]
    BY DEF MemInv, MemTypes, ChildTo
  <1>2. \A q \in Proc : OwnMap'[StackAt(q)] = IF q = c THEN g ELSE OwnMap[StackAt(q)]
    BY <1>1, MapIs, MapIsNext
  <1>3. \A q \in Proc : OwnMap'[HeldAt(q)] = IF q = p THEN k.held ELSE OwnMap[HeldAt(q)]
    BY <1>1, MapIs, MapIsNext
  <1>4. ASSUME NEW q \in Proc, NEW e \in Entry
        PROVE  /\ OwnMap'[SpaceAt("vm", q, e)] = IF q = c THEN EntryOf(v, e) ELSE OwnMap[SpaceAt("vm", q, e)]
               /\ OwnMap'[SpaceAt("work", q, e)] = IF q = p THEN EntryOf(w, e) ELSE OwnMap[SpaceAt("work", q, e)]
    <2>1. OwnMap[SpaceAt("vm", q, e)] = EntryOf(vm[q], e) /\ OwnMap[SpaceAt("work", q, e)] = EntryOf(work[q], e)
      BY MapIs DEF SpaceOf
    <2>2. OwnMap'[SpaceAt("vm", q, e)] = EntryOf(vm'[q], e) /\ OwnMap'[SpaceAt("work", q, e)] = EntryOf(work'[q], e)
      BY MapIsNext
    <2> QED BY <1>1, <2>1, <2>2
  <1> QED BY <1>2, <1>3, <1>4 DEF ChildMap

\* Only the kernel stack of c changes hands.
LEMMA StackMap ==
    ASSUME MemInv, NEW p \in Proc, NEW c \in Proc, NEW k, NEW w, NEW v, NEW g, ChildMap(p, c, k, w, v, g),
           k.held = call[p].held, \A e \in Entry : EntryOf(w, e) = EntryOf(work[p], e),
           \A e \in Entry : EntryOf(v, e) = EntryOf(vm[c], e)
    PROVE  Becomes(Place, OwnMap, OwnMap', StackAt(c), g)
  <1>1. ASSUME NEW y \in Place PROVE OwnMap'[y] = IF y = StackAt(c) THEN g ELSE OwnMap[y]
    <2>1. CASE \E q \in Proc : y = HeldAt(q)
      BY <2>1, Places, MapIs DEF ChildMap
    <2>2. CASE \E q \in Proc : y = StackAt(q)
      BY <2>2, Places DEF ChildMap
    <2>3. CASE \E q \in Proc, e \in Entry : y = SpaceAt("vm", q, e)
      <3>1. PICK q \in Proc, e \in Entry : y = SpaceAt("vm", q, e)
        BY <2>3
      <3>2. OwnMap[y] = EntryOf(vm[q], e) /\ y # StackAt(c)
        BY <3>1, MapIs, Places DEF SpaceOf
      <3> QED BY <3>1, <3>2 DEF ChildMap
    <2>4. CASE \E q \in Proc, e \in Entry : y = SpaceAt("work", q, e)
      <3>1. PICK q \in Proc, e \in Entry : y = SpaceAt("work", q, e)
        BY <2>4
      <3>2. OwnMap[y] = EntryOf(work[q], e) /\ y # StackAt(c)
        BY <3>1, MapIs, Places DEF SpaceOf
      <3> QED BY <3>1, <3>2 DEF ChildMap
    <2> QED BY <2>1, <2>2, <2>3, <2>4, Places
  <1> QED BY <1>1 DEF Becomes

LEMMA SameMap ==
    ASSUME MemInv, NEW x \in Place, Becomes(Place, OwnMap, OwnMap', x, OwnMap[x]), freelist' = freelist, lost' = lost
    PROVE  Own(Place, OwnMap, freelist, lost)'
  <1>1. \A y \in Place : OwnMap'[y] = OwnMap[y]
    BY DEF Becomes
  <1>2. Own(Place, OwnMap', freelist, lost)
    BY <1>1 DEF Own, MemInv
  <1> QED BY <1>2, OwnNext

LEMMA KstackInv ==
    ASSUME MemInv, NEW p \in Proc, Kstack(p)
    PROVE  MemInv'
  <1>1. PICK k, w, v, z : Names(p, k, w, v, z)
    BY Named
  <1>2. /\ k = call[p] /\ w = work[p] /\ v = vm[p] /\ z = sz[p] /\ k \in Call /\ w \in Space /\ v \in Space /\ z \in Nat
        /\ CallOK(k, w, v, z) /\ call \in [Proc -> Call] /\ work = [work EXCEPT ![p] = w]
    BY <1>1, StepIs
  <1>3. k.at = "kstack" /\ k.op = "fork" /\ w = NoSpace /\ k.held = Null
    BY <1>2, CallFields DEF Kstack, CallOK, OpAt, Ops, WorkOK, NoWork, HeldOK
  <1>4. PICK c, v2, z2 : c = k.child /\ v2 = vm[c] /\ z2 = sz[c]
    OBVIOUS
  <1>5. Alone(p, c) /\ c \in Proc /\ state[p] = "RUNNING" /\ call[c] = Idle /\ work[c] = NoSpace
    BY <1>2, <1>3, <1>4, ForkedAlone
  <1>6. /\ v2 \in Space /\ z2 \in Nat /\ CallOK(call[c], work[c], v2, z2) /\ SlotOK(c) /\ lost \subseteq Page
        /\ vm = [vm EXCEPT ![c] = v2] /\ sz = [sz EXCEPT ![c] = z2] /\ state = [state EXCEPT ![c] = state[c]]
        /\ kstack = [kstack EXCEPT ![c] = kstack[c]] /\ freelist \in [Page -> Nat]
    BY <1>4, <1>5, SlotTypes
  <1>7. state[c] = "EMBRYO" /\ kstack[c] = Null /\ v2 = NoSpace
    BY <1>2, <1>3, <1>4, <1>6 DEF MemInv, ChildOK, SlotOK
  <1>8. UNCHANGED <<sz, vm, work, lost>>
    BY DEF Kstack
  <1>9. CASE Kalloc(Zero) /\ kstack' = [kstack EXCEPT ![c] = First] /\ call' = [call EXCEPT ![p].at = "dir"] /\ UNCHANGED state
    <2>1. PICK k2, g, x : k2 = [k EXCEPT !.at = "dir"] /\ g = First /\ x = StackAt(c)
      OBVIOUS
    <2>2. MovesTo(k, k2, "dir", k.a)
      BY <1>2, <2>1, MoveAt DEF Ats
    <2>3. g \in Page0 /\ g # Null
      BY <1>9, <2>1, FirstIs
    <2>4. k2 \in Call /\ k2.op = "fork" /\ k2.at = "dir" /\ k2.held = k.held /\ k2.child = c
      BY <1>3, <1>4, <2>2 DEF MovesTo
    <2>5. CallOK(k2, w, v, z)
      <3>1. k2.at \in OpAt(k2.op) /\ HeldOK(k2) /\ WorkOK(k2, w)
        BY <1>3, <2>4 DEF OpAt, HeldOK, WorkOK, NoWork
      <3>2. GrowOK(k2, w) /\ SizeOK(k2, v, z)
        BY <1>2, <1>3, <2>2, <2>4 DEF CallOK, GrowOK, SizeOK, MovesTo
      <3> QED BY <1>2, <2>4, <3>1, <3>2 DEF CallOK
    <2>6. ChildTo(p, c, k2, w, v2, z2, "EMBRYO", g)
      BY <1>2, <1>6, <1>7, <1>8, <1>9, <2>1 DEF ChildTo
    <2>7. ChildIs(c, k2, v2, "EMBRYO", g)
      BY <1>7, <2>3, <2>4 DEF ChildIs
    <2>8. ChildMap(p, c, k2, w, v2, g)
      BY <1>5, <2>6, ChildMaps
    <2>9. Becomes(Place, OwnMap, OwnMap', x, First)
      BY <1>2, <1>4, <1>5, <2>1, <2>4, <2>8, StackMap
    <2>10. Own(Place, OwnMap, freelist, lost)' /\ freelist' \in [Page -> Nat]
      <3>1. x \in Place /\ OwnMap[x] = Null
        BY <1>5, <1>7, <2>1, Places, MapIs
      <3> QED BY <1>8, <1>9, <2>9, <3>1, TakeAt
    <2>11. lost' \subseteq Page /\ CallOK(k2, w, vm[p], sz[p]) /\ k2.op # "wait"
      BY <1>2, <1>6, <1>8, <2>4, <2>5
    <2> QED BY <1>2, <1>5, <1>6, <2>3, <2>4, <2>6, <2>7, <2>10, <2>11, ChildStep
  <1>10. CASE OutOfMemory /\ state' = [state EXCEPT ![c] = "UNUSED"] /\ call' = [call EXCEPT ![p] = Idle] /\ UNCHANGED kstack
    <2>1. PICK k2, g, x : k2 = Idle /\ g = kstack[c] /\ x = StackAt(c)
      OBVIOUS
    <2>2. k2 \in Call /\ k2.op = "none" /\ k2.held = Null /\ g = Null /\ g \in Page0
      BY <1>7, <2>1, IdleIs DEF Page0
    <2>3. CallOK(k2, w, v, z)
      BY <1>2, <1>3, <2>1, BackToUser DEF CallOK, SizeOK
    <2>4. ChildTo(p, c, k2, w, v2, z2, "UNUSED", g)
      BY <1>2, <1>6, <1>8, <1>10, <2>1 DEF ChildTo
    <2>5. ChildIs(c, k2, v2, "UNUSED", g)
      BY <1>7, <2>2 DEF ChildIs
    <2>6. ChildMap(p, c, k2, w, v2, g)
      BY <1>5, <2>4, ChildMaps
    <2>7. Becomes(Place, OwnMap, OwnMap', x, g)
      BY <1>2, <1>3, <1>4, <1>5, <2>1, <2>2, <2>6, StackMap
    <2>8. Own(Place, OwnMap, freelist, lost)'
      <3>1. x \in Place /\ OwnMap[x] = g /\ freelist' = freelist
        BY <1>5, <1>10, <2>1, Places, MapIs DEF OutOfMemory
      <3> QED BY <1>8, <2>7, <3>1, SameMap
    <2>9. lost' \subseteq Page /\ freelist' \in [Page -> Nat] /\ CallOK(k2, w, vm[p], sz[p]) /\ k2.op # "wait"
      BY <1>2, <1>6, <1>8, <1>10, <2>2, <2>3 DEF OutOfMemory
    <2> QED BY <1>2, <1>5, <1>6, <2>2, <2>4, <2>5, <2>8, <2>9, ChildStep
  <1> QED BY <1>2, <1>4, <1>9, <1>10 DEF Kstack

\* The call of p fails without a child, or exec() returns.
LEMMA ReturnsQuietly ==
    ASSUME MemInv, NEW p \in Proc, call[p].at \in {"failed", "done"}, call[p].op \notin {"fork", "wait"},
           call' = [call EXCEPT ![p] = Idle], UNCHANGED <<freelist, state, kstack, sz, vm, work, lost>>
    PROVE  MemInv'
  <1>1. PICK k, w, v, z : Names(p, k, w, v, z)
    BY Named
  <1>2. /\ k = call[p] /\ k \in Call /\ z \in Nat /\ CallOK(k, w, v, z) /\ sz = [sz EXCEPT ![p] = z]
    BY <1>1, StepIs
  <1>3. k.op \in {"exec", "stack", "sbrk", "execed"} /\ k.at \in {"failed", "done"}
    BY <1>2, CallFields DEF CallOK, OpAt, Ops
  <1>4. w = NoSpace /\ k.held = Null /\ Clean(v) /\ z <= KERNBASE /\ (Pages(v) = {} \/ Pages(v) = Below(z))
    BY <1>2, <1>3, CallFields DEF CallOK, WorkOK, NoWork, HeldOK, SizeOK, OpAt
  <1>5. CallOK(Idle, w, v, z)
    BY <1>2, <1>4, BackToUser
  <1>6. state[p] = "RUNNING" /\ Idle.held = k.held /\ k.op # "wait"
    BY <1>2, <1>3, <1>4, InCall, IdleIs
  <1>7. /\ sz' = [sz EXCEPT ![p] = z] /\ state' = state /\ kstack' = kstack /\ lost' = lost /\ freelist' = freelist
        /\ work' = work /\ vm' = vm
    BY <1>2
  <1> QED BY <1>1, <1>2, <1>5, <1>6, <1>7, IdleIs, QuietStep

LEMMA FailedInv ==
    ASSUME MemInv, NEW p \in Proc, Failed(p)
    PROVE  MemInv'
  <1>1. PICK k, w, v, z : Names(p, k, w, v, z)
    BY Named
  <1>2. /\ k = call[p] /\ w = work[p] /\ v = vm[p] /\ z = sz[p] /\ k \in Call /\ w \in Space /\ v \in Space /\ z \in Nat
        /\ CallOK(k, w, v, z) /\ work = [work EXCEPT ![p] = w]
    BY <1>1, StepIs
  <1>3. k.at = "failed" /\ call' = [call EXCEPT ![p] = Idle] /\ UNCHANGED <<sz, vm, work, lost>>
    BY <1>2 DEF Failed
  <1>4. CASE k.op = "fork"
    <2>1. w = NoSpace /\ k.held = Null /\ Clean(v) /\ z <= KERNBASE /\ (Pages(v) = {} \/ Pages(v) = Below(z))
      BY <1>2, <1>3, <1>4 DEF CallOK, WorkOK, NoWork, HeldOK, SizeOK
    <2>2. PICK c, v2, z2, k2, g, o, x : /\ c = k.child /\ v2 = vm[c] /\ z2 = sz[c] /\ k2 = Idle /\ g = kstack[c]
                                        /\ o = Null /\ x = StackAt(c)
      OBVIOUS
    <2>3. Alone(p, c) /\ c \in Proc /\ state[p] = "RUNNING"
      BY <1>2, <1>4, <2>2, ForkedAlone
    <2>4. /\ v2 \in Space /\ z2 \in Nat /\ CallOK(call[c], work[c], v2, z2) /\ SlotOK(c) /\ lost \subseteq Page
          /\ vm = [vm EXCEPT ![c] = v2] /\ sz = [sz EXCEPT ![c] = z2]
      BY <2>2, <2>3, SlotTypes
    <2>5. state[c] = "EMBRYO" /\ g # Null /\ v2 = NoSpace
      BY <1>2, <1>3, <1>4, <2>2, <2>4 DEF MemInv, ChildOK, SlotOK
    <2>6. Kfree(g) /\ kstack' = [kstack EXCEPT ![c] = o] /\ state' = [state EXCEPT ![c] = "UNUSED"]
      BY <1>2, <1>4, <2>2 DEF Failed
    <2>7. k2 \in Call /\ k2.op = "none" /\ k2.held = Null /\ o \in Page0
      BY <2>2, IdleIs DEF Page0
    <2>8. CallOK(k2, w, v, z)
      BY <1>2, <2>1, <2>2, BackToUser
    <2>9. ChildTo(p, c, k2, w, v2, z2, "UNUSED", o)
      BY <1>2, <1>3, <2>2, <2>4, <2>6 DEF ChildTo
    <2>10. ChildIs(c, k2, v2, "UNUSED", o)
      BY <2>2, <2>5, <2>7 DEF ChildIs
    <2>11. ChildMap(p, c, k2, w, v2, o)
      BY <2>3, <2>9, ChildMaps
    <2>12. Becomes(Place, OwnMap, OwnMap', x, o)
      <3>1. k2.held = call[p].held /\ (\A e \in Entry : EntryOf(w, e) = EntryOf(work[p], e))
            /\ \A e \in Entry : EntryOf(v2, e) = EntryOf(vm[c], e)
        BY <1>2, <2>1, <2>2, <2>7
      <3> QED BY <2>2, <2>3, <2>11, <3>1, StackMap
    <2>13. Own(Place, OwnMap, freelist, lost)' /\ freelist' \in [Page -> Nat]
      <3>1. x \in Place /\ g = OwnMap[x] /\ Becomes(Place, OwnMap, OwnMap', x, Null)
        BY <2>2, <2>3, <2>12, Places, MapIs
      <3> QED BY <1>3, <2>5, <2>6, <3>1, GiveAt
    <2>14. lost' \subseteq Page /\ CallOK(k2, w, vm[p], sz[p]) /\ k2.op # "wait"
      BY <1>2, <1>3, <2>4, <2>7, <2>8
    <2> QED BY <1>2, <2>3, <2>4, <2>7, <2>9, <2>10, <2>13, <2>14, ChildStep
  <1>5. CASE k.op # "fork"
    <2>1. k.op # "wait"
      BY <1>2, <1>3 DEF CallOK, OpAt
    <2> QED BY <1>2, <1>3, <1>5, <2>1, ReturnsQuietly DEF Failed
  <1> QED BY <1>4, <1>5

LEMMA DoneInv ==
    ASSUME MemInv, NEW p \in Proc, Done(p)
    PROVE  MemInv'
  <1>1. PICK k, w, v, z : Names(p, k, w, v, z)
    BY Named
  <1>2. /\ k = call[p] /\ w = work[p] /\ v = vm[p] /\ z = sz[p] /\ k \in Call /\ w \in Space /\ v \in Space /\ z \in Nat
        /\ CallOK(k, w, v, z) /\ work = [work EXCEPT ![p] = w]
    BY <1>1, StepIs
  <1>3. k.at = "done" /\ call' = [call EXCEPT ![p] = Idle] /\ UNCHANGED <<freelist, mem, kstack, sz, vm, work, lost>>
    BY <1>2 DEF Done
  <1>4. CASE k.op = "wait"
    <2>1. w = NoSpace /\ k.held = Null /\ Clean(v) /\ z <= KERNBASE /\ (Pages(v) = {} \/ Pages(v) = Below(z))
      BY <1>2, <1>3, <1>4 DEF CallOK, WorkOK, NoWork, HeldOK, SizeOK
    <2>2. PICK c, v2, z2, k2, g, x : c = k.child /\ v2 = vm[c] /\ z2 = sz[c] /\ k2 = Idle /\ g = kstack[c] /\ x = StackAt(c)
      OBVIOUS
    <2>3. Alone(p, c) /\ c \in Proc /\ state[p] = "RUNNING"
      BY <1>2, <1>4, <2>2, ForkedAlone
    <2>4. /\ v2 \in Space /\ z2 \in Nat /\ CallOK(call[c], work[c], v2, z2) /\ lost \subseteq Page /\ freelist \in [Page -> Nat]
          /\ vm = [vm EXCEPT ![c] = v2] /\ sz = [sz EXCEPT ![c] = z2] /\ kstack = [kstack EXCEPT ![c] = g]
      BY <2>2, <2>3, SlotTypes
    <2>5. g = Null /\ v2 = NoSpace
      BY <1>2, <1>4, <2>2 DEF MemInv, ChildOK
    <2>6. state' = [state EXCEPT ![c] = "UNUSED"]
      BY <1>2, <1>4, <2>2 DEF Done
    <2>7. k2 \in Call /\ k2.op = "none" /\ k2.held = Null /\ g \in Page0
      BY <2>2, <2>5, IdleIs DEF Page0
    <2>8. CallOK(k2, w, v, z)
      BY <1>2, <2>1, <2>2, BackToUser
    <2>9. ChildTo(p, c, k2, w, v2, z2, "UNUSED", g)
      BY <1>2, <1>3, <2>2, <2>4, <2>6 DEF ChildTo
    <2>10. ChildIs(c, k2, v2, "UNUSED", g)
      BY <2>5, <2>7 DEF ChildIs
    <2>11. ChildMap(p, c, k2, w, v2, g)
      BY <2>3, <2>9, ChildMaps
    <2>12. Becomes(Place, OwnMap, OwnMap', x, g)
      <3>1. k2.held = call[p].held /\ (\A e \in Entry : EntryOf(w, e) = EntryOf(work[p], e))
            /\ \A e \in Entry : EntryOf(v2, e) = EntryOf(vm[c], e)
        BY <1>2, <2>1, <2>2, <2>7
      <3> QED BY <2>2, <2>3, <2>11, <3>1, StackMap
    <2>13. Own(Place, OwnMap, freelist, lost)'
      <3>1. x \in Place /\ g = OwnMap[x]
        BY <2>2, <2>3, Places, MapIs
      <3> QED BY <1>3, <2>12, <3>1, SameMap
    <2>14. lost' \subseteq Page /\ CallOK(k2, w, vm[p], sz[p]) /\ k2.op # "wait" /\ freelist' \in [Page -> Nat]
      BY <1>2, <1>3, <2>4, <2>7, <2>8
    <2> QED BY <1>2, <2>3, <2>4, <2>7, <2>9, <2>10, <2>13, <2>14, ChildStep
  <1>5. CASE k.op # "wait"
    <2>1. k.op # "fork"
      BY <1>2, <1>3 DEF CallOK, OpAt
    <2> QED BY <1>2, <1>3, <1>5, <2>1, ReturnsQuietly DEF Done
  <1> QED BY <1>4, <1>5

\* exit(): the slot keeps what it holds.
LEMMA ExitInv ==
    ASSUME MemInv, NEW p \in Proc, Exit(p)
    PROVE  MemInv'
  <1>1. state[p] = "RUNNING" /\ call[p].op = "none" /\ PtableFree
        /\ UNCHANGED <<freelist, mem, kstack, sz, vm, work, call, lost>>
    BY DEF Exit
  <1>2. \A q \in Proc : state'[q] = IF q = p THEN "ZOMBIE" ELSE state[q]
    BY DEF Exit, MemInv, MemTypes
  <1>3. MemTypes'
    BY DEF Exit, MemInv, MemTypes
  <1>4. Own(Place, OwnMap, freelist, lost)'
    <2>1. SameHeld /\ SameStacks /\ SpacesKept
      BY <1>1 DEF SameHeld, SameStacks, SpacesKept
    <2> QED BY <1>1, <2>1, OwnKept DEF MemInv
  <1>5. Apart'
    BY <1>1 DEF MemInv, Apart
  <1>6. kstack[p] # Null /\ vm[p].dir # Null
    BY <1>1, RunningHas
  <1>7. ASSUME NEW q \in Proc PROVE SlotOK(q)'
    <2>1. SlotOK(q)
      BY DEF MemInv
    <2>2. Waited(q)' <=> Waited(q)
      BY <1>1 DEF Waited
    <2> QED BY <1>1, <1>2, <1>6, <2>1, <2>2 DEF SlotOK
  <1>8. ASSUME NEW q \in Proc PROVE ChildOK(q)'
    <2>1. ChildOK(q) /\ call[q].child \in Proc
      BY CallFields DEF MemInv, MemTypes
    <2>2. call[q].op # "wait"
      BY <1>1 DEF PtableFree
    <2>3. call[q].op = "fork" => call[q].child # p
      BY <1>1, <2>1 DEF ChildOK
    <2> QED BY <1>1, <1>2, <2>1, <2>2, <2>3 DEF ChildOK
  <1>9. \A q \in Proc : CallOK(call'[q], work'[q], vm'[q], sz'[q])
    BY <1>1 DEF MemInv
  <1> QED BY <1>3, <1>4, <1>5, <1>7, <1>8, <1>9 DEF MemInv

\* What a fork() has when its copy is complete.
LEMMA CopyComplete ==
    ASSUME MemInv, NEW p \in Proc, NEW k, NEW w, NEW v, NEW z, Names(p, k, w, v, z),
           k.op = "fork", k.at = "grow", k.a * PGSIZE >= k.new
    PROVE  /\ k.held = Null /\ Clean(v) /\ Clean(w) /\ z <= KERNBASE /\ (Pages(v) = {} \/ Pages(v) = Below(z))
           /\ Pages(w) = Below(z) /\ w.dir # Null /\ NoSpace \in Space
           /\ CallOK(Idle, NoSpace, v, z) /\ CallOK(Idle, NoSpace, w, z)
  <1>1. k \in Call /\ CallOK(k, w, v, z) /\ z \in Nat
    BY DEF Names
  <1>2. k.held = Null /\ Clean(v) /\ Clean(w) /\ z <= KERNBASE /\ (Pages(v) = {} \/ Pages(v) = Below(z)) /\ w.dir # Null /\ k.new = z
    BY <1>1 DEF CallOK, HeldOK, SizeOK, WorkOK, NoWork
  <1>3. /\ Pages(w) = {b \in VPage : b < k.a} /\ \A b \in 0..(k.a - 1) : b * PGSIZE < k.new
    BY <1>1 DEF CallOK, GrowOK
  <1>4. k.a \in Nat
    BY <1>1, CallFields
  <1>5. Pages(w) = Below(z)
    BY <1>1, <1>2, <1>3, <1>4, BelowIs
  <1>6. CallOK(Idle, NoSpace, v, z) /\ CallOK(Idle, NoSpace, w, z)
    BY <1>1, <1>2, <1>5, BackToUser
  <1> QED BY <1>2, <1>5, <1>6, NoSpaceIs

LEMMA ForkDoneInv ==
    ASSUME MemInv, NEW p \in Proc, ForkDone(p)
    PROVE  MemInv'
  <1>1. PICK k, w, v, z : Names(p, k, w, v, z)
    BY Named
  <1>2. /\ k = call[p] /\ w = work[p] /\ v = vm[p] /\ z = sz[p] /\ k \in Call /\ w \in Space /\ v \in Space /\ z \in Nat
    BY <1>1, StepIs
  <1>3. k.op = "fork" /\ k.at = "grow" /\ k.a * PGSIZE >= k.new
    BY <1>2 DEF ForkDone
  <1>4. /\ k.held = Null /\ w.dir # Null /\ NoSpace \in Space /\ CallOK(Idle, NoSpace, v, z) /\ CallOK(Idle, NoSpace, w, z)
    BY <1>1, <1>3, CopyComplete
  <1>5. PICK c, k2, w2, g : c = k.child /\ k2 = Idle /\ w2 = NoSpace /\ g = kstack[c]
    OBVIOUS
  <1>6. Alone(p, c) /\ c \in Proc /\ state[p] = "RUNNING" /\ call[c] = Idle /\ work[c] = NoSpace
    BY <1>2, <1>3, <1>5, ForkedAlone
  <1>7. /\ SlotOK(c) /\ lost \subseteq Page /\ freelist \in [Page -> Nat] /\ g \in Page0
        /\ kstack = [kstack EXCEPT ![c] = g]
    BY <1>5, <1>6, SlotTypes
  <1>8. state[c] = "EMBRYO" /\ g # Null /\ vm[c] = NoSpace
    BY <1>2, <1>3, <1>5, <1>7 DEF MemInv, ChildOK, SlotOK
  <1>9. ChildTo(p, c, k2, w2, w, z, "RUNNING", g)
    BY <1>2, <1>5, <1>7 DEF ChildTo, ForkDone
  <1>10. k2 \in Call /\ k2.op = "none" /\ k2.held = Null
    BY <1>5, IdleIs
  <1>11. ChildIs(c, k2, w, "RUNNING", g)
    BY <1>4, <1>8, <1>10 DEF ChildIs
  <1>12. ChildMap(p, c, k2, w2, w, g)
    BY <1>6, <1>9, ChildMaps
  <1>13. Swapped(OwnMap, OwnMap', c, p)
    <2>1. \A e \in Entry : OwnMap[SpaceAt("vm", c, e)] = Null /\ OwnMap[SpaceAt("work", p, e)] = EntryOf(w, e)
      BY <1>2, <1>6, <1>8, MapIs, NoSpaceIs DEF SpaceOf
    <2>2. OwnMap[HeldAt(p)] = Null /\ OwnMap[StackAt(c)] = g
      BY <1>2, <1>4, <1>5, <1>6, MapIs
    <2>3. \A e \in Entry : EntryOf(w2, e) = Null
      BY <1>5, NoSpaceIs
    <2> QED BY <1>10, <1>12, <2>1, <2>2, <2>3 DEF Swapped, ChildMap
  <1>14. Own(Place, OwnMap, freelist, lost)'
    <2>1. PICK own, own2 : own = OwnMap /\ own2 = OwnMap'
      OBVIOUS
    <2>2. Own(Place, own2, freelist, lost)
      BY <1>6, <1>13, <2>1, OwnSwapped DEF MemInv
    <2>3. freelist' = freelist /\ lost' = lost
      BY DEF ForkDone
    <2> QED BY <2>1, <2>2, <2>3, OwnNext
  <1>15. /\ lost' \subseteq Page /\ freelist' \in [Page -> Nat] /\ CallOK(k2, w2, vm[p], sz[p]) /\ k2.op # "wait"
         /\ CallOK(call[c], work[c], w, z) /\ w2 \in Space
    BY <1>2, <1>4, <1>5, <1>6, <1>7, <1>10 DEF ForkDone
  <1> QED BY <1>2, <1>6, <1>7, <1>9, <1>10, <1>11, <1>14, <1>15, ChildStep

LEMMA WaitStartInv ==
    ASSUME MemInv, NEW p \in Proc, NEW c \in Proc, WaitStart(p, c)
    PROVE  MemInv'
  <1>1. PICK k, w, v, z : Names(p, k, w, v, z)
    BY Named
  <1>2. /\ k = call[p] /\ w = work[p] /\ v = vm[p] /\ z = sz[p] /\ v \in Space /\ z \in Nat /\ CallOK(k, w, v, z)
    BY <1>1, StepIs
  <1>3. /\ k = Idle /\ w = NoSpace /\ z <= KERNBASE /\ Pages(v) = Below(z) /\ state[c] = "ZOMBIE"
        /\ Running(p) /\ PtableFree
    BY <1>2, RunningPages DEF WaitStart
  <1>4. Alone(p, c) /\ state[p] = "RUNNING" /\ call[c] = Idle /\ work[c] = NoSpace
    BY <1>3, OthersAlone
  <1>5. PICK k2, w2, v2, z2, g, o : /\ k2 = [Idle EXCEPT !.op = "wait", !.at = "freevm", !.child = c] /\ w2 = vm[c]
                                   /\ v2 = NoSpace /\ z2 = sz[c] /\ g = kstack[c] /\ o = Null
    OBVIOUS
  <1>6. /\ k2 \in Call /\ k2.op = "wait" /\ k2.at = "freevm" /\ k2.new = 0 /\ k2.old = 0 /\ k2.a = 0
        /\ k2.held = Null /\ k2.child = c
    BY <1>5, IdleIs DEF Call, Ops, Ats
  <1>7. /\ w2 \in Space /\ z2 \in Nat /\ SlotOK(c) /\ lost \subseteq Page /\ freelist \in [Page -> Nat] /\ g \in Page0
        /\ CallOK(call[c], work[c], w2, z2) /\ sz = [sz EXCEPT ![c] = z2] /\ state = [state EXCEPT ![c] = state[c]]
    BY <1>5, SlotTypes
  <1>8. g # Null /\ w2.dir # Null
    <2>1. ~Waited(c)
      BY <1>3 DEF Waited, PtableFree
    <2> QED BY <1>3, <1>5, <1>7, <2>1 DEF SlotOK
  <1>9. CallOK(k2, w2, v, z)
    <2>1. Clean(w2) /\ Clean(v)
      BY <1>2, <1>7 DEF CallOK
    <2>2. k2.at \in OpAt(k2.op) /\ HeldOK(k2) /\ WorkOK(k2, w2)
      BY <1>6, <1>8 DEF OpAt, HeldOK, WorkOK, NoWork
    <2>3. GrowOK(k2, w2)
      BY <1>6, PageNumbers DEF GrowOK
    <2>4. SizeOK(k2, v, z)
      BY <1>3, <1>6 DEF SizeOK
    <2> QED BY <1>6, <2>1, <2>2, <2>3, <2>4 DEF CallOK
  <1>10. CallOK(call[c], work[c], v2, z2) /\ v2 \in Space
    <2>1. z2 <= KERNBASE /\ Clean(v2) /\ Pages(v2) = {} /\ v2 \in Space
      BY <1>5, <1>7, NoSpaceIs DEF CallOK, SizeOK
    <2> QED BY <1>4, <1>7, <2>1, BackToUser
  <1>11. ChildTo(p, c, k2, w2, v2, z2, "ZOMBIE", o)
    BY <1>3, <1>5, <1>7 DEF ChildTo, WaitStart
  <1>12. ChildIs(c, k2, v2, "ZOMBIE", o)
    BY <1>5, <1>6 DEF ChildIs
  <1>13. ChildMap(p, c, k2, w2, v2, o)
    BY <1>11, ChildMaps
  <1>14. Own(Place, OwnMap, freelist, lost)' /\ freelist' \in [Page -> Nat]
    <2>0. PICK own, own2, x : own = OwnMap /\ own2 = OwnMap' /\ x = StackAt(c)
      OBVIOUS
    <2>0a. PICK own1 : own1 = [d \in Place |-> IF d = x THEN g ELSE own2[d]]
      OBVIOUS
    <2>1. /\ own = OwnMap /\ own2 = OwnMap' /\ x = StackAt(c)
          /\ \A d \in Place : own1[d] = IF d = x THEN g ELSE own2[d]
      BY <2>0, <2>0a
    <2>2. /\ \A e \in Entry : own[SpaceAt("vm", c, e)] = EntryOf(w2, e) /\ own[SpaceAt("work", p, e)] = Null
          /\ own[HeldAt(p)] = Null /\ own[x] = g /\ \A e \in Entry : EntryOf(v2, e) = Null
      <3>1. \A e \in Entry : own[SpaceAt("vm", c, e)] = EntryOf(w2, e) /\ own[SpaceAt("work", p, e)] = EntryOf(w, e)
        BY <1>2, <1>5, <2>0, MapIs DEF SpaceOf
      <3>2. own[HeldAt(p)] = k.held /\ own[x] = g
        BY <1>2, <1>5, <2>0, MapIs
      <3>3. k.held = Null /\ (\A e \in Entry : EntryOf(v2, e) = Null) /\ \A e \in Entry : EntryOf(w, e) = Null
        BY <1>3, <1>5, NoSpaceIs, IdleIs
      <3> QED BY <3>1, <3>2, <3>3
    <2>3. Swapped(own, own1, c, p)
      <3>1. ASSUME NEW q \in Proc PROVE own1[StackAt(q)] = own[StackAt(q)] /\ own1[HeldAt(q)] = own[HeldAt(q)]
        <4>1. StackAt(q) \in Place /\ HeldAt(q) \in Place /\ HeldAt(q) # x /\ (StackAt(q) = x <=> q = c)
          BY <2>1, Places
        <4>2. own2[StackAt(q)] = (IF q = c THEN o ELSE own[StackAt(q)]) /\ own2[HeldAt(q)] = IF q = p THEN k2.held ELSE own[HeldAt(q)]
          BY <1>13, <2>1 DEF ChildMap
        <4> QED BY <1>6, <2>1, <2>2, <4>1, <4>2
      <3>2. ASSUME NEW q \in Proc, NEW e \in Entry
            PROVE  /\ own1[SpaceAt("vm", q, e)] = IF q = c THEN own[SpaceAt("work", p, e)] ELSE own[SpaceAt("vm", q, e)]
                   /\ own1[SpaceAt("work", q, e)] = IF q = p THEN own[SpaceAt("vm", c, e)] ELSE own[SpaceAt("work", q, e)]
        <4>1. SpaceAt("vm", q, e) \in Place /\ SpaceAt("work", q, e) \in Place /\ SpaceAt("vm", q, e) # x /\ SpaceAt("work", q, e) # x
          BY <2>1, Places
        <4>2. /\ own2[SpaceAt("vm", q, e)] = IF q = c THEN EntryOf(v2, e) ELSE own[SpaceAt("vm", q, e)]
              /\ own2[SpaceAt("work", q, e)] = IF q = p THEN EntryOf(w2, e) ELSE own[SpaceAt("work", q, e)]
          BY <1>13, <2>1 DEF ChildMap
        <4> QED BY <2>1, <2>2, <4>1, <4>2
      <3> QED BY <3>1, <3>2 DEF Swapped
    <2>4. Own(Place, own1, freelist, lost)
      BY <2>1, <2>3, OwnSwapped DEF MemInv
    <2>5. x \in Place /\ own1[x] = g /\ Becomes(Place, own1, own2, x, Null)
      <3>1. x \in Place
        BY <2>1, Places
      <3>2. own2[x] = Null
        BY <1>5, <1>13, <2>1 DEF ChildMap
      <3> QED BY <2>1, <3>1, <3>2 DEF Becomes
    <2>6. g \in Page /\ Kfree(g)
      BY <1>5, <1>7, <1>8 DEF WaitStart, Page0
    <2>7. freelist' \in [Page -> Nat] /\ \A h \in Page : freelist'[h] = IF h = g THEN freelist[h] + 1 ELSE freelist[h]
      BY <1>7, <2>6, KfreeIs
    <2>8. PICK fl, fl2 : fl = freelist /\ fl2 = freelist'
      OBVIOUS
    <2>9. Own(Place, own2, fl2, lost)
      BY <1>8, <2>4, <2>5, <2>7, <2>8, OwnGive
    <2>10. lost' = lost
      BY DEF WaitStart
    <2> QED BY <2>1, <2>7, <2>8, <2>9, <2>10, OwnNext
  <1>15. /\ lost' \subseteq Page /\ CallOK(k2, w2, vm[p], sz[p]) /\ o \in Page0
         /\ \A q \in Proc : q = p \/ call[q].op # "wait"
    BY <1>2, <1>3, <1>5, <1>7, <1>9 DEF WaitStart, PtableFree, Page0
  <1> QED BY <1>4, <1>6, <1>7, <1>10, <1>11, <1>12, <1>14, <1>15, ChildStep

\* All the pages of an address space.
AllPages(s) == {EntryOf(s, e) : e \in Entry}

LEMMA PagesOf ==
    ASSUME NEW s
    PROVE  {s.dir, s.kern} \cup {s.tab[t] : t \in Table} \cup {s.pte[a].page : a \in VPage} = AllPages(s)
  <1>1. /\ EntryOf(s, Dir) = s.dir /\ EntryOf(s, Kern) = s.kern
        /\ \A t \in Table : EntryOf(s, Tab(t)) = s.tab[t]
        /\ \A b \in VPage : EntryOf(s, PteOf(b)) = s.pte[b].page
    BY EntryIs
  <1>2. ASSUME NEW g \in {s.dir, s.kern} \cup {s.tab[t] : t \in Table} \cup {s.pte[a].page : a \in VPage}
        PROVE  \E e \in Entry : g = EntryOf(s, e)
    BY <1>1, Entries
  <1>3. ASSUME NEW e \in Entry
        PROVE  EntryOf(s, e) \in {s.dir, s.kern} \cup {s.tab[t] : t \in Table} \cup {s.pte[a].page : a \in VPage}
    <2>1. CASE e = Dir \/ e = Kern
      BY <1>1, <2>1
    <2>2. CASE \E t \in Table : e = Tab(t)
      BY <1>1, <2>2
    <2>3. CASE \E b \in VPage : e = PteOf(b)
      BY <1>1, <2>3
    <2> QED BY <2>1, <2>2, <2>3, Entries
  <1> QED BY <1>2, <1>3 DEF AllPages

\* A fork() into a full container frees the kernel stack of c and forgets w.
LEMMA ForkFullOwns ==
    ASSUME MemInv, NEW p \in Proc, NEW c \in Proc, NEW w, w = work[p], NEW k2, k2.held = call[p].held, vm[c] = NoSpace,
           NEW g, g = kstack[c], g \in Page, Kfree(g), ChildMap(p, c, k2, NoSpace, NoSpace, Null),
           lost' = lost \cup (AllPages(w) \ {Null})
    PROVE  Own(Place, OwnMap, freelist, lost)' /\ freelist' \in [Page -> Nat]
  <1>0. g # Null
    BY DEF Page, Null
  <1>1. PICK own, own2, x : own = OwnMap /\ own2 = OwnMap' /\ x = StackAt(c)
    OBVIOUS
  <1>2. PICK own1 : own1 = [d \in Place |-> IF d = x THEN Null ELSE own[d]]
    OBVIOUS
  <1>3. x \in Place /\ own[x] = g /\ Own(Place, own, freelist, lost) /\ freelist \in [Page -> Nat]
    BY <1>1, Places, MapIs DEF MemInv, MemTypes
  <1>4. Becomes(Place, own, own1, x, Null)
    BY <1>2 DEF Becomes
  <1>5. freelist' \in [Page -> Nat] /\ \A h \in Page : freelist'[h] = IF h = g THEN freelist[h] + 1 ELSE freelist[h]
    BY <1>3, KfreeIs
  <1>6. PICK fl, fl2, lo2 : fl = freelist /\ fl2 = freelist' /\ lo2 = lost'
    OBVIOUS
  <1>7. Own(Place, own1, fl2, lost)
    BY <1>0, <1>3, <1>4, <1>5, <1>6, OwnGive
  <1>8. PICK Q : Q = {d \in Place : \E e \in Entry : d = SpaceAt("work", p, e)}
    OBVIOUS
  <1>9. \A e \in Entry : SpaceAt("work", p, e) \in Q /\ own1[SpaceAt("work", p, e)] = EntryOf(w, e)
    <2>1. \A e \in Entry : SpaceAt("work", p, e) \in Place /\ SpaceAt("work", p, e) # x
      BY <1>1, Places
    <2>2. \A e \in Entry : own[SpaceAt("work", p, e)] = EntryOf(w, e)
      BY <1>1, MapIs DEF SpaceOf
    <2> QED BY <1>2, <1>8, <2>1, <2>2
  <1>10. lo2 = lost \cup ({own1[d] : d \in Q} \ {Null})
    <2>1. {own1[d] : d \in Q} = AllPages(w)
      BY <1>8, <1>9 DEF AllPages
    <2> QED BY <1>6, <2>1
  <1>11. ASSUME NEW d \in Place PROVE own2[d] = IF d \in Q THEN Null ELSE own1[d]
    <2>1. CASE \E q \in Proc : d = StackAt(q)
      <3>1. PICK q \in Proc : d = StackAt(q)
        BY <2>1
      <3>2. d \notin Q /\ (d = x <=> q = c)
        BY <1>1, <1>8, <3>1, Places
      <3>3. own2[d] = IF q = c THEN Null ELSE own[d]
        BY <1>1, <3>1 DEF ChildMap
      <3> QED BY <1>2, <3>2, <3>3
    <2>2. CASE \E q \in Proc : d = HeldAt(q)
      <3>1. PICK q \in Proc : d = HeldAt(q)
        BY <2>2
      <3>2. d \notin Q /\ d # x
        BY <1>1, <1>8, <3>1, Places
      <3>3. own2[d] = own[d]
        BY <1>1, <3>1, MapIs DEF ChildMap
      <3> QED BY <1>2, <3>2, <3>3
    <2>3. CASE \E q \in Proc, e \in Entry : d = SpaceAt("vm", q, e)
      <3>1. PICK q \in Proc, e \in Entry : d = SpaceAt("vm", q, e)
        BY <2>3
      <3>2. d \notin Q /\ d # x
        BY <1>1, <1>8, <3>1, Places
      <3>3. own[d] = EntryOf(vm[q], e)
        BY <1>1, <3>1, MapIs DEF SpaceOf
      <3>4. own2[d] = own[d]
        BY <1>1, <3>1, <3>3, NoSpaceIs DEF ChildMap
      <3> QED BY <1>2, <3>2, <3>4
    <2>4. CASE \E q \in Proc, e \in Entry : d = SpaceAt("work", q, e)
      <3>1. PICK q \in Proc, e \in Entry : d = SpaceAt("work", q, e)
        BY <2>4
      <3>2. (d \in Q <=> q = p) /\ d # x
        BY <1>1, <1>8, <3>1, Places
      <3>3. own2[d] = IF q = p THEN Null ELSE own[d]
        BY <1>1, <3>1, NoSpaceIs DEF ChildMap
      <3> QED BY <1>2, <3>2, <3>3
    <2> QED BY <2>1, <2>2, <2>3, <2>4, Places
  <1>12. Q \subseteq Place
    BY <1>8
  <1>13. Own(Place, own2, fl2, lo2)
    BY <1>7, <1>10, <1>11, <1>12, OwnLose
  <1> QED BY <1>1, <1>5, <1>6, <1>13, OwnNext

LEMMA ForkFullInv ==
    ASSUME MemInv, NEW p \in Proc, ForkFull(p)
    PROVE  MemInv'
  <1>1. PICK k, w, v, z : Names(p, k, w, v, z)
    BY Named
  <1>2. /\ k = call[p] /\ w = work[p] /\ v = vm[p] /\ z = sz[p] /\ k \in Call /\ w \in Space /\ v \in Space /\ z \in Nat
    BY <1>1, StepIs
  <1>3. k.op = "fork" /\ k.at = "grow" /\ k.a * PGSIZE >= k.new
    BY <1>2 DEF ForkFull
  <1>4. k.held = Null /\ NoSpace \in Space /\ CallOK(Idle, NoSpace, v, z)
    BY <1>1, <1>3, CopyComplete
  <1>5. PICK c, k2, w2, v2, z2, g, o : /\ c = k.child /\ k2 = Idle /\ w2 = NoSpace /\ g = kstack[c] /\ o = Null
                                       /\ v2 = vm[c] /\ z2 = sz[c]
    OBVIOUS
  <1>6. Alone(p, c) /\ c \in Proc /\ state[p] = "RUNNING" /\ call[c] = Idle /\ work[c] = NoSpace
    BY <1>2, <1>3, <1>5, ForkedAlone
  <1>7. /\ SlotOK(c) /\ lost \subseteq Page /\ g \in Page0 /\ v2 \in Space /\ z2 \in Nat
        /\ vm = [vm EXCEPT ![c] = v2] /\ sz = [sz EXCEPT ![c] = z2] /\ CallOK(call[c], work[c], v2, z2)
    BY <1>5, <1>6, SlotTypes
  <1>8. state[c] = "EMBRYO" /\ g # Null /\ v2 = NoSpace /\ g \in Page
    BY <1>2, <1>3, <1>5, <1>7 DEF MemInv, ChildOK, SlotOK, Page0
  <1>9. ChildTo(p, c, k2, w2, v2, z2, "UNUSED", o)
    BY <1>2, <1>5, <1>7 DEF ChildTo, ForkFull
  <1>10. k2 \in Call /\ k2.op = "none" /\ k2.held = Null /\ o \in Page0
    BY <1>5, IdleIs DEF Page0
  <1>11. ChildIs(c, k2, v2, "UNUSED", o)
    BY <1>5, <1>8, <1>10 DEF ChildIs
  <1>12. ChildMap(p, c, k2, w2, v2, o)
    BY <1>6, <1>9, ChildMaps
  <1>13. lost' = lost \cup (AllPages(w) \ {Null})
    <2>1. lost' = lost \cup (({w.dir, w.kern} \cup {w.tab[t] : t \in Table} \cup {w.pte[a].page : a \in VPage}) \ {Null})
      BY <1>2 DEF ForkFull
    <2>2. {w.dir, w.kern} \cup {w.tab[t] : t \in Table} \cup {w.pte[a].page : a \in VPage} = AllPages(w)
      BY PagesOf
    <2> QED BY <2>1, <2>2, Zenon
  <1>14. Own(Place, OwnMap, freelist, lost)' /\ freelist' \in [Page -> Nat]
    <2>1. ChildMap(p, c, k2, NoSpace, NoSpace, Null) /\ k2.held = call[p].held /\ vm[c] = NoSpace /\ Kfree(g)
      BY <1>2, <1>4, <1>5, <1>8, <1>10, <1>12 DEF ForkFull
    <2> QED BY <1>2, <1>5, <1>6, <1>8, <1>13, <2>1, ForkFullOwns
  <1>15. lost' \subseteq Page
    <2>1. ASSUME NEW e \in Entry PROVE EntryOf(w, e) \in Page0
      <3>1. /\ w.dir \in Page0 /\ w.kern \in Page0 /\ (\A t \in Table : w.tab[t] \in Page0)
            /\ \A b \in VPage : w.pte[b].page \in Page0
        BY <1>2 DEF Space, Pte
      <3>2. CASE e = Dir \/ e = Kern
        BY <3>1, <3>2, EntryIs
      <3>3. CASE \E t \in Table : e = Tab(t)
        BY <3>1, <3>3, EntryIs
      <3>4. CASE \E b \in VPage : e = PteOf(b)
        BY <3>1, <3>4, EntryIs
      <3> QED BY <3>2, <3>3, <3>4, Entries
    <2> QED BY <1>7, <1>13, <2>1 DEF Page0, AllPages
  <1>16. CallOK(k2, w2, vm[p], sz[p]) /\ k2.op # "wait" /\ w2 \in Space
    BY <1>2, <1>4, <1>5, <1>10
  <1> QED BY <1>6, <1>7, <1>9, <1>10, <1>11, <1>14, <1>15, <1>16, ChildStep

\* Nothing but the contents of pages changes.
LEMMA SameMemory ==
    ASSUME MemInv, UNCHANGED <<freelist, state, kstack, sz, vm, work, call, lost>>
    PROVE  MemInv'
  <1>1. Own(Place, OwnMap, freelist, lost)'
    <2>1. SameHeld /\ SameStacks /\ SpacesKept
      BY DEF SameHeld, SameStacks, SpacesKept
    <2> QED BY <2>1, OwnKept DEF MemInv
  <1>2. MemTypes' /\ Apart'
    BY DEF MemInv, MemTypes, Apart
  <1>3. ASSUME NEW q \in Proc PROVE CallOK(call[q], work[q], vm[q], sz[q])' /\ SlotOK(q)' /\ ChildOK(q)'
    <2>1. CallOK(call'[q], work'[q], vm'[q], sz'[q]) /\ SlotOK(q) /\ ChildOK(q)
      BY DEF MemInv
    <2>2. Waited(q)' <=> Waited(q)
      BY DEF Waited
    <2>3. SlotOK(q)' /\ ChildOK(q)'
      BY <2>1, <2>2 DEF SlotOK, ChildOK
    <2> QED BY <2>1, <2>3
  <1> QED BY <1>1, <1>2, <1>3 DEF MemInv

-----------------------------------------------------------------------------
(* The specification.                                                      *)

\* userinit(): the first process has five pages.
LEMMA InitSpace ==
    /\ inituvm \in Space /\ inituvm.dir = 2 /\ inituvm.kern = 3
    /\ (\A t \in Table : inituvm.tab[t] = IF t = 0 THEN 4 ELSE Null)
    /\ (\A b \in VPage : inituvm.pte[b].page = IF b = 0 THEN 5 ELSE Null)
    /\ Clean(inituvm) /\ Pages(inituvm) = Below(PGSIZE)
  <1>0. 2 \in Page0 /\ 3 \in Page0 /\ 4 \in Page0 /\ 5 \in Page0 /\ Null \in Page0 /\ 5 # Null
    BY MemoryAssumption DEF Page0, Page, Null
  <1>1. 0 \in Table /\ 0 \in VPage
    BY PageNumbers
  <1>2. inituvm \in Space /\ inituvm.dir = 2 /\ inituvm.kern = 3
    BY <1>0, NoSpaceIs DEF inituvm, Space, Pte
  <1>3. \A t \in Table : inituvm.tab[t] = IF t = 0 THEN 4 ELSE Null
    BY <1>1, NoSpaceIs DEF inituvm, Space
  <1>4. \A b \in VPage : inituvm.pte[b].page = IF b = 0 THEN 5 ELSE Null
    BY <1>1, NoSpaceIs DEF inituvm, Space, Pte
  <1>5. ASSUME NEW b \in VPage, inituvm.pte[b].page = Null PROVE inituvm.pte[b].u = FALSE
    <2>1. b # 0
      BY <1>0, <1>4, <1>5
    <2>2. inituvm.pte[b] = NoSpace.pte[b]
      BY <2>1, NoSpaceIs DEF inituvm, Space
    <2> QED BY <2>2, NoSpaceIs
  <1>6. ASSUME NEW b \in VPage PROVE b * PGSIZE < PGSIZE <=> b = 0
    <2>1. PGSIZE \in Nat /\ PGSIZE > 0 /\ b \in Nat
      BY MemoryAssumption, PageNumbers
    <2>2. CASE b = 0
      BY <2>1, <2>2
    <2>3. CASE b # 0
      <3>1. 1 * PGSIZE <= b * PGSIZE /\ b * PGSIZE \in Nat
        BY <2>1, <2>3, MulMono
      <3> QED BY <2>1, <2>3, <3>1
    <2> QED BY <2>2, <2>3
  <1>7. Pages(inituvm) = Below(PGSIZE)
    BY <1>0, <1>4, <1>6 DEF Pages, Below
  <1> QED BY <1>2, <1>3, <1>4, <1>5, <1>7 DEF Clean

LEMMA InitOwns ==
    ASSUME MemInit
    PROVE  Own(Place, OwnMap, freelist, lost)
  <1>0. InitProc \in Proc /\ NPAGES \in Nat /\ NPAGES >= 5
    BY MemoryAssumption
  <1>1. /\ \A g \in Page : freelist[g] = IF g > 5 THEN 1 ELSE 0
        /\ lost = {} /\ \A q \in Proc : call[q].held = Null /\ kstack[q] = IF q = InitProc THEN 1 ELSE Null
    BY IdleIs DEF MemInit
  <1>2. \A q \in Proc : vm[q] = (IF q = InitProc THEN inituvm ELSE NoSpace) /\ work[q] = NoSpace
    BY DEF MemInit
  <1>3. \A q \in Proc : OwnMap[StackAt(q)] = (IF q = InitProc THEN 1 ELSE Null) /\ OwnMap[HeldAt(q)] = Null
    BY <1>1, MapIs
  <1>4. \A q \in Proc, e \in Entry : OwnMap[SpaceAt("work", q, e)] = Null
                                     /\ OwnMap[SpaceAt("vm", q, e)] = IF q = InitProc THEN EntryOf(inituvm, e) ELSE Null
    BY <1>2, MapIs, NoSpaceIs DEF SpaceOf
  <1>5. PICK d, k, t, b : d = SpaceAt("vm", InitProc, Dir) /\ k = SpaceAt("vm", InitProc, Kern)
                          /\ t = SpaceAt("vm", InitProc, Tab(0)) /\ b = SpaceAt("vm", InitProc, PteOf(0))
    OBVIOUS
  <1>6. /\ EntryOf(inituvm, Dir) = 2 /\ EntryOf(inituvm, Kern) = 3 /\ EntryOf(inituvm, Tab(0)) = 4
        /\ EntryOf(inituvm, PteOf(0)) = 5
        /\ \A e \in Entry : EntryOf(inituvm, e) = Null \/ e = Dir \/ e = Kern \/ e = Tab(0) \/ e = PteOf(0)
    <2>1. 0 \in Table /\ 0 \in VPage
      BY PageNumbers
    <2>2. /\ EntryOf(inituvm, Dir) = inituvm.dir /\ EntryOf(inituvm, Kern) = inituvm.kern
          /\ \A u \in Table : EntryOf(inituvm, Tab(u)) = inituvm.tab[u]
          /\ \A a \in VPage : EntryOf(inituvm, PteOf(a)) = inituvm.pte[a].page
      BY EntryIs
    <2>3. ASSUME NEW e \in Entry PROVE EntryOf(inituvm, e) = Null \/ e = Dir \/ e = Kern \/ e = Tab(0) \/ e = PteOf(0)
      <3>1. CASE \E u \in Table : e = Tab(u)
        BY <2>2, <3>1, InitSpace
      <3>2. CASE \E a \in VPage : e = PteOf(a)
        BY <2>2, <3>2, InitSpace
      <3> QED BY <3>1, <3>2, Entries
    <2> QED BY <2>1, <2>2, <2>3, InitSpace
  <1>7. /\ d \in Place /\ k \in Place /\ t \in Place /\ b \in Place /\ StackAt(InitProc) \in Place
        /\ OwnMap[d] = 2 /\ OwnMap[k] = 3 /\ OwnMap[t] = 4 /\ OwnMap[b] = 5 /\ OwnMap[StackAt(InitProc)] = 1
    BY <1>0, <1>3, <1>4, <1>5, <1>6, Places, Entries, PageNumbers
  <1>8. ASSUME NEW x \in Place, OwnMap[x] # Null
        PROVE  x \in {d, k, t, b, StackAt(InitProc)}
    <2>1. CASE \E q \in Proc : x = StackAt(q) \/ x = HeldAt(q)
      BY <1>3, <1>8, <2>1
    <2>2. CASE \E q \in Proc, e \in Entry : x = SpaceAt("work", q, e)
      BY <1>4, <1>8, <2>2
    <2>3. CASE \E q \in Proc, e \in Entry : x = SpaceAt("vm", q, e)
      BY <1>4, <1>5, <1>6, <1>8, <2>3
    <2> QED BY <2>1, <2>2, <2>3, Places
  <1>9. \A x, y \in Place : OwnMap[x] # Null /\ OwnMap[x] = OwnMap[y] => x = y
    BY <1>7, <1>8
  <1>10. \A x \in Place : OwnMap[x] # Null => OwnMap[x] \in 1..5
    BY <1>7, <1>8
  <1>11. \A g \in 1..5 : g \in Page /\ freelist[g] = 0 /\ \E x \in Place : OwnMap[x] = g
    <2>1. \A g \in 1..5 : g = 1 \/ g = 2 \/ g = 3 \/ g = 4 \/ g = 5
      OBVIOUS
    <2>2. \A g \in 1..5 : \E x \in Place : OwnMap[x] = g
      BY <1>7, <2>1
    <2>3. \A g \in 1..5 : g \in Page /\ freelist[g] = 0
      BY <1>0, <1>1 DEF Page
    <2> QED BY <2>2, <2>3
  <1>12. \A g \in Page : freelist[g] \in {0, 1} /\ (freelist[g] = 0 => g \in 1..5)
    BY <1>0, <1>1 DEF Page
  <1> QED BY <1>1, <1>9, <1>10, <1>11, <1>12 DEF Own

LEMMA MemInitInv == MemInit => MemInv
  <1> SUFFICES ASSUME MemInit PROVE MemInv
    OBVIOUS
  <1>0. InitProc \in Proc /\ PGSIZE \in Nat /\ 1 \in Page0 /\ Null \in Page0 /\ 1 # Null /\ 2 # Null
    BY MemoryAssumption DEF Page0, Page, Null
  <1>1. /\ \A q \in Proc : call[q] = Idle /\ work[q] = NoSpace
        /\ \A q \in Proc : vm[q] = IF q = InitProc THEN inituvm ELSE NoSpace
        /\ \A q \in Proc : sz[q] = IF q = InitProc THEN PGSIZE ELSE 0
        /\ \A q \in Proc : state[q] = IF q = InitProc THEN "RUNNING" ELSE "UNUSED"
        /\ \A q \in Proc : kstack[q] = IF q = InitProc THEN 1 ELSE Null
    BY DEF MemInit
  <1>2. MemTypes
    BY <1>0, InitSpace, NoSpaceIs, IdleIs DEF MemInit, MemTypes
  <1>3. PGSIZE <= KERNBASE /\ KERNBASE \in Nat
    <2>1. 0 * PGSIZE < KERNBASE /\ KERNBASE \in Nat
      BY PageNumbers
    <2>2. PICK n, P : n = NPTENTRIES * NPDENTRIES /\ P = PGSIZE /\ n \in Nat /\ P \in Nat /\ KERNBASE = n * P
      BY MemoryAssumption DEF KERNBASE
    <2>3. n # 0
      BY <2>1, <2>2
    <2>4. 1 * P <= n * P
      BY <2>2, <2>3, MulMono
    <2> QED BY <2>1, <2>2, <2>4
  <1>4. ASSUME NEW q \in Proc PROVE CallOK(call[q], work[q], vm[q], sz[q])
    <2>1. CASE q = InitProc
      BY <1>0, <1>1, <1>3, <2>1, InitSpace, BackToUser
    <2>2. CASE q # InitProc
      BY <1>1, <1>3, <2>2, NoSpaceIs, BackToUser
    <2> QED BY <2>1, <2>2
  <1>5. ASSUME NEW q \in Proc PROVE SlotOK(q) /\ ChildOK(q)
    BY <1>0, <1>1, InitSpace, IdleIs DEF SlotOK, ChildOK
  <1>6. Apart
    BY <1>1, IdleIs DEF Apart
  <1> QED BY <1>2, <1>4, <1>5, <1>6, InitOwns DEF MemInv

LEMMA MemNextInv == MemInv /\ [MemNext]_memvars => MemInv'
  <1> SUFFICES ASSUME MemInv, [MemNext]_memvars PROVE MemInv'
    OBVIOUS
  <1>1. CASE UNCHANGED memvars
    BY <1>1, SameMemory DEF memvars
  <1>2. ASSUME NEW p \in Proc, Begin(p) PROVE MemInv'
    <2>1. ASSUME NEW a \in VPage, Store(p, a) PROVE MemInv'
      BY <2>1, SameMemory DEF Store
    <2> QED BY <1>2, <2>1, ForkStartInv, WaitStartInv, ExecStartInv, SbrkGrowInv, SbrkShrinkInv, ExitInv DEF Begin
  <1>3. ASSUME NEW p \in Proc, Build(p) PROVE MemInv'
    BY <1>3, KstackInv, SetupDirInv, SetupKernInv, GrowPageInv, GrowTableInv DEF Build
  <1>4. ASSUME NEW p \in Proc, TearDown(p) PROVE MemInv'
    BY <1>4, DeallocInv, UndoDoneInv, DropInv, ShrinkDoneInv, FreeUserInv, FreeTableInv, FreeDirInv DEF TearDown
  <1>5. ASSUME NEW p \in Proc, Finish(p) PROVE MemInv'
    BY <1>5, FailedInv, ForkDoneInv, ForkFullInv, SbrkDoneInv, ExecLoadInv, ExecCommitInv, DoneInv DEF Finish, Exec
  <1> QED BY <1>1, <1>2, <1>3, <1>4, <1>5 DEF MemNext

\* The places that hold a page.
LEMMA OwnersAre ==
    ASSUME MemInv, NEW g \in Page
    PROVE  Owners(g, {x \in Place : PageAt(x) # Null}) = 1
  <1>0. PICK F : F = {x \in Place : PageAt(x) # Null}
    OBVIOUS
  <1>1. PICK X, L : X = {x \in F : PageAt(x) = g} /\ L = {g} \cap lost
    OBVIOUS
  <1>2. /\ \A x \in Place : x \in X <=> OwnMap[x] = g
        /\ X \subseteq Place
    BY <1>0, <1>1 DEF OwnMap, Page, Null
  <1>3. g # Null /\ Own(Place, OwnMap, freelist, lost)
    BY DEF MemInv, Page, Null
  <1>4. Owners(g, F) = (freelist[g] + Cardinality(X)) + Cardinality(L)
    BY <1>1 DEF Owners
  <1>5. L = {} \/ L = {g}
    BY <1>1
  <1>6. Cardinality(L) = IF g \in lost THEN 1 ELSE 0
    <2>1. CASE g \in lost
      <3>1. L = {g}
        BY <1>1, <2>1
      <3> QED BY <2>1, <3>1, FS_Singleton
    <2>2. CASE g \notin lost
      <3>1. L = {}
        BY <1>1, <2>2
      <3> QED BY <2>2, <3>1, FS_EmptySet
    <2> QED BY <2>1, <2>2
  <1>7. CASE freelist[g] # 0 \/ g \in lost
    <2>1. X = {}
      BY <1>1, <1>2, <1>3, <1>7 DEF Own
    <2>2. Cardinality(X) = 0
      BY <2>1, FS_EmptySet
    <2>3. (freelist[g] = 1 /\ g \notin lost) \/ (freelist[g] = 0 /\ g \in lost)
      BY <1>3, <1>7 DEF Own
    <2> QED BY <1>0, <1>4, <1>6, <2>2, <2>3
  <1>8. CASE freelist[g] = 0 /\ g \notin lost
    <2>1. PICK x \in Place : OwnMap[x] = g
      BY <1>3, <1>8 DEF Own
    <2>2. X = {x}
      <3>1. \A y \in X : y = x
        BY <1>1, <1>2, <1>3, <2>1 DEF Own
      <3>2. x \in X
        BY <1>2, <2>1
      <3> QED BY <3>1, <3>2
    <2>3. Cardinality(X) = 1
      BY <2>2, FS_Singleton
    <2> QED BY <1>0, <1>4, <1>6, <1>8, <2>3
  <1> QED BY <1>7, <1>8

LEMMA SizesAre ==
    ASSUME MemInv
    PROVE  SizeExact
  <1>1. ASSUME NEW p \in Proc, call[p].op = "none"
        PROVE  /\ work[p] = NoSpace /\ call[p].held = Null
               /\ Pages(vm[p]) = {} \/ Pages(vm[p]) = Below(sz[p])
    <2>1. CallOK(call[p], work[p], vm[p], sz[p])
      BY DEF MemInv
    <2>2. call[p] = Idle
      BY <1>1, <2>1 DEF CallOK
    <2> QED BY <1>1, <2>1, <2>2, IdleIs DEF CallOK, WorkOK, NoWork, SizeOK
  <1> QED BY <1>1 DEF SizeExact, Pages, Below

\* MemInv holds in every state: it says which pages the call of each process
\* has got to, so that the entries that fork(), exec(), growproc() and
\* freevm() fill or free are the ones the code expects.
THEOREM MemoryInvariance == MemSpec => []MemInv
  BY MemInitInv, MemNextInv, PTL DEF MemSpec

\* No page is ever on the free list and in use, in two page tables, or in
\* none: whichever kalloc() fails in fork(), exec() or sbrk(), kfree() runs
\* once for every page taken (kalloc.c, vm.c, exec.c).
THEOREM PagesHaveOneOwner == MemSpec => []OneOwner
  <1>1. MemInv => OneOwner
    BY OwnersAre DEF OneOwner
  <1> QED BY <1>1, MemoryInvariance, PTL

\* A process between two calls has exactly the pages of its size, or none,
\* and no call leaves a page or half an address space behind.
THEOREM SizesAreExact == MemSpec => []SizeExact
  BY SizesAre, MemoryInvariance, PTL

-----------------------------------------------------------------------------
(* Contents of pages.  The invariant says what the pages of an unfinished  *)
(* address space hold: those of a fork() what the parent's hold, the       *)
(* segment of an exec() the program, its stack and new pages zeroes.       *)

PrivOK(k, w, v, m) ==
    /\ k.op = "fork" => 0 \in Pages(v)
    /\ k.op = "fork" /\ k.at \in {"grow", "table"} =>
          \A b \in Pages(w) : m[w.pte[b].page] = m[v.pte[b].page] /\ w.pte[b].u = v.pte[b].u
    /\ k.at = "table" => m[k.held] = IF k.op = "fork" THEN m[v.pte[k.a].page] ELSE Zero
    /\ k.op \in {"exec", "stack"} /\ k.at \in {"grow", "table"} => \A b \in Pages(w) : w.pte[b].u = TRUE
    /\ k.op = "stack" => \E n \in Nat : k.old = n * PGSIZE /\ k.new = n * PGSIZE + 2 * PGSIZE /\ k.new < KERNBASE
    /\ k.op = "stack" /\ k.at \in {"grow", "table"} =>
          /\ ~(k.a * PGSIZE < k.old)
          /\ \A b \in Pages(w) : m[w.pte[b].page] = IF b * PGSIZE < k.old THEN 1 ELSE Zero

Priv == mem \in [Page -> {0, 1}] /\ \A p \in Proc : PrivOK(call[p], work[p], vm[p], mem)

\* What an address space shows.
Img(v, m) == [b \in Pages(v) |-> [val |-> m[v.pte[b].page], u |-> v.pte[b].u]]

LEMMA ImageIs == \A p \in Proc : Image(p) = Img(vm[p], mem) /\ Image(p)' = Img(vm'[p], mem')
  BY DEF Image, Img, Pages

\* Pages that no program sees and that belong to no other call than p's.
Loose(p, g) ==
    \/ freelist[g] > 0 \/ call[p].held = g
    \/ \E q \in Proc : kstack[q] = g
    \/ \E e \in Entry : EntryOf(work[p], e) = g

OnlyLoose(p) == \A g \in Page : mem'[g] = mem[g] \/ Loose(p, g)

\* The step changes nothing in the memory, or in the unfinished memory, of q.
VmSame(q) == \A b \in Pages(vm[q]) : mem'[vm[q].pte[b].page] = mem[vm[q].pte[b].page]
WorkSame(q) ==
    /\ \A b \in Pages(work[q]) : mem'[work[q].pte[b].page] = mem[work[q].pte[b].page]
    /\ call[q].held # Null => mem'[call[q].held] = mem[call[q].held]

LEMMA PteIn ==
    ASSUME NEW s \in Space, NEW b \in Pages(s)
    PROVE  b \in VPage /\ s.pte[b].page \in Page /\ s.pte[b].page # Null /\ s.pte[b].u \in BOOLEAN
  BY DEF Pages, Space, Pte, Page0

\* Every page has one place.
LEMMA OnePlace ==
    ASSUME MemInv, NEW x \in Place, NEW y \in Place, OwnMap[x] # Null, OwnMap[x] = OwnMap[y]
    PROVE  x = y
  BY DEF MemInv, Own

LEMMA NotFree ==
    ASSUME MemInv, NEW x \in Place, OwnMap[x] # Null
    PROVE  ~(freelist[OwnMap[x]] > 0)
  BY DEF MemInv, Own

LEMMA VmPlace ==
    ASSUME MemInv, NEW q \in Proc, NEW b \in Pages(vm[q])
    PROVE  /\ SpaceAt("vm", q, PteOf(b)) \in Place /\ PteOf(b) \in Entry
           /\ OwnMap[SpaceAt("vm", q, PteOf(b))] = vm[q].pte[b].page
           /\ vm[q].pte[b].page \in Page /\ vm[q].pte[b].page # Null
  <1>1. vm[q] \in Space
    BY DEF MemInv, MemTypes
  <1>2. b \in VPage /\ vm[q].pte[b].page \in Page /\ vm[q].pte[b].page # Null
    BY <1>1, PteIn
  <1>3. PteOf(b) \in Entry /\ EntryOf(vm[q], PteOf(b)) = vm[q].pte[b].page
    BY <1>2, Entries, EntryIs
  <1>4. SpaceAt("vm", q, PteOf(b)) \in Place
    BY <1>3, Places
  <1>5. OwnMap[SpaceAt("vm", q, PteOf(b))] = EntryOf(vm[q], PteOf(b))
    BY <1>3, MapIs DEF SpaceOf
  <1> QED BY <1>2, <1>3, <1>4, <1>5

LEMMA WorkPlace ==
    ASSUME MemInv, NEW q \in Proc, NEW b \in Pages(work[q])
    PROVE  /\ SpaceAt("work", q, PteOf(b)) \in Place /\ PteOf(b) \in Entry
           /\ OwnMap[SpaceAt("work", q, PteOf(b))] = work[q].pte[b].page
           /\ work[q].pte[b].page \in Page /\ work[q].pte[b].page # Null
  <1>1. work[q] \in Space
    BY DEF MemInv, MemTypes
  <1>2. b \in VPage /\ work[q].pte[b].page \in Page /\ work[q].pte[b].page # Null
    BY <1>1, PteIn
  <1>3. PteOf(b) \in Entry /\ EntryOf(work[q], PteOf(b)) = work[q].pte[b].page
    BY <1>2, Entries, EntryIs
  <1>4. SpaceAt("work", q, PteOf(b)) \in Place
    BY <1>3, Places
  <1>5. OwnMap[SpaceAt("work", q, PteOf(b))] = EntryOf(work[q], PteOf(b))
    BY <1>3, MapIs DEF SpaceOf
  <1> QED BY <1>2, <1>3, <1>4, <1>5

LEMMA HeldPlace ==
    ASSUME MemInv, NEW q \in Proc, call[q].held # Null
    PROVE  HeldAt(q) \in Place /\ OwnMap[HeldAt(q)] = call[q].held /\ call[q].held \in Page
  <1>1. call[q] \in Call
    BY DEF MemInv, MemTypes
  <1>2. call[q].held \in Page
    BY <1>1, CallFields DEF Page0
  <1> QED BY <1>2, Places, MapIs

\* A loose page of p is nowhere else.
LEMMA LooseElsewhere ==
    ASSUME MemInv, NEW p \in Proc, NEW g \in Page, Loose(p, g), NEW x \in Place, OwnMap[x] = g
    PROVE  \/ x = HeldAt(p) \/ (\E q \in Proc : x = StackAt(q))
           \/ \E e \in Entry : x = SpaceAt("work", p, e)
  <1>0. g # Null
    BY DEF Page, Null
  <1>1. ~(freelist[g] > 0)
    BY <1>0, NotFree
  <1>2. CASE call[p].held = g
    <2>1. HeldAt(p) \in Place /\ OwnMap[HeldAt(p)] = g
      BY <1>0, <1>2, HeldPlace
    <2> QED BY <1>0, <2>1, OnePlace
  <1>3. CASE \E q \in Proc : kstack[q] = g
    <2>1. PICK q \in Proc : kstack[q] = g
      BY <1>3
    <2>2. StackAt(q) \in Place /\ OwnMap[StackAt(q)] = g
      BY <2>1, Places, MapIs
    <2>3. x = StackAt(q)
      BY <1>0, <2>2, OnePlace
    <2> QED BY <2>3
  <1>4. CASE \E e \in Entry : EntryOf(work[p], e) = g
    <2>1. PICK e \in Entry : EntryOf(work[p], e) = g
      BY <1>4
    <2>2. SpaceAt("work", p, e) \in Place
      BY Places
    <2>3. OwnMap[SpaceAt("work", p, e)] = g
      BY <2>1, MapIs DEF SpaceOf
    <2>4. x = SpaceAt("work", p, e)
      BY <1>0, <2>2, <2>3, OnePlace
    <2> QED BY <2>4
  <1> QED BY <1>1, <1>2, <1>3, <1>4 DEF Loose

\* A step that writes loose pages only leaves the memory of all programs and
\* of the other calls alone.
LEMMA LooseUnseen ==
    ASSUME MemInv, NEW p \in Proc, OnlyLoose(p)
    PROVE  (\A q \in Proc : VmSame(q)) /\ \A q \in Proc : q # p => WorkSame(q)
  <1>1. ASSUME NEW q \in Proc, NEW b \in Pages(vm[q])
        PROVE  mem'[vm[q].pte[b].page] = mem[vm[q].pte[b].page]
    <2>1. PICK x, g : x = SpaceAt("vm", q, PteOf(b)) /\ g = vm[q].pte[b].page
      OBVIOUS
    <2>2. x \in Place /\ PteOf(b) \in Entry /\ OwnMap[x] = g /\ g \in Page
      BY <1>1, <2>1, VmPlace
    <2>3. x # HeldAt(p) /\ (\A r \in Proc : x # StackAt(r)) /\ \A e \in Entry : x # SpaceAt("work", p, e)
      <3>1. PteOf(b) \in Entry
        BY <2>2
      <3> QED BY <2>1, <3>1, Places
    <2>4. ~Loose(p, g)
      BY <2>2, <2>3, LooseElsewhere
    <2> QED BY <2>1, <2>2, <2>4 DEF OnlyLoose
  <1>2. ASSUME NEW q \in Proc, q # p, NEW b \in Pages(work[q])
        PROVE  mem'[work[q].pte[b].page] = mem[work[q].pte[b].page]
    <2>1. PICK x, g : x = SpaceAt("work", q, PteOf(b)) /\ g = work[q].pte[b].page
      OBVIOUS
    <2>2. x \in Place /\ PteOf(b) \in Entry /\ OwnMap[x] = g /\ g \in Page
      BY <1>2, <2>1, WorkPlace
    <2>3. x # HeldAt(p) /\ (\A r \in Proc : x # StackAt(r)) /\ \A e \in Entry : x # SpaceAt("work", p, e)
      <3>1. PteOf(b) \in Entry
        BY <2>2
      <3> QED BY <1>2, <2>1, <3>1, Places
    <2>4. ~Loose(p, g)
      BY <2>2, <2>3, LooseElsewhere
    <2> QED BY <2>1, <2>2, <2>4 DEF OnlyLoose
  <1>3. ASSUME NEW q \in Proc, q # p, call[q].held # Null
        PROVE  mem'[call[q].held] = mem[call[q].held]
    <2>1. PICK x, g : x = HeldAt(q) /\ g = call[q].held
      OBVIOUS
    <2>2. x \in Place /\ OwnMap[x] = g /\ g \in Page
      BY <1>3, <2>1, HeldPlace
    <2>3. x # HeldAt(p) /\ (\A r \in Proc : x # StackAt(r)) /\ \A e \in Entry : x # SpaceAt("work", p, e)
      BY <1>3, <2>1, Places
    <2>4. ~Loose(p, g)
      BY <2>2, <2>3, LooseElsewhere
    <2> QED BY <2>1, <2>2, <2>4 DEF OnlyLoose
  <1> QED BY <1>1, <1>2, <1>3 DEF VmSame, WorkSame

\* The copy of a fork() goes along the pages of the parent.
LEMMA CopyAlong ==
    ASSUME MemInv, NEW p \in Proc, NEW k, NEW w, NEW v, NEW z, Names(p, k, w, v, z),
           k.op = "fork", 0 \in Pages(v)
    PROVE  /\ Pages(v) = Below(z)
           /\ k.at \in {"grow", "table"} => Pages(w) \subseteq Pages(v)
           /\ k.at \in {"grow", "table"} /\ k.a * PGSIZE < k.new => k.a \in Pages(v)
  <1>1. k \in Call /\ CallOK(k, w, v, z) /\ z \in Nat
    BY DEF Names
  <1>2. Pages(v) = Below(z) /\ k.new = z /\ z <= KERNBASE
    BY <1>1 DEF CallOK, SizeOK
  <1>3. k.a \in Nat
    BY <1>1, CallFields
  <1>4. ASSUME k.at \in {"grow", "table"}, NEW b \in Pages(w) PROVE b \in Pages(v)
    <2>1. Pages(w) = {c \in VPage : c < k.a} /\ \A c \in 0..(k.a - 1) : c * PGSIZE < k.new
      BY <1>1, <1>4 DEF CallOK, GrowOK
    <2>2. b \in VPage /\ b \in Nat /\ b < k.a
      BY <1>4, <2>1, PageNumbers
    <2>3. b \in 0..(k.a - 1)
      BY <1>3, <2>2
    <2> QED BY <1>2, <2>1, <2>2, <2>3 DEF Below
  <1>5. ASSUME k.a * PGSIZE < k.new PROVE k.a \in Pages(v)
    <2>1. PICK a : a = k.a
      OBVIOUS
    <2>2. a * PGSIZE \in Nat /\ KERNBASE \in Nat
      BY <1>3, <2>1, PageNumbers, MemoryAssumption
    <2>3. a * PGSIZE < z /\ a * PGSIZE < KERNBASE
      BY <1>1, <1>2, <1>5, <2>1, <2>2
    <2>4. a \in VPage
      BY <1>3, <2>1, <2>3, PageNumbers
    <2> QED BY <1>2, <2>1, <2>3, <2>4 DEF Below
  <1> QED BY <1>2, <1>4, <1>5

\* A step that leaves call and memory of q alone.
LEMMA PrivKept ==
    ASSUME MemInv, Priv, NEW q \in Proc, VmSame(q), WorkSame(q)
    PROVE  PrivOK(call[q], work[q], vm[q], mem')
  <1>1. PICK k, w, v, z : Names(q, k, w, v, z)
    BY Named
  <1>2. k = call[q] /\ w = work[q] /\ v = vm[q] /\ CallOK(k, w, v, z) /\ PrivOK(k, w, v, mem)
    BY <1>1, StepIs DEF Priv
  <1>3. /\ \A b \in Pages(v) : mem'[v.pte[b].page] = mem[v.pte[b].page]
        /\ \A b \in Pages(w) : mem'[w.pte[b].page] = mem[w.pte[b].page]
        /\ k.held # Null => mem'[k.held] = mem[k.held]
    BY <1>2 DEF VmSame, WorkSame
  <1>4. /\ k.op = "fork" => 0 \in Pages(v)
        /\ k.op \in {"exec", "stack"} /\ k.at \in {"grow", "table"} => \A b \in Pages(w) : w.pte[b].u = TRUE
        /\ k.op = "stack" => \E n \in Nat : k.old = n * PGSIZE /\ k.new = n * PGSIZE + 2 * PGSIZE /\ k.new < KERNBASE
        /\ k.op = "stack" /\ k.at \in {"grow", "table"} => ~(k.a * PGSIZE < k.old)
    BY <1>2 DEF PrivOK
  <1>5. ASSUME k.op = "fork", k.at \in {"grow", "table"}, NEW b \in Pages(w)
        PROVE  mem'[w.pte[b].page] = mem'[v.pte[b].page] /\ w.pte[b].u = v.pte[b].u
    <2>1. b \in Pages(v)
      BY <1>1, <1>4, <1>5, CopyAlong
    <2>2. mem[w.pte[b].page] = mem[v.pte[b].page] /\ w.pte[b].u = v.pte[b].u
      BY <1>2, <1>5 DEF PrivOK
    <2> QED BY <1>3, <1>5, <2>1, <2>2
  <1>6. ASSUME k.at = "table"
        PROVE  mem'[k.held] = IF k.op = "fork" THEN mem'[v.pte[k.a].page] ELSE Zero
    <2>1. k.held # Null /\ k.a * PGSIZE < k.new
      BY <1>2, <1>6 DEF CallOK, HeldOK, GrowOK
    <2>2. mem[k.held] = IF k.op = "fork" THEN mem[v.pte[k.a].page] ELSE Zero
      BY <1>2, <1>6 DEF PrivOK
    <2>3. k.op = "fork" => k.a \in Pages(v)
      BY <1>1, <1>4, <1>6, <2>1, CopyAlong
    <2> QED BY <1>3, <2>1, <2>2, <2>3
  <1>7. ASSUME k.op = "stack", k.at \in {"grow", "table"}, NEW b \in Pages(w)
        PROVE  mem'[w.pte[b].page] = IF b * PGSIZE < k.old THEN 1 ELSE Zero
    BY <1>2, <1>3, <1>7 DEF PrivOK
  <1>8. PrivOK(k, w, v, mem')
    BY <1>4, <1>5, <1>6, <1>7 DEF PrivOK
  <1> QED BY <1>2, <1>8

Imgs == [q \in Proc |-> Image(q)]

LEMMA MemSame ==
    ASSUME MemInv, mem' = mem
    PROVE  \A q \in Proc : OnlyLoose(q) /\ VmSame(q) /\ WorkSame(q)
  BY DEF OnlyLoose, VmSame, WorkSame

\* The page of kalloc() is nobody's.
LEMMA KallocFresh ==
    ASSUME MemInv, Priv, NEW f \in {0, 1}, Kalloc(f)
    PROVE  /\ mem' \in [Page -> {0, 1}] /\ First \in Page /\ First # Null /\ mem'[First] = f
           /\ \A q \in Proc : OnlyLoose(q) /\ VmSame(q) /\ WorkSame(q)
  <1>1. First \in Page /\ freelist[First] > 0
    BY KallocIs DEF MemInv, MemTypes
  <1>2. First # Null
    BY <1>1 DEF Page, Null
  <1>3. mem \in [Page -> {0, 1}] /\ mem' = [mem EXCEPT ![First] = f]
    BY DEF Priv, Kalloc
  <1>4. /\ mem' \in [Page -> {0, 1}] /\ mem'[First] = f
        /\ \A g \in Page : g # First => mem'[g] = mem[g]
    BY <1>1, <1>3
  <1>5. \A q \in Proc : OnlyLoose(q)
    BY <1>1, <1>4 DEF OnlyLoose, Loose
  <1>6. ASSUME NEW q \in Proc PROVE VmSame(q)
    <2>1. ASSUME NEW b \in Pages(vm[q]) PROVE vm[q].pte[b].page \in Page /\ vm[q].pte[b].page # First
      BY <1>1, <2>1, VmPlace, NotFree
    <2> QED BY <1>4, <2>1 DEF VmSame
  <1>7. ASSUME NEW q \in Proc PROVE WorkSame(q)
    <2>1. ASSUME NEW b \in Pages(work[q]) PROVE work[q].pte[b].page \in Page /\ work[q].pte[b].page # First
      BY <1>1, <2>1, WorkPlace, NotFree
    <2>2. call[q].held # Null => call[q].held \in Page /\ call[q].held # First
      BY <1>1, HeldPlace, NotFree
    <2> QED BY <1>4, <2>1, <2>2 DEF WorkSame
  <1> QED BY <1>1, <1>2, <1>4, <1>5, <1>6, <1>7

LEMMA KfreeLoose ==
    ASSUME MemInv, Priv, NEW p \in Proc, NEW g \in Page, Loose(p, g), Kfree(g)
    PROVE  mem' \in [Page -> {0, 1}] /\ OnlyLoose(p)
  <1>1. mem \in [Page -> {0, 1}] /\ mem' = [mem EXCEPT ![g] = 1]
    BY DEF Priv, Kfree, Junk
  <1> QED BY <1>1 DEF OnlyLoose

\* The calls in their other stages.
LEMMA PrivAway ==
    ASSUME NEW k, NEW w, NEW v, NEW m, k.at \notin {"grow", "table"},
           k.op = "fork" => 0 \in Pages(v),
           k.op = "stack" => \E n \in Nat : k.old = n * PGSIZE /\ k.new = n * PGSIZE + 2 * PGSIZE /\ k.new < KERNBASE
    PROVE  PrivOK(k, w, v, m)
  BY DEF PrivOK

LEMMA PrivGoesOn ==
    ASSUME Priv, NEW p \in Proc, NEW k, k = call[p], NEW k2, k2.op = k.op, k2.old = k.old, k2.new = k.new,
           k2.at \notin {"grow", "table"}, NEW w, NEW m
    PROVE  PrivOK(k2, w, vm[p], m)
  <1>1. PrivOK(k, work[p], vm[p], mem)
    BY DEF Priv
  <1>2. /\ k.op = "fork" => 0 \in Pages(vm[p])
        /\ k.op = "stack" => \E n \in Nat : k.old = n * PGSIZE /\ k.new = n * PGSIZE + 2 * PGSIZE /\ k.new < KERNBASE
    BY <1>1 DEF PrivOK
  <1> QED BY <1>2, PrivAway

LEMMA PrivIdle ==
    ASSUME NEW w, NEW v, NEW m PROVE PrivOK(Idle, w, v, m)
  BY IdleIs, PrivAway

LEMMA ImagesSame ==
    ASSUME vm' = vm, \A q \in Proc : VmSame(q)
    PROVE  Imgs' = Imgs
  <1>1. ASSUME NEW q \in Proc PROVE Image(q)' = Image(q)
    <2>1. Image(q) = Img(vm[q], mem) /\ Image(q)' = Img(vm[q], mem')
      BY ImageIs
    <2>2. \A b \in Pages(vm[q]) : mem'[vm[q].pte[b].page] = mem[vm[q].pte[b].page]
      BY DEF VmSame
    <2> QED BY <2>1, <2>2 DEF Img
  <1> QED BY <1>1 DEF Imgs

\* A step of p that no program sees.
LEMMA StepQuiet ==
    ASSUME MemInv, Priv, NEW p \in Proc, OnlyLoose(p), mem' \in [Page -> {0, 1}], vm' = vm,
           NEW k2, NEW w2, call' = [call EXCEPT ![p] = k2], work' = [work EXCEPT ![p] = w2],
           PrivOK(k2, w2, vm[p], mem')
    PROVE  Priv' /\ Imgs' = Imgs
  <1>1. (\A q \in Proc : VmSame(q)) /\ \A q \in Proc : q # p => WorkSame(q)
    BY LooseUnseen
  <1>2. /\ \A q \in Proc : call'[q] = IF q = p THEN k2 ELSE call[q]
        /\ \A q \in Proc : work'[q] = IF q = p THEN w2 ELSE work[q]
    BY DEF MemInv, MemTypes
  <1>3. ASSUME NEW q \in Proc PROVE PrivOK(call'[q], work'[q], vm'[q], mem')
    <2>1. CASE q = p
      BY <1>2, <2>1
    <2>2. CASE q # p
      <3>1. PrivOK(call[q], work[q], vm[q], mem')
        BY <1>1, <2>2, PrivKept
      <3> QED BY <1>2, <2>2, <3>1
    <2> QED BY <2>1, <2>2
  <1>4. Priv'
    BY <1>3 DEF Priv, Page
  <1> QED BY <1>1, <1>4, ImagesSame

\* Steps that write no page and leave the address spaces alone.
LEMMA StepStill ==
    ASSUME MemInv, Priv, NEW p \in Proc, mem' = mem, vm' = vm, work' = work,
           NEW k2, call' = [call EXCEPT ![p] = k2], PrivOK(k2, work[p], vm[p], mem)
    PROVE  Priv' /\ Imgs' = Imgs
  <1>1. mem' \in [Page -> {0, 1}] /\ OnlyLoose(p)
    BY MemSame DEF Priv
  <1>2. PICK w2 : w2 = work[p]
    OBVIOUS
  <1>3. work' = [work EXCEPT ![p] = w2] /\ PrivOK(k2, w2, vm[p], mem')
    BY <1>2 DEF MemInv, MemTypes
  <1> QED BY <1>1, <1>3, StepQuiet

LEMMA Running0 ==
    ASSUME MemInv, NEW p \in Proc, Running(p) PROVE 0 \in Pages(vm[p])
  BY PageNumbers DEF Running, Pages

LEMMA ForkStartSees ==
    ASSUME MemInv, Priv, NEW p \in Proc, NEW c \in Proc, ForkStart(p, c)
    PROVE  Priv' /\ Imgs' = Imgs
  <1>1. PICK k2 : k2 = [Idle EXCEPT !.op = "fork", !.at = "kstack", !.child = c, !.new = sz[p]]
    OBVIOUS
  <1>2. k2.op = "fork" /\ k2.at = "kstack"
    BY <1>1 DEF Idle
  <1>3. 0 \in Pages(vm[p])
    BY Running0 DEF ForkStart
  <1>4. PrivOK(k2, work[p], vm[p], mem)
    BY <1>2, <1>3, PrivAway
  <1>5. call' = [call EXCEPT ![p] = k2] /\ mem' = mem /\ vm' = vm /\ work' = work
    BY <1>1 DEF ForkStart
  <1> QED BY <1>4, <1>5, StepStill

LEMMA ExecStartSees ==
    ASSUME MemInv, Priv, NEW p \in Proc, NEW n \in ExecSizes, ExecStart(p, n)
    PROVE  Priv' /\ Imgs' = Imgs
  <1>1. PICK k2 : k2 = [Idle EXCEPT !.op = "exec", !.at = "dir", !.new = n]
    OBVIOUS
  <1>2. k2.op = "exec" /\ k2.at = "dir"
    BY <1>1 DEF Idle
  <1>4. PrivOK(k2, work[p], vm[p], mem)
    BY <1>2, PrivAway
  <1>5. call' = [call EXCEPT ![p] = k2] /\ mem' = mem /\ vm' = vm /\ work' = work
    BY <1>1 DEF ExecStart
  <1> QED BY <1>4, <1>5, StepStill

LEMMA SbrkStartSees ==
    ASSUME MemInv, Priv, NEW p \in Proc, NEW n \in SbrkArgs, SbrkGrow(p, n) \/ SbrkShrink(p, n)
    PROVE  Priv' /\ Imgs' = Imgs
  <1>1. \E k2 : /\ k2.op = "sbrk" /\ k2.at \in {"grow", "shrink"}
                /\ call' = [call EXCEPT ![p] = k2] /\ mem' = mem /\ vm' = vm /\ work' = work
    <2>1. CASE SbrkGrow(p, n)
      <3>1. PICK k2 : k2 = [Idle EXCEPT !.op = "sbrk", !.at = "grow",
                   !.a = PGROUNDUP(sz[p]), !.old = sz[p], !.new = sz[p] + n]
        OBVIOUS
      <3>2. k2.op = "sbrk" /\ k2.at = "grow"
        BY <3>1 DEF Idle
      <3>3. call' = [call EXCEPT ![p] = k2] /\ mem' = mem /\ vm' = vm /\ work' = work
        BY <2>1, <3>1 DEF SbrkGrow
      <3> QED BY <3>2, <3>3
    <2>2. CASE SbrkShrink(p, n)
      <3>1. PICK k2 : k2 = [Idle EXCEPT !.op = "sbrk", !.at = "shrink",
                                      !.a = PGROUNDUP(sz[p] - n),
                                      !.old = sz[p] - n, !.new = sz[p]]
        OBVIOUS
      <3>2. k2.op = "sbrk" /\ k2.at = "shrink"
        BY <3>1 DEF Idle
      <3>3. call' = [call EXCEPT ![p] = k2] /\ mem' = mem /\ vm' = vm /\ work' = work
        BY <2>2, <3>1 DEF SbrkShrink
      <3> QED BY <3>2, <3>3
    <2> QED BY <2>1, <2>2
  <1>2. PICK k2 : /\ k2.op = "sbrk" /\ k2.at \in {"grow", "shrink"}
                  /\ call' = [call EXCEPT ![p] = k2] /\ mem' = mem /\ vm' = vm /\ work' = work
    BY <1>1
  <1>3. PrivOK(k2, work[p], vm[p], mem)
    BY <1>2 DEF PrivOK
  <1> QED BY <1>2, <1>3, StepStill

LEMMA KstackSees ==
    ASSUME MemInv, Priv, NEW p \in Proc, Kstack(p)
    PROVE  Priv' /\ Imgs' = Imgs
  <1>1. PICK k : k = call[p]
    OBVIOUS
  <1>2. k \in Call /\ vm' = vm /\ work' = work
    BY <1>1 DEF Kstack, MemInv, MemTypes
  <1>3. CASE Kalloc(Zero) /\ call' = [call EXCEPT ![p].at = "dir"]
    <2>1. PICK k2 : k2 = [k EXCEPT !.at = "dir"]
      OBVIOUS
    <2>2. k2.op = k.op /\ k2.old = k.old /\ k2.new = k.new /\ k2.at = "dir"
      BY <1>2, <2>1 DEF Call
    <2>3. call' = [call EXCEPT ![p] = k2] /\ work' = [work EXCEPT ![p] = work[p]]
      BY <1>1, <1>2, <1>3, <2>1 DEF MemInv, MemTypes
    <2>4. mem' \in [Page -> {0, 1}] /\ OnlyLoose(p)
      BY <1>3, KallocFresh DEF Zero
    <2>5. PrivOK(k2, work[p], vm[p], mem')
      BY <1>1, <2>2, PrivGoesOn
    <2> QED BY <1>2, <2>3, <2>4, <2>5, StepQuiet
  <1>4. CASE OutOfMemory /\ call' = [call EXCEPT ![p] = Idle]
    <2>1. mem' = mem
      BY <1>4 DEF OutOfMemory
    <2> QED BY <1>2, <1>4, <2>1, PrivIdle, StepStill
  <1> QED BY <1>3, <1>4 DEF Kstack

\* A call goes on to a stage in which nothing is said about contents.
LEMMA StageSees ==
    ASSUME MemInv, Priv, NEW p \in Proc, NEW k, k = call[p], NEW l \in Ats, l \notin {"grow", "table"},
           NEW a, mem' = mem, vm' = vm, work' = work,
           \/ call' = [call EXCEPT ![p].at = l]
           \/ call' = [call EXCEPT ![p].at = l, ![p].a = a]
    PROVE  Priv' /\ Imgs' = Imgs
  <1>1. k \in Call /\ call \in [Proc -> Call]
    BY DEF MemInv, MemTypes
  <1>2. \E k2 : /\ k2.op = k.op /\ k2.old = k.old /\ k2.new = k.new /\ k2.at = l
                /\ call' = [call EXCEPT ![p] = k2]
    <2>1. CASE call' = [call EXCEPT ![p].at = l]
      <3>1. PICK k2 : k2 = [k EXCEPT !.at = l]
        OBVIOUS
      <3>2. k2.op = k.op /\ k2.old = k.old /\ k2.new = k.new /\ k2.at = l
        BY <1>1, <3>1 DEF Call
      <3> QED BY <2>1, <3>1, <3>2
    <2>2. CASE call' = [call EXCEPT ![p].at = l, ![p].a = a]
      <3>1. PICK k2 : k2 = [k EXCEPT !.at = l, !.a = a]
        OBVIOUS
      <3>2. k2.op = k.op /\ k2.old = k.old /\ k2.new = k.new /\ k2.at = l
        BY <1>1, <3>1 DEF Call
      <3>3. call' = [call EXCEPT ![p] = k2]
        BY <1>1, <2>2, <3>1
      <3> QED BY <3>2, <3>3
    <2> QED BY <2>1, <2>2
  <1>3. PICK k2 : /\ k2.op = k.op /\ k2.old = k.old /\ k2.new = k.new /\ k2.at = l
                  /\ call' = [call EXCEPT ![p] = k2]
    BY <1>2
  <1>4. PrivOK(k2, work[p], vm[p], mem)
    BY <1>3, PrivGoesOn
  <1> QED BY <1>3, <1>4, StepStill

\* A page of the space that p builds or frees is loose.
LEMMA WorkLoose ==
    ASSUME NEW p \in Proc, NEW e \in Entry, NEW g, EntryOf(work[p], e) = g
    PROVE  Loose(p, g)
  BY DEF Loose

\* p frees a page that is not seen, and its call is in no stage of building.
LEMMA FreeSees ==
    ASSUME MemInv, Priv, NEW p \in Proc, NEW k, k = call[p], NEW g \in Page, Loose(p, g), Kfree(g), vm' = vm,
           NEW k2, NEW w2, call' = [call EXCEPT ![p] = k2], work' = [work EXCEPT ![p] = w2],
           k2 = Idle \/ (/\ k2.op = k.op /\ k2.old = k.old /\ k2.new = k.new
                         /\ k2.at \notin {"grow", "table"})
    PROVE  Priv' /\ Imgs' = Imgs
  <1>1. mem' \in [Page -> {0, 1}] /\ OnlyLoose(p)
    BY KfreeLoose
  <1>2. PrivOK(k2, w2, vm[p], mem')
    BY PrivIdle, PrivGoesOn
  <1> QED BY <1>1, <1>2, StepQuiet

LEMMA SetupDirSees ==
    ASSUME MemInv, Priv, NEW p \in Proc, SetupDir(p)
    PROVE  Priv' /\ Imgs' = Imgs
  <1>1. PICK k : k = call[p]
    OBVIOUS
  <1>2. k \in Call /\ vm' = vm
    BY <1>1 DEF SetupDir, MemInv, MemTypes
  <1>3. CASE /\ Kalloc(Zero) /\ work' = [work EXCEPT ![p].dir = First] /\ call' = [call EXCEPT ![p].at = "kern"]
    <2>1. PICK k2, w2 : k2 = [k EXCEPT !.at = "kern"] /\ w2 = [work[p] EXCEPT !.dir = First]
      OBVIOUS
    <2>2. k2.op = k.op /\ k2.old = k.old /\ k2.new = k.new /\ k2.at = "kern"
      BY <1>2, <2>1 DEF Call
    <2>3. call' = [call EXCEPT ![p] = k2] /\ work' = [work EXCEPT ![p] = w2]
      BY <1>1, <1>3, <2>1
    <2>4. mem' \in [Page -> {0, 1}] /\ OnlyLoose(p)
      BY <1>3, KallocFresh DEF Zero
    <2>5. PrivOK(k2, w2, vm[p], mem')
      BY <1>1, <2>2, PrivGoesOn
    <2> QED BY <1>2, <2>3, <2>4, <2>5, StepQuiet
  <1>4. CASE OutOfMemory /\ call' = [call EXCEPT ![p].at = "failed"] /\ work' = work
    <2>1. mem' = mem /\ "failed" \in Ats
      BY <1>4 DEF OutOfMemory, Ats
    <2> QED BY <1>1, <1>2, <1>4, <2>1, StageSees
  <1> QED BY <1>3, <1>4 DEF SetupDir

LEMMA SetupKernSees ==
    ASSUME MemInv, Priv, NEW p \in Proc, SetupKern(p)
    PROVE  Priv' /\ Imgs' = Imgs
  <1>1. PICK k, w, v, z : Names(p, k, w, v, z)
    BY Named
  <1>2. /\ k = call[p] /\ w = work[p] /\ v = vm[p] /\ k \in Call /\ w \in Space /\ CallOK(k, w, v, z)
        /\ vm' = vm /\ k.at = "kern"
    BY <1>1, StepIs DEF SetupKern
  <1>3. CASE /\ Kalloc(Zero) /\ work' = [work EXCEPT ![p].kern = First] /\ call' = [call EXCEPT ![p].at = "grow"]
    <2>1. PICK k2, w2 : k2 = [k EXCEPT !.at = "grow"] /\ w2 = [w EXCEPT !.kern = First]
      OBVIOUS
    <2>2. k2.op = k.op /\ k2.old = k.old /\ k2.new = k.new /\ k2.at = "grow" /\ k.op # "stack"
      BY <1>2, <2>1 DEF Call, CallOK, OpAt
    <2>3. call' = [call EXCEPT ![p] = k2] /\ work' = [work EXCEPT ![p] = w2]
      BY <1>2, <1>3, <2>1
    <2>4. mem' \in [Page -> {0, 1}] /\ OnlyLoose(p)
      BY <1>3, KallocFresh DEF Zero
    <2>5. w2.pte = w.pte /\ w.pte = NoSpace.pte
      BY <1>2, <2>1 DEF Space, CallOK, WorkOK
    <2>6. Pages(w2) = {}
      BY <2>5, NoSpaceIs DEF Pages
    <2>7. k.op = "fork" => 0 \in Pages(v)
      BY <1>2 DEF Priv, PrivOK
    <2>8. PrivOK(k2, w2, v, mem')
      BY <2>2, <2>6, <2>7 DEF PrivOK
    <2> QED BY <1>2, <2>3, <2>4, <2>8, StepQuiet
  <1>4. CASE OutOfMemory /\ call' = [call EXCEPT ![p].at = "freevm"] /\ work' = work
    <2>1. mem' = mem /\ "freevm" \in Ats
      BY <1>4 DEF OutOfMemory, Ats
    <2> QED BY <1>2, <1>4, <2>1, StageSees
  <1> QED BY <1>3, <1>4 DEF SetupKern

LEMMA UndoDoneSees ==
    ASSUME MemInv, Priv, NEW p \in Proc, UndoDone(p)
    PROVE  Priv' /\ Imgs' = Imgs
  <1>1. PICK l : l = IF call[p].held # Null THEN "drop" ELSE IF call[p].op = "sbrk" THEN "failed" ELSE "freevm"
    OBVIOUS
  <1>2. l \in Ats /\ l \notin {"grow", "table"}
    BY <1>1 DEF Ats
  <1>3. call' = [call EXCEPT ![p].at = l] /\ mem' = mem /\ vm' = vm /\ work' = work
    BY <1>1 DEF UndoDone
  <1> QED BY <1>2, <1>3, StageSees

LEMMA DropSees ==
    ASSUME MemInv, Priv, NEW p \in Proc, Drop(p)
    PROVE  Priv' /\ Imgs' = Imgs
  <1>1. PICK k, l : k = call[p] /\ l = IF k.op = "sbrk" THEN "failed" ELSE "freevm"
    OBVIOUS
  <1>2. k \in Call /\ k.held # Null
    BY <1>1 DEF Drop, MemInv, MemTypes, CallOK, HeldOK
  <1>3. PICK k2, g : k2 = [k EXCEPT !.held = Null, !.at = l] /\ g = k.held
    OBVIOUS
  <1>4. k2.op = k.op /\ k2.old = k.old /\ k2.new = k.new /\ k2.at \notin {"grow", "table"}
    BY <1>1, <1>2, <1>3 DEF Call
  <1>5. g \in Page /\ Loose(p, g)
    BY <1>1, <1>2, <1>3, HeldPlace DEF Loose
  <1>6. Kfree(g) /\ vm' = vm /\ work' = [work EXCEPT ![p] = work[p]]
    BY <1>1, <1>3 DEF Drop, MemInv, MemTypes
  <1>7. call' = [call EXCEPT ![p] = k2]
    BY <1>1, <1>3 DEF Drop, MemInv, MemTypes
  <1> QED BY <1>1, <1>4, <1>5, <1>6, <1>7, FreeSees

\* growproc() ends, with success or not.
LEMMA EndSees ==
    ASSUME MemInv, Priv, NEW p \in Proc, mem' = mem, vm' = vm, work' = work, call' = [call EXCEPT ![p] = Idle]
    PROVE  Priv' /\ Imgs' = Imgs
  BY PrivIdle, StepStill

LEMMA FreeUserSees ==
    ASSUME MemInv, Priv, NEW p \in Proc, FreeUser(p)
    PROVE  Priv' /\ Imgs' = Imgs
  <1>1. PICK A, k, w : A = Present(work[p], 0, KERNBASE) /\ k = call[p] /\ w = work[p]
    OBVIOUS
  <1>2. k.at = "freevm" /\ vm' = vm /\ w \in Space
    BY <1>1 DEF FreeUser, MemInv, MemTypes
  <1>3. CASE /\ A # {} /\ Kfree(w.pte[Min(A)].page) /\ work' = [work EXCEPT ![p] = Unmapped(@, Min(A))]
             /\ call' = call
    <2>1. PICK b, g, w2 : b = Min(A) /\ g = w.pte[b].page /\ w2 = Unmapped(w, b)
      OBVIOUS
    <2>2. b \in A
      <3>1. A \subseteq Nat
        BY <1>1, PageNumbers DEF Present
      <3> QED BY <1>3, <2>1, <3>1, MinNat
    <2>3. b \in VPage /\ b \in Pages(w)
      BY <1>1, <2>2 DEF Present, Pages
    <2>4. g \in Page /\ PteOf(b) \in Entry /\ EntryOf(w, PteOf(b)) = g
      BY <1>2, <2>1, <2>3, PteIn, Entries, EntryIs
    <2>5. Loose(p, g)
      BY <1>1, <2>4, WorkLoose
    <2>6. work' = [work EXCEPT ![p] = w2] /\ Kfree(g)
      BY <1>1, <1>3, <2>1
    <2>7. call' = [call EXCEPT ![p] = k]
      BY <1>1, <1>3 DEF MemInv, MemTypes
    <2> QED BY <1>1, <1>2, <2>4, <2>5, <2>6, <2>7, FreeSees
  <1>4. CASE A = {} /\ call' = [call EXCEPT ![p].at = "tables"] /\ UNCHANGED <<freelist, mem, work>>
    <2>1. "tables" \in Ats
      BY DEF Ats
    <2> QED BY <1>2, <1>4, <2>1, StageSees
  <1> QED BY <1>1, <1>3, <1>4 DEF FreeUser

LEMMA FreeTableSees ==
    ASSUME MemInv, Priv, NEW p \in Proc, FreeTable(p)
    PROVE  Priv' /\ Imgs' = Imgs
  <1>1. PICK T, k, w : T = {t \in Table : work[p].tab[t] # Null} /\ k = call[p] /\ w = work[p]
    OBVIOUS
  <1>2. k.at = "tables" /\ vm' = vm /\ w \in Space /\ call' = [call EXCEPT ![p] = k]
    BY <1>1 DEF FreeTable, MemInv, MemTypes
  <1>3. CASE T # {} /\ Kfree(w.tab[Min(T)]) /\ work' = [work EXCEPT ![p].tab[Min(T)] = Null]
    <2>1. PICK t, g, w2 : t = Min(T) /\ g = w.tab[t] /\ w2 = [w EXCEPT !.tab[t] = Null]
      OBVIOUS
    <2>2. t \in T
      <3>1. T \subseteq Nat
        BY <1>1, MemoryAssumption DEF Table
      <3> QED BY <1>3, <2>1, <3>1, MinNat
    <2>3. t \in Table /\ g \in Page
      BY <1>1, <1>2, <2>1, <2>2 DEF Space, Page0
    <2>4. Loose(p, g)
      BY <1>1, <2>1, <2>3, Entries, EntryIs, WorkLoose
    <2>5. work' = [work EXCEPT ![p] = w2] /\ Kfree(g)
      BY <1>1, <1>3, <2>1
    <2> QED BY <1>1, <1>2, <2>3, <2>4, <2>5, FreeSees
  <1>4. CASE w.kern # Null /\ Kfree(w.kern) /\ work' = [work EXCEPT ![p].kern = Null]
    <2>1. PICK g, w2 : g = w.kern /\ w2 = [w EXCEPT !.kern = Null]
      OBVIOUS
    <2>2. g \in Page
      BY <1>2, <1>4, <2>1 DEF Space, Page0
    <2>3. Loose(p, g)
      BY <1>1, <2>1, Entries, EntryIs, WorkLoose
    <2>4. work' = [work EXCEPT ![p] = w2] /\ Kfree(g)
      BY <1>1, <1>4, <2>1
    <2> QED BY <1>1, <1>2, <2>2, <2>3, <2>4, FreeSees
  <1> QED BY <1>1, <1>3, <1>4 DEF FreeTable

LEMMA FreeDirSees ==
    ASSUME MemInv, Priv, NEW p \in Proc, FreeDir(p)
    PROVE  Priv' /\ Imgs' = Imgs
  <1>1. PICK k, w, v, z : Names(p, k, w, v, z)
    BY Named
  <1>2. /\ k = call[p] /\ w = work[p] /\ k \in Call /\ w \in Space /\ CallOK(k, w, v, z)
        /\ vm' = vm /\ k.at = "tables"
    BY <1>1, StepIs DEF FreeDir
  <1>3. w.dir # Null
    BY <1>2 DEF CallOK, WorkOK, NoWork, OpAt
  <1>4. PICK g, w2, l : /\ g = w.dir /\ w2 = [w EXCEPT !.dir = Null]
                        /\ l = IF k.op \in {"execed", "wait"} THEN "done" ELSE "failed"
    OBVIOUS
  <1>5. PICK k2 : k2 = [k EXCEPT !.at = l]
    OBVIOUS
  <1>6. k2.op = k.op /\ k2.old = k.old /\ k2.new = k.new /\ k2.at \notin {"grow", "table"}
    BY <1>2, <1>4, <1>5 DEF Call
  <1>7. g \in Page
    BY <1>2, <1>3, <1>4 DEF Space, Page0
  <1>8. Loose(p, g)
    BY <1>2, <1>4, Entries, EntryIs, WorkLoose
  <1>9. work' = [work EXCEPT ![p] = w2] /\ Kfree(g) /\ call' = [call EXCEPT ![p] = k2]
    BY <1>2, <1>4, <1>5 DEF FreeDir
  <1> QED BY <1>2, <1>6, <1>7, <1>8, <1>9, FreeSees

LEMMA FailedSees ==
    ASSUME MemInv, Priv, NEW p \in Proc, Failed(p)
    PROVE  Priv' /\ Imgs' = Imgs
  <1>1. PICK k, c : k = call[p] /\ c = k.child
    OBVIOUS
  <1>2. k.at = "failed" /\ vm' = vm /\ work' = work /\ call' = [call EXCEPT ![p] = Idle] /\ c \in Proc
    BY <1>1, CallFields DEF Failed, MemInv, MemTypes
  <1>3. CASE k.op = "fork"
    <2>1. PICK g : g = kstack[c]
      OBVIOUS
    <2>2. Kfree(g)
      BY <1>1, <1>3, <2>1 DEF Failed
    <2>3. g \in Page
      <3>1. g # Null
        BY <1>1, <1>2, <1>3, <2>1 DEF MemInv, ChildOK
      <3>2. g \in Page0
        BY <1>2, <2>1 DEF MemInv, MemTypes
      <3> QED BY <3>1, <3>2 DEF Page0
    <2>4. Loose(p, g)
      BY <1>2, <2>1 DEF Loose
    <2>5. work' = [work EXCEPT ![p] = work[p]]
      BY <1>2 DEF MemInv, MemTypes
    <2> QED BY <1>1, <1>2, <2>2, <2>3, <2>4, <2>5, FreeSees
  <1>4. CASE k.op # "fork"
    <2>1. mem' = mem
      BY <1>1, <1>4 DEF Failed
    <2> QED BY <1>2, <2>1, EndSees
  <1> QED BY <1>3, <1>4

LEMMA ForkFullSees ==
    ASSUME MemInv, Priv, NEW p \in Proc, ForkFull(p)
    PROVE  Priv' /\ Imgs' = Imgs
  <1>1. PICK k, c, w2 : k = call[p] /\ c = k.child /\ w2 = NoSpace
    OBVIOUS
  <1>2. /\ k.op = "fork" /\ k.at = "grow" /\ vm' = vm /\ work' = [work EXCEPT ![p] = w2]
        /\ call' = [call EXCEPT ![p] = Idle] /\ c \in Proc
    BY <1>1, CallFields DEF ForkFull, MemInv, MemTypes
  <1>3. PICK g : g = kstack[c]
    OBVIOUS
  <1>4. Kfree(g)
    BY <1>1, <1>3 DEF ForkFull
  <1>5. g \in Page
    <2>1. g # Null
      BY <1>1, <1>2, <1>3 DEF MemInv, ChildOK
    <2>2. g \in Page0
      BY <1>2, <1>3 DEF MemInv, MemTypes
    <2> QED BY <2>1, <2>2 DEF Page0
  <1>6. Loose(p, g)
    BY <1>2, <1>3 DEF Loose
  <1> QED BY <1>1, <1>2, <1>4, <1>5, <1>6, FreeSees

\* loaduvm() writes the pages of the new image, which is the segment.
LEMMA ExecLoadSees ==
    ASSUME MemInv, Priv, NEW p \in Proc, ExecLoad(p)
    PROVE  Priv' /\ Imgs' = Imgs
  <1>1. PICK k, w, v, z : Names(p, k, w, v, z)
    BY Named
  <1>2. /\ k = call[p] /\ w = work[p] /\ v = vm[p] /\ k \in Call /\ w \in Space /\ CallOK(k, w, v, z)
        /\ vm' = vm /\ work' = work /\ k.op = "exec" /\ k.at = "grow" /\ k.a * PGSIZE >= k.new
    BY <1>1, StepIs DEF ExecLoad
  <1>3. PICK n, top : n = PGROUNDUP(k.new) /\ top = n * PGSIZE
    OBVIOUS
  <1>4. /\ n \in Nat /\ PGSIZE \in Nat /\ k.a \in Nat /\ k.new \in Nat /\ top \in Nat
        /\ \A b \in Nat : b < n <=> b * PGSIZE < k.new
    BY <1>2, <1>3, CallFields, RoundUp, MemoryAssumption
  <1>5. CASE /\ top + 2 * PGSIZE < KERNBASE /\ mem' = loaduvm(w)
             /\ call' = [call EXCEPT ![p].op = "stack", ![p].old = top, ![p].new = top + 2 * PGSIZE]
    <2>1. PICK k2 : k2 = [k EXCEPT !.op = "stack", !.old = top, !.new = top + 2 * PGSIZE]
      OBVIOUS
    <2>2. k2.op = "stack" /\ k2.old = top /\ k2.new = top + 2 * PGSIZE /\ k2.at = "grow" /\ k2.a = k.a
      BY <1>2, <2>1 DEF Call
    <2>3. call' = [call EXCEPT ![p] = k2]
      BY <1>2, <1>5, <2>1 DEF MemInv, MemTypes
    <2>4. /\ mem' \in [Page -> {0, 1}]
          /\ \A g \in Page : mem'[g] = IF \E b \in VPage : w.pte[b].page = g THEN 1 ELSE mem[g]
      BY <1>5 DEF loaduvm, Priv
    <2>5. OnlyLoose(p)
      <3>1. ASSUME NEW g \in Page, mem'[g] # mem[g] PROVE Loose(p, g)
        <4>1. PICK b \in VPage : w.pte[b].page = g
          BY <2>4, <3>1
        <4>2. PteOf(b) \in Entry /\ EntryOf(w, PteOf(b)) = g
          BY <4>1, Entries, EntryIs
        <4> QED BY <1>2, <4>2, WorkLoose
      <3> QED BY <3>1 DEF OnlyLoose
    <2>6. ~(k.a * PGSIZE < top)
      <3>1. ~(k.a < n)
        <4>1. k.a * PGSIZE \in Nat
          BY <1>4
        <4> QED BY <1>2, <1>4, <4>1
      <3>2. n <= k.a
        BY <1>4, <3>1
      <3>3. n * PGSIZE <= k.a * PGSIZE /\ k.a * PGSIZE \in Nat
        BY <1>4, <3>2, MulMono
      <3> QED BY <1>3, <1>4, <3>3
    <2>7. ASSUME NEW b \in Pages(w)
          PROVE  w.pte[b].u = TRUE /\ mem'[w.pte[b].page] = 1 /\ b * PGSIZE < top
      <3>1. b \in VPage /\ w.pte[b].page \in Page
        BY <1>2, <2>7, PteIn
      <3>2. Pages(w) = {c \in VPage : c < k.a} /\ \A c \in 0..(k.a - 1) : c * PGSIZE < k.new
        BY <1>2 DEF CallOK, GrowOK
      <3>3. b \in Nat /\ b < k.a /\ b \in 0..(k.a - 1)
        BY <1>4, <2>7, <3>1, <3>2, PageNumbers
      <3>4. b < n
        BY <1>4, <3>2, <3>3
      <3>5. b + 1 \in Nat /\ b + 1 <= n
        BY <1>4, <3>3, <3>4
      <3>6. (b + 1) * PGSIZE <= n * PGSIZE
        BY <1>4, <3>5, MulMono
      <3>7. (b + 1) * PGSIZE = b * PGSIZE + PGSIZE /\ b * PGSIZE \in Nat /\ PGSIZE > 0
        BY <1>4, <3>3, MemoryAssumption
      <3>8. b * PGSIZE < top
        BY <1>3, <1>4, <3>6, <3>7
      <3>9. w.pte[b].u = TRUE
        BY <1>2, <2>7 DEF Priv, PrivOK
      <3> QED BY <2>4, <3>1, <3>8, <3>9
    <2>8. \E m \in Nat : k2.old = m * PGSIZE /\ k2.new = m * PGSIZE + 2 * PGSIZE /\ k2.new < KERNBASE
      BY <1>3, <1>4, <1>5, <2>2
    <2>9. PrivOK(k2, w, v, mem')
      BY <2>2, <2>6, <2>7, <2>8 DEF PrivOK
    <2>10. work' = [work EXCEPT ![p] = w]
      BY <1>2 DEF MemInv, MemTypes
    <2> QED BY <1>2, <2>3, <2>4, <2>5, <2>9, <2>10, StepQuiet
  <1>6. CASE call' = [call EXCEPT ![p].at = "freevm"] /\ mem' = mem
    <2>1. "freevm" \in Ats
      BY DEF Ats
    <2> QED BY <1>2, <1>6, <2>1, StageSees
  <1> QED BY <1>2, <1>3, <1>5, <1>6 DEF ExecLoad

LEMMA GiveIs ==
    ASSUME NEW c \in Proc, NEW f, Image(c)' = f, \A q \in Proc : q # c => Image(q)' = Image(q)
    PROVE  M!Give(c, f)
  BY DEF M!Give

\* A step of p that changes its own memory.
LEMMA StepOwn ==
    ASSUME MemInv, Priv, NEW p \in Proc, mem' \in [Page -> {0, 1}],
           NEW k2, NEW w2, NEW v2, call' = [call EXCEPT ![p] = k2], work' = [work EXCEPT ![p] = w2],
           vm' = [vm EXCEPT ![p] = v2], PrivOK(k2, w2, v2, mem'),
           \A q \in Proc : q # p => VmSame(q) /\ WorkSame(q)
    PROVE  Priv' /\ M!Give(p, Img(v2, mem'))
  <1>1. /\ \A q \in Proc : call'[q] = IF q = p THEN k2 ELSE call[q]
        /\ \A q \in Proc : work'[q] = IF q = p THEN w2 ELSE work[q]
        /\ \A q \in Proc : vm'[q] = IF q = p THEN v2 ELSE vm[q]
    BY DEF MemInv, MemTypes
  <1>2. ASSUME NEW q \in Proc PROVE PrivOK(call'[q], work'[q], vm'[q], mem')
    <2>1. CASE q = p
      BY <1>1, <2>1
    <2>2. CASE q # p
      <3>1. PrivOK(call[q], work[q], vm[q], mem')
        BY <2>2, PrivKept
      <3> QED BY <1>1, <2>2, <3>1
    <2> QED BY <2>1, <2>2
  <1>3. Priv'
    BY <1>2 DEF Priv, Page
  <1>4. ASSUME NEW q \in Proc, q # p PROVE Image(q)' = Image(q)
    <2>1. Image(q) = Img(vm[q], mem) /\ Image(q)' = Img(vm[q], mem')
      BY <1>1, <1>4, ImageIs
    <2>2. \A b \in Pages(vm[q]) : mem'[vm[q].pte[b].page] = mem[vm[q].pte[b].page]
      BY <1>4 DEF VmSame
    <2> QED BY <2>1, <2>2 DEF Img
  <1>5. Image(p)' = Img(v2, mem')
    BY <1>1, ImageIs
  <1> QED BY <1>3, <1>4, <1>5, GiveIs

\* p writes one of its pages.
Writes(p, b, g, f) ==
    b \in Pages(vm[p]) /\ g = vm[p].pte[b].page /\ f \in {0, 1} /\ mem' = [mem EXCEPT ![g] = f]

LEMMA VmWrite ==
    ASSUME MemInv, Priv, NEW p \in Proc, NEW b, NEW g, NEW f, Writes(p, b, g, f)
    PROVE  /\ mem' \in [Page -> {0, 1}] /\ mem'[g] = f /\ g \in Page
           /\ \A q \in Proc : WorkSame(q) /\ (q # p => VmSame(q))
           /\ \A c \in Pages(vm[p]) : c # b => mem'[vm[p].pte[c].page] = mem[vm[p].pte[c].page]
  <1>0. b \in Pages(vm[p]) /\ g = vm[p].pte[b].page /\ f \in {0, 1} /\ mem' = [mem EXCEPT ![g] = f]
    BY DEF Writes
  <1>1. PICK x : x = SpaceAt("vm", p, PteOf(b))
    OBVIOUS
  <1>2. x \in Place /\ PteOf(b) \in Entry /\ OwnMap[x] = g /\ g \in Page /\ g # Null
    BY <1>0, <1>1, VmPlace
  <1>3. mem \in [Page -> {0, 1}]
    BY DEF Priv
  <1>4. mem' \in [Page -> {0, 1}] /\ mem'[g] = f /\ \A h \in Page : h # g => mem'[h] = mem[h]
    BY <1>0, <1>2, <1>3
  <1>5. ASSUME NEW q \in Proc PROVE WorkSame(q)
    <2>1. ASSUME NEW c \in Pages(work[q]) PROVE mem'[work[q].pte[c].page] = mem[work[q].pte[c].page]
      <3>1. PICK y, h : y = SpaceAt("work", q, PteOf(c)) /\ h = work[q].pte[c].page
        OBVIOUS
      <3>2. y \in Place /\ PteOf(c) \in Entry /\ OwnMap[y] = h /\ h \in Page
        BY <2>1, <3>1, WorkPlace
      <3>3. x # y
        BY <1>1, <1>2, <3>1, <3>2, Places
      <3>4. h # g
        BY <1>2, <3>2, <3>3, OnePlace
      <3> QED BY <1>4, <3>1, <3>2, <3>4
    <2>2. ASSUME call[q].held # Null PROVE mem'[call[q].held] = mem[call[q].held]
      <3>1. HeldAt(q) \in Place /\ OwnMap[HeldAt(q)] = call[q].held /\ call[q].held \in Page
        BY <2>2, HeldPlace
      <3>2. x # HeldAt(q)
        BY <1>1, <1>2, Places
      <3>3. call[q].held # g
        BY <1>2, <3>1, <3>2, OnePlace
      <3> QED BY <1>4, <3>1, <3>3
    <2> QED BY <2>1, <2>2 DEF WorkSame
  <1>6. ASSUME NEW q \in Proc, NEW c \in Pages(vm[q]), q # p \/ c # b
        PROVE  mem'[vm[q].pte[c].page] = mem[vm[q].pte[c].page]
    <2>1. PICK y, h : y = SpaceAt("vm", q, PteOf(c)) /\ h = vm[q].pte[c].page
      OBVIOUS
    <2>2. y \in Place /\ PteOf(c) \in Entry /\ OwnMap[y] = h /\ h \in Page
      BY <1>6, <2>1, VmPlace
    <2>3. q # p \/ PteOf(c) # PteOf(b)
      BY <1>0, <1>6, Entries DEF Pages
    <2>4. x # y
      BY <1>1, <1>2, <2>1, <2>2, <2>3, Places
    <2>5. h # g
      BY <1>2, <2>2, <2>4, OnePlace
    <2> QED BY <1>4, <2>1, <2>2, <2>5
  <1> QED BY <1>2, <1>4, <1>5, <1>6 DEF VmSame

LEMMA StoreSees ==
    ASSUME MemInv, Priv, NEW p \in Proc, NEW a \in VPage, Store(p, a)
    PROVE  Priv' /\ M!Write(p)
  <1>1. PICK v, g, f : v = vm[p] /\ g = v.pte[a].page /\ f = 1 - mem[g]
    OBVIOUS
  <1>2. v.pte[a].u /\ call[p] = Idle /\ v \in Space /\ Clean(v)
    BY <1>1, RunningPages DEF Store, MemInv, MemTypes, CallOK
  <1>3. a \in Pages(v)
    BY <1>2 DEF Clean, Pages
  <1>4. g \in Page
    BY <1>1, <1>2, <1>3, PteIn
  <1>5. f \in {0, 1}
    <2>1. mem[g] \in {0, 1}
      BY <1>4 DEF Priv
    <2> QED BY <1>1, <2>1
  <1>6. mem' = [mem EXCEPT ![g] = f]
    BY <1>1 DEF Store
  <1>7. /\ mem' \in [Page -> {0, 1}] /\ mem'[g] = f
        /\ \A q \in Proc : WorkSame(q) /\ (q # p => VmSame(q))
        /\ \A c \in Pages(v) : c # a => mem'[v.pte[c].page] = mem[v.pte[c].page]
    <2>1. Writes(p, a, g, f)
      BY <1>1, <1>3, <1>5, <1>6 DEF Writes
    <2>2. /\ mem' \in [Page -> {0, 1}] /\ mem'[g] = f
          /\ \A q \in Proc : WorkSame(q) /\ (q # p => VmSame(q))
          /\ \A c \in Pages(vm[p]) : c # a => mem'[vm[p].pte[c].page] = mem[vm[p].pte[c].page]
      BY <2>1, VmWrite
    <2> QED BY <1>1, <2>2
  <1>8. /\ call' = [call EXCEPT ![p] = Idle] /\ work' = [work EXCEPT ![p] = work[p]]
        /\ vm' = [vm EXCEPT ![p] = v]
    BY <1>1, <1>2 DEF Store, MemInv, MemTypes
  <1>9. Priv' /\ M!Give(p, Img(v, mem'))
    BY <1>7, <1>8, PrivIdle, StepOwn
  <1>10. PICK i : i = Image(p)
    OBVIOUS
  <1>11. i = [b \in Pages(v) |-> [val |-> mem[v.pte[b].page], u |-> v.pte[b].u]]
    BY <1>1, <1>10, ImageIs DEF Img
  <1>12. Img(v, mem') = [i EXCEPT ![a].val = f]
    <2>1. Img(v, mem') = [b \in Pages(v) |-> [val |-> mem'[v.pte[b].page], u |-> v.pte[b].u]]
      BY DEF Img
    <2>2. i[a] = [val |-> mem[g], u |-> v.pte[a].u]
      BY <1>1, <1>3, <1>11
    <2>5. [i[a] EXCEPT !.val = f] = [val |-> f, u |-> v.pte[a].u]
      BY <2>2
    <2>3. [i EXCEPT ![a].val = f] = [i EXCEPT ![a] = [val |-> f, u |-> v.pte[a].u]]
      BY <2>5, Zenon
    <2>4. ASSUME NEW b \in Pages(v)
          PROVE  [val |-> mem'[v.pte[b].page], u |-> v.pte[b].u] = [i EXCEPT ![a] = [val |-> f, u |-> v.pte[a].u]][b]
      <3>1. CASE b = a
        BY <1>1, <1>3, <1>7, <1>11, <3>1
      <3>2. CASE b # a
        BY <1>7, <1>11, <2>4, <3>2
      <3> QED BY <3>1, <3>2
    <2> QED BY <1>11, <2>1, <2>3, <2>4
  <1>13. a \in DOMAIN i /\ i[a].u
    BY <1>2, <1>3, <1>11
  <1>14. [q \in Proc |-> Image(q)][p] = i /\ M!Give(p, [i EXCEPT ![a].val = f])
    BY <1>9, <1>10, <1>12
  <1> QED BY <1>5, <1>9, <1>13, <1>14, Zenon DEF M!Write

\* The page of allocuvm() or copyuvm() is entered at a.
EnteredAs(s, s2, a, g, f) ==
    /\ a \in VPage /\ s2.pte[a].page = g /\ s2.pte[a].u = f /\ g # Null
    /\ \A c \in VPage : c # a => s2.pte[c] = s.pte[c]

LEMMA EnteredPages ==
    ASSUME NEW s, NEW s2, NEW a, NEW g, NEW f, EnteredAs(s, s2, a, g, f)
    PROVE  \A b : b \in Pages(s2) <=> b \in Pages(s) \/ b = a
  BY DEF EnteredAs, Pages

\* A turn of copyuvm(), or of allocuvm() in exec(), is done.
TurnDone(k, k2, w, w2, v, m, a, g, f) ==
    /\ k.op \in {"fork", "exec", "stack"} /\ k.at \in {"grow", "table"} /\ a = k.a /\ EnteredAs(w, w2, a, g, f)
    /\ m[g] = (IF k.op = "fork" THEN m[v.pte[a].page] ELSE Zero)
    /\ f = (IF k.op = "fork" THEN v.pte[a].u ELSE TRUE)
    /\ k2.op = k.op /\ k2.at = "grow" /\ k2.a = a + 1 /\ k2.old = k.old /\ k2.new = k.new

LEMMA PrivMapped ==
    ASSUME NEW k \in Call, NEW w, NEW v, NEW m, PrivOK(k, w, v, m), NEW a, NEW w2, NEW g, NEW f, NEW k2,
           TurnDone(k, k2, w, w2, v, m, a, g, f)
    PROVE  PrivOK(k2, w2, v, m)
  <1>0. /\ k.op \in {"fork", "exec", "stack"} /\ k.at \in {"grow", "table"} /\ a = k.a /\ EnteredAs(w, w2, a, g, f)
        /\ m[g] = (IF k.op = "fork" THEN m[v.pte[a].page] ELSE Zero)
        /\ f = (IF k.op = "fork" THEN v.pte[a].u ELSE TRUE)
        /\ k2.op = k.op /\ k2.at = "grow" /\ k2.a = a + 1 /\ k2.old = k.old /\ k2.new = k.new
    BY DEF TurnDone
  <1>1. a \in Nat /\ k.old \in Nat /\ PGSIZE \in Nat
    BY <1>0, CallFields, MemoryAssumption
  <1>2. /\ k.op = "fork" => 0 \in Pages(v)
        /\ k.op = "stack" => \E n \in Nat : k.old = n * PGSIZE /\ k.new = n * PGSIZE + 2 * PGSIZE /\ k.new < KERNBASE
        /\ k.op = "stack" => ~(a * PGSIZE < k.old)
    BY <1>0 DEF PrivOK
  <1>3. k.op = "stack" => ~((a + 1) * PGSIZE < k.old)
    <2>1. a + 1 \in Nat /\ a <= a + 1
      BY <1>1
    <2>2. a * PGSIZE <= (a + 1) * PGSIZE /\ a * PGSIZE \in Nat /\ (a + 1) * PGSIZE \in Nat
      BY <1>1, <2>1, MulMono
    <2> QED BY <1>1, <1>2, <2>2
  <1>4. ASSUME NEW b \in Pages(w2)
        PROVE  \/ b = a /\ w2.pte[b].page = g /\ w2.pte[b].u = f
               \/ b \in Pages(w) /\ w2.pte[b] = w.pte[b]
    BY <1>0, <1>4, EnteredPages DEF EnteredAs, Pages
  <1>5. ASSUME k.op = "fork", NEW b \in Pages(w2)
        PROVE  m[w2.pte[b].page] = m[v.pte[b].page] /\ w2.pte[b].u = v.pte[b].u
    <2>1. CASE b = a /\ w2.pte[b].page = g /\ w2.pte[b].u = f
      BY <1>0, <1>5, <2>1
    <2>2. CASE b \in Pages(w) /\ w2.pte[b] = w.pte[b]
      BY <1>0, <1>5, <2>2 DEF PrivOK
    <2> QED BY <1>4, <1>5, <2>1, <2>2
  <1>6. ASSUME k.op \in {"exec", "stack"}, NEW b \in Pages(w2) PROVE w2.pte[b].u = TRUE
    <2>1. CASE b = a /\ w2.pte[b].page = g /\ w2.pte[b].u = f
      BY <1>0, <1>6, <2>1
    <2>2. CASE b \in Pages(w) /\ w2.pte[b] = w.pte[b]
      BY <1>0, <1>6, <2>2 DEF PrivOK
    <2> QED BY <1>4, <1>6, <2>1, <2>2
  <1>7. ASSUME k.op = "stack", NEW b \in Pages(w2)
        PROVE  m[w2.pte[b].page] = IF b * PGSIZE < k.old THEN 1 ELSE Zero
    <2>1. CASE b = a /\ w2.pte[b].page = g /\ w2.pte[b].u = f
      BY <1>0, <1>2, <1>7, <2>1
    <2>2. CASE b \in Pages(w) /\ w2.pte[b] = w.pte[b]
      BY <1>0, <1>7, <2>2 DEF PrivOK
    <2> QED BY <1>4, <1>7, <2>1, <2>2
  <1> QED BY <1>0, <1>2, <1>3, <1>5, <1>6, <1>7 DEF PrivOK

\* A turn of allocuvm() in growproc() gives the process a page of zeroes.
LEMMA SbrkExtends ==
    ASSUME MemInv, Priv, NEW p \in Proc, mem' \in [Page -> {0, 1}], \A q \in Proc : VmSame(q) /\ WorkSame(q),
           NEW v, v = vm[p], NEW v2, NEW a, NEW g, EnteredAs(v, v2, a, g, TRUE), a \notin Pages(v), mem'[g] = Zero,
           NEW k2, k2.op = "sbrk", k2.at = "grow", call' = [call EXCEPT ![p] = k2],
           work' = [work EXCEPT ![p] = work[p]], vm' = [vm EXCEPT ![p] = v2]
    PROVE  Priv' /\ M!Extend(p)
  <1>1. PrivOK(k2, work[p], v2, mem')
    BY DEF PrivOK
  <1>2. Priv' /\ M!Give(p, Img(v2, mem'))
    BY <1>1, StepOwn
  <1>3. PICK i : i = Image(p)
    OBVIOUS
  <1>4. i = [b \in Pages(v) |-> [val |-> mem[v.pte[b].page], u |-> v.pte[b].u]]
    BY <1>3, ImageIs DEF Img
  <1>5. Pages(v2) = Pages(v) \cup {a} /\ a \in VPage
    BY EnteredPages DEF EnteredAs
  <1>6. DOMAIN i = Pages(v)
    BY <1>4
  <1>7. Img(v2, mem') = [b \in DOMAIN i \cup {a} |-> IF b = a THEN [val |-> 0, u |-> TRUE] ELSE i[b]]
    <2>1. Img(v2, mem') = [b \in Pages(v) \cup {a} |-> [val |-> mem'[v2.pte[b].page], u |-> v2.pte[b].u]]
      BY <1>5 DEF Img
    <2>2. [val |-> mem'[v2.pte[a].page], u |-> v2.pte[a].u] = [val |-> 0, u |-> TRUE]
      BY DEF EnteredAs, Zero
    <2>3. ASSUME NEW b \in Pages(v)
          PROVE  [val |-> mem'[v2.pte[b].page], u |-> v2.pte[b].u] = i[b] /\ b # a
      <3>1. b \in VPage /\ b # a /\ v2.pte[b] = v.pte[b]
        BY <2>3 DEF Pages, EnteredAs
      <3>2. mem'[v.pte[b].page] = mem[v.pte[b].page]
        BY <2>3 DEF VmSame
      <3> QED BY <1>4, <2>3, <3>1, <3>2
    <2> QED BY <1>6, <2>1, <2>2, <2>3
  <1>8. [q \in Proc |-> Image(q)][p] = i /\ a \in VPage \ DOMAIN i
    BY <1>3, <1>5, <1>6
  <1>9. M!Extend(p)
    <2>1. M!Give(p, [b \in DOMAIN i \cup {a} |-> IF b = a THEN [val |-> 0, u |-> TRUE] ELSE i[b]])
      BY <1>2, <1>7
    <2>2. M!Give(p, [b \in DOMAIN i \cup {a} |-> IF b = a THEN M!Fresh ELSE i[b]])
      BY <2>1 DEF M!Fresh
    <2> QED BY <1>8, <2>2, Zenon DEF M!Extend
  <1> QED BY <1>2, <1>9

\* What one turn of the loop starts from.
LEMMA GrowTurn ==
    ASSUME MemInv, Priv, NEW p \in Proc, NEW k, NEW w, NEW v, NEW z, Names(p, k, w, v, z),
           k.at \in {"grow", "table"}, k.a * PGSIZE < k.new
    PROVE  /\ k.op \in {"fork", "exec", "stack", "sbrk"} /\ k.a \in VPage /\ k.a \in Nat
           /\ k.a \notin Pages(TargetOf(k, w, v)) /\ TargetOf(k, w, v) \in Space
           /\ k.op = "fork" => k.a \in Pages(v)
  <1>1. k = call[p] /\ w = work[p] /\ v = vm[p] /\ k \in Call /\ w \in Space /\ v \in Space /\ CallOK(k, w, v, z)
    BY StepIs
  <1>2. k.op \in {"fork", "exec", "stack", "sbrk"} /\ k.a \in Nat /\ k.new \in Nat
    BY <1>1, CallFields DEF CallOK, OpAt, Ops
  <1>3. k.new <= KERNBASE /\ Pages(TargetOf(k, w, v)) = {b \in VPage : b < k.a}
    BY <1>1 DEF CallOK, GrowOK, TargetOf
  <1>4. k.a * PGSIZE \in Nat /\ KERNBASE \in Nat
    BY <1>2, PageNumbers, MemoryAssumption
  <1>5. k.a * PGSIZE < KERNBASE
    BY <1>2, <1>3, <1>4
  <1>6. k.a \in VPage
    BY <1>2, <1>5, PageNumbers
  <1>7. k.op = "fork" => 0 \in Pages(v)
    BY <1>1 DEF Priv, PrivOK
  <1>8. k.op = "fork" => k.a \in Pages(v)
    BY <1>7, CopyAlong
  <1>9. TargetOf(k, w, v) \in Space
    BY <1>1 DEF TargetOf
  <1> QED BY <1>2, <1>3, <1>6, <1>8, <1>9

\* The flags of a new page.
LEMMA FlagIs ==
    ASSUME NEW p \in Proc, NEW v \in Space, v = vm[p], NEW k, k = call[p], NEW a \in VPage
    PROVE  Flag(p, a) = (IF k.op = "fork" THEN v.pte[a].u ELSE TRUE) /\ Flag(p, a) \in BOOLEAN
  <1>1. v.pte[a].u \in BOOLEAN
    BY DEF Space, Pte
  <1>2. Flag(p, a) = (k.op = "fork" => v.pte[a].u)
    BY DEF Flag
  <1>3. CASE k.op = "fork"
    BY <1>1, <1>2, <1>3
  <1>4. CASE k.op # "fork"
    BY <1>2, <1>4
  <1> QED BY <1>3, <1>4

\* A turn of the loop enters page g.
LEMMA TurnSees ==
    ASSUME MemInv, Priv, NEW p \in Proc, NEW k, NEW w, NEW v, NEW z, Names(p, k, w, v, z),
           k.at \in {"grow", "table"}, NEW a, a = k.a, a * PGSIZE < k.new,
           mem' \in [Page -> {0, 1}], \A q \in Proc : OnlyLoose(q) /\ VmSame(q) /\ WorkSame(q),
           NEW s, s = TargetOf(k, w, v), NEW s2, NEW g, NEW f, EnteredAs(s, s2, a, g, f),
           mem'[g] = (IF k.op = "fork" THEN mem[v.pte[a].page] ELSE Zero),
           f = (IF k.op = "fork" THEN v.pte[a].u ELSE TRUE),
           NEW k2, k2.op = k.op, k2.at = "grow", k2.a = a + 1, k2.old = k.old, k2.new = k.new,
           call' = [call EXCEPT ![p] = k2],
           NEW w2, w2 = WorkAfter(k, w, s2), NEW v2, v2 = VmAfter(k, v, s2), NewSpaces(p, w2, v2)
    PROVE  Priv' /\ (Imgs' = Imgs \/ M!Extend(p))
  <1>1. k = call[p] /\ w = work[p] /\ v = vm[p] /\ k \in Call /\ vm = [vm EXCEPT ![p] = v]
    BY StepIs
  <1>2. /\ k.op \in {"fork", "exec", "stack", "sbrk"} /\ a \notin Pages(s)
        /\ k.op = "fork" => a \in Pages(v)
    BY GrowTurn
  <1>3. work' = [work EXCEPT ![p] = w2] /\ vm' = [vm EXCEPT ![p] = v2]
    BY DEF NewSpaces
  <1>4. CASE k.op = "sbrk"
    <2>1. s = v /\ w2 = work[p] /\ v2 = s2 /\ f = TRUE /\ mem'[g] = Zero
      BY <1>1, <1>4 DEF TargetOf, WorkAfter, VmAfter
    <2>2. EnteredAs(v, v2, a, g, TRUE) /\ a \notin Pages(v)
      BY <1>2, <2>1
    <2>3. work' = [work EXCEPT ![p] = work[p]] /\ k2.op = "sbrk"
      BY <1>3, <1>4, <2>1
    <2> QED BY <1>1, <1>3, <2>1, <2>2, <2>3, SbrkExtends
  <1>5. CASE k.op # "sbrk"
    <2>1. s = w /\ w2 = s2 /\ v2 = v
      BY <1>5 DEF TargetOf, WorkAfter, VmAfter
    <2>2. EnteredAs(w, w2, a, g, f) /\ k.op \in {"fork", "exec", "stack"}
      BY <1>2, <1>5, <2>1
    <2>3. PICK m : m = mem'
      OBVIOUS
    <2>4. PrivOK(k, w, v, m)
      BY <1>1, <2>3, PrivKept
    <2>5. m[g] = IF k.op = "fork" THEN m[v.pte[a].page] ELSE Zero
      BY <1>1, <1>2, <2>3 DEF VmSame
    <2>6. PrivOK(k2, w2, v, m)
      <3>1. TurnDone(k, k2, w, w2, v, m, a, g, f)
        BY <2>2, <2>5 DEF TurnDone
      <3> QED BY <1>1, <2>4, <3>1, PrivMapped
    <2>7. vm' = vm /\ PrivOK(k2, w2, vm[p], mem') /\ OnlyLoose(p)
      BY <1>1, <1>3, <2>1, <2>3, <2>6
    <2> QED BY <1>3, <2>7, StepQuiet
  <1> QED BY <1>4, <1>5

LEMMA GrowPageSees ==
    ASSUME MemInv, Priv, NEW p \in Proc, GrowPage(p)
    PROVE  Priv' /\ (Imgs' = Imgs \/ M!Extend(p))
  <1>1. PICK k, w, v, z : Names(p, k, w, v, z)
    BY Named
  <1>2. /\ k = call[p] /\ w = work[p] /\ v = vm[p] /\ k \in Call /\ w \in Space /\ v \in Space
        /\ call \in [Proc -> Call] /\ work = [work EXCEPT ![p] = w] /\ vm = [vm EXCEPT ![p] = v]
    BY <1>1, StepIs
  <1>3. PICK a, s : a = k.a /\ s = TargetOf(k, w, v)
    OBVIOUS
  <1>4. k.at = "grow" /\ a * PGSIZE < k.new
    BY <1>2, <1>3 DEF GrowPage
  <1>5. s = Target(p)
    BY <1>1, <1>3, Targets
  <1>6. /\ k.op \in {"fork", "exec", "stack", "sbrk"} /\ a \in VPage /\ a \in Nat /\ a \notin Pages(s) /\ s \in Space
        /\ k.op = "fork" => a \in Pages(v)
    BY <1>1, <1>3, <1>4, GrowTurn
  <1>7. PICK c : c = IF k.op = "fork" THEN mem[v.pte[a].page] ELSE Zero
    OBVIOUS
  <1>8. Fill(p, a) = c /\ c \in {0, 1}
    <2>1. k.op = "fork" => v.pte[a].page \in Page
      BY <1>2, <1>6, PteIn
    <2>2. mem \in [Page -> {0, 1}]
      BY DEF Priv
    <2> QED BY <1>2, <1>7, <2>1, <2>2 DEF Fill, Zero
  <1>9. ASSUME Kalloc(c)
        PROVE  /\ mem' \in [Page -> {0, 1}] /\ First \in Page /\ First # Null /\ mem'[First] = c
               /\ \A q \in Proc : OnlyLoose(q) /\ VmSame(q) /\ WorkSame(q)
    BY <1>8, <1>9, KallocFresh
  <1>10. CASE Kalloc(c) /\ call' = [call EXCEPT ![p].at = "table", ![p].held = First] /\ UNCHANGED <<vm, work>>
    <2>1. PICK k2, g : g = First /\ k2 = [k EXCEPT !.at = "table", !.held = g]
      OBVIOUS
    <2>2. k2.at = "table" /\ k2.op = k.op /\ k2.a = a /\ k2.old = k.old /\ k2.new = k.new /\ k2.held = g
      BY <1>2, <1>3, <2>1 DEF Call
    <2>3. call' = [call EXCEPT ![p] = k2] /\ work' = [work EXCEPT ![p] = w] /\ vm' = vm
      BY <1>2, <1>10, <2>1
    <2>4. PICK m : m = mem'
      OBVIOUS
    <2>5. PrivOK(k, w, v, m)
      BY <1>2, <1>9, <1>10, <2>4, PrivKept
    <2>6. m[g] = IF k.op = "fork" THEN m[v.pte[a].page] ELSE Zero
      <3>1. k.op = "fork" => m[v.pte[a].page] = mem[v.pte[a].page]
        BY <1>2, <1>6, <1>9, <1>10, <2>4 DEF VmSame
      <3> QED BY <1>7, <1>9, <1>10, <2>1, <2>4, <3>1
    <2>7. PrivOK(k2, w, v, m)
      BY <1>3, <1>4, <2>2, <2>5, <2>6 DEF PrivOK
    <2>8. PrivOK(k2, w, vm[p], mem')
      BY <1>2, <2>4, <2>7
    <2> QED BY <1>9, <1>10, <2>3, <2>8, StepQuiet
  <1>11. CASE Kalloc(c) /\ SetTarget(p, Mapped(s, a, First, Flag(p, a))) /\ call' = [call EXCEPT ![p].a = a + 1]
    <2>1. PICK g, f : g = First /\ f = Flag(p, a) /\ f \in BOOLEAN /\ f = IF k.op = "fork" THEN v.pte[a].u ELSE TRUE
      <3>1. Flag(p, a) = (IF k.op = "fork" THEN v.pte[a].u ELSE TRUE) /\ Flag(p, a) \in BOOLEAN
        <4>1. v \in Space /\ v = vm[p] /\ k = call[p] /\ a \in VPage
          BY <1>2, <1>6
        <4> QED BY <4>1, FlagIs, Zenon
      <3> QED BY <3>1, Zenon
    <2>2. f \in BOOLEAN
      BY <2>1
    <2>2a. f = IF k.op = "fork" THEN v.pte[a].u ELSE TRUE
      BY <2>1
    <2>3. PICK s2 : s2 = Mapped(s, a, g, f)
      OBVIOUS
    <2>4. g \in Page0 /\ g # Null
      BY <1>11, <2>1, FirstIs
    <2>5. EnteredAs(s, s2, a, g, f)
      <3>1. s2.pte[a].page = g /\ s2.pte[a].u = f /\ \A d \in VPage : d # a => s2.pte[d] = s.pte[d]
        BY <1>6, <2>2, <2>3, <2>4, PutPte
      <3> QED BY <1>6, <2>4, <3>1 DEF EnteredAs
    <2>6. PICK k2 : k2 = [k EXCEPT !.a = a + 1]
      OBVIOUS
    <2>7. k2.at = "grow" /\ k2.op = k.op /\ k2.a = a + 1 /\ k2.old = k.old /\ k2.new = k.new
      BY <1>2, <1>4, <2>6 DEF Call
    <2>8. PICK w2, v2 : w2 = WorkAfter(k, w, s2) /\ v2 = VmAfter(k, v, s2)
      OBVIOUS
    <2>9. SetTarget(p, s2)
      BY <1>11, <2>1, <2>3
    <2>10. NewSpaces(p, w2, v2)
      BY <1>1, <2>8, <2>9, Targets
    <2>11. call' = [call EXCEPT ![p] = k2]
      BY <1>2, <1>11, <2>6
    <2>12. mem'[g] = (IF k.op = "fork" THEN mem[v.pte[a].page] ELSE Zero) /\ mem' \in [Page -> {0, 1}]
      BY <1>7, <1>9, <1>11, <2>1
    <2>13. \A q \in Proc : OnlyLoose(q) /\ VmSame(q) /\ WorkSame(q)
      BY <1>9, <1>11
    <2> QED BY <1>1, <1>3, <1>4, <2>2a, <2>5, <2>7, <2>8, <2>10, <2>11, <2>12, <2>13, TurnSees
  <1>12. CASE /\ OutOfMemory /\ UNCHANGED <<vm, work>>
              /\ call' = [call EXCEPT ![p].at = IF call[p].op = "fork" THEN "freevm" ELSE "undo", ![p].a = PGROUNDUP(call[p].old)]
    <2>1. PICK l, b : l = (IF call[p].op = "fork" THEN "freevm" ELSE "undo") /\ b = PGROUNDUP(call[p].old)
      OBVIOUS
    <2>2. l \in Ats /\ l \notin {"grow", "table"} /\ mem' = mem /\ vm' = vm /\ work' = work
      BY <1>12, <2>1 DEF Ats, OutOfMemory
    <2>3. call' = [call EXCEPT ![p].at = l, ![p].a = b]
      BY <1>12, <2>1
    <2>4. Priv' /\ Imgs' = Imgs
      BY <1>2, <2>2, <2>3, StageSees
    <2> QED BY <2>4
  <1> QED BY <1>2, <1>3, <1>5, <1>8, <1>10, <1>11, <1>12 DEF GrowPage

LEMMA GrowTableSees ==
    ASSUME MemInv, Priv, NEW p \in Proc, GrowTable(p)
    PROVE  Priv' /\ (Imgs' = Imgs \/ M!Extend(p))
  <1>1. PICK k, w, v, z : Names(p, k, w, v, z)
    BY Named
  <1>2. /\ k = call[p] /\ w = work[p] /\ v = vm[p] /\ k \in Call /\ w \in Space /\ v \in Space
        /\ call \in [Proc -> Call] /\ CallOK(k, w, v, z)
    BY <1>1, StepIs
  <1>3. PICK a, s, t : a = k.a /\ s = TargetOf(k, w, v) /\ t = PDX(a)
    OBVIOUS
  <1>4. k.at = "table" /\ a * PGSIZE < k.new /\ k.held # Null /\ k.held \in Page0
    BY <1>2, <1>3, CallFields DEF GrowTable, CallOK, HeldOK, GrowOK
  <1>5. s = Target(p)
    BY <1>1, <1>3, Targets
  <1>6. a \in VPage /\ a \in Nat /\ s \in Space
    BY <1>1, <1>3, <1>4, GrowTurn
  <1>7. t \in Table /\ a \in VPage
    BY <1>3, <1>6, PageNumbers
  <1>8. CASE /\ Kalloc(Zero)
             /\ SetTarget(p, Mapped([s EXCEPT !.tab[t] = First], a, k.held, Flag(p, a)))
             /\ call' = [call EXCEPT ![p].at = "grow", ![p].a = a + 1, ![p].held = Null]
    <2>1. PICK g, f : g = k.held /\ f = Flag(p, a) /\ f \in BOOLEAN /\ f = IF k.op = "fork" THEN v.pte[a].u ELSE TRUE
      <3>1. Flag(p, a) = (IF k.op = "fork" THEN v.pte[a].u ELSE TRUE) /\ Flag(p, a) \in BOOLEAN
        <4>1. v \in Space /\ v = vm[p] /\ k = call[p] /\ a \in VPage
          BY <1>2, <1>7
        <4> QED BY <4>1, FlagIs, Zenon
      <3> QED BY <3>1, Zenon
    <2>2. f \in BOOLEAN
      BY <2>1
    <2>2a. f = IF k.op = "fork" THEN v.pte[a].u ELSE TRUE
      BY <2>1
    <2>3. PICK h, s1 : h = First /\ s1 = [s EXCEPT !.tab[t] = h]
      OBVIOUS
    <2>4. h \in Page0
      BY <1>8, <2>3, FirstIs
    <2>5. s1 \in Space /\ s1.pte = s.pte
      BY <1>6, <1>7, <2>3, <2>4, PutTab
    <2>6. PICK s2 : s2 = Mapped(s1, a, g, f)
      OBVIOUS
    <2>7. EnteredAs(s, s2, a, g, f)
      <3>1. g \in Page0 /\ g # Null
        BY <1>4, <2>1
      <3>2. s2.pte[a].page = g /\ s2.pte[a].u = f /\ \A d \in VPage : d # a => s2.pte[d] = s1.pte[d]
        BY <1>7, <2>2, <2>5, <2>6, <3>1, PutPte
      <3> QED BY <1>7, <2>5, <3>1, <3>2 DEF EnteredAs
    <2>8. PICK k2, n, o : n = a + 1 /\ o = Null /\ k2 = [k EXCEPT !.at = "grow", !.a = n, !.held = o]
      OBVIOUS
    <2>9. k2.at = "grow" /\ k2.op = k.op /\ k2.a = a + 1 /\ k2.old = k.old /\ k2.new = k.new
      BY <1>2, <2>8 DEF Call
    <2>10. PICK w2, v2 : w2 = WorkAfter(k, w, s2) /\ v2 = VmAfter(k, v, s2)
      OBVIOUS
    <2>11. SetTarget(p, s2)
      BY <1>8, <2>1, <2>3, <2>6
    <2>12. NewSpaces(p, w2, v2)
      BY <1>1, <2>10, <2>11, Targets
    <2>13. call' = [call EXCEPT ![p] = k2]
      BY <1>2, <1>8, <2>8
    <2>14. mem' \in [Page -> {0, 1}] /\ \A q \in Proc : OnlyLoose(q) /\ VmSame(q) /\ WorkSame(q)
      BY <1>8, KallocFresh DEF Zero
    <2>15. mem'[g] = IF k.op = "fork" THEN mem[v.pte[a].page] ELSE Zero
      <3>1. PrivOK(k, w, v, mem)
        BY <1>2 DEF Priv
      <3>2. mem[g] = IF k.op = "fork" THEN mem[v.pte[a].page] ELSE Zero
        BY <1>3, <1>4, <2>1, <3>1 DEF PrivOK
      <3>3. mem'[g] = mem[g]
        BY <1>2, <1>4, <2>1, <2>14 DEF WorkSame
      <3> QED BY <3>2, <3>3
    <2> QED BY <1>1, <1>3, <1>4, <2>2a, <2>7, <2>9, <2>10, <2>12, <2>13, <2>14, <2>15, TurnSees
  <1>9. CASE /\ OutOfMemory /\ UNCHANGED <<vm, work>>
             /\ call' = [call EXCEPT ![p].at = IF call[p].op = "fork" THEN "drop" ELSE "undo", ![p].a = PGROUNDUP(call[p].old)]
    <2>1. PICK l, b : l = (IF call[p].op = "fork" THEN "drop" ELSE "undo") /\ b = PGROUNDUP(call[p].old)
      OBVIOUS
    <2>2. l \in Ats /\ l \notin {"grow", "table"} /\ mem' = mem /\ vm' = vm /\ work' = work
      BY <1>9, <2>1 DEF Ats, OutOfMemory
    <2>3. call' = [call EXCEPT ![p].at = l, ![p].a = b]
      BY <1>9, <2>1
    <2>4. Priv' /\ Imgs' = Imgs
      BY <1>2, <2>2, <2>3, StageSees
    <2> QED BY <2>4
  <1> QED BY <1>2, <1>3, <1>5, <1>8, <1>9 DEF GrowTable

\* deallocuvm() takes a page from the program, or from an image that exec()
\* gives up.
LEMMA DeallocSees ==
    ASSUME MemInv, Priv, NEW p \in Proc, Dealloc(p)
    PROVE  Priv' /\ (Imgs' = Imgs \/ M!Release(p))
  <1>1. PICK k, w, v, z : Names(p, k, w, v, z)
    BY Named
  <1>2. /\ k = call[p] /\ w = work[p] /\ v = vm[p] /\ k \in Call /\ w \in Space /\ v \in Space
        /\ call = [call EXCEPT ![p] = k] /\ CallOK(k, w, v, z)
    BY <1>1, StepIs
  <1>3. PICK s : s = TargetOf(k, w, v)
    OBVIOUS
  <1>4. k.at \in {"undo", "shrink"}
    BY <1>2 DEF Dealloc
  <1>5. s = Target(p) /\ s \in Space
    BY <1>1, <1>2, <1>3, Targets DEF TargetOf
  <1>6. PICK A, b : A = Present(s, k.a, k.new) /\ b = Min(A)
    OBVIOUS
  <1>7. A # {} /\ Kfree(s.pte[b].page) /\ SetTarget(p, Unmapped(s, b)) /\ call' = call
    BY <1>2, <1>5, <1>6 DEF Dealloc
  <1>8. b \in VPage /\ b \in Pages(s)
    <2>1. A \subseteq Nat
      BY <1>6, PageNumbers DEF Present
    <2>2. b \in A
      BY <1>6, <1>7, <2>1, MinNat
    <2> QED BY <1>6, <2>2 DEF Present, Pages
  <1>9. PICK s2, g : s2 = Unmapped(s, b) /\ g = s.pte[b].page
    OBVIOUS
  <1>10. Cleared(s, s2, b) /\ g \in Page /\ Kfree(g)
    BY <1>5, <1>7, <1>8, <1>9, Unmaps, PteIn
  <1>11. PICK w2, v2 : w2 = WorkAfter(k, w, s2) /\ v2 = VmAfter(k, v, s2)
    OBVIOUS
  <1>12. work' = [work EXCEPT ![p] = w2] /\ vm' = [vm EXCEPT ![p] = v2] /\ call' = [call EXCEPT ![p] = k]
    <2>1. NewSpaces(p, w2, v2)
      BY <1>1, <1>7, <1>9, <1>11, Targets
    <2> QED BY <1>2, <1>7, <2>1 DEF NewSpaces
  <1>13. CASE k.op # "sbrk"
    <2>1. s = w /\ w2 = s2 /\ v2 = v
      BY <1>3, <1>11, <1>13 DEF TargetOf, WorkAfter, VmAfter
    <2>2. vm' = vm
      BY <1>1, <1>12, <2>1, StepIs
    <2>3. PteOf(b) \in Entry /\ EntryOf(w, PteOf(b)) = g
      BY <1>8, <1>9, <2>1, Entries, EntryIs
    <2>4. Loose(p, g)
      BY <1>2, <2>3, WorkLoose
    <2>5. k.at \notin {"grow", "table"}
      BY <1>4
    <2>6. Priv' /\ Imgs' = Imgs
      BY <1>2, <1>10, <1>12, <2>2, <2>4, <2>5, FreeSees
    <2> QED BY <2>6
  <1>14. CASE k.op = "sbrk"
    <2>1. s = v /\ w2 = w /\ v2 = s2
      BY <1>3, <1>11, <1>14 DEF TargetOf, WorkAfter, VmAfter
    <2>2. Writes(p, b, g, 1)
      BY <1>2, <1>8, <1>9, <1>10, <2>1 DEF Writes, Kfree, Junk
    <2>3. /\ mem' \in [Page -> {0, 1}] /\ \A q \in Proc : WorkSame(q) /\ (q # p => VmSame(q))
          /\ \A c \in Pages(v) : c # b => mem'[v.pte[c].page] = mem[v.pte[c].page]
      <3>1. /\ mem' \in [Page -> {0, 1}] /\ \A q \in Proc : WorkSame(q) /\ (q # p => VmSame(q))
            /\ \A c \in Pages(vm[p]) : c # b => mem'[vm[p].pte[c].page] = mem[vm[p].pte[c].page]
        BY <2>2, VmWrite
      <3> QED BY <1>2, <3>1
    <2>4. PrivOK(k, w2, v2, mem')
      BY <1>4, <1>14, PrivAway
    <2>5. Priv' /\ M!Give(p, Img(v2, mem'))
      BY <1>12, <2>3, <2>4, StepOwn
    <2>6. PICK i : i = Image(p)
      OBVIOUS
    <2>7. i = [c \in Pages(v) |-> [val |-> mem[v.pte[c].page], u |-> v.pte[c].u]]
      BY <1>2, <2>6, ImageIs DEF Img
    <2>8. Pages(v2) = Pages(v) \ {b}
      <3>1. \A c \in VPage : c \in Pages(v2) <=> c \in Pages(v) /\ c # b
        BY <1>10, <2>1, UnmapsPages
      <3> QED BY <3>1 DEF Pages
    <2>9. Img(v2, mem') = [c \in DOMAIN i \ {b} |-> i[c]]
      <3>1. Img(v2, mem') = [c \in Pages(v) \ {b} |-> [val |-> mem'[v2.pte[c].page], u |-> v2.pte[c].u]]
        BY <2>8 DEF Img
      <3>2. ASSUME NEW c \in Pages(v) \ {b} PROVE [val |-> mem'[v2.pte[c].page], u |-> v2.pte[c].u] = i[c]
        <4>1. v2.pte[c] = v.pte[c]
          BY <1>10, <2>1, <3>2 DEF Cleared, Pages
        <4> QED BY <2>3, <2>7, <3>2, <4>1
      <3> QED BY <2>7, <3>1, <3>2
    <2>10. [q \in Proc |-> Image(q)][p] = i /\ b \in DOMAIN i
      BY <1>8, <2>1, <2>6, <2>7
    <2>11. M!Give(p, [c \in DOMAIN i \ {b} |-> i[c]])
      BY <2>5, <2>9
    <2>12. M!Release(p)
      BY <2>10, <2>11, Zenon DEF M!Release
    <2> QED BY <2>5, <2>12
  <1> QED BY <1>13, <1>14

LEMMA ReturnSees ==
    ASSUME MemInv, Priv, NEW p \in Proc, ShrinkDone(p) \/ SbrkDone(p) \/ Done(p)
    PROVE  Priv' /\ Imgs' = Imgs
  <1>1. mem' = mem /\ vm' = vm /\ work' = work /\ call' = [call EXCEPT ![p] = Idle]
    BY DEF ShrinkDone, SbrkDone, Done
  <1> QED BY <1>1, EndSees

LEMMA StillSees ==
    ASSUME MemInv, Priv, UNCHANGED <<mem, vm, work, call>>
    PROVE  Priv' /\ Imgs' = Imgs
  <1>1. mem' = mem /\ vm' = vm /\ work' = work /\ call' = call
    OBVIOUS
  <1>2. Priv'
    BY <1>1 DEF Priv, Page
  <1>3. Imgs' = Imgs
    BY <1>1, MemSame, ImagesSame
  <1> QED BY <1>2, <1>3

\* A step of p that gives the idle process c another memory.
LEMMA StepOther ==
    ASSUME MemInv, Priv, NEW p \in Proc, NEW c \in Proc, c # p, call[c] = Idle, OnlyLoose(p), mem' \in [Page -> {0, 1}],
           NEW k2, NEW w2, NEW v2, call' = [call EXCEPT ![p] = k2], work' = [work EXCEPT ![p] = w2],
           vm' = [vm EXCEPT ![c] = v2], PrivOK(k2, w2, vm[p], mem')
    PROVE  Priv' /\ M!Give(c, Img(v2, mem'))
  <1>1. (\A q \in Proc : VmSame(q)) /\ \A q \in Proc : q # p => WorkSame(q)
    BY LooseUnseen
  <1>2. /\ \A q \in Proc : call'[q] = IF q = p THEN k2 ELSE call[q]
        /\ \A q \in Proc : work'[q] = IF q = p THEN w2 ELSE work[q]
        /\ \A q \in Proc : vm'[q] = IF q = c THEN v2 ELSE vm[q]
    BY DEF MemInv, MemTypes
  <1>3. ASSUME NEW q \in Proc PROVE PrivOK(call'[q], work'[q], vm'[q], mem')
    <2>1. CASE q = p
      BY <1>2, <2>1
    <2>2. CASE q = c
      BY <1>2, <2>2, PrivIdle
    <2>3. CASE q # p /\ q # c
      <3>1. PrivOK(call[q], work[q], vm[q], mem')
        BY <1>1, <2>3, PrivKept
      <3> QED BY <1>2, <2>3, <3>1
    <2> QED BY <2>1, <2>2, <2>3
  <1>4. Priv'
    BY <1>3 DEF Priv, Page
  <1>5. ASSUME NEW q \in Proc, q # c PROVE Image(q)' = Image(q)
    <2>1. Image(q) = Img(vm[q], mem) /\ Image(q)' = Img(vm[q], mem')
      BY <1>2, <1>5, ImageIs
    <2>2. \A b \in Pages(vm[q]) : mem'[vm[q].pte[b].page] = mem[vm[q].pte[b].page]
      BY <1>1 DEF VmSame
    <2> QED BY <2>1, <2>2 DEF Img
  <1>6. Image(c)' = Img(v2, mem')
    BY <1>2, ImageIs
  <1> QED BY <1>4, <1>5, <1>6, GiveIs

LEMMA NoImage ==
    ASSUME NEW m PROVE Img(NoSpace, m) = M!Empty
  BY NoSpaceIs DEF Img, M!Empty

\* wait() takes the memory of the zombie.
LEMMA WaitStartSees ==
    ASSUME MemInv, Priv, NEW p \in Proc, NEW c \in Proc, WaitStart(p, c)
    PROVE  Priv' /\ M!Reap(c)
  <1>1. Running(p) /\ PtableFree /\ state[c] = "ZOMBIE" /\ state[p] = "RUNNING"
    BY DEF WaitStart, Running
  <1>2. c # p /\ call[c] = Idle
    BY <1>1, OthersAlone
  <1>3. PICK g : g = kstack[c]
    OBVIOUS
  <1>4. g \in Page
    <2>1. ~Waited(c)
      BY <1>1 DEF Waited, PtableFree
    <2>2. SlotOK(c) /\ g \in Page0
      BY <1>3, SlotTypes
    <2> QED BY <1>1, <1>3, <2>1, <2>2 DEF SlotOK, Page0
  <1>5. Loose(p, g) /\ Kfree(g)
    BY <1>3 DEF Loose, WaitStart
  <1>6. mem' \in [Page -> {0, 1}] /\ OnlyLoose(p)
    BY <1>4, <1>5, KfreeLoose
  <1>7. PICK k2, w2, v2 : k2 = [Idle EXCEPT !.op = "wait", !.at = "freevm", !.child = c] /\ w2 = vm[c] /\ v2 = NoSpace
    OBVIOUS
  <1>8. k2.op = "wait" /\ k2.at = "freevm"
    BY <1>7 DEF Idle
  <1>9. PrivOK(k2, w2, vm[p], mem')
    BY <1>8, PrivAway
  <1>10. call' = [call EXCEPT ![p] = k2] /\ work' = [work EXCEPT ![p] = w2] /\ vm' = [vm EXCEPT ![c] = v2]
    BY <1>7 DEF WaitStart
  <1>11. Priv' /\ M!Give(c, Img(v2, mem'))
    BY <1>2, <1>6, <1>9, <1>10, StepOther
  <1>12. Img(v2, mem') = M!Empty
    BY <1>7, NoImage
  <1> QED BY <1>11, <1>12 DEF M!Reap

\* fork() gives the child what the parent has.
LEMMA ForkDoneSees ==
    ASSUME MemInv, Priv, NEW p \in Proc, ForkDone(p)
    PROVE  Priv' /\ \E c \in Proc : M!Fork(p, c)
  <1>1. PICK k, w, v, z : Names(p, k, w, v, z)
    BY Named
  <1>2. k = call[p] /\ w = work[p] /\ v = vm[p] /\ k \in Call /\ w \in Space /\ v \in Space
    BY <1>1, StepIs
  <1>3. k.op = "fork" /\ k.at = "grow" /\ k.a * PGSIZE >= k.new /\ mem' = mem
    BY <1>2 DEF ForkDone
  <1>4. PICK c : c = k.child
    OBVIOUS
  <1>5. c \in Proc /\ state[p] = "RUNNING" /\ call[c] = Idle
    BY <1>2, <1>3, <1>4, ForkedAlone
  <1>6. state[c] = "EMBRYO" /\ vm[c] = NoSpace
    BY <1>2, <1>3, <1>4, <1>5, SlotTypes DEF MemInv, ChildOK, SlotOK
  <1>7. c # p
    BY <1>5, <1>6
  <1>8. mem' \in [Page -> {0, 1}] /\ OnlyLoose(p)
    BY <1>3, MemSame DEF Priv
  <1>9. PICK k2, w2 : k2 = Idle /\ w2 = NoSpace
    OBVIOUS
  <1>10. call' = [call EXCEPT ![p] = k2] /\ work' = [work EXCEPT ![p] = w2] /\ vm' = [vm EXCEPT ![c] = w]
    BY <1>2, <1>4, <1>9 DEF ForkDone
  <1>11. Priv' /\ M!Give(c, Img(w, mem'))
    <2>1. PrivOK(k2, w2, vm[p], mem')
      BY <1>9, PrivIdle
    <2> QED BY <1>5, <1>7, <1>8, <1>10, <2>1, StepOther
  <1>12. PrivOK(k, w, v, mem)
    BY <1>2 DEF Priv
  <1>13. Pages(w) = Pages(v)
    <2>1. Pages(w) = Below(z)
      BY <1>1, <1>3, CopyComplete
    <2>2. 0 \in Pages(v)
      BY <1>3, <1>12 DEF PrivOK
    <2>3. Pages(v) = Below(z)
      BY <1>1, <1>3, <2>2, CopyAlong
    <2> QED BY <2>1, <2>3
  <1>14. \A b \in Pages(w) : mem[w.pte[b].page] = mem[v.pte[b].page] /\ w.pte[b].u = v.pte[b].u
    BY <1>3, <1>12 DEF PrivOK
  <1>15. Img(w, mem') = Image(p)
    <2>1. Image(p) = Img(v, mem)
      BY <1>2, ImageIs
    <2>2. Img(w, mem') = [b \in Pages(v) |-> [val |-> mem[w.pte[b].page], u |-> w.pte[b].u]]
      BY <1>3, <1>13 DEF Img
    <2>3. Img(v, mem) = [b \in Pages(v) |-> [val |-> mem[v.pte[b].page], u |-> v.pte[b].u]]
      BY DEF Img
    <2>4. \A b \in Pages(v) : [val |-> mem[w.pte[b].page], u |-> w.pte[b].u] = [val |-> mem[v.pte[b].page], u |-> v.pte[b].u]
      BY <1>13, <1>14
    <2> QED BY <2>1, <2>2, <2>3, <2>4
  <1>16. Image(c) = M!Empty
    BY <1>5, <1>6, ImageIs, NoImage
  <1>17. [q \in Proc |-> Image(q)][c] = M!Empty /\ [q \in Proc |-> Image(q)][p] = Image(p)
    BY <1>5, <1>16
  <1>18. M!Fork(p, c)
    BY <1>11, <1>15, <1>17 DEF M!Fork
  <1> QED BY <1>5, <1>11, <1>18

LEMMA DivTwo ==
    ASSUME NEW n \in Nat, NEW P \in Nat \ {0}
    PROVE  (n * P + 2 * P) \div P = n + 2
  <1>1. PICK q, x : x = n * P + 2 * P /\ q = x \div P
    OBVIOUS
  <1>2. n * P \in Nat /\ 2 * P \in Nat /\ x \in Nat
    BY <1>1
  <1>3. q \in Nat /\ q * P <= x /\ x < q * P + P
    BY <1>1, <1>2, DivIs
  <1>4. x = (n + 2) * P
    BY <1>1
  <1>5. q * P \in Nat /\ (q + 1) * P = q * P + P
    BY <1>3
  <1>6. CASE q < n + 2
    <2>1. (q + 1) * P <= (n + 2) * P
      BY <1>3, <1>6, MulMono
    <2> QED BY <1>2, <1>3, <1>4, <1>5, <2>1
  <1>7. CASE n + 2 < q
    <2>1. (n + 3) * P <= q * P
      BY <1>3, <1>7, MulMono
    <2>2. (n + 3) * P = (n + 2) * P + P /\ (n + 2) * P \in Nat
      OBVIOUS
    <2> QED BY <1>2, <1>3, <1>4, <1>5, <2>1, <2>2
  <1> QED BY <1>1, <1>3, <1>6, <1>7

\* The image of exec(): n pages of program, the guard page, the stack.
LEMMA StackPages ==
    ASSUME NEW n \in Nat, NEW x, x = n * PGSIZE + 2 * PGSIZE, x < KERNBASE
    PROVE  /\ Below(x) = 0..(n + 1) /\ n \in VPage /\ n + 1 \in VPage
           /\ \A b \in 0..(n + 1) : b * PGSIZE < n * PGSIZE <=> b < n
  <1>1. PICK P \in Nat \ {0} : P = PGSIZE
    BY MemoryAssumption
  <1>2. n * P \in Nat /\ x \in Nat /\ x = n * P + 2 * P
    BY <1>1
  <1>3. x = (n + 2) * P /\ (n + 1) * P < x
    BY <1>2
  <1>4. KERNBASE \in Nat /\ (n + 1) * P \in Nat
    BY <1>1, PageNumbers
  <1>5. n + 1 \in VPage /\ n \in VPage
    <2>1. (n + 1) * P < KERNBASE /\ n * P < KERNBASE
      BY <1>1, <1>2, <1>3, <1>4
    <2> QED BY <1>1, <2>1, PageNumbers
  <1>6. \A b \in 0..(n + 1) : b \in VPage
    <2>1. PICK N : N = NPTENTRIES * NPDENTRIES /\ N \in Nat
      BY MemoryAssumption
    <2>2. VPage = 0..(N - 1)
      BY <2>1 DEF VPage
    <2> QED BY <1>5, <2>1, <2>2
  <1>7. ASSUME NEW b \in Nat, b <= n + 1 PROVE b * P < x
    <2>1. b * P <= (n + 1) * P /\ b * P \in Nat
      BY <1>7, MulMono
    <2> QED BY <1>2, <1>3, <1>4, <2>1
  <1>8. ASSUME NEW b \in Nat, n + 2 <= b PROVE ~(b * P < x)
    <2>1. (n + 2) * P <= b * P /\ b * P \in Nat
      BY <1>8, MulMono
    <2> QED BY <1>2, <1>3, <2>1
  <1>9. Below(x) = 0..(n + 1)
    <2>1. ASSUME NEW b \in VPage PROVE b * P < x <=> b \in 0..(n + 1)
      <3>1. b \in Nat
        BY PageNumbers
      <3> QED BY <1>7, <1>8, <3>1
    <2> QED BY <1>1, <1>6, <2>1 DEF Below
  <1>10. ASSUME NEW b \in 0..(n + 1) PROVE b * P < n * P <=> b < n
    <2>1. CASE b < n
      <3>1. (b + 1) * P <= n * P
        BY <2>1, MulMono
      <3>2. (b + 1) * P = b * P + P /\ b * P \in Nat
        OBVIOUS
      <3> QED BY <1>2, <2>1, <3>1, <3>2
    <2>2. CASE n <= b
      <3>1. n * P <= b * P /\ b * P \in Nat
        BY <2>2, MulMono
      <3> QED BY <1>2, <2>2, <3>1
    <2> QED BY <2>1, <2>2
  <1> QED BY <1>1, <1>5, <1>9, <1>10

\* exec() shows the process the new image, and nothing of it before.
LEMMA ExecCommitSees ==
    ASSUME MemInv, Priv, NEW p \in Proc, ExecCommit(p)
    PROVE  Priv' /\ (Imgs' = Imgs \/ M!Exec(p))
  <1>1. PICK k, w, v, z : Names(p, k, w, v, z)
    BY Named
  <1>2. /\ k = call[p] /\ w = work[p] /\ v = vm[p] /\ k \in Call /\ w \in Space /\ v \in Space
        /\ CallOK(k, w, v, z) /\ call \in [Proc -> Call]
    BY <1>1, StepIs
  <1>3. k.op = "stack" /\ k.at = "grow" /\ k.a * PGSIZE >= k.new
    BY <1>2 DEF ExecCommit
  <1>4. PrivOK(k, w, v, mem) /\ mem \in [Page -> {0, 1}]
    BY <1>2 DEF Priv
  <1>5. PICK n \in Nat : k.old = n * PGSIZE /\ k.new = n * PGSIZE + 2 * PGSIZE /\ k.new < KERNBASE
    BY <1>3, <1>4 DEF PrivOK
  <1>6. k.new \div PGSIZE - 2 = n
    <2>1. PICK P \in Nat \ {0} : P = PGSIZE
      BY MemoryAssumption
    <2>2. k.new \div P = n + 2
      BY <1>5, <2>1, DivTwo
    <2> QED BY <2>1, <2>2
  <1>7. PICK x : x = k.new
    OBVIOUS
  <1>8. /\ Below(x) = 0..(n + 1) /\ n \in VPage /\ n + 1 \in VPage
        /\ \A b \in 0..(n + 1) : b * PGSIZE < n * PGSIZE <=> b < n
    BY <1>5, <1>7, StackPages
  <1>9. PICK s, g : s = clearpteu(w, n) /\ g = s.pte[n + 1].page
    OBVIOUS
  <1>10. CASE /\ work' = [work EXCEPT ![p] = v] /\ vm' = [vm EXCEPT ![p] = s]
              /\ mem' = copyout(s, n + 1) /\ call' = [call EXCEPT ![p].op = "execed", ![p].at = "freevm"]
    <2>1. Pages(w) = 0..(n + 1)
      <3>1. k.new \in Nat /\ k.a \in Nat /\ k.new <= KERNBASE /\ Pages(w) = {c \in VPage : c < k.a}
            /\ \A c \in 0..(k.a - 1) : c * PGSIZE < k.new
        BY <1>2, <1>3, CallFields DEF CallOK, GrowOK
      <3>2. Pages(w) = Below(k.new)
        BY <1>3, <3>1, BelowIs
      <3> QED BY <1>7, <1>8, <3>2
    <2>2. /\ \A c \in VPage : s.pte[c].page = w.pte[c].page
          /\ s.pte[n].u = FALSE /\ \A c \in VPage : c # n => s.pte[c] = w.pte[c]
      <3>1. w \in Space /\ n \in VPage /\ s = clearpteu(w, n)
        BY <1>2, <1>8, <1>9
      <3>2. ASSUME NEW c \in VPage, c # n PROVE s.pte[c] = w.pte[c]
        BY <3>1, <3>2 DEF Space, clearpteu
      <3>3. s.pte[n].page = w.pte[n].page /\ s.pte[n].u = FALSE
        BY <3>1 DEF Space, Pte, clearpteu
      <3> QED BY <3>2, <3>3
    <2>3. \A c \in 0..(n + 1) : c \in VPage
      BY <2>1 DEF Pages
    <2>4. Pages(s) = 0..(n + 1)
      BY <2>1, <2>2 DEF Pages
    <2>5. n + 1 \in Pages(w) /\ g = w.pte[n + 1].page
      BY <1>8, <1>9, <2>1, <2>2
    <2>6. PICK y : y = n + 1
      OBVIOUS
    <2>7. SpaceAt("work", p, PteOf(y)) \in Place /\ PteOf(y) \in Entry /\ OwnMap[SpaceAt("work", p, PteOf(y))] = g /\ g \in Page /\ g # Null
      BY <1>2, <2>5, <2>6, WorkPlace
    <2>8. mem' = [mem EXCEPT ![g] = 1]
      BY <1>9, <1>10 DEF copyout
    <2>9. mem' \in [Page -> {0, 1}] /\ mem'[g] = 1 /\ \A h \in Page : h # g => mem'[h] = mem[h]
      BY <1>4, <2>7, <2>8
    <2>10. Loose(p, g)
      <3>1. EntryOf(work[p], PteOf(y)) = g
        BY <1>2, <1>8, <2>5, <2>6, Entries, EntryIs
      <3> QED BY <2>7, <3>1, WorkLoose
    <2>11. OnlyLoose(p)
      BY <2>9, <2>10 DEF OnlyLoose
    <2>12. PICK k2 : k2 = [k EXCEPT !.op = "execed", !.at = "freevm"]
      OBVIOUS
    <2>13. k2.op = "execed" /\ k2.at = "freevm" /\ call' = [call EXCEPT ![p] = k2]
      BY <1>2, <1>10, <2>12 DEF Call
    <2>14. PrivOK(k2, v, s, mem')
      BY <2>13, PrivAway
    <2>15. Priv' /\ M!Give(p, Img(s, mem'))
      BY <1>10, <2>9, <2>11, <2>13, <2>14, LooseUnseen, StepOwn
    <2>16. ASSUME NEW b \in 0..(n + 1)
           PROVE  mem'[s.pte[b].page] = (IF b = n THEN 0 ELSE 1) /\ s.pte[b].u = (b # n)
      <3>1. b \in VPage /\ b \in Pages(w) /\ s.pte[b].page = w.pte[b].page
        BY <2>1, <2>2, <2>3, <2>16
      <3>2. w.pte[b].u = TRUE /\ mem[w.pte[b].page] = IF b * PGSIZE < k.old THEN 1 ELSE Zero
        BY <1>3, <1>4, <3>1 DEF PrivOK
      <3>3. s.pte[b].u = (b # n)
        <4>1. CASE b = n
          BY <2>2, <4>1
        <4>2. CASE b # n
          BY <2>2, <3>1, <3>2, <4>2
        <4> QED BY <4>1, <4>2
      <3>4. mem'[s.pte[b].page] = IF b = n THEN 0 ELSE 1
        <4>1. CASE b = y
          BY <2>5, <2>6, <2>9, <3>1, <4>1
        <4>2. CASE b # y
          <5>1. PICK h : h = w.pte[b].page
            OBVIOUS
          <5>2. SpaceAt("work", p, PteOf(b)) \in Place /\ PteOf(b) \in Entry /\ OwnMap[SpaceAt("work", p, PteOf(b))] = h /\ h \in Page
            BY <1>2, <3>1, <5>1, WorkPlace
          <5>3. PteOf(b) # PteOf(y)
            BY <1>8, <2>6, <3>1, <4>2, Entries
          <5>4. SpaceAt("work", p, PteOf(b)) # SpaceAt("work", p, PteOf(y))
            BY <2>7, <5>2, <5>3, Places
          <5>5. h # g
            BY <2>7, <5>2, <5>4, OnePlace
          <5>6. mem'[h] = mem[h]
            BY <2>9, <5>2, <5>5
          <5>7. b * PGSIZE < k.old <=> b < n
            BY <1>5, <1>8, <2>16
          <5>8. b < n <=> b # n
            BY <2>6, <2>16, <4>2
          <5> QED BY <3>1, <3>2, <5>1, <5>6, <5>7, <5>8 DEF Zero
        <4> QED BY <4>1, <4>2
      <3> QED BY <3>3, <3>4
    <2>17. Img(s, mem') = [b \in 0..(n + 1) |-> [val |-> IF b = n THEN 0 ELSE 1, u |-> b # n]]
      BY <2>4, <2>16 DEF Img
    <2>18. M!Give(p, [b \in 0..(n + 1) |-> [val |-> IF b = n THEN 0 ELSE 1, u |-> b # n]])
      BY <2>15, <2>17
    <2>19. M!Exec(p)
      BY <1>8, <2>18, Zenon DEF M!Exec
    <2> QED BY <2>15, <2>19
  <1>11. CASE call' = [call EXCEPT ![p].at = "freevm"] /\ UNCHANGED <<work, vm, sz, mem>>
    <2>1. "freevm" \in Ats /\ work' = work /\ vm' = vm /\ mem' = mem
      BY <1>11 DEF Ats
    <2>2. PICK l : l = "freevm"
      OBVIOUS
    <2>3. l \in Ats /\ l \notin {"grow", "table"} /\ call' = [call EXCEPT ![p].at = l]
      BY <1>11, <2>1, <2>2
    <2>4. Priv' /\ Imgs' = Imgs
      BY <1>2, <2>1, <2>3, StageSees
    <2> QED BY <2>4
  <1> QED BY <1>2, <1>6, <1>9, <1>10, <1>11 DEF ExecCommit

LEMMA PrivInit ==
    ASSUME MemInit PROVE Priv /\ M!MInit
  <1>1. /\ \A q \in Proc : call[q] = Idle
        /\ \A q \in Proc : vm[q] = IF q = InitProc THEN inituvm ELSE NoSpace
        /\ mem = [g \in Page |-> IF g = 5 THEN Zero ELSE Junk]
    BY DEF MemInit
  <1>2. Priv
    <2>1. mem \in [Page -> {0, 1}]
      BY <1>1 DEF Zero, Junk
    <2> QED BY <1>1, <2>1, PrivIdle DEF Priv
  <1>3. Img(inituvm, mem) = [b \in {0} |-> M!Fresh]
    <2>1. 0 \in VPage /\ 5 \in Page /\ 5 # Null
      BY PageNumbers, MemoryAssumption DEF Page, Null
    <2>2. \A b \in VPage : inituvm.pte[b].page = IF b = 0 THEN 5 ELSE Null
      BY InitSpace
    <2>3. Pages(inituvm) = {0}
      BY <2>1, <2>2 DEF Pages
    <2>4. mem[inituvm.pte[0].page] = 0
      BY <1>1, <2>1, <2>2 DEF Zero
    <2>5. inituvm.pte[0].u = TRUE
      BY <2>1, NoSpaceIs DEF inituvm, Space, Pte
    <2> QED BY <2>3, <2>4, <2>5 DEF Img, M!Fresh
  <1>4. \A q \in Proc : Image(q) = IF q = InitProc THEN [b \in {0} |-> M!Fresh] ELSE M!Empty
    <2>1. ASSUME NEW q \in Proc PROVE Image(q) = IF q = InitProc THEN [b \in {0} |-> M!Fresh] ELSE M!Empty
      <3>1. Image(q) = Img(vm[q], mem)
        BY ImageIs
      <3>2. CASE q = InitProc
        BY <1>1, <1>3, <3>1, <3>2
      <3>3. CASE q # InitProc
        BY <1>1, <3>1, <3>3, NoImage
      <3> QED BY <3>2, <3>3
    <2> QED BY <2>1
  <1> QED BY <1>2, <1>4 DEF M!MInit

LEMMA PrivStep ==
    ASSUME MemInv, Priv, [MemNext]_memvars
    PROVE  Priv' /\ (M!MNext \/ Imgs' = Imgs)
  <1>1. CASE UNCHANGED memvars
    <2>1. UNCHANGED <<mem, vm, work, call>>
      BY <1>1 DEF memvars
    <2> QED BY <2>1, StillSees
  <1>2. ASSUME NEW p \in Proc, M!Write(p) \/ M!Extend(p) \/ M!Release(p) \/ M!Exec(p) \/ M!Reap(p) \/ \E c \in Proc : M!Fork(p, c)
        PROVE  M!MNext
    BY <1>2, Zenon DEF M!MNext
  <1>3. ASSUME NEW p \in Proc, Begin(p) PROVE Priv' /\ (M!MNext \/ Imgs' = Imgs)
    <2>1. ASSUME NEW c \in Proc, ForkStart(p, c) PROVE Priv' /\ Imgs' = Imgs
      BY <2>1, ForkStartSees
    <2>2. ASSUME NEW c \in Proc, WaitStart(p, c) PROVE Priv' /\ M!MNext
      BY <1>2, <2>2, WaitStartSees
    <2>3. ASSUME NEW n \in ExecSizes, ExecStart(p, n) PROVE Priv' /\ Imgs' = Imgs
      BY <2>3, ExecStartSees
    <2>4. ASSUME NEW n \in SbrkArgs, SbrkGrow(p, n) \/ SbrkShrink(p, n) PROVE Priv' /\ Imgs' = Imgs
      BY <2>4, SbrkStartSees
    <2>5. ASSUME NEW a \in VPage, Store(p, a) PROVE Priv' /\ M!MNext
      BY <1>2, <2>5, StoreSees
    <2>6. ASSUME Exit(p) PROVE Priv' /\ Imgs' = Imgs
      BY <2>6, StillSees DEF Exit
    <2> QED BY <1>3, <2>1, <2>2, <2>3, <2>4, <2>5, <2>6 DEF Begin
  <1>4. ASSUME NEW p \in Proc, Build(p) PROVE Priv' /\ (M!MNext \/ Imgs' = Imgs)
    <2>1. ASSUME Kstack(p) \/ SetupDir(p) \/ SetupKern(p) PROVE Priv' /\ Imgs' = Imgs
      BY <2>1, KstackSees, SetupDirSees, SetupKernSees
    <2>2. ASSUME GrowPage(p) \/ GrowTable(p) PROVE Priv' /\ (M!MNext \/ Imgs' = Imgs)
      BY <1>2, <2>2, GrowPageSees, GrowTableSees
    <2> QED BY <1>4, <2>1, <2>2 DEF Build
  <1>5. ASSUME NEW p \in Proc, TearDown(p) PROVE Priv' /\ (M!MNext \/ Imgs' = Imgs)
    <2>1. ASSUME Dealloc(p) PROVE Priv' /\ (M!MNext \/ Imgs' = Imgs)
      BY <1>2, <2>1, DeallocSees
    <2>2. ASSUME UndoDone(p) \/ Drop(p) \/ ShrinkDone(p) PROVE Priv' /\ Imgs' = Imgs
      BY <2>2, UndoDoneSees, DropSees, ReturnSees
    <2>3. ASSUME FreeUser(p) \/ FreeTable(p) \/ FreeDir(p) PROVE Priv' /\ Imgs' = Imgs
      BY <2>3, FreeUserSees, FreeTableSees, FreeDirSees
    <2> QED BY <1>5, <2>1, <2>2, <2>3 DEF TearDown
  <1>6. ASSUME NEW p \in Proc, Finish(p) PROVE Priv' /\ (M!MNext \/ Imgs' = Imgs)
    <2>1. ASSUME ForkDone(p) PROVE Priv' /\ M!MNext
      BY <1>2, <2>1, ForkDoneSees
    <2>2. ASSUME Exec(p) PROVE Priv' /\ (M!MNext \/ Imgs' = Imgs)
      BY <1>2, <2>2, ExecLoadSees, ExecCommitSees DEF Exec
    <2>3. ASSUME Failed(p) \/ ForkFull(p) \/ SbrkDone(p) \/ Done(p) PROVE Priv' /\ Imgs' = Imgs
      BY <2>3, FailedSees, ForkFullSees, ReturnSees
    <2> QED BY <1>6, <2>1, <2>2, <2>3 DEF Finish
  <1> QED BY <1>1, <1>3, <1>4, <1>5, <1>6 DEF MemNext

\* The kernel's pages and page tables give every program a memory of its own:
\* only its own stores, sbrk(), exec() and the wait() for it change what it
\* sees, new pages are zero, a child starts with a copy of its parent's
\* memory, and an exec() or fork() that fails half way shows nothing of what
\* it did (vm.c, exec.c, proc.c, kalloc.c).
THEOREM MemoryIsPrivate == MemSpec => IsPrivate
  <1>1. MemInit => Priv /\ M!MInit
    BY PrivInit
  <1>2. MemInv /\ Priv /\ [MemNext]_memvars => Priv' /\ [M!MNext]_[p \in Proc |-> Image(p)]
    BY PrivStep DEF Imgs
  <1> QED BY <1>1, <1>2, MemoryInvariance, PTL DEF MemSpec, IsPrivate, M!MSpec
=============================================================================
