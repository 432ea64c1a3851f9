--------------------------- MODULE FileDataProofs ---------------------------
(***************************************************************************)
(* Proofs about the contents of files, for any disk whose image is sound,  *)
(* any number of processes, files and descriptors and any system calls:    *)
(* blocks are neither shared nor lost, the inode cache is written through, *)
(* files have no holes, no operation exceeds its share of the log, and the *)
(* kernel panics only when the disk is full.                               *)
(***************************************************************************)
EXTENDS SoundImage, FiniteSetTheorems, SequenceTheorems, TLAPS

-----------------------------------------------------------------------------
(* The invariant. *)

CallAt == {"user", "lock", "loop", "return", "put", "trunc", "drop"}
Op == {"none", "read", "write", "create"}
Call == [at: CallAt, op: Op, f: File \cup {None}, ip: Inode, n: Nat, tot: Nat, left: Nat,
         j: 0..NINDIRECT, out: Seq(Value), logged: SUBSET Block, before: Seq(Value)]
OFile == [ref: Nat, ip: Inode \cup {None}, off: Nat]

CtlTypeOK ==
    /\ ref \in [Inode -> Nat]
    /\ lock \in [Inode -> Proc \cup {NoProc}]
    /\ ftable \in [File -> OFile]
    /\ ofile \in [Proc -> [Fd -> File \cup {None}]]
    /\ pstate \in [Proc -> {"unused", "run", "exit"}]
    /\ call \in [Proc -> Call]
    /\ panicked \in BOOLEAN

DskTypeOK ==
    /\ bitmap \subseteq Block
    /\ blk \in [Block -> [Unit -> Value]]
    /\ dinode \in [Inode -> Dinode] /\ inode \in [Inode -> Dinode]

\* The descriptors of an open file, and who has got a reference to an inode.
Uses(f) == {w \in Proc \X Fd : ofile[w[1]][w[2]] = f}
Opened(i) == {f \in File : ftable[f].ref # 0 /\ ftable[f].ip = i}
Iput == {"put", "trunc", "drop"}
Putting(i) == {p \in Proc : call[p].at \in Iput /\ call[p].ip = i}

FileInv == \A f \in File :
    /\ ftable[f].ref = Cardinality(Uses(f))
    /\ ftable[f].ref # 0 => ftable[f].ip \in Inode
ProcInv == \A p \in Proc : pstate[p] = "unused" =>
    call[p].at = "user" /\ \A d \in Fd : ofile[p][d] = None
RefInv == \A i \in Inode :
    ref[i] = Cardinality(Opened(i)) + Cardinality(Putting(i))
              + (IF i = ROOTINO THEN 1 ELSE 0)

InFile(p) == call[p].at \in {"lock", "loop"} /\ call[p].op \in {"read", "write"}
CallSane(p) ==
    /\ InFile(p) => /\ call[p].f \in File /\ ftable[call[p].f].ip = call[p].ip
                    /\ \E d \in Fd : ofile[p][d] = call[p].f
    /\ call[p].at = "lock" => call[p].op = "write"
    /\ call[p].at = "loop" => call[p].op # "none" /\ call[p].tot <= call[p].n
    /\ call[p].op = "write" => call[p].ip # ROOTINO
    /\ call[p].op = "create" => call[p].ip = ROOTINO
    /\ call[p].at \notin {"trunc", "drop"} => call[p].j = 0
CallInv == \A p \in Proc : CallSane(p)

Locks(p) == call[p].at \in {"loop", "trunc"}
LockInv ==
    /\ \A i \in Inode : lock[i] # NoProc => call[lock[i]].ip = i /\ Locks(lock[i])
    /\ \A p \in Proc : call[p].at = "trunc" => lock[call[p].ip] = p
    /\ \A p \in Proc : call[p].at = "loop" /\ ~panicked => lock[call[p].ip] = p

\* What the loops have ahead of them.
Loops(p, op) == call[p].at = "loop" /\ call[p].op = op
FOff(p) == ftable[call[p].f].off
RangeSane(p) ==
    /\ Loops(p, "read") => FOff(p) + call[p].n <= inode[call[p].ip].size
    /\ Loops(p, "create") => call[p].n = inode[ROOTINO].size
    /\ Loops(p, "write") =>
         /\ FOff(p) <= inode[call[p].ip].size
         /\ FOff(p) + call[p].n <= MAXFILE * BSIZE
         /\ call[p].n <= call[p].left /\ call[p].n <= max
RangeInv == \A p \in Proc : RangeSane(p)

Writing(i) == lock[i] # NoProc /\ Loops(lock[i], "write")
Truncating(i) == lock[i] # NoProc /\ call[lock[i]].at = "trunc"
Still(i) == ~Writing(i) /\ ~Truncating(i)

Own == [w \in Spot |-> SlotAt(Loaded(w[1]).addrs, blk, Freed(w[1]), w[2])]

OwnInv == OwnedOnce(Own, bitmap)

\* Type and links are the same in the cache and on disk.
HeadSane(i) == ref[i] # 0 =>
    inode[i].type = dinode[i].type /\ inode[i].nlink = dinode[i].nlink
HeadInv == \A i \in Inode : HeadSane(i)

\* The cache is written through, but for an inode that writei() or itrunc() is
\* working on; a write that does not grow the file does not change it.
ThroughSane(i) ==
    /\ Still(i) => Loaded(i) = dinode[i]
    /\ Writing(i) =>
         /\ inode[i].size = dinode[i].size
         /\ FOff(lock[i]) + call[lock[i]].n <= inode[i].size => inode[i] = dinode[i]
ThroughInv == \A i \in Inode : ThroughSane(i)

\* In writei() the blocks reach up to the size, or to the piece at hand.
Pos(p) == FOff(p) + call[p].tot
WriteCovered(O, i, size, o, more) ==
    \A n \in 0..(MAXFILE - 1) :
       /\ n * BSIZE < size \/ n * BSIZE < o => O[<<i, SlotOf(n)>>] # NULL
       /\ O[<<i, SlotOf(n)>>] # NULL =>
            n * BSIZE < size \/ n * BSIZE < o \/ (n = o \div BSIZE /\ more)
HoleSane(i) ==
    /\ Still(i) => Covered(Own, i, Loaded(i).size)
    /\ Writing(i) => WriteCovered(Own, i, inode[i].size, Pos(lock[i]),
                                  call[lock[i]].tot < call[lock[i]].n)
HoleInv == \A i \in Inode : HoleSane(i)

\* Nobody uses a free inode; itrunc() has the last reference.
FreeSane(i) == dinode[i].type = "free" =>
    /\ lock[i] = NoProc /\ dinode[i] = FreeInode
    /\ Opened(i) = {}
    /\ \A p \in Putting(i) : call[p].at = "drop"
FreeInv == \A i \in Inode : FreeSane(i)
TruncSane(p) == call[p].at = "trunc" =>
    /\ Opened(call[p].ip) = {} /\ Putting(call[p].ip) = {p}
    /\ dinode[call[p].ip].nlink = 0
TruncInv == \A p \in Proc : TruncSane(p)

Entry == [k \in 1..dinode[ROOTINO].size |->
             blk[Own[<<ROOTINO, SlotOf((k - 1) \div BSIZE)>>]][(k - 1) % BSIZE]]
DirInv == DirSound(Entry, dinode)

\* The blocks that a chunk of a write may log.
ChunkBlocks(p) == (FOff(p) \div BSIZE)..((FOff(p) + call[p].n - 1) \div BSIZE)
Logged(p, x) ==
    \/ x = BBLOCK
    \/ x # NULL /\ x = inode[call[p].ip].addrs[NDIRECT]
    \/ x # NULL /\ \E n \in ChunkBlocks(p) :
                    n < MAXFILE /\ x = Own[<<call[p].ip, SlotOf(n)>>]

\* The blocks that another operation may log: the bitmap's, and the blocks of an
\* inode and of a directory's entry.
Few(s) == \E b, c \in Block : s \subseteq {BBLOCK, b, c}
LogSane(p) == IF Loops(p, "write") THEN \A x \in call[p].logged : Logged(p, x)
              ELSE Few(call[p].logged)
LogInv == \A p \in Proc : LogSane(p)

CtlInv == CtlTypeOK /\ FileInv /\ ProcInv /\ RefInv /\ CallInv /\ LockInv

DInv ==
    /\ CtlInv /\ DskTypeOK /\ RangeInv /\ OwnInv /\ HeadInv /\ ThroughInv /\ HoleInv
    /\ FreeInv /\ TruncInv /\ DirInv /\ LogInv

-----------------------------------------------------------------------------
(* Numbers and sets of them.                                               *)

\* The constants are numbers in order: the code of mkfs.c and fs.h gives
\* their values.
LEMMA Consts ==
    /\ BSIZE \in Nat /\ BSIZE >= 1 /\ NDIRECT \in Nat /\ NINODES \in Nat /\ NINODES >= 2
    /\ FSSIZE \in Nat /\ nmeta \in Nat /\ nmeta >= 4 /\ FSSIZE > nmeta
    /\ BBLOCK \in Nat /\ BBLOCK < nmeta /\ BBLOCK \in Block
    /\ MAXFILE \in Nat /\ MAXFILE >= 1 /\ NINDIRECT = BSIZE /\ MAXFILE = NDIRECT + BSIZE
    /\ NULL = 0 /\ ROOTINO = 1 /\ ROOTINO \in Inode /\ None = 0
    /\ 0 \in Block /\ Block \subseteq Nat /\ Unit \subseteq Nat /\ Inode \subseteq Nat
  <1>1. NINODES \div IPB \in Nat
    BY MkfsAssumption
  <1>2. ninodeblocks \in Nat /\ ninodeblocks >= 1
    BY <1>1 DEF ninodeblocks
  <1>3. nlog \in Nat /\ FSSIZE \in Nat /\ FSSIZE > nmeta
    BY MkfsAssumption
  <1>4. nmeta \in Nat /\ nmeta >= 4 /\ BBLOCK \in Nat /\ BBLOCK < nmeta
    BY <1>2, <1>3 DEF nmeta, BBLOCK
  <1>5. NINODES \in Nat /\ NINODES >= 2
    BY MkfsAssumption, FileDataAssumption
  <1>6. BSIZE \in Nat /\ BSIZE >= 1 /\ NDIRECT \in Nat
    BY MkfsAssumption
  <1>7. MAXFILE = NDIRECT + BSIZE /\ NINDIRECT = BSIZE
    BY DEF MAXFILE, NINDIRECT
  <1>8. MAXFILE \in Nat /\ MAXFILE >= 1
    BY <1>6, <1>7
  <1>9. BBLOCK \in Block /\ 0 \in Block /\ Block \subseteq Nat
    BY <1>3, <1>4 DEF Block
  <1>10. NULL = 0 /\ ROOTINO = 1 /\ ROOTINO \in Inode /\ None = 0 /\ Inode \subseteq Nat
    BY <1>5 DEF NULL, ROOTINO, Inode, None
  <1>11. Unit \subseteq Nat
    BY <1>6 DEF Unit
  <1> QED BY <1>3, <1>4, <1>5, <1>6, <1>7, <1>8, <1>9, <1>10, <1>11

\* Logging nothing is logging few blocks.
LEMMA FewNone == Few({})
  BY Consts DEF Few

\* The block of the bitmap is among the few.
LEMMA FewMore ==
    ASSUME NEW s, NEW t, Few(s), t \subseteq s \cup {BBLOCK} PROVE Few(t)
  BY DEF Few

\* Two blocks are few.
LEMMA FewTwo ==
    ASSUME NEW b \in Block, NEW c \in Block
    PROVE  Few({b, c}) /\ {b, c} \in SUBSET Block
  BY DEF Few

\* Every inode has its block on the disk.
LEMMA InodeBlock ==
    ASSUME NEW i \in Inode PROVE IBLOCK(i) \in Block
  <1>1. i \in Nat /\ i <= NINODES /\ IPB \in Nat /\ IPB >= 1 /\ NINODES \in Nat
    BY MkfsAssumption DEF Inode
  <1>2. PICK d, e : d = i \div IPB /\ e = NINODES \div IPB
    OBVIOUS
  <1>3. d \in Nat /\ e \in Nat /\ d <= e
    <2>1. /\ d \in Int /\ IPB * d <= i /\ i < IPB * d + IPB
          /\ e \in Int /\ IPB * e <= NINODES /\ NINODES < IPB * e + IPB
      BY <1>1, <1>2
    <2>2. d >= 0 /\ e >= 0
      BY <1>1, <1>2
    <2>3. d <= e
      <3>1. SUFFICES ASSUME d >= e + 1 PROVE FALSE
        BY <2>1
      <3>2. IPB * d >= IPB * e + IPB
        BY <1>1, <2>1, <3>1
      <3> QED BY <1>1, <2>1, <3>2
    <2> QED BY <2>1, <2>2, <2>3
  <1>4. nlog \in Nat /\ FSSIZE \in Nat /\ FSSIZE > nmeta
    BY MkfsAssumption
  <1>5. nmeta = 2 + nlog + (e + 1) + 1
    BY <1>2, <1>3, <1>4 DEF nmeta, ninodeblocks
  <1> QED BY <1>2, <1>3, <1>4, <1>5 DEF IBLOCK, Block

\* The sets of processes, of open files and of descriptors are finite.
LEMMA Procs == IsFiniteSet(Proc) /\ NoProc \notin Proc /\ IsFiniteSet(File) /\ IsFiniteSet(Fd)
  <1>1. IsFiniteSet(File) /\ IsFiniteSet(Fd)
    BY FileDataAssumption, FS_Interval DEF File, Fd
  <1> QED BY <1>1, FileDataAssumption

\* The order of the naturals, and the least element of a set of them.
LEMMA NatOrder == \E R : IsWellFoundedOn(R, Nat) /\ \A x, y \in Nat : <<x, y>> \in R <=> x < y
  <1>0. \A x, y \in Nat : <<x, y>> \in OpToRel(<, Nat) <=> x < y
    BY DEF OpToRel
  <1> QED BY <1>0, NatLessThanWellFounded, Zenon

\* Min, which fdalloc(), filealloc(), balloc() and ialloc() search with, is
\* the least element.
LEMMA MinNat ==
    ASSUME NEW S, S \subseteq Nat, S # {}
    PROVE  Min(S) \in S /\ \A y \in S : Min(S) <= y
  <1>1. PICK R : IsWellFoundedOn(R, Nat) /\ \A x, y \in Nat : <<x, y>> \in R <=> x < y
    BY NatOrder
  <1>2. PICK x \in S : \A y \in S : ~(<<y, x>> \in R)
    <2>1. IsWellFoundedOn(R, Nat)
      BY <1>1
    <2> QED BY <2>1, WFMin, Zenon
  <1>3. ASSUME NEW y \in S PROVE x <= y
    <2>1. x \in Nat /\ y \in Nat
      OBVIOUS
    <2>2. ~(y < x)
      BY <1>1, <1>2, <2>1
    <2> QED BY <2>1, <2>2
  <1>4. \E z \in S : \A y \in S : z <= y
    BY <1>3
  <1> QED BY <1>4 DEF Min

\* The lesser of two numbers, as min() of fs.c.
LEMMA MinTwo ==
    ASSUME NEW a \in Nat, NEW b \in Nat
    PROVE  /\ Min({a, b}) \in Nat /\ Min({a, b}) <= a /\ Min({a, b}) <= b
           /\ Min({a, b}) = a \/ Min({a, b}) = b
  <1>1. PICK S : S = {a, b}
    OBVIOUS
  <1>2. S \subseteq Nat /\ S # {} /\ a \in S /\ b \in S
    BY <1>1
  <1>3. Min(S) \in S /\ \A y \in S : Min(S) <= y
    BY <1>2, MinNat
  <1>4. Min(S) = a \/ Min(S) = b
    BY <1>1, <1>3
  <1>5. Min(S) <= a /\ Min(S) <= b /\ Min(S) \in Nat
    BY <1>2, <1>3, <1>4
  <1> QED BY <1>1, <1>4, <1>5

\* Division by the size of a block.
LEMMA DivMod ==
    ASSUME NEW x \in Nat
    PROVE  /\ x \div BSIZE \in Nat /\ x % BSIZE \in Unit
           /\ x = (x \div BSIZE) * BSIZE + (x % BSIZE)
  <1>1. BSIZE \in Nat /\ BSIZE > 0
    BY Consts
  <1>2. x % BSIZE \in 0..(BSIZE - 1)
    BY <1>1
  <1>3. x = (x \div BSIZE) * BSIZE + (x % BSIZE) /\ x \div BSIZE \in Nat
    BY <1>1, SMTT(30)
  <1> QED BY <1>2, <1>3 DEF Unit

\* A block ends where the next one begins, or before.
LEMMA MulLess ==
    ASSUME NEW m \in Nat, NEW n \in Nat, m < n
    PROVE  m * BSIZE + BSIZE <= n * BSIZE /\ m * BSIZE \in Nat /\ n * BSIZE \in Nat
  <1>1. BSIZE \in Nat
    BY Consts
  <1>2. PICK d \in Nat : n = m + 1 + d
    <2>1. n - m - 1 \in Nat /\ n = m + 1 + (n - m - 1)
      OBVIOUS
    <2> QED BY <2>1
  <1>3. n * BSIZE = m * BSIZE + BSIZE + d * BSIZE
    BY <1>1, <1>2, SMTT(30)
  <1>4. m * BSIZE \in Nat /\ n * BSIZE \in Nat /\ d * BSIZE \in Nat
    BY <1>1, SMTT(30)
  <1> QED BY <1>1, <1>3, <1>4

\* Block n begins before byte x if and only if it is before the block of x, or
\* is that block and x is not its first byte.
LEMMA Begins ==
    ASSUME NEW x \in Nat, NEW n \in Nat
    PROVE  /\ n < x \div BSIZE => n * BSIZE < x
           /\ n > x \div BSIZE => ~(n * BSIZE < x)
           /\ n = x \div BSIZE => n * BSIZE <= x /\ (n * BSIZE < x <=> x % BSIZE # 0)
  <1>1. PICK q, r : q = x \div BSIZE /\ r = x % BSIZE
    OBVIOUS
  <1>2. q \in Nat /\ r \in Nat /\ r < BSIZE /\ x = q * BSIZE + r /\ BSIZE \in Nat
    BY <1>1, DivMod, Consts DEF Unit
  <1>3. q * BSIZE \in Nat /\ n * BSIZE \in Nat
    BY <1>2, SMTT(30)
  <1>4. ASSUME n < q PROVE n * BSIZE < x
    <2>1. n * BSIZE + BSIZE <= q * BSIZE
      BY <1>2, <1>4, MulLess
    <2> QED BY <1>2, <1>3, <2>1
  <1>5. ASSUME n > q PROVE ~(n * BSIZE < x)
    <2>1. q * BSIZE + BSIZE <= n * BSIZE
      BY <1>2, <1>5, MulLess
    <2> QED BY <1>2, <1>3, <2>1
  <1>6. ASSUME n = q PROVE n * BSIZE <= x /\ (n * BSIZE < x <=> x % BSIZE # 0)
    BY <1>1, <1>2, <1>3, <1>6
  <1> QED BY <1>1, <1>4, <1>5, <1>6

\* A byte below the end of the largest file is in one of its blocks.
LEMMA InFileBlock ==
    ASSUME NEW x \in Nat, x < MAXFILE * BSIZE
    PROVE  x \div BSIZE \in 0..(MAXFILE - 1)
  <1>1. PICK q : q = x \div BSIZE
    OBVIOUS
  <1>2. q \in Nat /\ q * BSIZE <= x /\ MAXFILE \in Nat /\ BSIZE \in Nat
    BY <1>1, DivMod, Begins, Consts
  <1>3. ASSUME MAXFILE <= q PROVE FALSE
    <2>1. MAXFILE * BSIZE <= q * BSIZE
      <3>1. CASE MAXFILE = q
        BY <1>2, <3>1
      <3>2. CASE MAXFILE < q
        BY <1>2, <3>2, MulLess
      <3> QED BY <1>2, <1>3, <3>1, <3>2
    <2>2. MAXFILE * BSIZE \in Nat /\ q * BSIZE \in Nat
      BY <1>2, SMTT(30)
    <2> QED BY <1>2, <2>1, <2>2
  <1> QED BY <1>1, <1>2, <1>3

\* The step of the loop: a piece m of the block at x.
LEMMA PieceEnds ==
    ASSUME NEW x \in Nat, NEW m \in Nat, m >= 1, m <= BSIZE - (x % BSIZE), NEW n \in Nat
    PROVE  n * BSIZE < x + m <=> n <= x \div BSIZE
  <1>1. PICK q, r : q = x \div BSIZE /\ r = x % BSIZE
    OBVIOUS
  <1>2. q \in Nat /\ r \in Nat /\ r < BSIZE /\ x = q * BSIZE + r /\ BSIZE \in Nat
    BY <1>1, DivMod, Consts DEF Unit
  <1>3. q * BSIZE \in Nat /\ n * BSIZE \in Nat
    BY <1>2, SMTT(30)
  <1>4. q * BSIZE < x + m /\ x + m <= q * BSIZE + BSIZE
    BY <1>1, <1>2, <1>3
  <1>5. ASSUME n < q PROVE n * BSIZE < x + m
    <2>1. n * BSIZE + BSIZE <= q * BSIZE
      BY <1>2, <1>5, MulLess
    <2> QED BY <1>2, <1>3, <1>4, <2>1
  <1>6. ASSUME n > q PROVE ~(n * BSIZE < x + m)
    <2>1. q * BSIZE + BSIZE <= n * BSIZE
      BY <1>2, <1>6, MulLess
    <2> QED BY <1>2, <1>3, <1>4, <2>1
  <1>7. n = q => n * BSIZE < x + m
    BY <1>4
  <1> QED BY <1>1, <1>2, <1>5, <1>6, <1>7

-----------------------------------------------------------------------------
(* Places that gain or lose a block.                                       *)

\* The same places own the same blocks.
LEMMA OwnSame ==
    ASSUME NEW O, NEW Q, NEW used, OwnedOnce(O, used), \A w \in Spot : Q[w] = O[w]
    PROVE  OwnedOnce(Q, used)
  BY DEF OwnedOnce

\* A place that named no block names a new one: balloc().
LEMMA OwnGain ==
    ASSUME NEW O, NEW Q, NEW used, used \subseteq Nat, OwnedOnce(O, used),
           NEW w0 \in Spot, O[w0] = NULL, NEW new \in Nat, new \notin used, Q[w0] = new,
           \A w \in Spot : w # w0 => Q[w] = O[w]
    PROVE  OwnedOnce(Q, used \cup {new})
  <1>0. NULL = 0 /\ nmeta \in Nat /\ nmeta >= 4
    BY Consts
  <1>1. new >= nmeta
    <2>1. ASSUME new < nmeta PROVE FALSE
      <3>1. new \in 0..(nmeta - 1)
        BY <1>0, <2>1
      <3> QED BY <3>1 DEF OwnedOnce
    <2> QED BY <1>0, <2>1
  <1>2. new # NULL
    BY <1>0, <1>1
  <1>3. \A w \in Spot : Q[w] # NULL => Q[w] \in used \cup {new} /\ Q[w] >= nmeta
    BY <1>1 DEF OwnedOnce
  <1>4. \A v, w \in Spot : Q[v] # NULL /\ Q[v] = Q[w] => v = w
    <2>1. SUFFICES ASSUME NEW v \in Spot, NEW w \in Spot, Q[v] # NULL, Q[v] = Q[w]
                   PROVE v = w
      OBVIOUS
    <2>2. CASE v = w0 /\ w # w0
      <3>1. O[w] = new /\ O[w] # NULL
        BY <1>2, <2>1, <2>2
      <3> QED BY <3>1 DEF OwnedOnce
    <2>3. CASE v # w0 /\ w = w0
      <3>1. O[v] = new /\ O[v] # NULL
        BY <1>2, <2>1, <2>3
      <3> QED BY <3>1 DEF OwnedOnce
    <2>4. CASE v # w0 /\ w # w0
      <3>1. O[v] = O[w] /\ O[v] # NULL
        BY <2>1, <2>4
      <3> QED BY <3>1 DEF OwnedOnce
    <2> QED BY <2>2, <2>3, <2>4
  <1>5. ASSUME NEW b \in used \cup {new}, b >= nmeta PROVE \E w \in Spot : Q[w] = b
    <2>1. CASE b = new
      BY <2>1
    <2>2. CASE b # new
      <3>1. PICK w \in Spot : O[w] = b
        BY <1>5, <2>2 DEF OwnedOnce
      <3>2. w # w0
        BY <1>0, <1>5, <3>1
      <3> QED BY <3>1, <3>2
    <2> QED BY <2>1, <2>2
  <1>6. \A b \in 0..(nmeta - 1) : b \in used \cup {new}
    BY DEF OwnedOnce
  <1> QED BY <1>3, <1>4, <1>5, <1>6 DEF OwnedOnce

\* A place gives up its block: bfree().
LEMMA OwnLose ==
    ASSUME NEW O, NEW Q, NEW used, used \subseteq Nat, OwnedOnce(O, used),
           NEW w0 \in Spot, O[w0] # NULL, Q[w0] = NULL,
           \A w \in Spot : w # w0 => Q[w] = O[w]
    PROVE  OwnedOnce(Q, used \ {O[w0]}) /\ O[w0] \in used
  <1>0. NULL = 0 /\ nmeta \in Nat /\ nmeta >= 4
    BY Consts
  <1>1. PICK old : old = O[w0]
    OBVIOUS
  <1>2. old \in used /\ old >= nmeta /\ old \in Nat
    BY <1>1 DEF OwnedOnce
  <1>3. ASSUME NEW w \in Spot, Q[w] # NULL PROVE Q[w] \in used \ {old} /\ Q[w] >= nmeta
    <2>1. w # w0 /\ Q[w] = O[w]
      BY <1>3
    <2>2. O[w] # old
      BY <1>1, <1>3, <2>1 DEF OwnedOnce
    <2> QED BY <1>3, <2>1, <2>2 DEF OwnedOnce
  <1>4. \A v, w \in Spot : Q[v] # NULL /\ Q[v] = Q[w] => v = w
    <2>1. SUFFICES ASSUME NEW v \in Spot, NEW w \in Spot, Q[v] # NULL, Q[v] = Q[w]
                   PROVE v = w
      OBVIOUS
    <2>2. v # w0 /\ w # w0
      BY <2>1
    <2>3. O[v] = O[w] /\ O[v] # NULL
      BY <2>1, <2>2
    <2> QED BY <2>3 DEF OwnedOnce
  <1>5. ASSUME NEW b \in used \ {old}, b >= nmeta PROVE \E w \in Spot : Q[w] = b
    <2>1. PICK w \in Spot : O[w] = b
      BY <1>5 DEF OwnedOnce
    <2>2. w # w0
      BY <1>1, <1>5, <2>1
    <2> QED BY <2>1, <2>2
  <1>6. ASSUME NEW b \in 0..(nmeta - 1) PROVE b \in used \ {old}
    <2>1. b \in used
      BY <1>6 DEF OwnedOnce
    <2>2. b # old
      BY <1>0, <1>2, <1>6
    <2> QED BY <2>1, <2>2
  <1>7. OwnedOnce(Q, used \ {old})
    BY <1>3, <1>4, <1>5, <1>6 DEF OwnedOnce
  <1> QED BY <1>1, <1>2, <1>7

\* A place keeps its block when the indirect block keeps its entries.
LEMMA SlotSame ==
    ASSUME NEW a, NEW bs, NEW cs, NEW j \in Nat, NEW k \in Slot,
           a[NDIRECT] # NULL => \A u \in Unit : cs[a[NDIRECT]][u] = bs[a[NDIRECT]][u]
    PROVE  SlotAt(a, cs, j, k) = SlotAt(a, bs, j, k)
  <1>1. CASE k <= NDIRECT
    BY <1>1 DEF SlotAt
  <1>2. CASE k > NDIRECT
    <2>1. k - NDIRECT - 1 \in Unit
      BY <1>2, Consts DEF Slot, Unit
    <2>2. ~(k <= NDIRECT)
      BY <1>2, Consts DEF Slot
    <2> QED BY <2>1, <2>2 DEF SlotAt
  <1> QED BY <1>1, <1>2, Consts DEF Slot

\* SlotOf is one to one, and never the place of the indirect block.
LEMMA SlotIn == \A n \in 0..(MAXFILE - 1) :
    /\ SlotOf(n) \in Slot /\ SlotOf(n) # NDIRECT
    /\ \A m \in 0..(MAXFILE - 1) : SlotOf(m) = SlotOf(n) => m = n
  BY Consts DEF SlotOf, Slot

\* Block n of a file of which nothing has been given back.
LEMMA BmapSlot ==
    ASSUME NEW ino, NEW bs, NEW i, NEW n \in 0..(MAXFILE - 1)
    PROVE  Bmap([ino |-> ino, blk |-> bs], i, n) = SlotAt(ino[i].addrs, bs, 0, SlotOf(n))
  <1>1. PICK a : a = ino[i].addrs
    OBVIOUS
  <1>2. Bmap([ino |-> ino, blk |-> bs], i, n)
          = IF n < NDIRECT THEN a[n]
            ELSE IF a[NDIRECT] = NULL THEN NULL ELSE bs[a[NDIRECT]][n - NDIRECT]
    BY <1>1 DEF Bmap
  <1>3. CASE n < NDIRECT
    BY <1>1, <1>2, <1>3, Consts DEF SlotAt, SlotOf
  <1>4. CASE ~(n < NDIRECT)
    <2>1. SlotOf(n) = n + 1 /\ ~(n + 1 <= NDIRECT) /\ (n + 1) - NDIRECT - 1 = n - NDIRECT
          /\ ~(n - NDIRECT < 0)
      BY <1>4, Consts DEF SlotOf
    <2> QED BY <1>1, <1>2, <1>4, <2>1 DEF SlotAt
  <1> QED BY <1>3, <1>4

\* What Own says of a place.
LEMMA OwnAt ==
    ASSUME NEW i \in Inode, NEW k \in Slot
    PROVE  Own[<<i, k>>] = SlotAt(Loaded(i).addrs, blk, Freed(i), k)
  BY DEF Own, Spot

\* bmap() finds the block that Own says, unless itrunc() is at work.
LEMMA BmapOwn ==
    (inode \in [Inode -> Dinode])
      => \A i \in Inode, n \in 0..(MAXFILE - 1) :
            Freed(i) = 0 => bmap(i, n) = Own[<<i, SlotOf(n)>>]
  <1>1. SUFFICES ASSUME inode \in [Inode -> Dinode], NEW i \in Inode,
                        NEW n \in 0..(MAXFILE - 1), Freed(i) = 0
                 PROVE  bmap(i, n) = Own[<<i, SlotOf(n)>>]
    OBVIOUS
  <1>2. PICK g : g = [inode EXCEPT ![i] = Loaded(i)]
    OBVIOUS
  <1>3. g[i] = Loaded(i)
    BY <1>1, <1>2
  <1>4. bmap(i, n) = SlotAt(g[i].addrs, blk, 0, SlotOf(n))
    <2>1. bmap(i, n) = Bmap([ino |-> g, blk |-> blk], i, n)
      BY <1>2 DEF bmap
    <2>2. Bmap([ino |-> g, blk |-> blk], i, n) = SlotAt(g[i].addrs, blk, 0, SlotOf(n))
      BY BmapSlot
    <2> QED BY <2>1, <2>2
  <1>5. SlotOf(n) \in Slot
    BY SlotIn
  <1> QED BY <1>1, <1>3, <1>4, <1>5, OwnAt

\* Only itrunc() gives back entries of the indirect block.
LEMMA FreedNone ==
    CallInv /\ LockInv /\ CtlTypeOK => \A i \in Inode : ~Truncating(i) => Freed(i) = 0
  BY DEF CallInv, CallSane, LockInv, Locks, CtlTypeOK, Truncating, Freed

\* The number of entries that itrunc() has given back.
LEMMA FreedType ==
    CtlTypeOK => \A i \in Inode : Freed(i) \in Nat
  <1>1. SUFFICES ASSUME CtlTypeOK, NEW i \in Inode PROVE Freed(i) \in Nat
    OBVIOUS
  <1>2. \A p \in Proc : call[p].j \in Nat
    BY <1>1, Consts DEF CtlTypeOK, Call
  <1>3. lock[i] \in Proc \cup {NoProc}
    BY <1>1 DEF CtlTypeOK
  <1> QED BY <1>2, <1>3 DEF Freed

-----------------------------------------------------------------------------
(* Steps of one process that leave the other calls and the references of   *)
(* open files alone.                                                       *)

Only(p) == \A q \in Proc : q # p => call'[q] = call[q]
SameFiles == \A f \in File : ftable'[f].ref = ftable[f].ref /\ ftable'[f].ip = ftable[f].ip

\* The call of a process outside the kernel.
LEMMA IdleIs ==
    /\ Idle \in Call /\ Idle.at = "user" /\ Idle.op = "none" /\ Idle.j = 0
    /\ Idle.logged = {} /\ Idle.ip = ROOTINO /\ Idle.n = 0 /\ Idle.tot = 0
  <1>1. ROOTINO \in Inode /\ 0 \in 0..NINDIRECT
    BY Consts
  <1>2. <<>> \in Seq(Value)
    OBVIOUS
  <1> QED BY <1>1, <1>2 DEF Idle, Call, CallAt, Op, None

\* Descriptors and open files that stay keep the counts right.
LEMMA QuietCounts ==
    ASSUME NEW p \in Proc, Only(p), SameFiles, ofile' = ofile,
           call[p].at \notin Iput, call'[p].at \notin Iput
    PROVE  /\ \A i \in Inode : Opened(i)' = Opened(i) /\ Putting(i)' = Putting(i)
           /\ \A f \in File : Uses(f)' = Uses(f)
  <1>1. \A i \in Inode : Opened(i)' = Opened(i)
    BY DEF Opened, SameFiles
  <1>2. \A i \in Inode : Putting(i)' = Putting(i)
    <2>1. ASSUME NEW i \in Inode PROVE Putting(i)' = Putting(i)
      <3>1. \A q \in Proc : call'[q].at \in Iput /\ call'[q].ip = i
                              <=> call[q].at \in Iput /\ call[q].ip = i
        BY DEF Only
      <3> QED BY <3>1 DEF Putting
    <2> QED BY <2>1
  <1>3. \A f \in File : Uses(f)' = Uses(f)
    BY DEF Uses
  <1> QED BY <1>1, <1>2, <1>3

\* Counts of references when files and calls to iput() stay.
LEMMA QuietInv ==
    ASSUME FileInv, ProcInv, RefInv, NEW p \in Proc, Only(p), SameFiles,
           ofile' = ofile, ref' = ref, pstate' = pstate, pstate[p] # "unused",
           call[p].at \notin Iput, call'[p].at \notin Iput
    PROVE  /\ FileInv' /\ ProcInv' /\ RefInv'
           /\ \A i \in Inode : Opened(i)' = Opened(i) /\ Putting(i)' = Putting(i)
  <1>1. /\ \A i \in Inode : Opened(i)' = Opened(i) /\ Putting(i)' = Putting(i)
        /\ \A f \in File : Uses(f)' = Uses(f)
    BY QuietCounts
  <1>2. FileInv'
    <2>1. ASSUME NEW f \in File
          PROVE  /\ ftable'[f].ref = Cardinality(Uses(f)')
                 /\ ftable'[f].ref # 0 => ftable'[f].ip \in Inode
      BY <1>1 DEF FileInv, SameFiles
    <2> QED BY <2>1 DEF FileInv
  <1>3. ProcInv'
    BY DEF ProcInv, Only
  <1>4. RefInv'
    <2>1. ASSUME NEW i \in Inode
          PROVE  ref'[i] = Cardinality(Opened(i)') + Cardinality(Putting(i)')
                            + (IF i = ROOTINO THEN 1 ELSE 0)
      BY <1>1 DEF RefInv
    <2> QED BY <2>1 DEF RefInv
  <1> QED BY <1>1, <1>2, <1>3, <1>4

\* The calls of other processes stay sane when the open files stay.
LEMMA QuietCalls ==
    ASSUME CallInv, NEW p \in Proc, Only(p), SameFiles, ofile' = ofile, CallSane(p)'
    PROVE  CallInv'
  <1>1. ASSUME NEW q \in Proc, q # p PROVE CallSane(q)'
    <2>1. call'[q] = call[q]
      BY <1>1 DEF Only
    <2>2. CallSane(q)
      BY DEF CallInv
    <2> QED BY <2>1, <2>2 DEF CallSane, InFile, SameFiles
  <1> QED BY <1>1 DEF CallInv

\* A process takes a lock, gives it back, or leaves the locks alone.
LEMMA LockTake ==
    ASSUME LockInv, CtlTypeOK, NEW p \in Proc, NEW i \in Inode, Only(p), ~Locks(p),
           lock[i] = NoProc, lock' = [lock EXCEPT ![i] = p],
           call'[p].ip = i, Locks(p)', panicked' = panicked
    PROVE  LockInv'
  <1>1. \A k \in Inode : lock'[k] = IF k = i THEN p ELSE lock[k]
    BY DEF CtlTypeOK
  <1>2. NoProc \notin Proc /\ \A k \in Inode : lock[k] \in Proc \cup {NoProc}
    BY Procs DEF CtlTypeOK
  <1>3. \A k \in Inode : lock[k] # p
    BY <1>2 DEF LockInv
  <1>4. ASSUME NEW k \in Inode, lock'[k] # NoProc
        PROVE  call'[lock'[k]].ip = k /\ Locks(lock[k])' 
    <2>1. CASE k = i
      BY <1>1, <2>1 DEF Locks
    <2>2. CASE k # i
      BY <1>1, <1>2, <1>3, <1>4, <2>2 DEF LockInv, Only, Locks
    <2> QED BY <2>1, <2>2
  <1>5. ASSUME NEW q \in Proc, call'[q].at = "trunc" PROVE lock'[call'[q].ip] = q
    <2>1. CASE q = p
      BY <1>1, <2>1
    <2>2. CASE q # p
      <3>1. call'[q] = call[q] /\ lock[call[q].ip] = q /\ call[q].ip \in Inode
        BY <1>5, <2>2 DEF LockInv, Only, CtlTypeOK, Call
      <3> QED BY <1>1, <1>2, <3>1
    <2> QED BY <2>1, <2>2
  <1>6. ASSUME NEW q \in Proc, call'[q].at = "loop", ~panicked' PROVE lock'[call'[q].ip] = q
    <2>1. CASE q = p
      BY <1>1, <2>1
    <2>2. CASE q # p
      <3>1. call'[q] = call[q] /\ lock[call[q].ip] = q /\ call[q].ip \in Inode
        BY <1>6, <2>2 DEF LockInv, Only, CtlTypeOK, Call
      <3> QED BY <1>1, <1>2, <3>1
    <2> QED BY <2>1, <2>2
  <1> QED BY <1>4, <1>5, <1>6 DEF LockInv

\* The holder of a lock gives it up.
LEMMA LockGive ==
    ASSUME LockInv, CtlTypeOK, NEW p \in Proc, NEW i \in Inode, Only(p),
           lock[i] = p, lock' = [lock EXCEPT ![i] = NoProc], ~Locks(p)', panicked' = panicked
    PROVE  LockInv'
  <1>1. \A k \in Inode : lock'[k] = IF k = i THEN NoProc ELSE lock[k]
    BY DEF CtlTypeOK
  <1>2. NoProc \notin Proc /\ \A k \in Inode : lock[k] \in Proc \cup {NoProc}
    BY Procs DEF CtlTypeOK
  <1>3. \A k \in Inode : lock[k] = p => k = i
    BY <1>2 DEF LockInv
  <1>4. ASSUME NEW k \in Inode, lock'[k] # NoProc
        PROVE  call'[lock'[k]].ip = k /\ Locks(lock[k])'
    <2>1. k # i /\ lock'[k] = lock[k] /\ lock[k] # p /\ lock[k] \in Proc
      BY <1>1, <1>2, <1>3, <1>4
    <2> QED BY <1>4, <2>1 DEF LockInv, Only, Locks
  <1>5. ASSUME NEW q \in Proc, call'[q].at = "trunc" PROVE lock'[call'[q].ip] = q
    <2>1. q # p
      BY <1>5 DEF Locks
    <2>2. call'[q] = call[q] /\ lock[call[q].ip] = q /\ call[q].ip \in Inode
      BY <1>5, <2>1 DEF LockInv, Only, CtlTypeOK, Call
    <2> QED BY <1>1, <2>1, <2>2
  <1>6. ASSUME NEW q \in Proc, call'[q].at = "loop", ~panicked' PROVE lock'[call'[q].ip] = q
    <2>1. q # p
      BY <1>6 DEF Locks
    <2>2. call'[q] = call[q] /\ lock[call[q].ip] = q /\ call[q].ip \in Inode
      BY <1>6, <2>1 DEF LockInv, Only, CtlTypeOK, Call
    <2> QED BY <1>1, <2>1, <2>2
  <1> QED BY <1>4, <1>5, <1>6 DEF LockInv

\* The locks stay as they are.
LEMMA LockKeep ==
    ASSUME LockInv, CtlTypeOK, NEW p \in Proc, Only(p), lock' = lock,
           Locks(p)' <=> Locks(p),
           Locks(p) => call'[p].ip = call[p].ip /\ call'[p].at = call[p].at,
           panicked => panicked'
    PROVE  LockInv'
  <1>1. NoProc \notin Proc /\ \A k \in Inode : lock[k] \in Proc \cup {NoProc}
    BY Procs DEF CtlTypeOK
  <1>2. \A q \in Proc : /\ Locks(q)' <=> Locks(q)
                        /\ Locks(q) => call'[q].ip = call[q].ip /\ call'[q].at = call[q].at
    BY DEF Only, Locks
  <1>3. \A k \in Inode : lock[k] # NoProc => call'[lock[k]].ip = k /\ call'[lock[k]].at \in {"loop", "trunc"}
    BY <1>1, <1>2 DEF LockInv, Locks
  <1>4. \A k \in Inode : lock'[k] # NoProc => call'[lock'[k]].ip = k /\ Locks(lock[k])'
    BY <1>3 DEF Locks
  <1>5. \A q \in Proc : call'[q].at = "trunc" => lock'[call'[q].ip] = q
    BY <1>2 DEF LockInv, Locks
  <1>6. \A q \in Proc : call'[q].at = "loop" /\ ~panicked' => lock'[call'[q].ip] = q
    BY <1>2 DEF LockInv, Locks
  <1> QED BY <1>4, <1>5, <1>6 DEF LockInv

-----------------------------------------------------------------------------
(* Control: the steps of a call on a file.                                 *)

\* A step that sets the call of one process.
LEMMA CallStep ==
    ASSUME call \in [Proc -> Call], NEW p \in Proc, NEW c \in Call,
           call' = [call EXCEPT ![p] = c]
    PROVE  call' \in [Proc -> Call] /\ call'[p] = c /\ Only(p)
  BY DEF Only

\* What a step does to the control state: the call of p becomes c, the offsets
\* of open files may move.
Quiet(p, c) ==
    /\ c \in Call /\ call' = [call EXCEPT ![p] = c]
    /\ call[p].at \notin Iput /\ c.at \notin Iput
    /\ SameFiles /\ ftable' \in [File -> OFile]
    /\ ofile' = ofile /\ ref' = ref /\ pstate' = pstate /\ pstate[p] # "unused"

\* A step that changes one call and no descriptor, file or reference.
LEMMA QuietStep ==
    ASSUME CtlInv, NEW p \in Proc, NEW c, Quiet(p, c),
           lock' \in [Inode -> Proc \cup {NoProc}], panicked' \in BOOLEAN
    PROVE  /\ CtlTypeOK' /\ FileInv' /\ ProcInv' /\ RefInv'
           /\ Only(p) /\ call'[p] = c
           /\ \A i \in Inode : Opened(i)' = Opened(i) /\ Putting(i)' = Putting(i)
  <1>1. c \in Call /\ call' = [call EXCEPT ![p] = c] /\ call \in [Proc -> Call]
    BY DEF Quiet, CtlInv, CtlTypeOK
  <1>2. call' \in [Proc -> Call] /\ call'[p] = c /\ Only(p)
    BY <1>1, CallStep
  <1>3. CtlTypeOK'
    BY <1>2 DEF CtlTypeOK, CtlInv, Quiet
  <1>4. call[p].at \notin Iput /\ call'[p].at \notin Iput /\ SameFiles /\ ofile' = ofile
        /\ ref' = ref /\ pstate' = pstate /\ pstate[p] # "unused"
    BY <1>2 DEF Quiet
  <1>5. FileInv' /\ ProcInv' /\ RefInv'
        /\ \A i \in Inode : Opened(i)' = Opened(i) /\ Putting(i)' = Putting(i)
    BY <1>2, <1>4, QuietInv DEF CtlInv
  <1> QED BY <1>2, <1>3, <1>5

\* The table of open files stays.
LEMMA SameFtable == ASSUME CtlTypeOK, ftable' = ftable
                    PROVE SameFiles /\ ftable' \in [File -> OFile]
  BY DEF SameFiles, CtlTypeOK

\* A process that is in a call runs.
LEMMA Runs == ASSUME ProcInv, NEW p \in Proc, User(p) \/ call[p].at # "user"
              PROVE  pstate[p] # "unused"
  BY DEF ProcInv, User

\* An open file has an inode.
LEMMA UsesFinite == \A f \in File : IsFiniteSet(Uses(f))
  <1>1. IsFiniteSet(Proc \X Fd)
    BY Procs, FS_Product
  <1>2. \A f \in File : Uses(f) \subseteq Proc \X Fd
    BY DEF Uses
  <1> QED BY <1>1, <1>2, FS_Subset

\* A descriptor in use names an open file.
LEMMA FdOpen ==
    ASSUME CtlTypeOK, FileInv, NEW p \in Proc, NEW d \in Fd, NEW f \in File, ofile[p][d] = f
    PROVE  ftable[f].ref # 0 /\ ftable[f].ip \in Inode
  <1>1. <<p, d>> \in Uses(f)
    BY DEF Uses
  <1>2. IsFiniteSet(Uses(f)) /\ Uses(f) # {}
    BY <1>1, UsesFinite
  <1>3. Cardinality(Uses(f)) # 0
    BY <1>2, FS_EmptySet
  <1> QED BY <1>3 DEF FileInv

\* argfd(): the file of a descriptor and its inode.
LEMMA ArgFd ==
    ASSUME CtlTypeOK, FileInv, NEW p \in Proc, NEW d \in Fd, argfd(p, d)
    PROVE  /\ ofile[p][d] \in File /\ ftable[ofile[p][d]].ref # 0
           /\ ftable[ofile[p][d]].ip \in Inode
  <1>1. ofile[p][d] \in File
    BY DEF argfd, CtlTypeOK
  <1> QED BY <1>1, FdOpen

\* The three shapes of such a step: it takes the lock of the inode, gives it
\* back, or leaves the locks alone.
SameRefs == \A i \in Inode : Opened(i)' = Opened(i) /\ Putting(i)' = Putting(i)

\* A call takes the lock of an inode and enters the loop.
LEMMA EnterCtl ==
    ASSUME CtlInv, NEW p \in Proc, NEW b \in Call, EnterLoop(p, b), CanLock(b.ip),
           call[p].at \in {"user", "lock"}, pstate[p] # "unused"
    PROVE  /\ CtlTypeOK' /\ FileInv' /\ ProcInv' /\ RefInv' /\ LockInv' /\ SameRefs
           /\ Only(p) /\ call'[p] = [b EXCEPT !.at = "loop"]
           /\ CallSane(p)' => CallInv'
  <1>0. CtlTypeOK /\ CallInv /\ LockInv
    BY DEF CtlInv
  <1>1. PICK c : c = [b EXCEPT !.at = "loop"]
    OBVIOUS
  <1>2. c \in Call /\ c.at = "loop" /\ c.ip = b.ip /\ b.ip \in Inode
    BY <1>1 DEF Call, CallAt
  <1>3. /\ call' = [call EXCEPT ![p] = c] /\ lock' = [lock EXCEPT ![b.ip] = p]
        /\ UNCHANGED <<ref, ftable, ofile, pstate, panicked>>
    BY <1>1 DEF EnterLoop
  <1>4. Quiet(p, c)
    BY <1>0, <1>2, <1>3, SameFtable DEF Quiet, Iput
  <1>5. lock' \in [Inode -> Proc \cup {NoProc}] /\ panicked' \in BOOLEAN
    BY <1>0, <1>3 DEF CtlTypeOK
  <1>6. /\ CtlTypeOK' /\ FileInv' /\ ProcInv' /\ RefInv' /\ Only(p) /\ call'[p] = c
        /\ SameRefs
    BY <1>4, <1>5, QuietStep DEF SameRefs
  <1>7. LockInv'
    <2>1. ~Locks(p) /\ Locks(p)' /\ lock[b.ip] = NoProc /\ call'[p].ip = b.ip
      BY <1>2, <1>6 DEF Locks, CanLock
    <2> QED BY <1>0, <1>2, <1>3, <1>6, <2>1, LockTake
  <1>8. CallSane(p)' => CallInv'
    BY <1>0, <1>3, <1>4, <1>6, QuietCalls DEF Quiet
  <1> QED BY <1>1, <1>6, <1>7, <1>8

\* A call leaves the loop and gives up the lock.
LEMMA LeaveCtl ==
    ASSUME CtlInv, NEW p \in Proc, NEW c, Quiet(p, c), NEW i \in Inode, lock[i] = p,
           lock' = [lock EXCEPT ![i] = NoProc], c.at \notin {"loop", "trunc"},
           panicked' = panicked
    PROVE  /\ CtlTypeOK' /\ FileInv' /\ ProcInv' /\ RefInv' /\ LockInv' /\ SameRefs
           /\ Only(p) /\ call'[p] = c
           /\ CallSane(p)' => CallInv'
  <1>0. CtlTypeOK /\ CallInv /\ LockInv
    BY DEF CtlInv
  <1>1. lock' \in [Inode -> Proc \cup {NoProc}] /\ panicked' \in BOOLEAN
    BY <1>0 DEF CtlTypeOK
  <1>2. /\ CtlTypeOK' /\ FileInv' /\ ProcInv' /\ RefInv' /\ Only(p) /\ call'[p] = c
        /\ SameRefs
    BY <1>1, QuietStep DEF SameRefs
  <1>3. LockInv'
    BY <1>0, <1>2, LockGive DEF Locks
  <1>4. CallSane(p)' => CallInv'
    BY <1>0, <1>2, QuietCalls DEF Quiet
  <1> QED BY <1>2, <1>3, <1>4

\* A call stays in the loop.
LEMMA StayCtl ==
    ASSUME CtlInv, NEW p \in Proc, NEW c, Quiet(p, c), lock' = lock,
           c.at \in {"loop", "trunc"} <=> Locks(p),
           Locks(p) => c.at = call[p].at /\ c.ip = call[p].ip,
           panicked => panicked', panicked' \in BOOLEAN
    PROVE  /\ CtlTypeOK' /\ FileInv' /\ ProcInv' /\ RefInv' /\ LockInv' /\ SameRefs
           /\ Only(p) /\ call'[p] = c
           /\ CallSane(p)' => CallInv'
  <1>0. CtlTypeOK /\ CallInv /\ LockInv
    BY DEF CtlInv
  <1>1. lock' \in [Inode -> Proc \cup {NoProc}]
    BY <1>0 DEF CtlTypeOK
  <1>2. /\ CtlTypeOK' /\ FileInv' /\ ProcInv' /\ RefInv' /\ Only(p) /\ call'[p] = c
        /\ SameRefs
    BY <1>1, QuietStep DEF SameRefs
  <1>3. LockInv'
    BY <1>0, <1>2, LockKeep DEF Locks
  <1>4. CallSane(p)' => CallInv'
    BY <1>0, <1>2, QuietCalls DEF Quiet
  <1> QED BY <1>2, <1>3, <1>4

\* fileread() begins.
LEMMA ReadCtl ==
    ASSUME CtlInv, DskTypeOK, NEW p \in Proc, NEW d \in Fd, Read(p, d)
    PROVE  CtlInv' /\ SameRefs
  <1>0. CtlTypeOK /\ FileInv /\ ProcInv /\ CallInv /\ LockInv
    BY DEF CtlInv
  <1>1. PICK f, i, n : /\ f = ofile[p][d] /\ i = ftable[f].ip
                       /\ n = Min({ReadArg, inode[i].size - ftable[f].off})
    OBVIOUS
  <1>2. User(p) /\ argfd(p, d) /\ CanLock(i) /\ inode[i].size - ftable[f].off >= 0
    BY <1>1 DEF Read
  <1>3. f \in File /\ i \in Inode
    BY <1>0, <1>1, <1>2, ArgFd
  <1>4. n \in Nat
    <2>1. inode[i].size \in Nat /\ ftable[f].off \in Nat
      <3>1. inode[i] \in Dinode /\ ftable[f] \in OFile
        BY <1>0, <1>3 DEF DskTypeOK, CtlTypeOK
      <3>2. inode[i].size \in 0..(MAXFILE * BSIZE) /\ ftable[f].off \in Nat
        BY <3>1 DEF Dinode, OFile
      <3> QED BY <3>2
    <2>2. inode[i].size - ftable[f].off \in Nat /\ ReadArg \in Nat
      BY <1>2, <2>1, FileDataAssumption
    <2> QED BY <1>1, <2>2, MinTwo
  <1>5. PICK b : b = [Idle EXCEPT !.op = "read", !.f = f, !.ip = i, !.n = n]
    OBVIOUS
  <1>6. /\ b \in Call /\ b.op = "read" /\ b.f = f /\ b.ip = i /\ b.n = n
        /\ b.tot = 0 /\ b.j = 0
    BY <1>3, <1>4, <1>5, IdleIs DEF Call, CallAt, Op, Idle
  <1>7. EnterLoop(p, b) /\ ftable' = ftable /\ ofile' = ofile
    BY <1>1, <1>5 DEF Read, EnterLoop
  <1>8. call[p].at = "user" /\ pstate[p] # "unused"
    BY <1>2 DEF User
  <1>9. /\ CtlTypeOK' /\ FileInv' /\ ProcInv' /\ RefInv' /\ LockInv' /\ SameRefs
        /\ call'[p] = [b EXCEPT !.at = "loop"] /\ (CallSane(p)' => CallInv')
    BY <1>2, <1>6, <1>7, <1>8, EnterCtl
  <1>10. /\ call'[p].at = "loop" /\ call'[p].op = "read" /\ call'[p].f = f
         /\ call'[p].ip = i /\ call'[p].n = n /\ call'[p].tot = 0 /\ call'[p].j = 0
    BY <1>6, <1>9 DEF Call
  <1>11. CallSane(p)'
    BY <1>1, <1>3, <1>4, <1>7, <1>10 DEF CallSane, InFile
  <1> QED BY <1>9, <1>11 DEF CtlInv

\* create() begins to scan the directory.
LEMMA CreateCtl ==
    ASSUME CtlInv, DskTypeOK, NEW p \in Proc, Create(p)
    PROVE  CtlInv' /\ SameRefs
  <1>1. PICK n : n = inode[ROOTINO].size
    OBVIOUS
  <1>2. User(p) /\ CanLock(ROOTINO)
    BY DEF Create
  <1>3. n \in Nat
    BY <1>1, Consts DEF DskTypeOK, Dinode
  <1>5. PICK b : b = [Idle EXCEPT !.op = "create", !.n = n]
    OBVIOUS
  <1>6. b \in Call /\ b.op = "create" /\ b.ip = ROOTINO /\ b.n = n /\ b.tot = 0 /\ b.j = 0
    BY <1>3, <1>5, IdleIs DEF Call, CallAt, Op, Idle
  <1>7. EnterLoop(p, b)
    BY <1>1, <1>5 DEF Create
  <1>8. call[p].at = "user" /\ pstate[p] # "unused"
    BY <1>2 DEF User
  <1>9. /\ CtlTypeOK' /\ FileInv' /\ ProcInv' /\ RefInv' /\ LockInv' /\ SameRefs
        /\ call'[p] = [b EXCEPT !.at = "loop"] /\ (CallSane(p)' => CallInv')
    BY <1>2, <1>6, <1>7, <1>8, EnterCtl
  <1>10. /\ call'[p].at = "loop" /\ call'[p].op = "create"
         /\ call'[p].ip = ROOTINO /\ call'[p].n = n /\ call'[p].tot = 0 /\ call'[p].j = 0
    BY <1>6, <1>9 DEF Call
  <1>11. CallSane(p)'
    BY <1>3, <1>10 DEF CallSane, InFile
  <1> QED BY <1>9, <1>11 DEF CtlInv

-----------------------------------------------------------------------------
(* References, and the bytes of a file.                                    *)

\* The references to an inode are finitely many.
LEMMA SetsFinite == \A i \in Inode :
    /\ IsFiniteSet(Opened(i)) /\ IsFiniteSet(Putting(i))
    /\ Cardinality(Opened(i)) \in Nat /\ Cardinality(Putting(i)) \in Nat
  <1>1. \A i \in Inode : Opened(i) \subseteq File /\ Putting(i) \subseteq Proc
    BY DEF Opened, Putting
  <1>2. \A i \in Inode : IsFiniteSet(Opened(i)) /\ IsFiniteSet(Putting(i))
    BY <1>1, Procs, FS_Subset
  <1> QED BY <1>2, FS_CardinalityType

\* An inode that is not in the cache has no reference.
LEMMA RefPositive ==
    RefInv => \A i \in Inode :
       ref[i] = 0 => i # ROOTINO /\ Opened(i) = {} /\ Putting(i) = {}
  <1>1. SUFFICES ASSUME RefInv, NEW i \in Inode, ref[i] = 0
                 PROVE  i # ROOTINO /\ Opened(i) = {} /\ Putting(i) = {}
    OBVIOUS
  <1>2. PICK a, b : a = Cardinality(Opened(i)) /\ b = Cardinality(Putting(i))
    OBVIOUS
  <1>3. a \in Nat /\ b \in Nat
    BY <1>2, SetsFinite
  <1>4. ref[i] = a + b + (IF i = ROOTINO THEN 1 ELSE 0)
    BY <1>1, <1>2 DEF RefInv
  <1>5. i # ROOTINO /\ a = 0 /\ b = 0
    BY <1>1, <1>3, <1>4
  <1> QED BY <1>2, <1>5, SetsFinite, FS_EmptySet

\* An inode that somebody has locked is in the cache.
LEMMA LockedRef ==
    CtlInv => \A i \in Inode : lock[i] # NoProc => ref[i] # 0
  <1>1. SUFFICES ASSUME CtlInv, NEW i \in Inode, lock[i] # NoProc, ref[i] = 0 PROVE FALSE
    OBVIOUS
  <1>2. i # ROOTINO /\ Opened(i) = {} /\ Putting(i) = {}
    BY <1>1, RefPositive DEF CtlInv
  <1>3. PICK p \in Proc : p = lock[i]
    BY <1>1 DEF CtlInv, CtlTypeOK
  <1>4. call[p].ip = i /\ Locks(p) /\ CallSane(p) /\ call[p] \in Call
    BY <1>1, <1>3 DEF CtlInv, LockInv, CallInv, CtlTypeOK
  <1>5. CASE call[p].at = "trunc"
    BY <1>2, <1>4, <1>5 DEF Putting, Iput
  <1>6. CASE call[p].at = "loop"
    <2>1. call[p].op \in {"read", "write"}
      BY <1>2, <1>4, <1>6 DEF CallSane, Call, Op
    <2>2. PICK d \in Fd : ofile[p][d] = call[p].f
      BY <1>4, <1>6, <2>1 DEF CallSane, InFile
    <2>3. call[p].f \in File /\ ftable[call[p].f].ip = i
      BY <1>4, <1>6, <2>1 DEF CallSane, InFile
    <2>4. ftable[call[p].f].ref # 0
      BY <1>1, <2>2, <2>3, FdOpen DEF CtlInv
    <2> QED BY <1>2, <2>3, <2>4 DEF Opened
  <1> QED BY <1>4, <1>5, <1>6 DEF Locks

\* What ilock() finds is an inode.
LEMMA LoadedType ==
    DskTypeOK => \A i \in Inode : Loaded(i) \in Dinode /\ Loaded(i).size \in Nat
                                  /\ Loaded(i).size <= MAXFILE * BSIZE
                                  /\ Loaded(i).addrs \in [0..NDIRECT -> Block]
  <1>1. SUFFICES ASSUME DskTypeOK, NEW i \in Inode
                 PROVE  /\ Loaded(i) \in Dinode /\ Loaded(i).size \in Nat
                        /\ Loaded(i).size <= MAXFILE * BSIZE
                        /\ Loaded(i).addrs \in [0..NDIRECT -> Block]
    OBVIOUS
  <1>2. Loaded(i) \in Dinode
    BY <1>1 DEF Loaded, DskTypeOK
  <1>3. MAXFILE * BSIZE \in Nat
    BY Consts, SMTT(30)
  <1>4. PICK x : x = Loaded(i)
    OBVIOUS
  <1>5. x.size \in 0..(MAXFILE * BSIZE) /\ x.addrs \in [0..NDIRECT -> Block]
    BY <1>2, <1>4 DEF Dinode
  <1> QED BY <1>2, <1>3, <1>4, <1>5

\* The root directory is always in the cache.
LEMMA RootHead ==
    CtlInv /\ HeadInv /\ DirInv => /\ ref[ROOTINO] # 0 /\ inode[ROOTINO].type = "dir"
                                   /\ inode[ROOTINO].nlink = 1
  BY RefPositive, Consts DEF CtlInv, HeadInv, HeadSane, DirInv, DirSound

\* The block of a byte of a file that is neither being written nor cut off.
LEMMA ByteBlock ==
    CtlInv /\ DskTypeOK /\ OwnInv /\ HoleInv =>
      \A i \in Inode : Still(i) => \A x \in Nat : x < Loaded(i).size =>
         /\ x \div BSIZE \in 0..(MAXFILE - 1) /\ x % BSIZE \in Unit
         /\ Own[<<i, SlotOf(x \div BSIZE)>>] # NULL
         /\ Own[<<i, SlotOf(x \div BSIZE)>>] \in bitmap
         /\ Own[<<i, SlotOf(x \div BSIZE)>>] \in Block
         /\ bmap(i, x \div BSIZE) = Own[<<i, SlotOf(x \div BSIZE)>>]
  <1>1. SUFFICES ASSUME CtlInv, DskTypeOK, OwnInv, HoleInv, NEW i \in Inode, Still(i),
                        NEW x \in Nat, x < Loaded(i).size
        PROVE /\ x \div BSIZE \in 0..(MAXFILE - 1) /\ x % BSIZE \in Unit
              /\ Own[<<i, SlotOf(x \div BSIZE)>>] # NULL
              /\ Own[<<i, SlotOf(x \div BSIZE)>>] \in bitmap
              /\ Own[<<i, SlotOf(x \div BSIZE)>>] \in Block
              /\ bmap(i, x \div BSIZE) = Own[<<i, SlotOf(x \div BSIZE)>>]
    OBVIOUS
  <1>2. Loaded(i).size \in Nat /\ Loaded(i).size <= MAXFILE * BSIZE
    BY <1>1, LoadedType
  <1>3. MAXFILE * BSIZE \in Nat
    BY Consts, SMTT(30)
  <1>4. x < MAXFILE * BSIZE
    BY <1>1, <1>2, <1>3
  <1>5. PICK n : n = x \div BSIZE
    OBVIOUS
  <1>6. n \in 0..(MAXFILE - 1) /\ x % BSIZE \in Unit /\ n * BSIZE <= x /\ n \in Nat
    BY <1>4, <1>5, InFileBlock, DivMod, Begins
  <1>7. n * BSIZE \in Nat
    BY <1>6, Consts, SMTT(30)
  <1>8. n * BSIZE < Loaded(i).size
    BY <1>1, <1>2, <1>6, <1>7
  <1>9. Own[<<i, SlotOf(n)>>] # NULL
    BY <1>1, <1>6, <1>8 DEF HoleInv, HoleSane, Covered
  <1>10. SlotOf(n) \in Slot
    BY <1>6, SlotIn
  <1>11. Own[<<i, SlotOf(n)>>] \in bitmap
    BY <1>1, <1>9, <1>10 DEF OwnInv, OwnedOnce, Spot
  <1>12. Own[<<i, SlotOf(n)>>] \in Block
    BY <1>1, <1>11 DEF DskTypeOK
  <1>13. Freed(i) = 0
    BY <1>1, FreedNone DEF Still, CtlInv
  <1>14. bmap(i, n) = Own[<<i, SlotOf(n)>>]
    BY <1>1, <1>6, <1>13, BmapOwn DEF DskTypeOK
  <1> QED BY <1>5, <1>6, <1>9, <1>11, <1>12, <1>14

\* The bytes of a file that nobody is writing.
LEMMA ContentType ==
    CtlInv /\ DskTypeOK /\ OwnInv /\ HoleInv =>
      \A i \in Inode : Still(i) =>
         /\ Content(i) \in Seq(Value) /\ Len(Content(i)) = Loaded(i).size
         /\ \A k \in 1..Loaded(i).size :
               Content(i)[k] = blk[Own[<<i, SlotOf((k - 1) \div BSIZE)>>]][(k - 1) % BSIZE]
  <1>1. SUFFICES ASSUME CtlInv, DskTypeOK, OwnInv, HoleInv, NEW i \in Inode, Still(i)
        PROVE /\ Content(i) \in Seq(Value) /\ Len(Content(i)) = Loaded(i).size
              /\ \A k \in 1..Loaded(i).size :
                   Content(i)[k] = blk[Own[<<i, SlotOf((k - 1) \div BSIZE)>>]][(k - 1) % BSIZE]
    OBVIOUS
  <1>2. PICK s, c : s = Loaded(i).size /\ c = Content(i)
    OBVIOUS
  <1>3. s \in Nat
    BY <1>1, <1>2, LoadedType
  <1>4. c = [k \in 1..s |-> blk[bmap(i, (k - 1) \div BSIZE)][(k - 1) % BSIZE]]
    BY <1>2 DEF Content
  <1>5. ASSUME NEW k \in 1..s
        PROVE  /\ c[k] \in Value
               /\ c[k] = blk[Own[<<i, SlotOf((k - 1) \div BSIZE)>>]][(k - 1) % BSIZE]
    <2>1. PICK x \in Nat : x = k - 1
      BY <1>3
    <2>2. x < Loaded(i).size
      BY <1>2, <1>3, <2>1
    <2>3. /\ x % BSIZE \in Unit
          /\ Own[<<i, SlotOf(x \div BSIZE)>>] \in Block
          /\ bmap(i, x \div BSIZE) = Own[<<i, SlotOf(x \div BSIZE)>>]
      BY <1>1, <2>2, ByteBlock
    <2>4. c[k] = blk[Own[<<i, SlotOf(x \div BSIZE)>>]][x % BSIZE]
      BY <1>4, <2>1, <2>3
    <2>5. blk[Own[<<i, SlotOf(x \div BSIZE)>>]][x % BSIZE] \in Value
      BY <1>1, <2>3 DEF DskTypeOK
    <2> QED BY <2>1, <2>4, <2>5
  <1>6. c \in Seq(Value) /\ Len(c) = s
    <2>1. c \in [1..s -> Value]
      BY <1>4, <1>5
    <2> QED BY <1>3, <2>1
  <1> QED BY <1>2, <1>5, <1>6

-----------------------------------------------------------------------------
(* The loop of readi() and writei().                                       *)

\* The piece of a block that the loop is at.
LEMMA PieceIs ==
    ASSUME NEW p \in Proc, Off(p) \in Nat, call[p].n \in Nat, call[p].tot \in Nat,
           call[p].tot < call[p].n
    PROVE  /\ Piece(p) \in Nat /\ Piece(p) >= 1 /\ call[p].tot + Piece(p) <= call[p].n
           /\ Piece(p) <= BSIZE - (Off(p) % BSIZE)
  <1>1. PICK a, b : a = call[p].n - call[p].tot /\ b = BSIZE - (Off(p) % BSIZE)
    OBVIOUS
  <1>2. a \in Nat /\ a >= 1
    BY <1>1
  <1>3. b \in Nat /\ b >= 1
    <2>1. Off(p) % BSIZE \in 0..(BSIZE - 1) /\ BSIZE \in Nat
      BY DivMod, Consts DEF Unit
    <2> QED BY <1>1, <2>1
  <1>4. Piece(p) = Min({a, b})
    BY <1>1 DEF Piece
  <1>5. PICK m : m = Min({a, b})
    OBVIOUS
  <1>6. m \in Nat /\ m <= a /\ m <= b /\ (m = a \/ m = b)
    BY <1>2, <1>3, <1>5, MinTwo
  <1>7. m >= 1 /\ call[p].tot + m <= call[p].n
    BY <1>1, <1>2, <1>3, <1>6
  <1> QED BY <1>1, <1>4, <1>5, <1>6, <1>7

\* Who is in the loop has the lock; the byte that it is at is in a block of the
\* file, which is there unless the file is being written.
LEMMA LoopBlock ==
    ASSUME DInv, NEW p \in Proc, Looping(p)
    PROVE  /\ call[p].ip \in Inode /\ lock[call[p].ip] = p /\ Freed(call[p].ip) = 0
           /\ call[p].tot \in Nat /\ call[p].n \in Nat /\ call[p].tot < call[p].n
           /\ call[p].op \in {"read", "write", "create"}
           /\ Off(p) \in Nat /\ Bn(p) \in 0..(MAXFILE - 1)
           /\ bmap(call[p].ip, Bn(p)) = Own[<<call[p].ip, SlotOf(Bn(p))>>]
           /\ bmap(call[p].ip, Bn(p)) # NULL =>
                bmap(call[p].ip, Bn(p)) \in Block /\ bmap(call[p].ip, Bn(p)) \in bitmap
           /\ call[p].op # "write" =>
                Still(call[p].ip) /\ bmap(call[p].ip, Bn(p)) # NULL
           /\ call[p].op = "write" => Writing(call[p].ip) /\ Off(p) = Pos(p)
  <1>0. CtlInv /\ CtlTypeOK /\ DskTypeOK /\ RangeInv /\ OwnInv /\ HoleInv /\ LockInv /\ CallInv
    BY DEF DInv, CtlInv
  <1>1. PICK i, c : i = call[p].ip /\ c = call[p]
    OBVIOUS
  <1>2. c \in Call /\ c.at = "loop" /\ c.tot < c.n /\ ~panicked /\ i = c.ip /\ p \in Proc
    BY <1>0, <1>1 DEF Looping, At, CtlTypeOK
  <1>3. i \in Inode /\ c.tot \in Nat /\ c.n \in Nat
    BY <1>2 DEF Call
  <1>4. lock[i] = p
    BY <1>0, <1>1, <1>2 DEF LockInv
  <1>5. CallSane(p) /\ RangeSane(p)
    BY <1>0 DEF CallInv, RangeInv
  <1>6. c.op \in {"read", "write", "create"}
    BY <1>1, <1>2, <1>5 DEF CallSane, Call, Op
  <1>7. NoProc # p
    BY Procs
  <1>8. ~Truncating(i) /\ (c.op = "write" => Writing(i)) /\ (c.op # "write" => Still(i))
    BY <1>1, <1>2, <1>4, <1>7 DEF Truncating, Still, Writing, Loops
  <1>9. Freed(i) = 0
    BY <1>0, <1>3, <1>8, FreedNone
  <1>10. MAXFILE * BSIZE \in Nat /\ inode[i].size \in Nat /\ inode[i].size <= MAXFILE * BSIZE
    <2>1. MAXFILE * BSIZE \in Nat
      BY Consts, SMTT(30)
    <2>2. inode[i].size \in 0..(MAXFILE * BSIZE)
      BY <1>0, <1>3 DEF DskTypeOK, Dinode
    <2> QED BY <2>1, <2>2
  <1>11. inode[i] = Loaded(i)
    BY <1>0, <1>3, <1>4, <1>7, LockedRef DEF Loaded
  <1>12. /\ Off(p) \in Nat /\ Off(p) < MAXFILE * BSIZE
         /\ c.op # "write" => Off(p) < inode[i].size
         /\ c.op = "write" => Off(p) = Pos(p)
    <2>1. CASE c.op = "create"
      <3>1. Off(p) = c.tot /\ c.n = inode[i].size
        BY <1>1, <1>2, <1>3, <1>5, <2>1 DEF Off, RangeSane, CallSane, Loops
      <3> QED BY <1>2, <1>3, <1>10, <2>1, <3>1
    <2>2. CASE c.op \in {"read", "write"}
      <3>1. c.f \in File
        BY <1>1, <1>2, <1>5, <2>2 DEF CallSane, InFile
      <3>2. ftable[c.f].off \in Nat
        BY <1>0, <3>1 DEF CtlTypeOK, OFile
      <3>3. Off(p) = c.tot + ftable[c.f].off /\ Pos(p) = ftable[c.f].off + c.tot
        BY <1>1, <2>2 DEF Off, Pos, FOff
      <3>4. CASE c.op = "read"
        <4>1. ftable[c.f].off + c.n <= inode[i].size
          BY <1>1, <1>2, <1>5, <3>4 DEF RangeSane, Loops, FOff
        <4> QED BY <1>2, <1>3, <1>10, <3>2, <3>3, <3>4, <4>1
      <3>5. CASE c.op = "write"
        <4>1. ftable[c.f].off + c.n <= MAXFILE * BSIZE
          BY <1>1, <1>2, <1>5, <3>5 DEF RangeSane, Loops, FOff
        <4> QED BY <1>2, <1>3, <1>10, <3>2, <3>3, <3>5, <4>1
      <3> QED BY <2>2, <3>4, <3>5
    <2> QED BY <1>6, <2>1, <2>2
  <1>13. Bn(p) \in 0..(MAXFILE - 1)
    BY <1>12, InFileBlock DEF Bn
  <1>14. bmap(i, Bn(p)) = Own[<<i, SlotOf(Bn(p))>>]
    BY <1>0, <1>3, <1>9, <1>13, BmapOwn DEF DskTypeOK
  <1>15. SlotOf(Bn(p)) \in Slot
    BY <1>13, SlotIn
  <1>16. Own[<<i, SlotOf(Bn(p))>>] # NULL =>
           Own[<<i, SlotOf(Bn(p))>>] \in bitmap /\ Own[<<i, SlotOf(Bn(p))>>] \in Block
    BY <1>0, <1>3, <1>15 DEF OwnInv, OwnedOnce, Spot, DskTypeOK
  <1>17. c.op # "write" => Own[<<i, SlotOf(Bn(p))>>] # NULL
    BY <1>0, <1>3, <1>8, <1>11, <1>12, ByteBlock DEF Bn
  <1>18. /\ c.op # "write" => Still(i)
         /\ c.op = "write" => Writing(i) /\ Off(p) = Pos(p)
    BY <1>8, <1>12
  <1>19. /\ i \in Inode /\ lock[i] = p /\ Freed(i) = 0
         /\ c.tot \in Nat /\ c.n \in Nat /\ c.tot < c.n
         /\ c.op \in {"read", "write", "create"} /\ Off(p) \in Nat
    BY <1>2, <1>3, <1>4, <1>6, <1>9, <1>12
  <1> QED BY <1>1, <1>13, <1>14, <1>16, <1>17, <1>18, <1>19

\* filewrite() begins.
LEMMA WriteCtl ==
    ASSUME DInv, NEW p \in Proc, NEW d \in Fd, NEW n \in WriteArgs, Write(p, d, n)
    PROVE  CtlInv' /\ SameRefs
  <1>0. CtlInv /\ CtlTypeOK /\ FileInv /\ ProcInv /\ CallInv /\ LockInv /\ HeadInv /\ DirInv
    BY DEF DInv, CtlInv
  <1>1. PICK f, i : f = ofile[p][d] /\ i = ftable[f].ip
    OBVIOUS
  <1>2. User(p) /\ argfd(p, d) /\ inode[i].type = "file"
    BY <1>1 DEF Write
  <1>3. f \in File /\ i \in Inode
    BY <1>0, <1>1, <1>2, ArgFd
  <1>4. i # ROOTINO
    BY <1>0, <1>2, RootHead
  <1>5. PICK c : c = [Idle EXCEPT !.at = "lock", !.op = "write", !.f = f, !.ip = i, !.left = n]
    OBVIOUS
  <1>6. n \in Nat
    BY FileDataAssumption
  <1>7. c \in Call /\ c.at = "lock" /\ c.op = "write" /\ c.f = f /\ c.ip = i /\ c.j = 0
    BY <1>3, <1>5, <1>6, IdleIs DEF Call, CallAt, Op, Idle
  <1>8. /\ call' = [call EXCEPT ![p] = c] /\ UNCHANGED <<ref, lock, ftable, ofile, pstate, panicked>>
    BY <1>1, <1>5 DEF Write
  <1>9. Quiet(p, c) /\ ~Locks(p)
    BY <1>0, <1>2, <1>7, <1>8, SameFtable, Runs DEF Quiet, User, Iput, Locks
  <1>10. panicked' \in BOOLEAN
    BY <1>0, <1>8 DEF CtlTypeOK
  <1>11. /\ CtlTypeOK' /\ FileInv' /\ ProcInv' /\ RefInv' /\ LockInv' /\ SameRefs
         /\ call'[p] = c /\ (CallSane(p)' => CallInv')
    BY <1>0, <1>7, <1>8, <1>9, <1>10, StayCtl
  <1>12. CallSane(p)'
    BY <1>1, <1>3, <1>4, <1>7, <1>8, <1>11 DEF CallSane, InFile
  <1> QED BY <1>11, <1>12 DEF CtlInv

\* A call that is over.
LEMMA ToIdle ==
    ASSUME CtlInv, NEW p \in Proc, call[p].at \in {"lock", "return"},
           call' = [call EXCEPT ![p] = Idle],
           UNCHANGED <<ref, lock, ftable, ofile, pstate, panicked>>
    PROVE  CtlInv' /\ SameRefs
  <1>0. CtlTypeOK /\ ProcInv
    BY DEF CtlInv
  <1>1. Quiet(p, Idle) /\ ~Locks(p) /\ Idle.at \notin {"loop", "trunc"}
    BY <1>0, IdleIs, SameFtable, Runs DEF Quiet, Iput, Locks
  <1>2. panicked' \in BOOLEAN
    BY <1>0 DEF CtlTypeOK
  <1>3. /\ CtlTypeOK' /\ FileInv' /\ ProcInv' /\ RefInv' /\ LockInv' /\ SameRefs
        /\ call'[p] = Idle /\ (CallSane(p)' => CallInv')
    BY <1>1, <1>2, StayCtl
  <1>4. CallSane(p)'
    BY <1>3, IdleIs DEF CallSane, InFile
  <1> QED BY <1>3, <1>4 DEF CtlInv

\* A call returns.
LEMMA ReturnCtl ==
    ASSUME CtlInv, NEW p \in Proc, Return(p) \/ WriteFails(p)
    PROVE  CtlInv' /\ SameRefs
  <1>1. CASE Return(p)
    BY <1>1, ToIdle DEF Return, At
  <1>2. CASE WriteFails(p)
    BY <1>2, ToIdle DEF WriteFails, At
  <1> QED BY <1>1, <1>2

\* filewrite() takes the inode for a chunk.
LEMMA WriteLockCtl ==
    ASSUME DInv, NEW p \in Proc, WriteLock(p)
    PROVE  CtlInv' /\ SameRefs
  <1>0. /\ CtlInv /\ CtlTypeOK /\ FileInv /\ ProcInv /\ CallInv /\ LockInv
        /\ DskTypeOK /\ OwnInv /\ HoleInv
    BY DEF DInv, CtlInv
  <1>1. PICK c, n, s : c = call[p] /\ n = Chunk(p) /\ s = Content(c.ip)
    OBVIOUS
  <1>2. c \in Call /\ c.at = "lock" /\ CanLock(c.ip) /\ c.ip \in Inode /\ c.left \in Nat
    BY <1>0, <1>1 DEF WriteLock, At, CtlTypeOK, Call
  <1>3. n \in Nat
    <2>1. max \in Nat
      <3>1. (MAXOPBLOCKS - 1 - 1 - 2) \div 2 \in Nat
        BY FileDataAssumption
      <3> QED BY <3>1, Consts, SMTT(30) DEF max
    <2> QED BY <1>1, <1>2, <2>1, MinTwo DEF Chunk
  <1>4. s \in Seq(Value)
    <2>1. Still(c.ip)
      BY <1>2 DEF Still, Writing, Truncating, CanLock
    <2> QED BY <1>0, <1>1, <1>2, <2>1, ContentType
  <1>5. PICK b : b = [c EXCEPT !.n = n, !.tot = 0, !.logged = {}, !.before = s]
    OBVIOUS
  <1>6. /\ b \in Call /\ b.op = c.op /\ b.f = c.f /\ b.ip = c.ip /\ b.n = n
        /\ b.tot = 0 /\ b.j = c.j
    BY <1>2, <1>3, <1>4, <1>5 DEF Call
  <1>7. EnterLoop(p, b) /\ ftable' = ftable /\ ofile' = ofile
    BY <1>1, <1>5 DEF WriteLock, EnterLoop
  <1>8. pstate[p] # "unused" /\ CanLock(b.ip) /\ call[p].at \in {"user", "lock"}
    BY <1>0, <1>1, <1>2, <1>6, Runs DEF CanLock
  <1>9. /\ CtlTypeOK' /\ FileInv' /\ ProcInv' /\ RefInv' /\ LockInv' /\ SameRefs
        /\ call'[p] = [b EXCEPT !.at = "loop"] /\ (CallSane(p)' => CallInv')
    BY <1>0, <1>6, <1>7, <1>8, EnterCtl
  <1>10. /\ call'[p].at = "loop" /\ call'[p].op = c.op /\ call'[p].f = c.f
         /\ call'[p].ip = c.ip /\ call'[p].n = n /\ call'[p].tot = 0 /\ call'[p].j = c.j
    BY <1>6, <1>9 DEF Call
  <1>11. CallSane(p)
    BY <1>0 DEF CallInv
  <1>12. CallSane(p)'
    BY <1>1, <1>2, <1>3, <1>7, <1>10, <1>11 DEF CallSane, InFile
  <1> QED BY <1>9, <1>12 DEF CtlInv

\* The offset of an open file moves by n.
LEMMA OffsetMoves ==
    ASSUME CtlTypeOK, NEW f \in File, NEW n \in Nat, ftable' = [ftable EXCEPT ![f].off = @ + n]
    PROVE  /\ SameFiles /\ ftable' \in [File -> OFile]
           /\ ftable'[f].off = ftable[f].off + n
           /\ \A g \in File : g # f => ftable'[g] = ftable[g]
  <1>1. ftable \in [File -> OFile] /\ ftable[f].off + n \in Nat
    BY DEF CtlTypeOK, OFile
  <1>2. /\ ftable'[f].ref = ftable[f].ref /\ ftable'[f].ip = ftable[f].ip
        /\ ftable'[f].off = ftable[f].off + n /\ ftable'[f] \in OFile
    BY <1>1 DEF OFile
  <1>3. \A g \in File : g # f => ftable'[g] = ftable[g]
    BY <1>1
  <1>4. ftable' = [g \in File |-> ftable'[g]]
    BY <1>1
  <1>5. \A g \in File : ftable'[g] \in OFile
    BY <1>1, <1>2, <1>3
  <1> QED BY <1>2, <1>3, <1>4, <1>5 DEF SameFiles

\* fileread() moves the offset and unlocks.
LEMMA ReadEndCtl ==
    ASSUME CtlInv, NEW p \in Proc, ReadEnd(p)
    PROVE  CtlInv' /\ SameRefs
  <1>0. CtlTypeOK /\ FileInv /\ ProcInv /\ CallInv /\ LockInv
    BY DEF CtlInv
  <1>1. PICK b, c : b = call[p] /\ c = [Idle EXCEPT !.at = "return", !.out = b.out]
    OBVIOUS
  <1>2. b \in Call /\ b.at = "loop" /\ b.op = "read" /\ ~panicked
    BY <1>0, <1>1 DEF ReadEnd, LoopDone, At, CtlTypeOK
  <1>3. b.ip \in Inode /\ b.n \in Nat /\ b.out \in Seq(Value)
    BY <1>2 DEF Call
  <1>4. b.f \in File
    BY <1>0, <1>1, <1>2 DEF CallInv, CallSane, InFile
  <1>5. /\ call' = [call EXCEPT ![p] = c] /\ lock' = [lock EXCEPT ![b.ip] = NoProc]
        /\ ftable' = [ftable EXCEPT ![b.f].off = @ + b.n]
        /\ UNCHANGED <<ref, ofile, pstate, panicked>>
    BY <1>1 DEF ReadEnd
  <1>6. c \in Call /\ c.at = "return" /\ c.op = "none" /\ c.j = 0
    BY <1>1, <1>3, IdleIs DEF Call, CallAt, Idle
  <1>7. SameFiles /\ ftable' \in [File -> OFile]
    BY <1>0, <1>3, <1>4, <1>5, OffsetMoves
  <1>8. Quiet(p, c)
    BY <1>0, <1>1, <1>2, <1>5, <1>6, <1>7, Runs DEF Quiet, Iput
  <1>9. lock[b.ip] = p
    BY <1>0, <1>1, <1>2 DEF LockInv
  <1>10. /\ CtlTypeOK' /\ FileInv' /\ ProcInv' /\ RefInv' /\ LockInv' /\ SameRefs
         /\ call'[p] = c /\ (CallSane(p)' => CallInv')
    BY <1>3, <1>5, <1>6, <1>8, <1>9, LeaveCtl
  <1>11. CallSane(p)'
    BY <1>6, <1>10 DEF CallSane, InFile
  <1> QED BY <1>10, <1>11 DEF CtlInv

\* filewrite() ends a chunk.
LEMMA WriteEndCtl ==
    ASSUME CtlInv, RangeInv, NEW p \in Proc, WriteEnd(p)
    PROVE  CtlInv' /\ SameRefs
  <1>0. CtlTypeOK /\ FileInv /\ ProcInv /\ CallInv /\ LockInv
    BY DEF CtlInv
  <1>1. PICK b : b = call[p]
    OBVIOUS
  <1>2. b \in Call /\ b.at = "loop" /\ b.op = "write" /\ ~panicked
    BY <1>0, <1>1 DEF WriteEnd, LoopDone, At, CtlTypeOK
  <1>3. b.ip \in Inode /\ b.n \in Nat /\ b.left \in Nat
    BY <1>2 DEF Call
  <1>4. /\ b.f \in File /\ ftable[b.f].ip = b.ip /\ b.ip # ROOTINO
        /\ \E d \in Fd : ofile[p][d] = b.f
    BY <1>0, <1>1, <1>2 DEF CallInv, CallSane, InFile
  <1>5. b.left - b.n \in Nat
    BY <1>1, <1>2, <1>3 DEF RangeInv, RangeSane, Loops
  <1>6. PICK c : c = IF b.left = b.n THEN Idle
                     ELSE [Idle EXCEPT !.at = "lock", !.op = "write", !.f = b.f, !.ip = b.ip,
                                       !.left = b.left - b.n]
    OBVIOUS
  <1>7. /\ call' = [call EXCEPT ![p] = c] /\ lock' = [lock EXCEPT ![b.ip] = NoProc]
        /\ ftable' = [ftable EXCEPT ![b.f].off = @ + b.n]
        /\ UNCHANGED <<ref, ofile, pstate, panicked>>
    BY <1>1, <1>6 DEF WriteEnd
  <1>8. /\ c \in Call /\ c.j = 0
        /\ \/ c.at = "user" /\ c.op = "none"
           \/ c.at = "lock" /\ c.op = "write" /\ c.f = b.f /\ c.ip = b.ip
    <2>1. CASE b.left = b.n
      BY <1>6, <2>1, IdleIs
    <2>2. CASE b.left # b.n
      BY <1>3, <1>4, <1>5, <1>6, <2>2, IdleIs DEF Call, CallAt, Op, Idle
    <2> QED BY <2>1, <2>2
  <1>9. SameFiles /\ ftable' \in [File -> OFile]
    BY <1>0, <1>3, <1>4, <1>7, OffsetMoves
  <1>10. Quiet(p, c)
    BY <1>0, <1>1, <1>2, <1>7, <1>8, <1>9, Runs DEF Quiet, Iput
  <1>11. lock[b.ip] = p
    BY <1>0, <1>1, <1>2 DEF LockInv
  <1>12. /\ CtlTypeOK' /\ FileInv' /\ ProcInv' /\ RefInv' /\ LockInv' /\ SameRefs
         /\ call'[p] = c /\ (CallSane(p)' => CallInv')
    BY <1>3, <1>7, <1>8, <1>10, <1>11, LeaveCtl
  <1>13. CallSane(p)'
    BY <1>4, <1>7, <1>8, <1>9, <1>12 DEF CallSane, InFile, SameFiles
  <1> QED BY <1>12, <1>13 DEF CtlInv

\* The loop goes on: only logged, tot and out change.
LEMMA LoopCtl ==
    ASSUME DInv, NEW p \in Proc, Looping(p), NEW c \in Call,
           call' = [call EXCEPT ![p] = c],
           c.at = "loop", c.op = call[p].op, c.f = call[p].f, c.ip = call[p].ip,
           c.n = call[p].n, c.j = call[p].j, c.tot <= c.n,
           UNCHANGED <<ref, lock, ftable, ofile, pstate>>,
           panicked' \in BOOLEAN
    PROVE  CtlInv' /\ SameRefs
  <1>0. CtlInv /\ CtlTypeOK /\ FileInv /\ ProcInv /\ CallInv /\ LockInv
    BY DEF DInv, CtlInv
  <1>1. call[p].at = "loop" /\ ~panicked
    BY DEF Looping, At
  <1>2. Quiet(p, c) /\ Locks(p)
    BY <1>0, <1>1, SameFtable, Runs DEF Quiet, Iput, Locks
  <1>3. /\ CtlTypeOK' /\ FileInv' /\ ProcInv' /\ RefInv' /\ LockInv' /\ SameRefs
        /\ call'[p] = c /\ (CallSane(p)' => CallInv')
    BY <1>0, <1>1, <1>2, StayCtl
  <1>4. CallSane(p)
    BY <1>0 DEF CallInv
  <1>5. CallSane(p)'
    BY <1>1, <1>3, <1>4 DEF CallSane, InFile
  <1> QED BY <1>3, <1>5 DEF CtlInv

\* balloc() finds a block that is not in use.
LEMMA NewBlock ==
    ASSUME DskTypeOK, ~(Block \subseteq bitmap)
    PROVE  Min(Block \ bitmap) \in Block /\ Min(Block \ bitmap) \notin bitmap
  <1>1. PICK S : S = Block \ bitmap
    OBVIOUS
  <1>2. S \subseteq Nat /\ S # {}
    BY <1>1, Consts
  <1>3. Min(S) \in S
    BY <1>2, MinNat
  <1> QED BY <1>1, <1>3

\* bmap() allocates: only a write does, and its own operation is open.
BallocDirect(p, new) ==
    /\ inode' = [inode EXCEPT ![call[p].ip].addrs[Min({Bn(p), NDIRECT})] = new]
    /\ blk' = [blk EXCEPT ![new] = Zeroes]
    /\ call' = [call EXCEPT ![p].logged = @ \cup {BBLOCK, new}]
BallocIndirect(p, new) ==
    LET ind == inode[call[p].ip].addrs[NDIRECT] IN
    /\ ~(Bn(p) < NDIRECT \/ ind = NULL)
    /\ blk' = [blk EXCEPT ![new] = Zeroes, ![ind][Bn(p) - NDIRECT] = new]
    /\ call' = [call EXCEPT ![p].logged = @ \cup {BBLOCK, new, ind}]
    /\ UNCHANGED inode

\* The two ways in which bmap() allocates.
LEMMA BallocIs ==
    ASSUME DInv, NEW p \in Proc, BallocFor(p)
    PROVE  /\ Looping(p) /\ call[p].op = "write" /\ bmap(call[p].ip, Bn(p)) = NULL
           /\ UNCHANGED <<dinode, ref, lock, ftable, ofile, pstate>>
           /\ \/ panicked' = TRUE /\ UNCHANGED <<bitmap, blk, inode, call>>
              \/ \E new \in Block \ bitmap :
                    /\ bitmap' = bitmap \cup {new} /\ UNCHANGED panicked
                    /\ \/ /\ Bn(p) < NDIRECT \/ inode[call[p].ip].addrs[NDIRECT] = NULL
                          /\ BallocDirect(p, new)
                       \/ BallocIndirect(p, new)
  <1>1. Looping(p) /\ bmap(call[p].ip, Bn(p)) = NULL
        /\ UNCHANGED <<dinode, ref, lock, ftable, ofile, pstate>>
    BY DEF BallocFor
  <1>2. call[p].op = "write"
    BY <1>1, LoopBlock
  <1>3. CASE Block \subseteq bitmap \/ ~\E q \in Proc : InOp(q)
    BY <1>1, <1>2, <1>3 DEF BallocFor, Panic
  <1>4. CASE ~(Block \subseteq bitmap \/ ~\E q \in Proc : InOp(q))
    <2>1. PICK new : new = Min(Block \ bitmap)
      OBVIOUS
    <2>2. new \in Block \ bitmap
      BY <1>4, <2>1, NewBlock DEF DInv
    <2>3. bitmap' = bitmap \cup {new} /\ UNCHANGED panicked
      BY <1>4, <2>1 DEF BallocFor
    <2>4. CASE Bn(p) < NDIRECT \/ inode[call[p].ip].addrs[NDIRECT] = NULL
      <3>1. BallocDirect(p, new)
        BY <1>4, <2>1, <2>4 DEF BallocFor, BallocDirect
      <3> QED BY <1>1, <1>2, <2>2, <2>3, <2>4, <3>1
    <2>5. CASE ~(Bn(p) < NDIRECT \/ inode[call[p].ip].addrs[NDIRECT] = NULL)
      <3>1. BallocIndirect(p, new)
        BY <1>4, <2>1, <2>5 DEF BallocFor, BallocIndirect
      <3> QED BY <1>1, <1>2, <2>2, <2>3, <2>5, <3>1
    <2> QED BY <2>4, <2>5
  <1> QED BY <1>3, <1>4

\* The call of a process after log_write() of some blocks.
LEMMA LogStep ==
    ASSUME CtlTypeOK, NEW p \in Proc, NEW x \in SUBSET Block, NEW c,
           c = [call[p] EXCEPT !.logged = @ \cup x]
    PROVE  /\ c \in Call /\ c.at = call[p].at /\ c.op = call[p].op /\ c.f = call[p].f
           /\ c.ip = call[p].ip /\ c.n = call[p].n /\ c.tot = call[p].tot /\ c.j = call[p].j
           /\ c.left = call[p].left /\ c.out = call[p].out /\ c.before = call[p].before
           /\ c.logged = call[p].logged \cup x
  BY DEF CtlTypeOK, Call

\* An allocation leaves control alone.
LEMMA BallocCtl ==
    ASSUME DInv, NEW p \in Proc, BallocFor(p)
    PROVE  CtlInv' /\ SameRefs
  <1>0. CtlTypeOK /\ DskTypeOK
    BY DEF DInv, CtlInv
  <1>1. /\ Looping(p) /\ UNCHANGED <<dinode, ref, lock, ftable, ofile, pstate>>
        /\ call[p].at = "loop"
    BY BallocIs DEF Looping, At
  <1>2. call[p].tot < call[p].n /\ call[p].tot \in Nat /\ call[p].n \in Nat /\ call[p].ip \in Inode
    BY <1>1, LoopBlock
  <1>3. CASE panicked' = TRUE /\ UNCHANGED <<bitmap, blk, inode, call>>
    <2>1. PICK c : c = call[p]
      OBVIOUS
    <2>2. c \in Call /\ call' = [call EXCEPT ![p] = c]
      BY <1>0, <1>3, <2>1 DEF CtlTypeOK
    <2>3. panicked' \in BOOLEAN
      BY <1>3
    <2>4. /\ c.at = "loop" /\ c.op = call[p].op /\ c.f = call[p].f /\ c.ip = call[p].ip
          /\ c.n = call[p].n /\ c.j = call[p].j /\ c.tot <= c.n
      BY <1>1, <1>2, <2>1
    <2> QED BY <1>1, <2>2, <2>3, <2>4, LoopCtl
  <1>4. ASSUME NEW new \in Block, UNCHANGED panicked,
               \/ BallocDirect(p, new) \/ BallocIndirect(p, new)
        PROVE  CtlInv' /\ SameRefs
    <2>1. PICK x \in SUBSET Block : call' = [call EXCEPT ![p].logged = @ \cup x]
      <3>1. BBLOCK \in Block
        BY Consts
      <3>2. inode[call[p].ip].addrs[NDIRECT] \in Block
        <4>1. inode[call[p].ip] \in Dinode
          BY <1>0, <1>2 DEF DskTypeOK
        <4>2. NDIRECT \in 0..NDIRECT
          BY Consts
        <4> QED BY <4>1, <4>2 DEF Dinode
      <3> QED BY <1>4, <3>1, <3>2 DEF BallocDirect, BallocIndirect
    <2>2. PICK c : c = [call[p] EXCEPT !.logged = @ \cup x]
      OBVIOUS
    <2>3. call' = [call EXCEPT ![p] = c]
      BY <1>0, <2>1, <2>2 DEF CtlTypeOK
    <2>4. /\ c \in Call /\ c.at = call[p].at /\ c.op = call[p].op /\ c.f = call[p].f
          /\ c.ip = call[p].ip /\ c.n = call[p].n /\ c.tot = call[p].tot /\ c.j = call[p].j
      BY <1>0, <2>2, LogStep
    <2>5. panicked' \in BOOLEAN
      BY <1>0, <1>4 DEF CtlTypeOK
    <2>6. c.at = "loop" /\ c.tot <= c.n
      BY <1>1, <1>2, <2>4
    <2> QED BY <1>1, <2>3, <2>4, <2>5, <2>6, LoopCtl
  <1> QED BY <1>3, <1>4, BallocIs

\* The bytes of a piece of a block.
LEMMA PieceBytes ==
    ASSUME DskTypeOK, NEW b \in Block, NEW o \in Unit, NEW m \in Nat, m <= BSIZE - o
    PROVE  [k \in 1..m |-> blk[b][o + k - 1]] \in Seq(Value)
  <1>1. ASSUME NEW k \in 1..m PROVE blk[b][o + k - 1] \in Value
    <2>1. o + k - 1 \in Unit
      BY <1>1, Consts DEF Unit
    <2> QED BY <2>1 DEF DskTypeOK
  <1>2. [k \in 1..m |-> blk[b][o + k - 1]] \in [1..m -> Value]
    BY <1>1
  <1> QED BY <1>2

\* What Copy does to the call.
Copied(p, c) ==
    /\ c \in Call /\ call' = [call EXCEPT ![p] = c]
    /\ c.at = call[p].at /\ c.op = call[p].op /\ c.f = call[p].f /\ c.ip = call[p].ip
    /\ c.n = call[p].n /\ c.j = call[p].j /\ c.left = call[p].left
    /\ c.before = call[p].before
    /\ c.tot = call[p].tot + Piece(p) /\ c.tot <= c.n
    /\ c.logged = IF c.op = "write" THEN call[p].logged \cup {bmap(call[p].ip, Bn(p))}
                  ELSE call[p].logged
    /\ c.out = IF c.op = "read"
               THEN call[p].out \o [k \in 1..Piece(p) |->
                                       blk[bmap(call[p].ip, Bn(p))][(Off(p) % BSIZE) + k - 1]]
               ELSE call[p].out

\* What a copy of a piece does to the call.
LEMMA CopyIs ==
    ASSUME DInv, NEW p \in Proc, Copy(p)
    PROVE  /\ Looping(p) /\ bmap(call[p].ip, Bn(p)) # NULL
           /\ \E c : Copied(p, c)
           /\ UNCHANGED <<bitmap, dinode, inode, ref, lock, ftable, ofile, pstate, panicked>>
           /\ call[p].op # "write" => blk' = blk
  <1>0. CtlTypeOK /\ DskTypeOK
    BY DEF DInv, CtlInv
  <1>1. /\ Looping(p) /\ bmap(call[p].ip, Bn(p)) # NULL
        /\ UNCHANGED <<bitmap, dinode, inode, ref, lock, ftable, ofile, pstate, panicked>>
    BY DEF Copy
  <1>2. PICK b, m, o, a : /\ b = bmap(call[p].ip, Bn(p)) /\ m = Piece(p) /\ o = Off(p) % BSIZE
                          /\ a = call[p]
    OBVIOUS
  <1>3. /\ b \in Block /\ call[p].tot \in Nat /\ call[p].n \in Nat /\ Off(p) \in Nat
        /\ call[p].tot < call[p].n
    BY <1>1, <1>2, LoopBlock
  <1>4. /\ m \in Nat /\ m >= 1 /\ call[p].tot + m <= call[p].n /\ m <= BSIZE - o
    BY <1>2, <1>3, PieceIs
  <1>5. o \in Unit
    BY <1>2, <1>3, DivMod
  <1>6. PICK s : s = [k \in 1..m |-> blk[b][o + k - 1]]
    OBVIOUS
  <1>7. s \in Seq(Value)
    BY <1>0, <1>3, <1>4, <1>5, <1>6, PieceBytes
  <1>8. a \in Call /\ call \in [Proc -> Call]
    BY <1>0, <1>2 DEF CtlTypeOK
  <1>a. a.out \o s \in Seq(Value)
    <2>1. a.out \in Seq(Value)
      BY <1>8 DEF Call
    <2> QED BY <1>7, <2>1, ConcatProperties
  <1>b. a.tot + m \in Nat /\ a.logged \cup {b} \in SUBSET Block
    <2>1. a.tot \in Nat /\ a.logged \in SUBSET Block
      BY <1>8 DEF Call
    <2> QED BY <1>3, <1>4, <2>1
  <1>9. CASE call[p].op = "write"
    <2>1. call' = [call EXCEPT ![p].tot = @ + m, ![p].logged = @ \cup {b}]
      BY <1>2, <1>9 DEF Copy
    <2>2. PICK c : c = [a EXCEPT !.tot = @ + m, !.logged = @ \cup {b}]
      OBVIOUS
    <2>3. call' = [call EXCEPT ![p] = c]
      BY <1>2, <1>8, <2>1, <2>2
    <2>4. /\ c \in Call /\ c.at = a.at /\ c.op = a.op /\ c.f = a.f
          /\ c.ip = a.ip /\ c.n = a.n /\ c.j = a.j /\ c.left = a.left
          /\ c.before = a.before /\ c.tot = a.tot + m /\ c.logged = a.logged \cup {b}
          /\ c.out = a.out
      BY <1>3, <1>8, <1>a, <1>b, <2>2 DEF Call
    <2>5. Copied(p, c)
      BY <1>2, <1>4, <1>9, <2>3, <2>4 DEF Copied
    <2> QED BY <1>1, <1>9, <2>5
  <1>10. CASE call[p].op = "read"
    <2>1. call' = [call EXCEPT ![p].tot = @ + m, ![p].out = @ \o s] /\ blk' = blk
      BY <1>2, <1>6, <1>10 DEF Copy
    <2>2. PICK c : c = [a EXCEPT !.tot = @ + m, !.out = @ \o s]
      OBVIOUS
    <2>3. call' = [call EXCEPT ![p] = c]
      BY <1>2, <1>8, <2>1, <2>2
    <2>5. /\ c \in Call /\ c.at = a.at /\ c.op = a.op /\ c.f = a.f
          /\ c.ip = a.ip /\ c.n = a.n /\ c.j = a.j /\ c.left = a.left
          /\ c.before = a.before /\ c.tot = a.tot + m /\ c.logged = a.logged
          /\ c.out = a.out \o s
      BY <1>3, <1>8, <1>a, <1>b, <2>2 DEF Call
    <2>6. Copied(p, c)
      BY <1>2, <1>4, <1>6, <1>10, <2>3, <2>5 DEF Copied
    <2> QED BY <1>1, <2>1, <2>6
  <1>11. CASE call[p].op = "create"
    <2>1. call' = [call EXCEPT ![p].tot = @ + m] /\ blk' = blk
      BY <1>2, <1>11 DEF Copy
    <2>2. PICK c : c = [a EXCEPT !.tot = @ + m]
      OBVIOUS
    <2>3. call' = [call EXCEPT ![p] = c]
      BY <1>2, <1>8, <2>1, <2>2
    <2>4. /\ c \in Call /\ c.at = a.at /\ c.op = a.op /\ c.f = a.f
          /\ c.ip = a.ip /\ c.n = a.n /\ c.j = a.j /\ c.left = a.left
          /\ c.before = a.before /\ c.tot = a.tot + m /\ c.logged = a.logged
          /\ c.out = a.out
      BY <1>3, <1>8, <1>a, <1>b, <2>2 DEF Call
    <2>5. Copied(p, c)
      BY <1>2, <1>4, <1>11, <2>3, <2>4 DEF Copied
    <2> QED BY <1>1, <2>1, <2>5
  <1> QED BY <1>1, <1>9, <1>10, <1>11, LoopBlock

\* A copy of a piece leaves control alone.
LEMMA CopyCtl ==
    ASSUME DInv, NEW p \in Proc, Copy(p)
    PROVE  CtlInv' /\ SameRefs
  <1>1. /\ Looping(p) /\ UNCHANGED <<ref, lock, ftable, ofile, pstate, panicked>>
        /\ call[p].at = "loop"
    BY CopyIs DEF Looping, At
  <1>2. PICK c : Copied(p, c)
    BY CopyIs
  <1>3. /\ c \in Call /\ call' = [call EXCEPT ![p] = c] /\ c.at = "loop"
        /\ c.op = call[p].op /\ c.f = call[p].f /\ c.ip = call[p].ip /\ c.n = call[p].n
        /\ c.j = call[p].j /\ c.tot <= c.n
    BY <1>1, <1>2 DEF Copied
  <1>4. panicked' \in BOOLEAN
    BY <1>1 DEF DInv, CtlInv, CtlTypeOK
  <1> QED BY <1>1, <1>3, <1>4, LoopCtl

-----------------------------------------------------------------------------
(* Control: descriptors, open files and references come and go.            *)

\* A set gains or loses one element.
LEMMA CardGain ==
    ASSUME NEW S, NEW T, NEW x, IsFiniteSet(S), x \notin S, T = S \cup {x}
    PROVE  IsFiniteSet(T) /\ Cardinality(T) = Cardinality(S) + 1 /\ Cardinality(S) \in Nat
  BY FS_AddElement, FS_CardinalityType

\* A set without one of its elements.
LEMMA CardLose ==
    ASSUME NEW S, NEW T, NEW x, IsFiniteSet(S), x \in S, T = S \ {x}
    PROVE  /\ IsFiniteSet(T) /\ Cardinality(T) = Cardinality(S) - 1
           /\ Cardinality(S) \in Nat /\ Cardinality(S) >= 1
  <1>1. IsFiniteSet(T) /\ Cardinality(T) = Cardinality(S) - 1
    BY FS_RemoveElement
  <1>2. Cardinality(T) \in Nat /\ Cardinality(S) \in Nat
    BY <1>1, FS_CardinalityType
  <1> QED BY <1>1, <1>2

\* The descriptors of each open file when one descriptor changes.
SetFd(p, d, f) == ofile' = [ofile EXCEPT ![p][d] = f]

\* A descriptor more for an open file.
LEMMA FdGain ==
    ASSUME CtlTypeOK, NEW p \in Proc, NEW d \in Fd, NEW f \in File, ofile[p][d] = None,
           ofile' = [ofile EXCEPT ![p][d] = f]
    PROVE  /\ ofile' \in [Proc -> [Fd -> File \cup {None}]]
           /\ Cardinality(Uses(f)') = Cardinality(Uses(f)) + 1
           /\ \A g \in File : g # f => Uses(g)' = Uses(g)
           /\ \A q \in Proc, e \in Fd, g \in File : ofile[q][e] = g => ofile'[q][e] = g
           /\ \A q \in Proc : q # p => ofile'[q] = ofile[q]
  <1>0. None \notin File
    BY DEF File, None
  <1>1. ofile \in [Proc -> [Fd -> File \cup {None}]]
    BY DEF CtlTypeOK
  <1>2. \A q \in Proc, e \in Fd :
           ofile'[q][e] = IF q = p /\ e = d THEN f ELSE ofile[q][e]
    BY <1>1
  <1>3. ofile' \in [Proc -> [Fd -> File \cup {None}]]
    BY <1>1
  <1>4. Uses(f)' = Uses(f) \cup {<<p, d>>} /\ <<p, d>> \notin Uses(f)
    <2>1. <<p, d>> \notin Uses(f)
      BY <1>0 DEF Uses
    <2>2. ASSUME NEW w \in Proc \X Fd
          PROVE  ofile'[w[1]][w[2]] = f <=> ofile[w[1]][w[2]] = f \/ w = <<p, d>>
      <3>1. PICK q \in Proc, e \in Fd : w = <<q, e>>
        OBVIOUS
      <3> QED BY <1>2, <3>1
    <2>3. <<p, d>> \in Proc \X Fd
      OBVIOUS
    <2> QED BY <2>1, <2>2, <2>3 DEF Uses
  <1>5. Cardinality(Uses(f)') = Cardinality(Uses(f)) + 1
    BY <1>4, UsesFinite, CardGain
  <1>6. ASSUME NEW g \in File, g # f PROVE Uses(g)' = Uses(g)
    <2>2. ASSUME NEW w \in Proc \X Fd
          PROVE  ofile'[w[1]][w[2]] = g <=> ofile[w[1]][w[2]] = g
      <3>1. PICK q \in Proc, e \in Fd : w = <<q, e>>
        OBVIOUS
      <3> QED BY <1>0, <1>2, <1>6, <3>1
    <2> QED BY <2>2 DEF Uses
  <1>7. \A q \in Proc, e \in Fd, g \in File : ofile[q][e] = g => ofile'[q][e] = g
    BY <1>0, <1>2
  <1>8. \A q \in Proc : q # p => ofile'[q] = ofile[q]
    BY <1>1
  <1> QED BY <1>3, <1>5, <1>6, <1>7, <1>8

\* A descriptor less for an open file.
LEMMA FdLose ==
    ASSUME CtlTypeOK, NEW p \in Proc, NEW d \in Fd, NEW f \in File, ofile[p][d] = f,
           SetFd(p, d, None)
    PROVE  /\ ofile' \in [Proc -> [Fd -> File \cup {None}]]
           /\ Cardinality(Uses(f)') = Cardinality(Uses(f)) - 1
           /\ \A g \in File : g # f => Uses(g)' = Uses(g)
           /\ \A q \in Proc : q # p => ofile'[q] = ofile[q]
  <1>0. None \notin File
    BY DEF File, None
  <1>1. ofile \in [Proc -> [Fd -> File \cup {None}]]
    BY DEF CtlTypeOK
  <1>2. \A q \in Proc, e \in Fd :
           ofile'[q][e] = IF q = p /\ e = d THEN None ELSE ofile[q][e]
    BY <1>1 DEF SetFd
  <1>3. ofile' \in [Proc -> [Fd -> File \cup {None}]]
    BY <1>1 DEF SetFd
  <1>4. Uses(f)' = Uses(f) \ {<<p, d>>} /\ <<p, d>> \in Uses(f)
    <2>1. <<p, d>> \in Uses(f)
      BY <1>0 DEF Uses
    <2>2. ASSUME NEW w \in Proc \X Fd
          PROVE  ofile'[w[1]][w[2]] = f <=> ofile[w[1]][w[2]] = f /\ w # <<p, d>>
      <3>1. PICK q \in Proc, e \in Fd : w = <<q, e>>
        OBVIOUS
      <3> QED BY <1>0, <1>2, <3>1
    <2> QED BY <2>1, <2>2 DEF Uses
  <1>5. Cardinality(Uses(f)') = Cardinality(Uses(f)) - 1
    BY <1>4, UsesFinite, CardLose
  <1>6. ASSUME NEW g \in File, g # f PROVE Uses(g)' = Uses(g)
    <2>2. ASSUME NEW w \in Proc \X Fd
          PROVE  ofile'[w[1]][w[2]] = g <=> ofile[w[1]][w[2]] = g
      <3>1. PICK q \in Proc, e \in Fd : w = <<q, e>>
        OBVIOUS
      <3> QED BY <1>0, <1>2, <1>6, <3>1
    <2> QED BY <2>2 DEF Uses
  <1>8. \A q \in Proc : q # p => ofile'[q] = ofile[q]
    BY <1>1 DEF SetFd
  <1> QED BY <1>3, <1>5, <1>6, <1>8

\* The processes that are in iput() of each inode when the call of p changes.
LEMMA PutGain ==
    ASSUME NEW p \in Proc, Only(p), call[p].at \notin Iput, call'[p].at \in Iput,
           NEW i \in Inode, call'[p].ip = i
    PROVE  /\ Putting(i)' = Putting(i) \cup {p} /\ p \notin Putting(i)
           /\ Cardinality(Putting(i)') = Cardinality(Putting(i)) + 1
           /\ \A k \in Inode : k # i => Putting(k)' = Putting(k)
  <1>1. Putting(i)' = Putting(i) \cup {p} /\ p \notin Putting(i)
    BY DEF Putting, Only
  <1>2. ASSUME NEW k \in Inode, k # i PROVE Putting(k)' = Putting(k)
    <2>1. \A q \in Proc : call'[q].at \in Iput /\ call'[q].ip = k
                            <=> call[q].at \in Iput /\ call[q].ip = k
      BY <1>2 DEF Only
    <2> QED BY <2>1 DEF Putting
  <1>3. Cardinality(Putting(i)') = Cardinality(Putting(i)) + 1
    BY <1>1, SetsFinite, CardGain
  <1> QED BY <1>1, <1>2, <1>3

\* A process leaves iput().
LEMMA PutLose ==
    ASSUME NEW p \in Proc, Only(p), call[p].at \in Iput, call'[p].at \notin Iput,
           NEW i \in Inode, call[p].ip = i
    PROVE  /\ Putting(i)' = Putting(i) \ {p} /\ p \in Putting(i)
           /\ Cardinality(Putting(i)') = Cardinality(Putting(i)) - 1
           /\ \A k \in Inode : k # i => Putting(k)' = Putting(k)
  <1>1. Putting(i)' = Putting(i) \ {p} /\ p \in Putting(i)
    BY DEF Putting, Only
  <1>2. ASSUME NEW k \in Inode, k # i PROVE Putting(k)' = Putting(k)
    <2>1. \A q \in Proc : call'[q].at \in Iput /\ call'[q].ip = k
                            <=> call[q].at \in Iput /\ call[q].ip = k
      BY <1>2 DEF Only
    <2> QED BY <2>1 DEF Putting
  <1>3. Cardinality(Putting(i)') = Cardinality(Putting(i)) - 1
    BY <1>1, SetsFinite, CardLose
  <1> QED BY <1>1, <1>2, <1>3

\* A process stays inside or outside iput().
LEMMA PutStay ==
    ASSUME NEW p \in Proc, Only(p), call[p].at \in Iput <=> call'[p].at \in Iput,
           call[p].at \in Iput => call'[p].ip = call[p].ip
    PROVE  \A k \in Inode : Putting(k)' = Putting(k)
  <1>2. ASSUME NEW k \in Inode PROVE Putting(k)' = Putting(k)
    <2>1. \A q \in Proc : call'[q].at \in Iput /\ call'[q].ip = k
                            <=> call[q].at \in Iput /\ call[q].ip = k
      BY <1>2 DEF Only
    <2> QED BY <2>1 DEF Putting
  <1> QED BY <1>2

\* The open files of each inode when one entry of the table changes.
LEMMA OpenGain ==
    ASSUME NEW f \in File, NEW i \in Inode, ftable[f].ref = 0,
           ftable'[f].ref # 0, ftable'[f].ip = i, \A g \in File : g # f => ftable'[g] = ftable[g]
    PROVE  /\ Opened(i)' = Opened(i) \cup {f}
           /\ Cardinality(Opened(i)') = Cardinality(Opened(i)) + 1
           /\ \A k \in Inode : k # i => Opened(k)' = Opened(k)
  <1>1. Opened(i)' = Opened(i) \cup {f} /\ f \notin Opened(i)
    BY DEF Opened
  <1>2. \A k \in Inode : k # i => Opened(k)' = Opened(k)
    BY DEF Opened
  <1>3. Cardinality(Opened(i)') = Cardinality(Opened(i)) + 1
    BY <1>1, SetsFinite, CardGain
  <1> QED BY <1>1, <1>2, <1>3

\* An open file less for an inode.
LEMMA OpenLose ==
    ASSUME NEW f \in File, NEW i \in Inode, ftable[f].ref # 0, ftable[f].ip = i,
           ftable'[f].ref = 0, \A g \in File : g # f => ftable'[g] = ftable[g]
    PROVE  /\ Opened(i)' = Opened(i) \ {f}
           /\ Cardinality(Opened(i)') = Cardinality(Opened(i)) - 1
           /\ \A k \in Inode : k # i => Opened(k)' = Opened(k)
  <1>1. Opened(i)' = Opened(i) \ {f} /\ f \in Opened(i)
    BY DEF Opened
  <1>2. \A k \in Inode : k # i => Opened(k)' = Opened(k)
    BY DEF Opened
  <1>3. Cardinality(Opened(i)') = Cardinality(Opened(i)) - 1
    BY <1>1, SetsFinite, CardLose
  <1> QED BY <1>1, <1>2, <1>3

\* The open files of an inode stay.
LEMMA OpenStay ==
    ASSUME \A f \in File : /\ ftable'[f].ip = ftable[f].ip
                           /\ ftable'[f].ref = 0 <=> ftable[f].ref = 0
    PROVE  \A k \in Inode : Opened(k)' = Opened(k)
  BY DEF Opened

\* The calls of the others when descriptors come, or go at p.
LEMMA CallsKept ==
    ASSUME CallInv, CtlTypeOK, NEW p \in Proc, Only(p), CallSane(p)',
           \A f \in File : ftable'[f].ip = ftable[f].ip \/ ftable[f].ref = 0,
           \A q \in Proc, d \in Fd, g \in File :
              q # p /\ ofile[q][d] = g => ofile'[q][d] = g /\ ftable[g].ref # 0
    PROVE  CallInv'
  <1>1. ASSUME NEW q \in Proc, q # p PROVE CallSane(q)'
    <2>1. call'[q] = call[q]
      BY <1>1 DEF Only
    <2>2. CallSane(q)
      BY DEF CallInv
    <2>3. InFile(q) => /\ call[q].f \in File /\ ftable'[call[q].f].ip = call[q].ip
                       /\ \E d \in Fd : ofile'[q][d] = call[q].f
      <3>1. SUFFICES ASSUME InFile(q)
                     PROVE  /\ call[q].f \in File /\ ftable'[call[q].f].ip = call[q].ip
                            /\ \E d \in Fd : ofile'[q][d] = call[q].f
        OBVIOUS
      <3>2. PICK g \in File, d \in Fd : g = call[q].f /\ ofile[q][d] = g /\ ftable[g].ip = call[q].ip
        BY <2>2, <3>1 DEF CallSane
      <3>3. ofile'[q][d] = g /\ ftable[g].ref # 0
        BY <1>1, <3>2
      <3> QED BY <3>2, <3>3
    <2> QED BY <2>1, <2>2, <2>3 DEF CallSane, InFile
  <1> QED BY <1>1 DEF CallInv

\* Sets with a bijection.
LEMMA CardSame ==
    ASSUME NEW S, NEW T, NEW h, IsFiniteSet(S), h \in [S -> T],
           \A a, b \in S : h[a] = h[b] => a = b, \A t \in T : \E s \in S : h[s] = t
    PROVE  IsFiniteSet(T) /\ Cardinality(T) = Cardinality(S)
  <1>1. h \in Injection(S, T)
    BY DEF Injection, IsInjective
  <1>2. h \in Surjection(S, T)
    BY DEF Surjection
  <1>3. ExistsBijection(S, T)
    BY <1>1, <1>2 DEF ExistsBijection, Bijection
  <1> QED BY <1>3, FS_Bijection

\* fdalloc() finds a descriptor that is free.
LEMMA FreeFd ==
    ASSUME CtlTypeOK, NEW p \in Proc, FreeFds(p) # {}
    PROVE  Min(FreeFds(p)) \in Fd /\ ofile[p][Min(FreeFds(p))] = None
  <1>1. PICK S : S = FreeFds(p)
    OBVIOUS
  <1>2. S \subseteq Nat /\ S # {}
    BY <1>1 DEF FreeFds, Fd
  <1>3. Min(S) \in S
    BY <1>2, MinNat
  <1> QED BY <1>1, <1>3 DEF FreeFds

\* filealloc() finds an open file that is free.
LEMMA FreeFile ==
    ASSUME CtlTypeOK, FreeFiles # {}
    PROVE  Min(FreeFiles) \in File /\ ftable[Min(FreeFiles)].ref = 0
  <1>1. PICK S : S = FreeFiles
    OBVIOUS
  <1>2. S \subseteq Nat /\ S # {}
    BY <1>1 DEF FreeFiles, File
  <1>3. Min(S) \in S
    BY <1>2, MinNat
  <1> QED BY <1>1, <1>3 DEF FreeFiles

\* The references of open files, of inodes and the locks are what they were.
LEMMA FdRefs ==
    ASSUME CtlTypeOK, FileInv
    PROVE  \A q \in Proc, e \in Fd, g \in File : ofile[q][e] = g => ftable[g].ref # 0
  BY FdOpen

\* Locks when no process changes its hold.
LEMMA SameLocks ==
    ASSUME LockInv, UNCHANGED <<lock, call, panicked>>
    PROVE  LockInv'
  BY DEF LockInv, Locks

\* Nobody enters or leaves iput().
LEMMA SamePutting ==
    ASSUME call' = call PROVE \A i \in Inode : Putting(i)' = Putting(i)
  BY DEF Putting

\* The counts of references stay right when nothing they count changes.
LEMMA SameRefInv ==
    ASSUME RefInv, ref' = ref, \A i \in Inode : Opened(i)' = Opened(i),
           \A i \in Inode : Putting(i)' = Putting(i)
    PROVE  RefInv' /\ SameRefs
  <1>1. ASSUME NEW i \in Inode
        PROVE  ref'[i] = Cardinality(Opened(i)') + Cardinality(Putting(i)')
                          + (IF i = ROOTINO THEN 1 ELSE 0)
    <2>1. ref[i] = Cardinality(Opened(i)) + Cardinality(Putting(i))
                    + (IF i = ROOTINO THEN 1 ELSE 0)
      BY DEF RefInv
    <2> QED BY <2>1
  <1> QED BY <1>1 DEF RefInv, SameRefs

\* exit() leaves control sane.
LEMMA ExitCtl ==
    ASSUME CtlInv, NEW p \in Proc,
           UNCHANGED <<ref, lock, ftable, ofile, call, panicked>>,
           \/ User(p) /\ pstate' = [pstate EXCEPT ![p] = "exit"]
           \/ /\ At(p, "user") /\ \A d \in Fd : ~argfd(p, d)
              /\ pstate' = [pstate EXCEPT ![p] = "unused"]
    PROVE  CtlInv' /\ SameRefs
  <1>0. CtlTypeOK /\ FileInv /\ ProcInv /\ RefInv /\ CallInv /\ LockInv
    BY DEF CtlInv
  <1>1. CtlTypeOK'
    BY <1>0 DEF CtlTypeOK
  <1>2. FileInv' /\ CallInv'
    BY <1>0 DEF FileInv, Uses, CallInv, CallSane, InFile
  <1>3. ProcInv'
    BY <1>0 DEF ProcInv, CtlTypeOK, At, argfd
  <1>4. LockInv'
    BY <1>0, SameLocks
  <1>5. RefInv' /\ SameRefs
    BY <1>0, SamePutting, OpenStay, SameRefInv
  <1> QED BY <1>1, <1>2, <1>3, <1>4, <1>5 DEF CtlInv

\* dup() leaves control sane.
LEMMA DupCtl ==
    ASSUME CtlInv, NEW p \in Proc, NEW d \in Fd, Dup(p, d)
    PROVE  CtlInv' /\ SameRefs /\ \A f \in File : ftable'[f].off = ftable[f].off
  <1>0. CtlTypeOK /\ FileInv /\ ProcInv /\ RefInv /\ CallInv /\ LockInv
    BY DEF CtlInv
  <1>1. PICK f, e : f = ofile[p][d] /\ e = Min(FreeFds(p))
    OBVIOUS
  <1>2. User(p) /\ argfd(p, d) /\ FreeFds(p) # {}
    BY DEF Dup
  <1>3. f \in File /\ ftable[f].ref # 0
    BY <1>0, <1>1, <1>2, ArgFd
  <1>4. e \in Fd /\ ofile[p][e] = None
    BY <1>0, <1>1, <1>2, FreeFd
  <1>5. /\ ofile' = [ofile EXCEPT ![p][e] = f] /\ ftable' = [ftable EXCEPT ![f].ref = @ + 1]
        /\ UNCHANGED <<ref, lock, pstate, call, panicked>>
    BY <1>1 DEF Dup
  <1>6. /\ ofile' \in [Proc -> [Fd -> File \cup {None}]]
        /\ Cardinality(Uses(f)') = Cardinality(Uses(f)) + 1
        /\ \A g \in File : g # f => Uses(g)' = Uses(g)
        /\ \A q \in Proc, b \in Fd, g \in File : ofile[q][b] = g => ofile'[q][b] = g
        /\ \A q \in Proc : q # p => ofile'[q] = ofile[q]
    BY <1>0, <1>3, <1>4, <1>5, FdGain
  <1>7. /\ ftable' \in [File -> OFile]
        /\ ftable'[f].ref = ftable[f].ref + 1 /\ ftable'[f].ip = ftable[f].ip
        /\ ftable'[f].off = ftable[f].off
        /\ \A g \in File : g # f => ftable'[g] = ftable[g]
    <2>1. ftable \in [File -> OFile] /\ ftable[f] \in OFile
      BY <1>0, <1>3 DEF CtlTypeOK
    <2>2. PICK r : r = [ftable[f] EXCEPT !.ref = @ + 1]
      OBVIOUS
    <2>3. r \in OFile /\ r.ref = ftable[f].ref + 1 /\ r.ip = ftable[f].ip /\ r.off = ftable[f].off
      BY <2>1, <2>2 DEF OFile
    <2>4. ftable' = [ftable EXCEPT ![f] = r]
      BY <1>5, <2>1, <2>2
    <2> QED BY <1>3, <2>1, <2>3, <2>4
  <1>8. CtlTypeOK'
    BY <1>0, <1>5, <1>6, <1>7 DEF CtlTypeOK
  <1>9. ftable[f].ref \in Nat
    BY <1>0, <1>3 DEF CtlTypeOK, OFile
  <1>10. FileInv'
    <2>1. ASSUME NEW g \in File
          PROVE  /\ ftable'[g].ref = Cardinality(Uses(g)')
                 /\ ftable'[g].ref # 0 => ftable'[g].ip \in Inode
      <3>1. CASE g = f
        BY <1>0, <1>3, <1>6, <1>7, <3>1 DEF FileInv
      <3>2. CASE g # f
        BY <1>0, <1>6, <1>7, <3>2 DEF FileInv
      <3> QED BY <3>1, <3>2
    <2> QED BY <2>1 DEF FileInv
  <1>11. ProcInv'
    BY <1>0, <1>2, <1>5, <1>6 DEF ProcInv, User
  <1>12. Only(p)
    BY <1>5 DEF Only
  <1>13. \A g \in File : ftable'[g].ip = ftable[g].ip /\ (ftable'[g].ref = 0 <=> ftable[g].ref = 0)
    BY <1>3, <1>7, <1>9
  <1>14. CallSane(p)'
    <2>1. ~InFile(p) /\ CallSane(p)
      BY <1>0, <1>2 DEF InFile, User, CallInv
    <2> QED BY <1>5, <2>1 DEF CallSane, InFile
  <1>15. CallInv'
    <2>1. \A q \in Proc, b \in Fd, g \in File :
              q # p /\ ofile[q][b] = g => ofile'[q][b] = g /\ ftable[g].ref # 0
      BY <1>0, <1>6, FdRefs
    <2> QED BY <1>0, <1>12, <1>13, <1>14, <2>1, CallsKept
  <1>16. RefInv' /\ SameRefs
    <2>1. \A i \in Inode : Opened(i)' = Opened(i)
      BY <1>13, OpenStay
    <2>2. \A i \in Inode : Putting(i)' = Putting(i)
      BY <1>5, SamePutting
    <2> QED BY <1>0, <1>5, <2>1, <2>2, SameRefInv
  <1>17. LockInv'
    BY <1>0, <1>5, SameLocks
  <1>18. \A g \in File : ftable'[g].off = ftable[g].off
    BY <1>7
  <1> QED BY <1>8, <1>10, <1>11, <1>15, <1>16, <1>17, <1>18 DEF CtlInv

\* fork() adds the descriptors of the child.
LEMMA ForkUses ==
    ASSUME CtlTypeOK, NEW p \in Proc, NEW c \in Proc, p # c,
           \A d \in Fd : ofile[c][d] = None, ofile' = [ofile EXCEPT ![c] = ofile[p]],
           NEW f \in File
    PROVE  /\ Cardinality(Uses(f)') = Cardinality(Uses(f)) + Cardinality({d \in Fd : ofile[p][d] = f})
           /\ Cardinality({d \in Fd : ofile[p][d] = f}) \in Nat
           /\ Cardinality({d \in Fd : ofile[p][d] = f}) # 0 => Uses(f) # {}
  <1>0. None \notin File
    BY DEF File, None
  <1>1. PICK S, T : S = {d \in Fd : ofile[p][d] = f} /\ T = {<<c, d>> : d \in S}
    OBVIOUS
  <1>2. \A q \in Proc, e \in Fd : ofile'[q][e] = IF q = c THEN ofile[p][e] ELSE ofile[q][e]
    BY DEF CtlTypeOK
  <1>3. IsFiniteSet(S) /\ Cardinality(S) \in Nat
    <2>1. S \subseteq Fd
      BY <1>1
    <2> QED BY <2>1, Procs, FS_Subset, FS_CardinalityType
  <1>4. IsFiniteSet(T) /\ Cardinality(T) = Cardinality(S)
    <2>1. PICK h : h = [d \in S |-> <<c, d>>]
      OBVIOUS
    <2>2. h \in [S -> T]
      BY <1>1, <2>1
    <2>3. \A a, b \in S : h[a] = h[b] => a = b
      BY <2>1
    <2>4. \A t \in T : \E s \in S : h[s] = t
      BY <1>1, <2>1
    <2> QED BY <1>3, <2>2, <2>3, <2>4, CardSame
  <1>5. Uses(f)' = Uses(f) \cup T /\ Uses(f) \cap T = {}
    <2>1. ASSUME NEW w \in Proc \X Fd
          PROVE  ofile'[w[1]][w[2]] = f <=> ofile[w[1]][w[2]] = f \/ w \in T
      <3>1. PICK q \in Proc, e \in Fd : w = <<q, e>>
        OBVIOUS
      <3>2. w \in T <=> q = c /\ ofile[p][e] = f
        BY <1>1, <3>1
      <3> QED BY <1>0, <1>2, <3>1, <3>2
    <2>2. T \subseteq Proc \X Fd
      BY <1>1
    <2>3. Uses(f) \cap T = {}
      BY <1>0, <1>1 DEF Uses
    <2> QED BY <2>1, <2>2, <2>3 DEF Uses
  <1>6. Cardinality(Uses(f)') = Cardinality(Uses(f)) + Cardinality(T)
    <2>1. Cardinality(Uses(f) \cup T)
            = Cardinality(Uses(f)) + Cardinality(T) - Cardinality(Uses(f) \cap T)
      BY <1>4, UsesFinite, FS_Union
    <2>2. Cardinality(Uses(f) \cap T) = 0
      BY <1>5, FS_EmptySet
    <2>3. Cardinality(Uses(f)) \in Nat /\ Cardinality(T) \in Nat
      BY <1>4, UsesFinite, FS_CardinalityType
    <2> QED BY <1>5, <2>1, <2>2, <2>3
  <1>7. Cardinality(S) # 0 => Uses(f) # {}
    <2>1. SUFFICES ASSUME Cardinality(S) # 0 PROVE Uses(f) # {}
      OBVIOUS
    <2>2. PICK d : d \in S
      BY <2>1, FS_EmptySet
    <2>3. <<p, d>> \in Uses(f)
      BY <1>1, <2>2 DEF Uses
    <2> QED BY <2>3
  <1> QED BY <1>1, <1>3, <1>4, <1>6, <1>7

\* fork() leaves control sane: the child counts for every file of its parent.
LEMMA ForkCtl ==
    ASSUME CtlInv, NEW p \in Proc, NEW c \in Proc, Fork(p, c)
    PROVE  CtlInv' /\ SameRefs /\ \A f \in File : ftable'[f].off = ftable[f].off
  <1>0. CtlTypeOK /\ FileInv /\ ProcInv /\ RefInv /\ CallInv /\ LockInv
    BY DEF CtlInv
  <1>1. /\ User(p) /\ pstate[c] = "unused" /\ pstate' = [pstate EXCEPT ![c] = "run"]
        /\ ofile' = [ofile EXCEPT ![c] = ofile[p]]
        /\ UNCHANGED <<ref, lock, call, panicked>>
    BY DEF Fork
  <1>2. p # c /\ call[c].at = "user" /\ \A d \in Fd : ofile[c][d] = None
    BY <1>0, <1>1 DEF ProcInv, User
  <1>3. PICK N : N = [f \in File |-> Cardinality({d \in Fd : ofile[p][d] = f})]
    OBVIOUS
  <1>4. ASSUME NEW f \in File
        PROVE  /\ Cardinality(Uses(f)') = Cardinality(Uses(f)) + N[f]
               /\ N[f] \in Nat /\ (N[f] # 0 => Uses(f) # {})
    BY <1>0, <1>1, <1>2, <1>3, ForkUses
  <1>5. ftable' = [f \in File |-> [ftable[f] EXCEPT !.ref = @ + N[f]]]
    BY <1>3 DEF Fork
  <1>6. ASSUME NEW f \in File
        PROVE  /\ ftable'[f] \in OFile /\ ftable'[f].ref = ftable[f].ref + N[f]
               /\ ftable'[f].ip = ftable[f].ip /\ ftable'[f].off = ftable[f].off
               /\ ftable[f].ref \in Nat
    <2>1. ftable[f] \in OFile /\ N[f] \in Nat
      BY <1>0, <1>4 DEF CtlTypeOK
    <2>2. ftable'[f] = [ftable[f] EXCEPT !.ref = @ + N[f]]
      BY <1>5
    <2> QED BY <2>1, <2>2 DEF OFile
  <1>7. CtlTypeOK'
    <2>1. ftable' \in [File -> OFile]
      BY <1>5, <1>6
    <2> QED BY <1>0, <1>1, <2>1 DEF CtlTypeOK
  <1>8. ASSUME NEW f \in File, N[f] # 0 PROVE ftable[f].ref # 0
    <2>1. IsFiniteSet(Uses(f)) /\ Uses(f) # {}
      BY <1>4, <1>8, UsesFinite
    <2> QED BY <1>0, <2>1, FS_EmptySet DEF FileInv
  <1>9. FileInv'
    <2>1. ASSUME NEW f \in File
          PROVE  /\ ftable'[f].ref = Cardinality(Uses(f)')
                 /\ ftable'[f].ref # 0 => ftable'[f].ip \in Inode
      <3>1. ftable'[f].ref = Cardinality(Uses(f)')
        BY <1>0, <1>4, <1>6 DEF FileInv
      <3>2. ASSUME ftable'[f].ref # 0 PROVE ftable[f].ref # 0
        BY <1>4, <1>6, <1>8, <3>2
      <3> QED BY <1>0, <1>6, <3>1, <3>2 DEF FileInv
    <2> QED BY <2>1 DEF FileInv
  <1>10. ProcInv'
    BY <1>0, <1>1, <1>2 DEF ProcInv, CtlTypeOK
  <1>11. \A g \in File : ftable'[g].ip = ftable[g].ip /\ (ftable'[g].ref = 0 <=> ftable[g].ref = 0)
    <2>1. ASSUME NEW g \in File
          PROVE ftable'[g].ip = ftable[g].ip /\ (ftable'[g].ref = 0 <=> ftable[g].ref = 0)
      BY <1>4, <1>6, <1>8
    <2> QED BY <2>1
  <1>12. CallInv'
    <2>1. CallSane(c)'
      <3>1. ~InFile(c) /\ CallSane(c)
        BY <1>0, <1>2 DEF InFile, CallInv
      <3> QED BY <1>1, <3>1 DEF CallSane, InFile
    <2>2. \A q \in Proc, b \in Fd, g \in File :
              q # c /\ ofile[q][b] = g => ofile'[q][b] = g /\ ftable[g].ref # 0
      BY <1>0, <1>1, FdRefs DEF CtlTypeOK
    <2>3. Only(c)
      BY <1>1 DEF Only
    <2> QED BY <1>0, <1>11, <2>1, <2>2, <2>3, CallsKept
  <1>13. RefInv' /\ SameRefs
    <2>1. \A i \in Inode : Opened(i)' = Opened(i)
      BY <1>11, OpenStay
    <2>2. \A i \in Inode : Putting(i)' = Putting(i)
      BY <1>1, SamePutting
    <2> QED BY <1>0, <1>1, <2>1, <2>2, SameRefInv
  <1>14. LockInv'
    BY <1>0, <1>1, SameLocks
  <1> QED BY <1>6, <1>7, <1>9, <1>10, <1>12, <1>13, <1>14 DEF CtlInv

\* The call of a process at the start of iput().
LEMMA PutCallIs ==
    ASSUME NEW i \in Inode, NEW l \in SUBSET Block
    PROVE  /\ PutCall(i, l) \in Call /\ PutCall(i, l).at = "put" /\ PutCall(i, l).op = "none"
           /\ PutCall(i, l).ip = i /\ PutCall(i, l).j = 0 /\ PutCall(i, l).logged = l
  BY IdleIs DEF PutCall, Call, CallAt, Idle

\* The call of a process after an operation.
LEMMA EndCallIs ==
    ASSUME NEW l \in SUBSET Block
    PROVE  /\ EndCall(l) \in Call /\ EndCall(l).at = "user" /\ EndCall(l).op = "none"
           /\ EndCall(l).j = 0 /\ EndCall(l).logged = l
  BY IdleIs DEF EndCall, Call, CallAt, Idle

\* fileclose()
Closed(p, f, i) ==
    /\ Opened(i)' = Opened(i) \ {f} /\ f \in Opened(i) /\ Putting(i)' = Putting(i) \cup {p}
    /\ \A k \in Inode : k # i => Opened(k)' = Opened(k) /\ Putting(k)' = Putting(k)
    /\ call' = [call EXCEPT ![p] = PutCall(i, {})]

\* fileclose() leaves control sane: the last close hands the reference to
\* iput().
LEMMA CloseCtl ==
    ASSUME CtlInv, NEW p \in Proc, NEW d \in Fd, argfd(p, d), fileclose(p, d),
           At(p, "user"), pstate[p] # "unused", pstate' = pstate
    PROVE  /\ CtlInv' /\ \A f \in File : ftable'[f].off = ftable[f].off
           /\ \/ SameRefs /\ call' = call
              \/ \E f \in File, i \in Inode : Closed(p, f, i)
  <1>0. CtlTypeOK /\ FileInv /\ ProcInv /\ RefInv /\ CallInv /\ LockInv
    BY DEF CtlInv
  <1>1. PICK f, i : f = ofile[p][d] /\ i = ftable[f].ip
    OBVIOUS
  <1>2. f \in File /\ ftable[f].ref # 0 /\ i \in Inode /\ call[p].at = "user"
    BY <1>0, <1>1, ArgFd DEF At
  <1>3. /\ ofile' = [ofile EXCEPT ![p][d] = None]
        /\ ftable' = [ftable EXCEPT ![f].ref = @ - 1]
        /\ call' = IF ftable[f].ref > 1 THEN call ELSE [call EXCEPT ![p] = PutCall(i, {})]
        /\ UNCHANGED <<ref, lock, panicked>>
    BY <1>1 DEF fileclose
  <1>4. /\ ofile' \in [Proc -> [Fd -> File \cup {None}]]
        /\ Cardinality(Uses(f)') = Cardinality(Uses(f)) - 1
        /\ \A g \in File : g # f => Uses(g)' = Uses(g)
        /\ \A q \in Proc : q # p => ofile'[q] = ofile[q]
    <2>1. ofile[p][d] = f /\ SetFd(p, d, None) /\ f \in File
      BY <1>1, <1>2, <1>3 DEF SetFd
    <2> QED BY <1>0, <2>1, FdLose
  <1>5. ftable[f].ref \in Nat /\ ftable[f].ref - 1 \in Nat
    BY <1>0, <1>2 DEF CtlTypeOK, OFile
  <1>6. /\ ftable' \in [File -> OFile]
        /\ ftable'[f].ref = ftable[f].ref - 1 /\ ftable'[f].ip = ftable[f].ip
        /\ ftable'[f].off = ftable[f].off
        /\ \A g \in File : g # f => ftable'[g] = ftable[g]
    <2>1. ftable \in [File -> OFile] /\ ftable[f] \in OFile
      BY <1>0, <1>2 DEF CtlTypeOK
    <2>2. PICK r : r = [ftable[f] EXCEPT !.ref = @ - 1]
      OBVIOUS
    <2>3. r \in OFile /\ r.ref = ftable[f].ref - 1 /\ r.ip = ftable[f].ip /\ r.off = ftable[f].off
      BY <1>5, <2>1, <2>2 DEF OFile
    <2>4. ftable' = [ftable EXCEPT ![f] = r]
      BY <1>3, <2>1, <2>2
    <2> QED BY <1>2, <2>1, <2>3, <2>4
  <1>7. call' \in [Proc -> Call] /\ Only(p)
    <2>1. PutCall(i, {}) \in Call
      BY <1>2, PutCallIs
    <2> QED BY <1>0, <1>3, <2>1 DEF CtlTypeOK, Only
  <1>8. CtlTypeOK'
    BY <1>0, <1>3, <1>4, <1>6, <1>7 DEF CtlTypeOK
  <1>9. FileInv'
    <2>1. ASSUME NEW g \in File
          PROVE  /\ ftable'[g].ref = Cardinality(Uses(g)')
                 /\ ftable'[g].ref # 0 => ftable'[g].ip \in Inode
      <3>1. CASE g = f
        BY <1>0, <1>1, <1>2, <1>4, <1>6, <3>1 DEF FileInv
      <3>2. CASE g # f
        BY <1>0, <1>4, <1>6, <3>2 DEF FileInv
      <3> QED BY <3>1, <3>2
    <2> QED BY <2>1 DEF FileInv
  <1>10. ProcInv'
    BY <1>0, <1>4, <1>7 DEF ProcInv, Only
  <1>11. call'[p] = call[p] \/ call'[p] = PutCall(i, {})
    BY <1>0, <1>3 DEF CtlTypeOK
  <1>12. CallSane(p)'
    <2>1. CallSane(p)
      BY <1>0 DEF CallInv
    <2>2. /\ call'[p].at \in {"user", "put"} /\ call'[p].j = 0
          /\ call'[p].op = "write" => call'[p].ip # ROOTINO
          /\ call'[p].op = "create" => call'[p].ip = ROOTINO
      BY <1>2, <1>11, <2>1, PutCallIs DEF CallSane
    <2> QED BY <2>2 DEF CallSane, InFile
  <1>13. CallInv'
    <2>1. \A q \in Proc, b \in Fd, g \in File :
              q # p /\ ofile[q][b] = g => ofile'[q][b] = g /\ ftable[g].ref # 0
      BY <1>0, <1>4, FdRefs
    <2>2. \A g \in File : ftable'[g].ip = ftable[g].ip \/ ftable[g].ref = 0
      BY <1>6
    <2> QED BY <1>0, <1>7, <1>12, <2>1, <2>2, CallsKept
  <1>14. LockInv'
    <2>1. ~Locks(p) /\ ~Locks(p)'
      BY <1>2, <1>11, PutCallIs DEF Locks
    <2>2. panicked => panicked'
      BY <1>3
    <2>3. lock' = lock
      BY <1>3
    <2> QED BY <1>0, <1>7, <2>1, <2>2, <2>3, LockKeep
  <1>15. \A g \in File : ftable'[g].off = ftable[g].off
    BY <1>6
  <1>16. CASE ftable[f].ref > 1
    <2>1. call' = call
      BY <1>3, <1>16
    <2>2. \A g \in File : ftable'[g].ip = ftable[g].ip /\ (ftable'[g].ref = 0 <=> ftable[g].ref = 0)
      BY <1>2, <1>5, <1>6, <1>16
    <2>3. \A k \in Inode : Opened(k)' = Opened(k)
      BY <2>2, OpenStay
    <2>4. RefInv' /\ SameRefs
      BY <1>0, <1>3, <2>1, <2>3, SamePutting, SameRefInv
    <2> QED BY <1>8, <1>9, <1>10, <1>13, <1>14, <1>15, <2>1, <2>4 DEF CtlInv
  <1>17. CASE ~(ftable[f].ref > 1)
    <2>1. ftable'[f].ref = 0
      BY <1>2, <1>5, <1>6, <1>17
    <2>2. call' = [call EXCEPT ![p] = PutCall(i, {})]
      BY <1>3, <1>17
    <2>3. call'[p] = PutCall(i, {}) /\ call'[p].at \in Iput /\ call'[p].ip = i /\ call[p].at \notin Iput
      BY <1>0, <1>2, <2>2, PutCallIs DEF CtlTypeOK, Iput
    <2>4. /\ Opened(i)' = Opened(i) \ {f}
          /\ Cardinality(Opened(i)') = Cardinality(Opened(i)) - 1
          /\ \A k \in Inode : k # i => Opened(k)' = Opened(k)
      BY <1>1, <1>2, <1>6, <2>1, OpenLose
    <2>5. /\ Putting(i)' = Putting(i) \cup {p}
          /\ Cardinality(Putting(i)') = Cardinality(Putting(i)) + 1
          /\ \A k \in Inode : k # i => Putting(k)' = Putting(k)
      BY <1>2, <1>7, <2>3, PutGain
    <2>6. RefInv'
      <3>1. ASSUME NEW k \in Inode
            PROVE  ref'[k] = Cardinality(Opened(k)') + Cardinality(Putting(k)')
                              + (IF k = ROOTINO THEN 1 ELSE 0)
        <4>1. ref[k] = Cardinality(Opened(k)) + Cardinality(Putting(k))
                        + (IF k = ROOTINO THEN 1 ELSE 0)
          BY <1>0 DEF RefInv
        <4>2. Cardinality(Opened(k)) \in Nat /\ Cardinality(Putting(k)) \in Nat /\ ref' = ref
          BY <1>3, SetsFinite
        <4>3. CASE k = i
          <5>1. /\ Cardinality(Opened(k)') = Cardinality(Opened(k)) - 1
                /\ Cardinality(Putting(k)') = Cardinality(Putting(k)) + 1
            BY <2>4, <2>5, <4>3
          <5> QED BY <4>1, <4>2, <5>1
        <4>4. CASE k # i
          BY <2>4, <2>5, <4>1, <4>2, <4>4
        <4> QED BY <4>3, <4>4
      <3> QED BY <3>1 DEF RefInv
    <2>7. f \in Opened(i)
      BY <1>1, <1>2 DEF Opened
    <2>8. Closed(p, f, i)
      BY <2>2, <2>4, <2>5, <2>7 DEF Closed
    <2> QED BY <1>2, <1>8, <1>9, <1>10, <1>13, <1>14, <1>15, <2>6, <2>8 DEF CtlInv
  <1> QED BY <1>16, <1>17

\* The call of p has come to an end, or it ends in iput() of i; the others have
\* not noticed.
Ended(p, i) ==
    /\ Only(p)
    /\ \E l \in SUBSET Block : Few(l) /\ call'[p] \in {EndCall(l), PutCall(i, l)}
    /\ \A k \in Inode : k # i => Opened(k)' = Opened(k) /\ Putting(k)' = Putting(k)
    /\ \A f \in File : ftable[f].ref # 0 => ftable'[f] = ftable[f]

\* A reference more to i, or one less.
LEMMA RefStep ==
    ASSUME RefInv, NEW i \in Inode, ref \in [Inode -> Nat], NEW o \in Int, NEW u \in Int,
           Cardinality(Opened(i)') = Cardinality(Opened(i)) + o,
           Cardinality(Putting(i)') = Cardinality(Putting(i)) + u,
           ref'[i] = ref[i] + o + u,
           \A k \in Inode : k # i => ref'[k] = ref[k],
           \A k \in Inode : k # i => Opened(k)' = Opened(k),
           \A k \in Inode : k # i => Putting(k)' = Putting(k)
    PROVE  RefInv'
  <1>1. ASSUME NEW k \in Inode
        PROVE  ref'[k] = Cardinality(Opened(k)') + Cardinality(Putting(k)')
                          + (IF k = ROOTINO THEN 1 ELSE 0)
    <2>1. ref[k] = Cardinality(Opened(k)) + Cardinality(Putting(k))
                    + (IF k = ROOTINO THEN 1 ELSE 0)
      BY DEF RefInv
    <2>2. Cardinality(Opened(k)) \in Nat /\ Cardinality(Putting(k)) \in Nat
      BY SetsFinite
    <2>3. CASE k = i
      <3>1. /\ Cardinality(Opened(k)') = Cardinality(Opened(k)) + o
            /\ Cardinality(Putting(k)') = Cardinality(Putting(k)) + u
            /\ ref'[k] = ref[k] + o + u
        BY <2>3
      <3> QED BY <2>1, <2>2, <3>1
    <2>4. CASE k # i
      BY <2>1, <2>4
    <2> QED BY <2>3, <2>4
  <1> QED BY <1>1 DEF RefInv

\* filealloc() and fdalloc(), or iput() of the inode, leave control sane.
LEMMA OpenFileCtl ==
    ASSUME CtlInv, NEW p \in Proc, NEW i \in Inode, NEW l \in SUBSET Block, Few(l),
           OpenFile(p, i, l), call[p].at \notin Iput,
           pstate[p] # "unused", pstate' = pstate, panicked' = panicked,
           lock' \in [Inode -> Proc \cup {NoProc}]
    PROVE  /\ CtlTypeOK' /\ FileInv' /\ ProcInv' /\ RefInv' /\ CallInv' /\ ~Locks(p)'
           /\ Ended(p, i) /\ ref' = [ref EXCEPT ![i] = @ + 1]
  <1>0. CtlTypeOK /\ FileInv /\ ProcInv /\ RefInv /\ CallInv /\ LockInv
    BY DEF CtlInv
  <1>1. /\ ref' = [ref EXCEPT ![i] = @ + 1] /\ ref' \in [Inode -> Nat]
        /\ ref'[i] = ref[i] + 1 /\ \A k \in Inode : k # i => ref'[k] = ref[k]
        /\ ref \in [Inode -> Nat]
    BY <1>0 DEF OpenFile, CtlTypeOK
  <1>2. PutCall(i, l) \in Call /\ PutCall(i, l).at = "put" /\ PutCall(i, l).ip = i
        /\ PutCall(i, l).op = "none" /\ PutCall(i, l).j = 0
    BY PutCallIs
  <1>3. CASE FreeFiles = {} \/ FreeFds(p) = {}
    <2>1. call' = [call EXCEPT ![p] = PutCall(i, l)] /\ UNCHANGED <<ftable, ofile>>
      BY <1>3 DEF OpenFile
    <2>2. call' \in [Proc -> Call] /\ call'[p] = PutCall(i, l) /\ Only(p)
      BY <1>0, <1>2, <2>1, CallStep DEF CtlTypeOK
    <2>3. CtlTypeOK'
      BY <1>0, <1>1, <2>1, <2>2 DEF CtlTypeOK
    <2>4. FileInv' /\ ProcInv'
      <3>1. FileInv'
        BY <1>0, <2>1 DEF FileInv, Uses
      <3>2. ProcInv'
        BY <1>0, <2>1, <2>2 DEF ProcInv, Only
      <3> QED BY <3>1, <3>2
    <2>5. CallInv'
      <3>1. CallSane(p)'
        BY <1>2, <2>2 DEF CallSane, InFile
      <3>2. SameFiles
        BY <2>1 DEF SameFiles
      <3> QED BY <1>0, <2>1, <2>2, <3>1, <3>2, QuietCalls
    <2>6. \A k \in Inode : Opened(k)' = Opened(k)
      BY <2>1, OpenStay
    <2>7. /\ Cardinality(Putting(i)') = Cardinality(Putting(i)) + 1
          /\ \A k \in Inode : k # i => Putting(k)' = Putting(k)
      BY <1>2, <2>2, PutGain DEF Iput
    <2>8. RefInv'
      <3>1. Cardinality(Opened(i)') = Cardinality(Opened(i)) + 0 /\ ref'[i] = ref[i] + 0 + 1
        <4>1. Cardinality(Opened(i)) \in Nat /\ ref[i] \in Nat
          BY <1>1, SetsFinite
        <4> QED BY <1>1, <2>6, <4>1
      <3> QED BY <1>0, <1>1, <2>6, <2>7, <3>1, RefStep
    <2>9. Ended(p, i) /\ ~Locks(p)'
      BY <1>2, <2>1, <2>2, <2>6, <2>7 DEF Ended, Locks
    <2> QED BY <1>1, <2>3, <2>4, <2>5, <2>8, <2>9
  <1>4. CASE ~(FreeFiles = {} \/ FreeFds(p) = {})
    <2>1. PICK f, d : f = Min(FreeFiles) /\ d = Min(FreeFds(p))
      OBVIOUS
    <2>2. f \in File /\ ftable[f].ref = 0 /\ d \in Fd /\ ofile[p][d] = None
      BY <1>0, <1>4, <2>1, FreeFile, FreeFd
    <2>3. /\ ftable' = [ftable EXCEPT ![f] = [ref |-> 1, ip |-> i, off |-> 0]]
          /\ ofile' = [ofile EXCEPT ![p][d] = f] /\ call' = [call EXCEPT ![p] = EndCall(l)]
      BY <1>4, <2>1 DEF OpenFile
    <2>4. call' \in [Proc -> Call] /\ call'[p] = EndCall(l) /\ Only(p)
      BY <1>0, <2>3, EndCallIs, CallStep DEF CtlTypeOK
    <2>5. /\ ftable' \in [File -> OFile] /\ ftable'[f].ref = 1 /\ ftable'[f].ip = i
          /\ \A g \in File : g # f => ftable'[g] = ftable[g]
      BY <1>0, <2>2, <2>3 DEF CtlTypeOK, OFile
    <2>6. /\ ofile' \in [Proc -> [Fd -> File \cup {None}]]
          /\ Cardinality(Uses(f)') = Cardinality(Uses(f)) + 1
          /\ \A g \in File : g # f => Uses(g)' = Uses(g)
          /\ \A q \in Proc, e \in Fd, g \in File : ofile[q][e] = g => ofile'[q][e] = g
          /\ \A q \in Proc : q # p => ofile'[q] = ofile[q]
      BY <1>0, <2>2, <2>3, FdGain
    <2>7. CtlTypeOK'
      BY <1>0, <1>1, <2>4, <2>5, <2>6 DEF CtlTypeOK
    <2>8. FileInv'
      <3>1. ASSUME NEW g \in File
            PROVE  /\ ftable'[g].ref = Cardinality(Uses(g)')
                   /\ ftable'[g].ref # 0 => ftable'[g].ip \in Inode
        <4>1. CASE g = f
          <5>1. Cardinality(Uses(f)) = 0
            BY <1>0, <2>2 DEF FileInv
          <5> QED BY <2>5, <2>6, <4>1, <5>1
        <4>2. CASE g # f
          BY <1>0, <2>5, <2>6, <4>2 DEF FileInv
        <4> QED BY <4>1, <4>2
      <3> QED BY <3>1 DEF FileInv
    <2>9. ProcInv'
      BY <1>0, <2>4, <2>6 DEF ProcInv, Only
    <2>10. CallInv'
      <3>1. CallSane(p)'
        BY <2>4, EndCallIs DEF CallSane, InFile
      <3>2. \A q \in Proc, b \in Fd, g \in File :
              q # p /\ ofile[q][b] = g => ofile'[q][b] = g /\ ftable[g].ref # 0
        BY <1>0, <2>6, FdRefs
      <3>3. \A g \in File : ftable'[g].ip = ftable[g].ip \/ ftable[g].ref = 0
        BY <2>2, <2>5
      <3> QED BY <1>0, <2>4, <3>1, <3>2, <3>3, CallsKept
    <2>11. /\ Cardinality(Opened(i)') = Cardinality(Opened(i)) + 1
           /\ \A k \in Inode : k # i => Opened(k)' = Opened(k)
      BY <2>2, <2>5, OpenGain
    <2>12. \A k \in Inode : Putting(k)' = Putting(k)
      BY <2>4, EndCallIs, PutStay DEF Iput
    <2>13. RefInv'
      <3>1. Cardinality(Putting(i)') = Cardinality(Putting(i)) + 0 /\ ref'[i] = ref[i] + 1 + 0
        <4>1. Cardinality(Putting(i)) \in Nat /\ ref[i] \in Nat
          BY <1>1, SetsFinite
        <4> QED BY <1>1, <2>12, <4>1
      <3> QED BY <1>0, <1>1, <2>11, <2>12, <3>1, RefStep
    <2>14. Ended(p, i) /\ ~Locks(p)'
      BY <2>2, <2>4, <2>5, <2>11, <2>12, EndCallIs DEF Ended, Locks
    <2> QED BY <1>1, <2>7, <2>8, <2>9, <2>10, <2>13, <2>14
  <1> QED BY <1>3, <1>4

\* open() leaves control sane.
LEMMA OpenCtl ==
    ASSUME CtlInv, NEW p \in Proc, NEW i \in Inode, Open(p, i)
    PROVE  CtlInv' /\ Ended(p, i) /\ ref' = [ref EXCEPT ![i] = @ + 1]
  <1>0. CtlTypeOK /\ ProcInv /\ LockInv
    BY DEF CtlInv
  <1>1. User(p) /\ OpenFile(p, i, {}) /\ UNCHANGED <<lock, pstate, panicked>>
    BY DEF Open
  <1>2. call[p].at = "user" /\ pstate[p] # "unused" /\ call[p].at \notin Iput /\ ~Locks(p)
    BY <1>1 DEF User, Iput, Locks
  <1>3. lock' \in [Inode -> Proc \cup {NoProc}]
    BY <1>0, <1>1 DEF CtlTypeOK
  <1>4. /\ CtlTypeOK' /\ FileInv' /\ ProcInv' /\ RefInv' /\ CallInv' /\ ~Locks(p)'
        /\ Ended(p, i) /\ ref' = [ref EXCEPT ![i] = @ + 1]
    BY <1>1, <1>2, <1>3, FewNone, OpenFileCtl
  <1>5. LockInv'
    <2>1. Only(p) /\ (panicked => panicked') /\ lock' = lock
      BY <1>1, <1>4 DEF Ended
    <2> QED BY <1>0, <1>2, <1>4, <2>1, LockKeep
  <1> QED BY <1>4, <1>5 DEF CtlInv

\* unlink() leaves control sane.
LEMMA UnlinkCtl ==
    ASSUME CtlInv, NEW p \in Proc, NEW i \in Inode, Unlink(p, i),
           NEW l \in SUBSET Block, Few(l), call' = [call EXCEPT ![p] = PutCall(i, l)]
    PROVE  CtlInv' /\ Ended(p, i) /\ ref' = [ref EXCEPT ![i] = @ + 1] /\ Putting(i)' # {}
  <1>0. CtlTypeOK /\ FileInv /\ ProcInv /\ RefInv /\ CallInv /\ LockInv
    BY DEF CtlInv
  <1>1. /\ User(p) /\ call' = [call EXCEPT ![p] = PutCall(i, l)]
        /\ ref' = [ref EXCEPT ![i] = @ + 1]
        /\ UNCHANGED <<lock, ftable, ofile, pstate, panicked>>
    BY DEF Unlink
  <1>2. call[p].at = "user" /\ pstate[p] # "unused" /\ call[p].at \notin Iput /\ ~Locks(p)
    BY <1>1 DEF User, Iput, Locks
  <1>3. PutCall(i, l) \in Call /\ PutCall(i, l).at = "put" /\ PutCall(i, l).ip = i
        /\ PutCall(i, l).op = "none" /\ PutCall(i, l).j = 0
    BY PutCallIs
  <1>4. call' \in [Proc -> Call] /\ call'[p] = PutCall(i, l) /\ Only(p)
    BY <1>0, <1>1, <1>3, CallStep DEF CtlTypeOK
  <1>5. /\ ref' \in [Inode -> Nat] /\ ref \in [Inode -> Nat]
        /\ ref'[i] = ref[i] + 1 /\ \A k \in Inode : k # i => ref'[k] = ref[k]
    BY <1>0, <1>1 DEF CtlTypeOK
  <1>6. CtlTypeOK'
    BY <1>0, <1>1, <1>4, <1>5 DEF CtlTypeOK
  <1>7. FileInv' /\ ProcInv'
    <2>1. FileInv'
      BY <1>0, <1>1 DEF FileInv, Uses
    <2>2. ProcInv'
      BY <1>0, <1>1, <1>2, <1>4 DEF ProcInv, Only
    <2> QED BY <2>1, <2>2
  <1>8. CallInv'
    <2>1. CallSane(p)'
      BY <1>3, <1>4 DEF CallSane, InFile
    <2>2. SameFiles
      BY <1>1 DEF SameFiles
    <2> QED BY <1>0, <1>1, <1>4, <2>1, <2>2, QuietCalls
  <1>9. \A k \in Inode : Opened(k)' = Opened(k)
    BY <1>1, OpenStay
  <1>10. /\ Cardinality(Putting(i)') = Cardinality(Putting(i)) + 1
         /\ \A k \in Inode : k # i => Putting(k)' = Putting(k)
         /\ Putting(i)' = Putting(i) \cup {p}
    BY <1>2, <1>3, <1>4, PutGain DEF Iput
  <1>11. RefInv'
    <2>1. Cardinality(Opened(i)') = Cardinality(Opened(i)) + 0 /\ ref'[i] = ref[i] + 0 + 1
      <3>1. Cardinality(Opened(i)) \in Nat /\ ref[i] \in Nat
        BY <1>5, SetsFinite
      <3> QED BY <1>5, <1>9, <3>1
    <2>2. /\ Cardinality(Putting(i)') = Cardinality(Putting(i)) + 1
          /\ \A k \in Inode : k # i => Putting(k)' = Putting(k)
      BY <1>10
    <2>3. PICK o, u \in Int : o = 0 /\ u = 1
      OBVIOUS
    <2>4. /\ Cardinality(Opened(i)') = Cardinality(Opened(i)) + o /\ ref'[i] = ref[i] + o + u
          /\ Cardinality(Putting(i)') = Cardinality(Putting(i)) + u
      BY <2>1, <2>2, <2>3
    <2> QED BY <1>0, <1>5, <1>9, <2>2, <2>4, RefStep
  <1>12. Ended(p, i) /\ ~Locks(p)'
    BY <1>1, <1>3, <1>4, <1>9, <1>10 DEF Ended, Locks
  <1>13. LockInv'
    <2>1. (panicked => panicked') /\ lock' = lock
      BY <1>1
    <2> QED BY <1>0, <1>2, <1>4, <1>12, <2>1, LockKeep
  <1> QED BY <1>1, <1>6, <1>7, <1>8, <1>10, <1>11, <1>12, <1>13 DEF CtlInv

\* create() is over, or ialloc() has panicked.
LEMMA CreateEndCtl ==
    ASSUME CtlInv, NEW p \in Proc, CreateEnd(p),
           FreeInodes # {} =>
             \E l \in SUBSET Block : Few(l) /\ OpenFile(p, Min(FreeInodes), l)
    PROVE  /\ CtlInv'
           /\ \/ FreeInodes = {} /\ SameRefs /\ panicked' /\ UNCHANGED <<ref, ftable, call>>
              \/ /\ FreeInodes # {} /\ Min(FreeInodes) \in FreeInodes
                 /\ Ended(p, Min(FreeInodes))
                 /\ ref' = [ref EXCEPT ![Min(FreeInodes)] = @ + 1]
           /\ (lock[ROOTINO] = p /\ call[p].ip = ROOTINO /\ ~Locks(p)') \/ panicked'
  <1>0. CtlTypeOK /\ FileInv /\ ProcInv /\ RefInv /\ CallInv /\ LockInv
    BY DEF CtlInv
  <1>1. /\ call[p].at = "loop" /\ call[p].op = "create" /\ ~panicked
        /\ lock' = [lock EXCEPT ![ROOTINO] = NoProc] /\ pstate' = pstate
    BY DEF CreateEnd, LoopDone, At
  <1>2. call[p].ip = ROOTINO /\ lock[ROOTINO] = p /\ ROOTINO \in Inode
    BY <1>0, <1>1, Consts DEF CallInv, CallSane, LockInv
  <1>3. lock' \in [Inode -> Proc \cup {NoProc}]
    BY <1>0, <1>1 DEF CtlTypeOK
  <1>4. CASE FreeInodes = {}
    <2>1. panicked' = TRUE /\ UNCHANGED <<ref, ftable, ofile, call>>
      BY <1>4 DEF CreateEnd, Panic
    <2>2. CtlTypeOK'
      BY <1>0, <1>1, <1>3, <2>1 DEF CtlTypeOK
    <2>3. FileInv' /\ CallInv' /\ ProcInv'
      BY <1>0, <1>1, <2>1 DEF FileInv, Uses, CallInv, CallSane, InFile, ProcInv
    <2>4. RefInv' /\ SameRefs
      BY <1>0, <2>1, SamePutting, OpenStay, SameRefInv
    <2>5. LockInv'
      <3>1. \A k \in Inode : lock'[k] = IF k = ROOTINO THEN NoProc ELSE lock[k]
        BY <1>0, <1>1 DEF CtlTypeOK
      <3>2. \A k \in Inode : lock'[k] # NoProc => call'[lock'[k]].ip = k /\ Locks(lock[k])'
        BY <1>0, <2>1, <3>1 DEF LockInv, Locks
      <3>3. ASSUME NEW q \in Proc, call'[q].at = "trunc" PROVE lock'[call'[q].ip] = q
        <4>1. call[q].at = "trunc" /\ call[q].ip \in Inode /\ lock[call[q].ip] = q
          BY <1>0, <2>1, <3>3 DEF LockInv, CtlTypeOK, Call
        <4>2. q # p
          BY <1>1, <4>1
        <4>3. call[q].ip # ROOTINO
          BY <1>2, <4>1, <4>2
        <4> QED BY <2>1, <3>1, <4>1, <4>3
      <3> QED BY <2>1, <3>2, <3>3 DEF LockInv
    <2> QED BY <1>1, <1>2, <1>4, <2>1, <2>2, <2>3, <2>4, <2>5 DEF CtlInv
  <1>5. CASE FreeInodes # {}
    <2>1. PICK i : i = Min(FreeInodes)
      OBVIOUS
    <2>2. i \in FreeInodes
      <3>1. PICK S : S = FreeInodes
        OBVIOUS
      <3>2. S \subseteq Nat /\ S # {}
        BY <1>5, <3>1, Consts DEF FreeInodes
      <3> QED BY <2>1, <3>1, <3>2, MinNat
    <2>3. i \in Inode
      BY <2>2 DEF FreeInodes
    <2>4. panicked' = panicked
      BY <1>5, <2>1 DEF CreateEnd
    <2>8. PICK l \in SUBSET Block : Few(l) /\ OpenFile(p, i, l)
      BY <1>5, <2>1
    <2>5. call[p].at \notin Iput /\ pstate[p] # "unused"
      BY <1>0, <1>1, Runs DEF Iput
    <2>6. /\ CtlTypeOK' /\ FileInv' /\ ProcInv' /\ RefInv' /\ CallInv' /\ ~Locks(p)'
          /\ Ended(p, i) /\ ref' = [ref EXCEPT ![i] = @ + 1]
      BY <1>1, <1>3, <2>3, <2>4, <2>5, <2>8, OpenFileCtl
    <2>7. LockInv'
      <3>1. Only(p)
        BY <2>6 DEF Ended
      <3> QED BY <1>0, <1>1, <1>2, <2>4, <2>6, <3>1, LockGive
    <2> QED BY <1>2, <1>5, <2>1, <2>2, <2>6, <2>7 DEF CtlInv
  <1> QED BY <1>4, <1>5

\* A step inside iput().
LEMMA InputCtl ==
    ASSUME CtlInv, NEW p \in Proc, call[p].at \in Iput, NEW c \in Call,
           call' = [call EXCEPT ![p] = c], c.at \in {"trunc", "drop"}, c.ip = call[p].ip,
           c.op = call[p].op, UNCHANGED <<ref, ftable, ofile, pstate>>,
           lock' \in [Inode -> Proc \cup {NoProc}], panicked' \in BOOLEAN
    PROVE  /\ CtlTypeOK' /\ FileInv' /\ ProcInv' /\ RefInv' /\ CallInv' /\ SameRefs
           /\ Only(p) /\ call'[p] = c
  <1>0. CtlTypeOK /\ FileInv /\ ProcInv /\ RefInv /\ CallInv /\ LockInv
    BY DEF CtlInv
  <1>1. call' \in [Proc -> Call] /\ call'[p] = c /\ Only(p)
    BY <1>0, CallStep DEF CtlTypeOK
  <1>2. CtlTypeOK'
    BY <1>0, <1>1 DEF CtlTypeOK
  <1>3. pstate[p] # "unused"
    BY <1>0 DEF ProcInv, Iput
  <1>4. FileInv' /\ ProcInv'
    <2>1. FileInv'
      BY <1>0 DEF FileInv, Uses
    <2>2. ProcInv'
      BY <1>0, <1>1, <1>3 DEF ProcInv, Only
    <2> QED BY <2>1, <2>2
  <1>5. CallInv'
    <2>1. CallSane(p)
      BY <1>0 DEF CallInv
    <2>2. CallSane(p)'
      BY <1>1, <2>1 DEF CallSane, InFile
    <2>3. SameFiles
      BY DEF SameFiles
    <2> QED BY <1>0, <1>1, <2>2, <2>3, QuietCalls
  <1>6. \A k \in Inode : Putting(k)' = Putting(k)
    <2>1. call[p].at \in Iput /\ call'[p].at \in Iput /\ call'[p].ip = call[p].ip
      BY <1>1 DEF Iput
    <2> QED BY <1>1, <2>1, PutStay
  <1>7. RefInv' /\ SameRefs
    BY <1>0, <1>6, OpenStay, SameRefInv
  <1> QED BY <1>1, <1>2, <1>4, <1>5, <1>7

\* A call that moves on to another place.
LEMMA AtCall ==
    ASSUME NEW b \in Call, NEW l \in CallAt, NEW c, c = [b EXCEPT !.at = l]
    PROVE  /\ c \in Call /\ c.at = l /\ c.ip = b.ip /\ c.op = b.op /\ c.j = b.j
           /\ c.logged = b.logged
  BY DEF Call

\* iput() leaves control sane: it takes the lock if it has the last
\* reference.
LEMMA PutCtl ==
    ASSUME CtlInv, NEW p \in Proc, Put(p)
    PROVE  /\ CtlInv' /\ SameRefs /\ Only(p) /\ call'[p].ip = call[p].ip
           /\ call'[p].j = call[p].j /\ call'[p].logged = call[p].logged
           /\ \/ /\ call'[p].at = "trunc" /\ lock' = [lock EXCEPT ![call[p].ip] = p]
                 /\ inode[call[p].ip].nlink = 0 /\ ref[call[p].ip] = 1
              \/ call'[p].at = "drop" /\ lock' = lock
  <1>0. CtlTypeOK /\ LockInv
    BY DEF CtlInv
  <1>1. PICK b, i : b = call[p] /\ i = b.ip
    OBVIOUS
  <1>2. b \in Call /\ i \in Inode /\ b.at = "put" /\ ~panicked /\ lock[i] = NoProc
    BY <1>0, <1>1 DEF Put, At, CanLock, CtlTypeOK, Call
  <1>3. PICK last \in BOOLEAN : last <=> inode[i].nlink = 0 /\ ref[i] = 1
    OBVIOUS
  <1>4. /\ lock' = IF last THEN [lock EXCEPT ![i] = p] ELSE lock
        /\ call' = [call EXCEPT ![p].at = IF last THEN "trunc" ELSE "drop"]
        /\ UNCHANGED <<ref, ftable, ofile, pstate, panicked>>
    BY <1>1, <1>3 DEF Put
  <1>5. PICK l : l = IF last THEN "trunc" ELSE "drop"
    OBVIOUS
  <1>6. PICK c : c = [b EXCEPT !.at = l]
    OBVIOUS
  <1>7. l \in {"trunc", "drop"} /\ l \in CallAt
    BY <1>5 DEF CallAt
  <1>8. c \in Call /\ c.at = l /\ c.ip = b.ip /\ c.op = b.op /\ c.j = b.j /\ c.logged = b.logged
    BY <1>2, <1>6, <1>7, AtCall
  <1>9. call' = [call EXCEPT ![p] = c]
    BY <1>0, <1>1, <1>4, <1>5, <1>6 DEF CtlTypeOK
  <1>10. lock' \in [Inode -> Proc \cup {NoProc}] /\ panicked' \in BOOLEAN
    BY <1>0, <1>4 DEF CtlTypeOK
  <1>11. /\ call[p].at \in Iput /\ c.at \in {"trunc", "drop"} /\ c.ip = call[p].ip
         /\ c.op = call[p].op
    BY <1>1, <1>2, <1>7, <1>8 DEF Iput
  <1>12. /\ CtlTypeOK' /\ FileInv' /\ ProcInv' /\ RefInv' /\ CallInv' /\ SameRefs
         /\ Only(p) /\ call'[p] = c
    BY <1>4, <1>8, <1>9, <1>10, <1>11, InputCtl
  <1>13. LockInv' /\ \/ l = "trunc" /\ lock' = [lock EXCEPT ![i] = p] /\ inode[i].nlink = 0 /\ ref[i] = 1
                     \/ l = "drop" /\ lock' = lock
    <2>0. ~Locks(p) /\ panicked' = panicked
      BY <1>1, <1>2, <1>4 DEF Locks
    <2>1. CASE last
      <3>1. Locks(p)' /\ call'[p].ip = i /\ lock' = [lock EXCEPT ![i] = p]
        BY <1>1, <1>4, <1>5, <1>8, <1>12, <2>1 DEF Locks
      <3>2. LockInv'
        BY <1>0, <1>2, <1>12, <2>0, <3>1, LockTake
      <3> QED BY <1>3, <1>5, <2>1, <3>1, <3>2
    <2>2. CASE ~last
      <3>1. ~Locks(p)' /\ lock' = lock
        BY <1>4, <1>5, <1>8, <1>12, <2>2 DEF Locks
      <3>2. LockInv'
        BY <1>0, <1>12, <2>0, <3>1, LockKeep
      <3> QED BY <1>5, <2>2, <3>1, <3>2
    <2> QED BY <2>1, <2>2
  <1>14. call'[p].ip = call[p].ip /\ call'[p].j = call[p].j /\ call'[p].logged = call[p].logged
         /\ call'[p].at = l
    BY <1>1, <1>8, <1>12
  <1> QED BY <1>1, <1>12, <1>13, <1>14 DEF CtlInv

\* The end of itrunc() leaves control sane.
LEMMA TruncDoneCtl ==
    ASSUME CtlInv, NEW p \in Proc, TruncDone(p)
    PROVE  /\ CtlInv' /\ SameRefs /\ Only(p) /\ call'[p].ip = call[p].ip
           /\ call'[p].at = "drop" /\ call'[p].logged = call[p].logged
           /\ lock[call[p].ip] = p
  <1>0. CtlTypeOK /\ LockInv
    BY DEF CtlInv
  <1>1. PICK b, i : b = call[p] /\ i = b.ip
    OBVIOUS
  <1>2. b \in Call /\ i \in Inode /\ b.at = "trunc" /\ ~panicked /\ lock[i] = p
    BY <1>0, <1>1 DEF TruncDone, At, LockInv, CtlTypeOK, Call
  <1>3. /\ lock' = [lock EXCEPT ![i] = NoProc] /\ call' = [call EXCEPT ![p].at = "drop"]
        /\ UNCHANGED <<ref, ftable, ofile, pstate, panicked>>
    BY <1>1 DEF TruncDone
  <1>4. PICK c : c = [b EXCEPT !.at = "drop"]
    OBVIOUS
  <1>5. "drop" \in CallAt
    BY DEF CallAt
  <1>6. c \in Call /\ c.at = "drop" /\ c.ip = b.ip /\ c.op = b.op /\ c.logged = b.logged
    BY <1>2, <1>4, <1>5, AtCall
  <1>7. call' = [call EXCEPT ![p] = c]
    BY <1>0, <1>1, <1>3, <1>4 DEF CtlTypeOK
  <1>8. lock' \in [Inode -> Proc \cup {NoProc}] /\ panicked' \in BOOLEAN
    BY <1>0, <1>3 DEF CtlTypeOK
  <1>9. /\ call[p].at \in Iput /\ c.at \in {"trunc", "drop"} /\ c.ip = call[p].ip
        /\ c.op = call[p].op
    BY <1>1, <1>2, <1>6 DEF Iput
  <1>10. /\ CtlTypeOK' /\ FileInv' /\ ProcInv' /\ RefInv' /\ CallInv' /\ SameRefs
         /\ Only(p) /\ call'[p] = c
    BY <1>3, <1>6, <1>7, <1>8, <1>9, InputCtl
  <1>11. ~Locks(p)' /\ panicked' = panicked
    BY <1>3, <1>6, <1>10 DEF Locks
  <1>12. LockInv'
    BY <1>0, <1>2, <1>3, <1>10, <1>11, LockGive
  <1>13. call'[p].ip = call[p].ip /\ call'[p].at = "drop" /\ call'[p].logged = call[p].logged
         /\ lock[call[p].ip] = p
    BY <1>1, <1>2, <1>6, <1>10
  <1> QED BY <1>10, <1>12, <1>13 DEF CtlInv

\* A step of itrunc(): x is logged, j moves on.
Truncs(p, c) ==
    /\ c \in Call /\ call' = [call EXCEPT ![p] = c]
    /\ c.at = "trunc" /\ c.ip = call[p].ip /\ c.op = call[p].op
    /\ c.logged \subseteq call[p].logged \cup {BBLOCK}

\* The entries that itrunc() has ahead of it.
LEMMA EntriesIn ==
    ASSUME CtlTypeOK, NEW p \in Proc
    PROVE  /\ Entries(p) \subseteq Nat /\ Entries(p) \subseteq 0..(NINDIRECT - 1)
           /\ \A k \in Entries(p) : k >= call[p].j
  <1>1. call[p].j \in 0..NINDIRECT
    BY DEF CtlTypeOK, Call
  <1> QED BY <1>1, Consts DEF Entries

\* A step of itrunc() leaves control sane.
LEMMA TruncCtl ==
    ASSUME CtlInv, NEW p \in Proc, Trunc(p)
    PROVE  /\ CtlInv' /\ SameRefs /\ Only(p) /\ lock[call[p].ip] = p /\ call[p].ip \in Inode
           /\ call'[p].at = "trunc" /\ call'[p].ip = call[p].ip
           /\ call'[p].logged \subseteq call[p].logged \cup {BBLOCK}
  <1>0. CtlTypeOK /\ LockInv
    BY DEF CtlInv
  <1>1. PICK b, i : b = call[p] /\ i = b.ip
    OBVIOUS
  <1>2. b \in Call /\ i \in Inode /\ b.at = "trunc" /\ ~panicked /\ lock[i] = p
    BY <1>0, <1>1 DEF Trunc, At, LockInv, CtlTypeOK, Call
  <1>3. UNCHANGED <<ref, lock, ftable, ofile, pstate>> /\ panicked' \in BOOLEAN
    BY <1>0 DEF Trunc, bfree, Panic, CtlTypeOK
  <1>4. \E c : Truncs(p, c)
    <2>1. \/ call' = [call EXCEPT ![p].logged = @ \cup {BBLOCK}]
          \/ Entries(p) # {} /\ call' = [call EXCEPT ![p].j = Min(Entries(p)) + 1]
          \/ call' = call
      BY DEF Trunc
    <2>2. CASE call' = [call EXCEPT ![p].logged = @ \cup {BBLOCK}]
      <3>1. PICK c : c = [b EXCEPT !.logged = @ \cup {BBLOCK}]
        OBVIOUS
      <3>2. call' = [call EXCEPT ![p] = c]
        BY <1>0, <1>1, <2>2, <3>1 DEF CtlTypeOK
      <3>3. /\ c \in Call /\ c.at = b.at /\ c.ip = b.ip /\ c.op = b.op
            /\ c.logged = b.logged \cup {BBLOCK}
        BY <1>2, <3>1, Consts DEF Call
      <3>4. Truncs(p, c)
        BY <1>1, <1>2, <3>2, <3>3 DEF Truncs
      <3> QED BY <3>4
    <2>3. CASE Entries(p) # {} /\ call' = [call EXCEPT ![p].j = Min(Entries(p)) + 1]
      <3>0. PICK S : S = Entries(p)
        OBVIOUS
      <3>1. PICK m : m = Min(S)
        OBVIOUS
      <3>2. m \in S /\ S \subseteq 0..(NINDIRECT - 1)
        BY <1>0, <2>3, <3>0, <3>1, EntriesIn, MinNat
      <3>3. m + 1 \in 0..NINDIRECT
        BY <3>2, Consts
      <3>4. PICK c : c = [b EXCEPT !.j = m + 1]
        OBVIOUS
      <3>5. call' = [call EXCEPT ![p] = c]
        BY <1>0, <1>1, <2>3, <3>0, <3>1, <3>4 DEF CtlTypeOK
      <3>6. /\ c \in Call /\ c.at = b.at /\ c.ip = b.ip /\ c.op = b.op /\ c.logged = b.logged
        BY <1>2, <3>3, <3>4 DEF Call
      <3>7. Truncs(p, c)
        BY <1>1, <1>2, <3>5, <3>6 DEF Truncs
      <3> QED BY <3>7
    <2>4. CASE call' = call
      <3>1. call' = [call EXCEPT ![p] = b]
        BY <1>0, <1>1, <2>4 DEF CtlTypeOK
      <3>2. Truncs(p, b)
        BY <1>1, <1>2, <3>1 DEF Truncs
      <3> QED BY <3>2
    <2> QED BY <2>1, <2>2, <2>3, <2>4
  <1>5. PICK c : Truncs(p, c)
    BY <1>4
  <1>6. /\ c \in Call /\ call' = [call EXCEPT ![p] = c] /\ c.at = "trunc" /\ c.ip = call[p].ip
        /\ c.op = call[p].op /\ c.logged \subseteq call[p].logged \cup {BBLOCK}
    BY <1>5 DEF Truncs
  <1>7. lock' \in [Inode -> Proc \cup {NoProc}] /\ call[p].at \in Iput /\ c.at \in {"trunc", "drop"}
    BY <1>0, <1>1, <1>2, <1>3, <1>6 DEF CtlTypeOK, Iput
  <1>8. /\ CtlTypeOK' /\ FileInv' /\ ProcInv' /\ RefInv' /\ CallInv' /\ SameRefs
        /\ Only(p) /\ call'[p] = c
    BY <1>3, <1>6, <1>7, InputCtl
  <1>9. LockInv'
    <2>1. /\ Locks(p) /\ Locks(p)' /\ call'[p].ip = call[p].ip /\ call'[p].at = call[p].at
          /\ lock' = lock /\ (panicked => panicked')
      BY <1>1, <1>2, <1>3, <1>6, <1>8 DEF Locks
    <2> QED BY <1>0, <1>8, <2>1, LockKeep
  <1>10. /\ call'[p].at = "trunc" /\ call'[p].ip = call[p].ip
         /\ call'[p].logged \subseteq call[p].logged \cup {BBLOCK}
         /\ lock[call[p].ip] = p /\ call[p].ip \in Inode
    BY <1>1, <1>2, <1>6, <1>8
  <1> QED BY <1>8, <1>9, <1>10 DEF CtlInv

\* The end of iput() leaves control sane.
LEMMA DropCtl ==
    ASSUME CtlInv, NEW p \in Proc, Drop(p)
    PROVE  /\ CtlInv' /\ Only(p) /\ call'[p] = Idle /\ call[p].ip \in Inode
           /\ ref'[call[p].ip] = ref[call[p].ip] - 1 /\ ref[call[p].ip] # 0
           /\ \A k \in Inode : k # call[p].ip => ref'[k] = ref[k]
           /\ \A k \in Inode : Opened(k)' = Opened(k) /\ Putting(k)' = Putting(k) \ {p}
  <1>0. CtlTypeOK /\ FileInv /\ ProcInv /\ RefInv /\ CallInv /\ LockInv
    BY DEF CtlInv
  <1>1. PICK i : i = call[p].ip
    OBVIOUS
  <1>2. /\ call[p].at = "drop" /\ call[p].at \in Iput /\ i \in Inode /\ ~Locks(p)
        /\ pstate[p] # "unused"
    BY <1>0, <1>1 DEF Drop, At, CtlTypeOK, Call, Iput, Locks, ProcInv
  <1>3. /\ ref' = [ref EXCEPT ![i] = @ - 1] /\ call' = [call EXCEPT ![p] = Idle]
        /\ UNCHANGED <<lock, ftable, ofile, pstate, panicked>>
    BY <1>1 DEF Drop
  <1>4. call' \in [Proc -> Call] /\ call'[p] = Idle /\ Only(p)
    BY <1>0, <1>3, IdleIs, CallStep DEF CtlTypeOK
  <1>5. p \in Putting(i) /\ \A k \in Inode : k # i => p \notin Putting(k)
    BY <1>1, <1>2 DEF Putting
  <1>6. ref[i] # 0
    BY <1>0, <1>2, <1>5, RefPositive
  <1>7. /\ ref'[i] = ref[i] - 1 /\ \A k \in Inode : k # i => ref'[k] = ref[k]
        /\ ref \in [Inode -> Nat] /\ ref[i] \in Nat
    BY <1>0, <1>2, <1>3 DEF CtlTypeOK
  <1>8. ref' \in [Inode -> Nat]
    <2>1. ref[i] - 1 \in Nat
      BY <1>6, <1>7
    <2> QED BY <1>3, <1>7, <2>1
  <1>9. CtlTypeOK'
    BY <1>0, <1>3, <1>4, <1>8 DEF CtlTypeOK
  <1>10. FileInv' /\ ProcInv'
    BY <1>0, <1>2, <1>3, <1>4 DEF FileInv, Uses, ProcInv, Only
  <1>11. CallInv'
    <2>1. CallSane(p)'
      BY <1>4, IdleIs DEF CallSane, InFile
    <2>2. SameFiles
      BY <1>3 DEF SameFiles
    <2> QED BY <1>0, <1>3, <1>4, <2>1, <2>2, QuietCalls
  <1>12. \A k \in Inode : Opened(k)' = Opened(k)
    BY <1>3, OpenStay
  <1>13. /\ Cardinality(Putting(i)') = Cardinality(Putting(i)) - 1
         /\ \A k \in Inode : k # i => Putting(k)' = Putting(k)
         /\ Putting(i)' = Putting(i) \ {p}
    BY <1>1, <1>2, <1>4, IdleIs, PutLose DEF Iput
  <1>14. RefInv'
    <2>1. /\ Cardinality(Opened(i)') = Cardinality(Opened(i)) + 0
          /\ Cardinality(Putting(i)') = Cardinality(Putting(i)) + (-1)
          /\ ref'[i] = ref[i] + 0 + (-1)
      <3>1. Cardinality(Opened(i)) \in Nat /\ Cardinality(Putting(i)) \in Nat
        BY <1>2, SetsFinite
      <3> QED BY <1>2, <1>7, <1>12, <1>13, <3>1
    <2>2. \A k \in Inode : k # i => Putting(k)' = Putting(k)
      BY <1>13
    <2> QED BY <1>0, <1>2, <1>7, <1>12, <2>1, <2>2, RefStep
  <1>15. LockInv'
    <2>1. (panicked => panicked') /\ lock' = lock /\ ~Locks(p)'
      BY <1>3, <1>4, IdleIs DEF Locks
    <2> QED BY <1>0, <1>2, <1>4, <2>1, LockKeep
  <1>16. \A k \in Inode : Putting(k)' = Putting(k) \ {p}
    BY <1>5, <1>13
  <1> QED BY <1>1, <1>2, <1>4, <1>6, <1>7, <1>9, <1>10, <1>11, <1>12, <1>14, <1>15, <1>16 DEF CtlInv

-----------------------------------------------------------------------------
(* Data: what a step leaves alone.                                         *)

SameSlots(i) == \A k \in Slot : Own'[<<i, k>>] = Own[<<i, k>>]

\* The offset of the file that q is reading or writing.
SameOff(q) == call[q].at = "loop" /\ call[q].op # "create" =>
                ftable'[call[q].f].off = ftable[call[q].f].off

\* writei() and itrunc() are where they were.
Kept(i) ==
    \/ Still(i) /\ Still(i)'
    \/ Truncating(i)'
    \/ /\ Writing(i) /\ Writing(i)' /\ lock'[i] = lock[i] /\ inode'[i] = inode[i]
       /\ SameOff(lock[i]) /\ call'[lock[i]].f = call[lock[i]].f
       /\ call'[lock[i]].n = call[lock[i]].n /\ call'[lock[i]].tot = call[lock[i]].tot

\* The places of an inode stay when its addresses and its indirect block do.
LEMMA SlotsSame ==
    ASSUME CtlTypeOK, NEW i \in Inode, Loaded(i)'.addrs = Loaded(i).addrs, Freed(i)' = Freed(i),
           Loaded(i).addrs[NDIRECT] # NULL =>
             \A u \in Unit : blk'[Loaded(i).addrs[NDIRECT]][u] = blk[Loaded(i).addrs[NDIRECT]][u]
    PROVE  SameSlots(i)
  <1>1. ASSUME NEW k \in Slot PROVE Own'[<<i, k>>] = Own[<<i, k>>]
    <2>1. PICK a, j : a = Loaded(i).addrs /\ j = Freed(i)
      OBVIOUS
    <2>2. j \in Nat
      BY <2>1, FreedType
    <2>3. SlotAt(a, blk', j, k) = SlotAt(a, blk, j, k)
      BY <2>1, <2>2, SlotSame
    <2>4. Own[<<i, k>>] = SlotAt(a, blk, j, k)
      BY <2>1, OwnAt
    <2>5. Own'[<<i, k>>] = SlotAt(Loaded(i)'.addrs, blk', Freed(i)', k)
      BY DEF Own, Spot
    <2> QED BY <2>1, <2>3, <2>4, <2>5
  <1> QED BY <1>1 DEF SameSlots

\* The places of an inode, as elements of Spot.
LEMMA SpotsSame ==
    ASSUME NEW i \in Inode, SameSlots(i), NEW w \in Spot, w[1] = i
    PROVE  Own'[w] = Own[w]
  <1>1. PICK k \in Slot : w = <<i, k>>
    BY DEF Spot
  <1> QED BY <1>1 DEF SameSlots

\* The bytes of the directory are as they were.
LEMMA EntrySame ==
    ASSUME CtlInv, DskTypeOK, OwnInv, HoleInv, ThroughInv, Still(ROOTINO),
           SameSlots(ROOTINO), dinode'[ROOTINO].size = dinode[ROOTINO].size,
           \A n \in 0..(MAXFILE - 1) : Own[<<ROOTINO, SlotOf(n)>>] # NULL =>
              blk'[Own[<<ROOTINO, SlotOf(n)>>]] = blk[Own[<<ROOTINO, SlotOf(n)>>]]
    PROVE  /\ dinode[ROOTINO].size \in Nat
           /\ \A k \in 1..dinode[ROOTINO].size : Entry'[k] = Entry[k]
  <1>0. ROOTINO \in Inode
    BY Consts
  <1>1. PICK s : s = dinode[ROOTINO].size
    OBVIOUS
  <1>2. s = Loaded(ROOTINO).size
    BY <1>0, <1>1 DEF ThroughInv, ThroughSane
  <1>3. s \in Nat
    BY <1>0, <1>2, LoadedType
  <1>4. ASSUME NEW k \in 1..s PROVE Entry'[k] = Entry[k]
    <2>1. PICK x \in Nat : x = k - 1
      BY <1>3
    <2>2. x < Loaded(ROOTINO).size
      BY <1>2, <1>3, <2>1
    <2>3. PICK n : n = x \div BSIZE
      OBVIOUS
    <2>4. n \in 0..(MAXFILE - 1) /\ Own[<<ROOTINO, SlotOf(n)>>] # NULL /\ SlotOf(n) \in Slot
      BY <1>0, <2>2, <2>3, ByteBlock, SlotIn
    <2>5. Own'[<<ROOTINO, SlotOf(n)>>] = Own[<<ROOTINO, SlotOf(n)>>]
      BY <2>4 DEF SameSlots
    <2>6. Entry[k] = blk[Own[<<ROOTINO, SlotOf(n)>>]][x % BSIZE]
      BY <1>1, <2>1, <2>3 DEF Entry
    <2>7. Entry'[k] = blk'[Own'[<<ROOTINO, SlotOf(n)>>]][x % BSIZE]
      BY <1>1, <2>1, <2>3 DEF Entry
    <2> QED BY <2>4, <2>5, <2>6, <2>7
  <1> QED BY <1>1, <1>3, <1>4

\* The directory is as it was.
LEMMA DirFrame ==
    ASSUME DirInv, CtlInv, DskTypeOK, OwnInv, HoleInv, HeadInv, ThroughInv, Still(ROOTINO),
           SameSlots(ROOTINO), dinode'[ROOTINO].size = dinode[ROOTINO].size,
           \A i \in Inode : dinode'[i].type = dinode[i].type /\ dinode'[i].nlink = dinode[i].nlink,
           \A n \in 0..(MAXFILE - 1) : Own[<<ROOTINO, SlotOf(n)>>] # NULL =>
              blk'[Own[<<ROOTINO, SlotOf(n)>>]] = blk[Own[<<ROOTINO, SlotOf(n)>>]]
    PROVE  DirInv'
  <1>0. ROOTINO \in Inode
    BY Consts
  <1>1. PICK s : s = dinode[ROOTINO].size
    OBVIOUS
  <1>3. s \in Nat /\ \A k \in 1..s : Entry'[k] = Entry[k]
    BY <1>1, EntrySame
  <1>5. PICK e, f : e = Entry /\ f = Entry'
    OBVIOUS
  <1>6. \A k \in 1..s : f[k] = e[k]
    BY <1>3, <1>5
  <1>7. DirSound(e, dinode) => DirSound(f, dinode')
    <2>1. SUFFICES ASSUME DirSound(e, dinode) PROVE DirSound(f, dinode')
      OBVIOUS
    <2>2. \A k \in 3..s : f[k] = e[k]
      BY <1>3, <1>6
    <2>3. s >= 2 /\ f[1] = e[1] /\ f[2] = e[2]
      BY <1>1, <1>3, <1>6, <2>1 DEF DirSound
    <2> QED BY <1>0, <1>1, <2>1, <2>2, <2>3 DEF DirSound
  <1> QED BY <1>5, <1>7 DEF DirInv

\* Nothing on the disk changes.
LEMMA OwnFrame ==
    ASSUME DInv, CtlInv', UNCHANGED <<bitmap, blk, dinode>>, inode' \in [Inode -> Dinode],
           \A i \in Inode : Loaded(i)' = Loaded(i), \A i \in Inode : Freed(i)' = Freed(i)
    PROVE  DskTypeOK' /\ OwnInv' /\ DirInv' /\ \A i \in Inode : SameSlots(i)
  <1>0. /\ CtlInv /\ CtlTypeOK /\ DskTypeOK /\ OwnInv /\ DirInv /\ HeadInv /\ HoleInv
        /\ ThroughInv /\ CallInv /\ LockInv
    BY DEF DInv, CtlInv
  <1>1. DskTypeOK'
    BY <1>0 DEF DskTypeOK
  <1>2. ASSUME NEW i \in Inode PROVE SameSlots(i)
    BY <1>0, SlotsSame
  <1>3. OwnInv'
    <2>1. \A w \in Spot : Own'[w] = Own[w]
      BY <1>2, SpotsSame DEF Spot
    <2>2. OwnedOnce(Own', bitmap)
      BY <1>0, <2>1, OwnSame DEF OwnInv
    <2> QED BY <2>2 DEF OwnInv
  <1>4. DirInv'
    <2>1. Still(ROOTINO)
      <3>1. \A q \in Proc : lock[ROOTINO] = q => call[q].ip = ROOTINO
        BY <1>0, Consts, Procs DEF LockInv
      <3>2. ASSUME Writing(ROOTINO) PROVE FALSE
        <4>1. lock[ROOTINO] \in Proc
          BY <1>0, <3>2, Consts DEF Writing, CtlTypeOK
        <4> QED BY <1>0, <3>1, <3>2, <4>1 DEF Writing, Loops, CallInv, CallSane
      <3>3. ASSUME Truncating(ROOTINO) PROVE FALSE
        <4>1. lock[ROOTINO] \in Proc
          BY <1>0, <3>3, Consts DEF Truncating, CtlTypeOK
        <4>2. TruncSane(lock[ROOTINO])
          BY <4>1 DEF DInv, TruncInv
        <4> QED BY <1>0, <3>1, <3>3, <4>1, <4>2 DEF Truncating, TruncSane, DirInv, DirSound
      <3> QED BY <3>2, <3>3 DEF Still
    <2>2. SameSlots(ROOTINO)
      BY <1>2, Consts
    <2> QED BY <1>0, <2>1, <2>2, DirFrame
  <1> QED BY <1>1, <1>2, <1>3, <1>4

\* One inode: it is as it was, and so is the work on it.
LEMMA InodeFrame ==
    ASSUME HeadInv, ThroughInv, HoleInv, CtlInv, CtlInv', NEW i \in Inode, Loaded(i)' = Loaded(i),
           dinode'[i] = dinode[i], SameSlots(i), Kept(i)
    PROVE  HeadSane(i)' /\ ThroughSane(i)' /\ HoleSane(i)'
  <1>0. HeadSane(i) /\ ThroughSane(i) /\ HoleSane(i)
    BY DEF HeadInv, ThroughInv, HoleInv
  <1>1. HeadSane(i)'
    BY <1>0 DEF HeadSane, Loaded
  <1>2. \A n \in 0..(MAXFILE - 1) : Own'[<<i, SlotOf(n)>>] = Own[<<i, SlotOf(n)>>]
    BY SlotIn DEF SameSlots
  <1>3. CASE Still(i) /\ Still(i)'
    <2>1. ~Writing(i)'
      BY <1>3 DEF Still
    <2>2. ThroughSane(i)'
      BY <1>0, <1>3, <2>1 DEF ThroughSane
    <2>3. PICK s : s = Loaded(i).size
      OBVIOUS
    <2>4. Covered(Own, i, s)
      BY <1>0, <1>3, <2>3 DEF HoleSane
    <2>5. Covered(Own', i, s)
      BY <1>2, <2>4 DEF Covered
    <2>6. HoleSane(i)'
      BY <2>1, <2>3, <2>5 DEF HoleSane
    <2> QED BY <1>1, <2>2, <2>6
  <1>4. CASE Truncating(i)'
    <2>1. ~Writing(i)' /\ ~Still(i)'
      BY <1>4 DEF Still, Truncating, Writing, Loops
    <2> QED BY <1>1, <2>1 DEF ThroughSane, HoleSane
  <1>5. CASE ~(Still(i) /\ Still(i)') /\ ~Truncating(i)'
    <2>1. PICK q : q = lock[i]
      OBVIOUS
    <2>2. /\ Writing(i) /\ Writing(i)' /\ lock'[i] = q /\ inode'[i] = inode[i] /\ ~Still(i)'
          /\ SameOff(q) /\ call'[q].f = call[q].f
          /\ call'[q].n = call[q].n /\ call'[q].tot = call[q].tot
      BY <1>5, <2>1 DEF Kept, Still
    <2>3. call[q].at = "loop" /\ call[q].op # "create"
      BY <2>1, <2>2 DEF Writing, Loops
    <2>4. PICK o, n, t : o = FOff(q) /\ n = call[q].n /\ t = call[q].tot
      OBVIOUS
    <2>5. FOff(lock[i]) = o /\ FOff(lock[i])' = o /\ Pos(lock[i]) = o + t /\ Pos(lock[i])' = o + t
      BY <2>1, <2>2, <2>3, <2>4 DEF SameOff, FOff, Pos
    <2>6. ThroughSane(i)'
      BY <1>0, <2>1, <2>2, <2>4, <2>5 DEF ThroughSane
    <2>7. PICK s, more : s = inode[i].size /\ more = (t < n)
      OBVIOUS
    <2>8. WriteCovered(Own, i, s, o + t, more)
      BY <1>0, <2>1, <2>2, <2>4, <2>5, <2>7 DEF HoleSane
    <2>9. WriteCovered(Own', i, s, o + t, more)
      BY <1>2, <2>8 DEF WriteCovered
    <2>10. HoleSane(i)'
      BY <2>2, <2>4, <2>5, <2>7, <2>9 DEF HoleSane
    <2> QED BY <1>1, <2>6, <2>10
  <1> QED BY <1>3, <1>4, <1>5

\* One process: its call is as it was, and so is its file.
LEMMA ProcFrame ==
    ASSUME RangeInv, LogInv, CallInv, CtlTypeOK, NEW q \in Proc, call'[q] = call[q],
           call[q].at = "loop" => inode'[call[q].ip] = inode[call[q].ip] /\ SameSlots(call[q].ip),
           SameOff(q)
    PROVE  RangeSane(q)' /\ LogSane(q)'
  <1>0. RangeSane(q) /\ LogSane(q) /\ CallSane(q)
    BY DEF RangeInv, LogInv, CallInv
  <1>1. call[q].at = "loop" /\ call[q].op # "create" => FOff(q)' = FOff(q)
    BY DEF SameOff, FOff
  <1>2. RangeSane(q)'
    BY <1>0, <1>1 DEF RangeSane, Loops, CallSane
  <1>3. CASE Loops(q, "write")
    <2>1. /\ FOff(q)' = FOff(q) /\ inode'[call[q].ip] = inode[call[q].ip]
          /\ SameSlots(call[q].ip)
      BY <1>1, <1>3 DEF Loops
    <2>2. ChunkBlocks(q)' = ChunkBlocks(q)
      BY <2>1 DEF ChunkBlocks
    <2>3. ASSUME NEW x \in call[q].logged PROVE Logged(q, x)'
      <3>1. Logged(q, x)
        BY <1>0, <1>3 DEF LogSane
      <3>2. ASSUME NEW n \in ChunkBlocks(q), n < MAXFILE
            PROVE  Own'[<<call[q].ip, SlotOf(n)>>] = Own[<<call[q].ip, SlotOf(n)>>]
        <4>1. n \in 0..(MAXFILE - 1)
          <5>1. call[q].f \in File /\ call[q].n \in Nat
            BY <1>0, <1>3 DEF CallSane, InFile, Loops, CtlTypeOK, Call
          <5>2. FOff(q) \in Nat
            BY <5>1 DEF FOff, CtlTypeOK, OFile
          <5>3. FOff(q) \div BSIZE \in Nat
            BY <5>2, DivMod
          <5>4. (FOff(q) + call[q].n - 1) \div BSIZE \in Int
            BY <5>1, <5>2, Consts
          <5> QED BY <3>2, <5>3, <5>4, Consts DEF ChunkBlocks
        <4> QED BY <2>1, <4>1, SlotIn DEF SameSlots
      <3>3. Logged(q, x)'
        BY <2>1, <2>2, <3>1, <3>2 DEF Logged
      <3> QED BY <3>3
    <2>4. LogSane(q)'
      BY <1>3, <2>3 DEF LogSane, Loops
    <2> QED BY <1>2, <2>4
  <1>4. CASE ~Loops(q, "write")
    BY <1>0, <1>2, <1>4 DEF LogSane, Few, Loops
  <1> QED BY <1>3, <1>4

\* Another process that is in the loop.
LEMMA LoopOther ==
    ASSUME CtlInv, ~panicked, NEW q \in Proc, call[q].at = "loop"
    PROVE  /\ call[q].ip \in Inode /\ lock[call[q].ip] = q /\ ref[call[q].ip] # 0
           /\ call[q].op # "create" =>
                /\ call[q].f \in File /\ ftable[call[q].f].ref # 0
                /\ ftable[call[q].f].ip = call[q].ip
  <1>0. CtlTypeOK /\ LockInv /\ CallInv /\ FileInv
    BY DEF CtlInv
  <1>1. call[q].ip \in Inode /\ lock[call[q].ip] = q
    BY <1>0 DEF CtlTypeOK, Call, LockInv
  <1>2. ref[call[q].ip] # 0
    BY <1>1, LockedRef, Procs
  <1>3. ASSUME call[q].op # "create"
        PROVE  /\ call[q].f \in File /\ ftable[call[q].f].ref # 0
               /\ ftable[call[q].f].ip = call[q].ip
    <2>1. InFile(q)
      BY <1>0, <1>3 DEF InFile, CallInv, CallSane, CtlTypeOK, Call, Op
    <2>2. call[q].f \in File /\ ftable[call[q].f].ip = call[q].ip /\ \E d \in Fd : ofile[q][d] = call[q].f
      BY <1>0, <2>1 DEF CallInv, CallSane
    <2> QED BY <1>0, <2>2, FdOpen
  <1> QED BY <1>1, <1>2, <1>3

\* The inodes that p does not hold.
LEMMA OthersKept ==
    ASSUME CtlInv, NEW p \in Proc, Only(p), NEW i \in Inode, lock'[i] = lock[i], lock[i] # p,
           inode'[i] = inode[i] \/ ref[i] = 0, \A q \in Proc : q # p => SameOff(q)
    PROVE  Kept(i) /\ Freed(i)' = Freed(i)
  <1>0. lock[i] \in Proc \cup {NoProc}
    BY DEF CtlInv, CtlTypeOK
  <1>1. CASE lock[i] = NoProc
    BY <1>1 DEF Kept, Still, Writing, Truncating, Freed
  <1>2. CASE lock[i] # NoProc
    <2>1. lock[i] \in Proc /\ call'[lock[i]] = call[lock[i]]
      BY <1>0, <1>2 DEF Only
    <2>2. inode'[i] = inode[i]
      BY <1>2, LockedRef
    <2>3. Freed(i)' = Freed(i)
      BY <1>2, <2>1 DEF Freed
    <2>4. Writing(i)' = Writing(i) /\ Truncating(i)' = Truncating(i)
      BY <1>2, <2>1 DEF Writing, Truncating, Loops
    <2>5. Kept(i)
      BY <2>1, <2>2, <2>4 DEF Kept, Still
    <2> QED BY <2>3, <2>5
  <1> QED BY <1>1, <1>2

\* A step that changes neither the disk nor what is in the cache.
Follows(i) == Kept(i) \/ (ThroughSane(i)' /\ (SameSlots(i) => HoleSane(i)'))

\* A step that does not change what is on the disk or in the cache.
LEMMA QuietData ==
    ASSUME DInv, CtlInv', ~panicked, NEW p \in Proc, Only(p),
           UNCHANGED <<bitmap, blk, dinode>>, inode' \in [Inode -> Dinode],
           \A i \in Inode : inode'[i] = inode[i] \/ ref[i] = 0,
           \A i \in Inode : Loaded(i)' = Loaded(i),
           \A i \in Inode : Freed(i)' = Freed(i),
           \A q \in Proc : q # p => SameOff(q),
           \A i \in Inode : Follows(i),
           RangeSane(p)', LogSane(p)', FreeInv', TruncInv'
    PROVE  DInv'
  <1>0. CtlInv /\ CtlTypeOK /\ RangeInv /\ LogInv /\ CallInv /\ HeadInv /\ ThroughInv /\ HoleInv
    BY DEF DInv, CtlInv
  <1>1. DskTypeOK' /\ OwnInv' /\ DirInv' /\ \A i \in Inode : SameSlots(i)
    BY OwnFrame
  <1>2. ASSUME NEW i \in Inode PROVE HeadSane(i)' /\ ThroughSane(i)' /\ HoleSane(i)'
    <2>1. CASE Kept(i)
      BY <1>0, <1>1, <2>1, InodeFrame
    <2>2. CASE ~Kept(i)
      <3>1. HeadSane(i)
        BY <1>0 DEF HeadInv
      <3>2. HeadSane(i)'
        BY <3>1 DEF HeadSane, Loaded
      <3> QED BY <1>1, <2>2, <3>2 DEF Follows
    <2> QED BY <2>1, <2>2
  <1>3. ASSUME NEW q \in Proc PROVE RangeSane(q)' /\ LogSane(q)'
    <2>1. CASE q = p
      BY <2>1
    <2>2. CASE q # p
      <3>1. call'[q] = call[q] /\ SameOff(q)
        BY <2>2 DEF Only
      <3>2. call[q].at = "loop" => inode'[call[q].ip] = inode[call[q].ip] /\ SameSlots(call[q].ip)
        BY <1>0, <1>1, LoopOther
      <3> QED BY <1>0, <3>1, <3>2, ProcFrame
    <2> QED BY <2>1, <2>2
  <1>4. RangeInv' /\ LogInv'
    BY <1>3 DEF RangeInv, LogInv
  <1>5. HeadInv' /\ ThroughInv' /\ HoleInv'
    BY <1>2 DEF HeadInv, ThroughInv, HoleInv
  <1> QED BY <1>1, <1>4, <1>5 DEF DInv

\* Free inodes and the one that itrunc() is at.
LEMMA RefsFrame ==
    ASSUME FreeInv, TruncInv, NEW p \in Proc, Only(p), dinode' = dinode,
           \A i \in Inode : dinode[i].type = "free" =>
              /\ lock'[i] = NoProc /\ Opened(i)' = {}
              /\ Putting(i)' \subseteq Putting(i)
              /\ p \in Putting(i)' => call'[p].at = "drop",
           \A q \in Proc : q # p /\ call[q].at = "trunc" =>
              Opened(call[q].ip)' = Opened(call[q].ip) /\ Putting(call[q].ip)' = Putting(call[q].ip),
           TruncSane(p)'
    PROVE  FreeInv' /\ TruncInv'
  <1>1. ASSUME NEW i \in Inode PROVE FreeSane(i)'
    <2>1. SUFFICES ASSUME dinode[i].type = "free"
                   PROVE  /\ lock'[i] = NoProc /\ dinode'[i] = FreeInode /\ Opened(i)' = {}
                          /\ \A q \in Putting(i)' : call'[q].at = "drop"
      BY DEF FreeSane
    <2>2. FreeSane(i)
      BY DEF FreeInv
    <2>3. ASSUME NEW q \in Putting(i)' PROVE call'[q].at = "drop"
      <3>1. q \in Proc /\ q \in Putting(i)
        BY <2>1, <2>3 DEF Putting
      <3>2. CASE q = p
        BY <2>1, <2>3, <3>2
      <3>3. CASE q # p
        BY <2>1, <2>2, <3>1, <3>3 DEF FreeSane, Only
      <3> QED BY <3>2, <3>3
    <2> QED BY <2>1, <2>2, <2>3 DEF FreeSane
  <1>2. ASSUME NEW q \in Proc, q # p PROVE TruncSane(q)'
    <2>1. TruncSane(q) /\ call'[q] = call[q]
      BY <1>2 DEF TruncInv, Only
    <2>2. SUFFICES ASSUME call[q].at = "trunc"
                   PROVE  /\ Opened(call[q].ip)' = {} /\ Putting(call[q].ip)' = {q}
                          /\ dinode[call[q].ip].nlink = 0
      BY <2>1 DEF TruncSane, Opened, Putting
    <2> QED BY <1>2, <2>1, <2>2 DEF TruncSane
  <1> QED BY <1>1, <1>2 DEF FreeInv, TruncInv

\* A step of a call on a file.
LEMMA QuietRefs ==
    ASSUME FreeInv, TruncInv, NEW p \in Proc, Only(p), dinode' = dinode, SameRefs,
           call'[p].at \notin Iput, CtlTypeOK,
           \A i \in Inode : dinode[i].type = "free" => lock'[i] = NoProc
    PROVE  FreeInv' /\ TruncInv'
  <1>1. TruncSane(p)'
    BY DEF TruncSane, Iput
  <1>2. ASSUME NEW i \in Inode, dinode[i].type = "free"
        PROVE  /\ lock'[i] = NoProc /\ Opened(i)' = {} /\ Putting(i)' \subseteq Putting(i)
               /\ p \in Putting(i)' => call'[p].at = "drop"
    <2>1. FreeSane(i) /\ Opened(i)' = Opened(i) /\ Putting(i)' = Putting(i)
      BY DEF FreeInv, SameRefs
    <2>2. p \notin Putting(i)'
      BY DEF Putting
    <2> QED BY <1>2, <2>1, <2>2 DEF FreeSane
  <1>3. \A q \in Proc : q # p /\ call[q].at = "trunc" =>
          Opened(call[q].ip)' = Opened(call[q].ip) /\ Putting(call[q].ip)' = Putting(call[q].ip)
    <2>1. \A q \in Proc : call[q].ip \in Inode
      BY DEF CtlTypeOK, Call
    <2>2. ASSUME NEW q \in Proc, q # p
          PROVE  Opened(call[q].ip)' = Opened(call[q].ip) /\ Putting(call[q].ip)' = Putting(call[q].ip)
      <3>1. PICK i \in Inode : i = call[q].ip
        BY <2>1
      <3>2. call'[q].ip = i
        BY <2>2, <3>1 DEF Only
      <3>3. Opened(i)' = Opened(i) /\ Putting(i)' = Putting(i)
        BY DEF SameRefs
      <3> QED BY <3>1, <3>2, <3>3 DEF Opened, Putting
    <2> QED BY <2>2
  <1> QED BY <1>1, <1>2, <1>3, RefsFrame

SameOffs == \A f \in File : ftable[f].ref # 0 => ftable'[f].off = ftable[f].off

\* Offsets of files that are open stay, and so do those of the loops.
LEMMA SameOffOthers ==
    ASSUME CtlInv, ~panicked, SameOffs
    PROVE  \A q \in Proc : SameOff(q)
  BY LoopOther DEF SameOffs, SameOff

\* A step of a process that holds no lock before and after.
LEMMA FreeStep ==
    ASSUME DInv, CtlInv', ~panicked, NEW p \in Proc, Only(p), ~Locks(p), ~Locks(p)', lock' = lock,
           UNCHANGED <<bitmap, blk, dinode>>, inode' \in [Inode -> Dinode],
           \A i \in Inode : inode'[i] = inode[i] \/ ref[i] = 0,
           \A i \in Inode : Loaded(i)' = Loaded(i),
           SameOffs, Few(call'[p].logged), FreeInv', TruncInv'
    PROVE  DInv'
  <1>0. CtlInv /\ CtlTypeOK /\ LockInv
    BY DEF DInv, CtlInv
  <1>1. \A q \in Proc : SameOff(q)
    BY <1>0, SameOffOthers
  <1>2. ASSUME NEW i \in Inode PROVE Kept(i) /\ Freed(i)' = Freed(i)
    <2>1. lock[i] # p
      BY <1>0, Procs DEF LockInv
    <2> QED BY <1>0, <1>1, <2>1, OthersKept
  <1>3. RangeSane(p)' /\ LogSane(p)'
    BY DEF RangeSane, LogSane, Few, Loops, Locks
  <1>4. \A i \in Inode : Follows(i)
    BY <1>2 DEF Follows
  <1>5. (\A i \in Inode : Freed(i)' = Freed(i)) /\ \A q \in Proc : q # p => SameOff(q)
    BY <1>1, <1>2
  <1> QED BY <1>3, <1>4, <1>5, QuietData

\* Outside the loop a call has logged few blocks.
LEMMA IdleLogged ==
    ASSUME LogInv, NEW p \in Proc, call[p].at # "loop"
    PROVE  Few(call[p].logged)
  BY DEF LogInv, LogSane, Loops

\* A process outside the kernel holds no lock.
LEMMA UserIs ==
    ASSUME NEW p \in Proc, User(p) \/ At(p, "user")
    PROVE  call[p].at = "user" /\ ~Locks(p) /\ ~panicked /\ call[p].at \notin Iput
  BY DEF User, At, Locks, Iput

\* The call stays: dup(), fork(), exit(), close() of a file that stays open.
LEMMA UserStep ==
    ASSUME DInv, CtlInv', NEW p \in Proc, User(p) \/ At(p, "user"), SameRefs, SameOffs,
           UNCHANGED <<bitmap, blk, dinode, inode, ref, lock, call>>
    PROVE  DInv'
  <1>0. CtlInv /\ CtlTypeOK /\ FreeInv /\ TruncInv /\ LogInv /\ DskTypeOK
    BY DEF DInv, CtlInv
  <1>1. call[p].at = "user" /\ ~Locks(p) /\ ~panicked /\ call[p].at \notin Iput
    BY UserIs
  <1>2. Only(p) /\ ~Locks(p)' /\ call'[p].at \notin Iput
    BY <1>1 DEF Only, Locks
  <1>3. \A i \in Inode : dinode[i].type = "free" => lock'[i] = NoProc
    BY <1>0 DEF FreeInv, FreeSane
  <1>4. FreeInv' /\ TruncInv'
    BY <1>0, <1>2, <1>3, QuietRefs
  <1>5. Few(call'[p].logged)
    BY <1>0, <1>1, IdleLogged
  <1>6. /\ inode' \in [Inode -> Dinode] /\ \A i \in Inode : inode'[i] = inode[i] \/ ref[i] = 0
        /\ \A i \in Inode : Loaded(i)' = Loaded(i)
    BY <1>0 DEF DskTypeOK, Loaded
  <1> QED BY <1>1, <1>2, <1>4, <1>5, <1>6, FreeStep

\* dup() keeps the invariant.
LEMMA DupStep ==
    ASSUME DInv, NEW p \in Proc, NEW d \in Fd, Dup(p, d) PROVE DInv'
  <1>1. CtlInv' /\ SameRefs /\ \A f \in File : ftable'[f].off = ftable[f].off
    BY DupCtl DEF DInv
  <1>2. User(p) /\ UNCHANGED <<bitmap, blk, dinode, inode, ref, lock, call>>
    BY DEF Dup
  <1> QED BY <1>1, <1>2, UserStep DEF SameOffs

\* fork() keeps the invariant.
LEMMA ForkStep ==
    ASSUME DInv, NEW p \in Proc, NEW c \in Proc, Fork(p, c) PROVE DInv'
  <1>1. CtlInv' /\ SameRefs /\ \A f \in File : ftable'[f].off = ftable[f].off
    BY ForkCtl DEF DInv
  <1>2. User(p) /\ UNCHANGED <<bitmap, blk, dinode, inode, ref, lock, call>>
    BY DEF Fork
  <1> QED BY <1>1, <1>2, UserStep DEF SameOffs

\* exit() keeps the invariant.
LEMMA ExitStep ==
    ASSUME DInv, NEW p \in Proc, Exit(p) PROVE DInv'
  <1>1. /\ User(p) /\ UNCHANGED <<bitmap, blk, dinode, inode, ref, lock, ftable, ofile, call, panicked>>
        /\ pstate' = [pstate EXCEPT ![p] = "exit"]
    BY DEF Exit
  <1>2. CtlInv' /\ SameRefs
    BY <1>1, ExitCtl DEF DInv
  <1> QED BY <1>1, <1>2, UserStep DEF SameOffs

\* Somebody gives up an open file.
LEMMA CloseStep ==
    ASSUME DInv, NEW p \in Proc, NEW d \in Fd, argfd(p, d), fileclose(p, d),
           At(p, "user"), pstate[p] # "unused", pstate' = pstate
    PROVE  DInv'
  <1>0. CtlInv /\ CtlTypeOK /\ FreeInv /\ TruncInv /\ LogInv /\ DskTypeOK
    BY DEF DInv, CtlInv
  <1>1. UNCHANGED <<bitmap, blk, dinode, inode, ref, lock, panicked>>
    BY DEF fileclose
  <1>2. /\ CtlInv' /\ SameOffs
        /\ \/ SameRefs /\ call' = call
           \/ \E f \in File, i \in Inode : Closed(p, f, i)
    BY <1>0, CloseCtl DEF SameOffs
  <1>3. CASE SameRefs /\ call' = call
    BY <1>1, <1>2, <1>3, UserStep
  <1>4. ASSUME NEW f \in File, NEW i \in Inode, Closed(p, f, i) PROVE DInv'
    <2>1. call[p].at = "user" /\ ~Locks(p) /\ ~panicked /\ call[p].at \notin Iput
      BY UserIs
    <2>2. call'[p] = PutCall(i, {}) /\ Only(p)
      BY <1>0, <1>4, PutCallIs, CallStep DEF Closed, CtlTypeOK
    <2>3. /\ call'[p].at = "put" /\ call'[p].logged = {} /\ ~Locks(p)'
      BY <2>2, PutCallIs DEF Locks
    <2>4. TruncSane(p)'
      BY <2>3 DEF TruncSane
    <2>5. ASSUME NEW k \in Inode, dinode[k].type = "free"
          PROVE  /\ lock'[k] = NoProc /\ Opened(k)' = {} /\ Putting(k)' \subseteq Putting(k)
                 /\ p \in Putting(k)' => call'[p].at = "drop"
      <3>1. FreeSane(k)
        BY <1>0 DEF FreeInv
      <3>2. k # i
        BY <1>4, <2>5, <3>1 DEF Closed, FreeSane
      <3>3. Opened(k)' = Opened(k) /\ Putting(k)' = Putting(k) /\ p \notin Putting(k)
        BY <1>4, <2>1, <3>2 DEF Closed, Putting
      <3> QED BY <1>1, <2>5, <3>1, <3>3 DEF FreeSane
    <2>6. ASSUME NEW q \in Proc, q # p, call[q].at = "trunc"
          PROVE  Opened(call[q].ip)' = Opened(call[q].ip) /\ Putting(call[q].ip)' = Putting(call[q].ip)
      <3>1. PICK k \in Inode : k = call[q].ip
        BY <1>0 DEF CtlTypeOK, Call
      <3>2. call'[q].ip = k
        BY <2>2, <2>6, <3>1 DEF Only
      <3>3. k # i
        BY <1>0, <1>4, <2>6, <3>1 DEF TruncInv, TruncSane, Closed
      <3>4. Opened(k)' = Opened(k) /\ Putting(k)' = Putting(k)
        BY <1>4, <3>3 DEF Closed
      <3> QED BY <3>1, <3>2, <3>4 DEF Opened, Putting
    <2>7. FreeInv' /\ TruncInv'
      <3>1. dinode' = dinode
        BY <1>1
      <3> QED BY <1>0, <2>2, <2>4, <2>5, <2>6, <3>1, RefsFrame
    <2>8. /\ inode' \in [Inode -> Dinode] /\ \A k \in Inode : inode'[k] = inode[k] \/ ref[k] = 0
          /\ \A k \in Inode : Loaded(k)' = Loaded(k)
      BY <1>0, <1>1, <2>3 DEF DskTypeOK, Loaded
    <2>9. Few(call'[p].logged) /\ UNCHANGED <<bitmap, blk, dinode>> /\ lock' = lock
      BY <1>1, <2>3, FewNone
    <2> QED BY <1>2, <2>1, <2>2, <2>3, <2>7, <2>8, <2>9, FreeStep
  <1> QED BY <1>2, <1>3, <1>4

\* exit() closing a descriptor keeps the invariant.
LEMMA ExitCloseStep ==
    ASSUME DInv, NEW p \in Proc, ExitClose(p) PROVE DInv'
  <1>0. CtlInv /\ CtlTypeOK
    BY DEF DInv, CtlInv
  <1>1. pstate[p] = "exit" /\ At(p, "user")
    BY DEF ExitClose
  <1>2. CASE \E d \in Fd : argfd(p, d)
    <2>1. PICK S, d : S = {e \in Fd : argfd(p, e)} /\ d = Min(S)
      OBVIOUS
    <2>2. d \in S
      <3>1. S \subseteq Nat /\ S # {}
        BY <1>2, <2>1 DEF Fd
      <3> QED BY <2>1, <3>1, MinNat
    <2>3. d \in Fd /\ argfd(p, d)
      BY <2>1, <2>2
    <2>4. fileclose(p, d) /\ pstate' = pstate
      BY <1>2, <2>1 DEF ExitClose
    <2> QED BY <1>1, <2>3, <2>4, CloseStep
  <1>3. CASE ~\E d \in Fd : argfd(p, d)
    <2>1. /\ pstate' = [pstate EXCEPT ![p] = "unused"]
          /\ UNCHANGED <<bitmap, blk, dinode, inode, ref, lock, ftable, ofile, call, panicked>>
      BY <1>3 DEF ExitClose
    <2>2. CtlInv' /\ SameRefs
      BY <1>0, <1>1, <1>3, <2>1, ExitCtl
    <2> QED BY <1>1, <2>1, <2>2, UserStep DEF SameOffs
  <1> QED BY <1>2, <1>3

\* The root directory is never written to or cut off; its bytes are the entries.
LEMMA RootStill ==
    DInv => /\ Still(ROOTINO) /\ ROOTINO \in Inode /\ Loaded(ROOTINO) = dinode[ROOTINO]
            /\ inode[ROOTINO] = dinode[ROOTINO] /\ ref[ROOTINO] # 0
            /\ dinode[ROOTINO].size \in Nat
            /\ Len(Content(ROOTINO)) = dinode[ROOTINO].size /\ Content(ROOTINO) \in Seq(Value)
            /\ \A k \in 1..dinode[ROOTINO].size : Content(ROOTINO)[k] = Entry[k]
  <1>0. SUFFICES ASSUME DInv
        PROVE  /\ Still(ROOTINO) /\ ROOTINO \in Inode /\ Loaded(ROOTINO) = dinode[ROOTINO]
               /\ inode[ROOTINO] = dinode[ROOTINO] /\ ref[ROOTINO] # 0
               /\ dinode[ROOTINO].size \in Nat
               /\ Len(Content(ROOTINO)) = dinode[ROOTINO].size /\ Content(ROOTINO) \in Seq(Value)
               /\ \A k \in 1..dinode[ROOTINO].size : Content(ROOTINO)[k] = Entry[k]
    OBVIOUS
  <1>a. /\ CtlInv /\ CtlTypeOK /\ DskTypeOK /\ OwnInv /\ DirInv /\ HeadInv /\ HoleInv
        /\ ThroughInv /\ CallInv /\ LockInv /\ TruncInv /\ ROOTINO \in Inode
    BY <1>0, Consts DEF DInv, CtlInv
  <1>1. \A q \in Proc : lock[ROOTINO] = q => call[q].ip = ROOTINO
    BY <1>a, Procs DEF LockInv
  <1>2. ASSUME Writing(ROOTINO) PROVE FALSE
    <2>1. lock[ROOTINO] \in Proc
      BY <1>a, <1>2 DEF Writing, CtlTypeOK
    <2> QED BY <1>a, <1>1, <1>2, <2>1 DEF Writing, Loops, CallInv, CallSane
  <1>3. ASSUME Truncating(ROOTINO) PROVE FALSE
    <2>1. lock[ROOTINO] \in Proc
      BY <1>a, <1>3 DEF Truncating, CtlTypeOK
    <2>2. TruncSane(lock[ROOTINO])
      BY <1>a, <2>1 DEF TruncInv
    <2> QED BY <1>a, <1>1, <1>3, <2>1, <2>2 DEF Truncating, TruncSane, DirInv, DirSound
  <1>4. Still(ROOTINO)
    BY <1>2, <1>3 DEF Still
  <1>5. Loaded(ROOTINO) = dinode[ROOTINO]
    BY <1>a, <1>4 DEF ThroughInv, ThroughSane
  <1>6. ref[ROOTINO] # 0
    BY <1>a, RootHead
  <1>7. inode[ROOTINO] = dinode[ROOTINO]
    BY <1>5, <1>6 DEF Loaded
  <1>8. PICK s : s = dinode[ROOTINO].size
    OBVIOUS
  <1>9. s = Loaded(ROOTINO).size /\ s \in Nat
    BY <1>a, <1>5, <1>8, LoadedType
  <1>10. /\ Content(ROOTINO) \in Seq(Value) /\ Len(Content(ROOTINO)) = s
         /\ \A k \in 1..s : Content(ROOTINO)[k]
               = blk[Own[<<ROOTINO, SlotOf((k - 1) \div BSIZE)>>]][(k - 1) % BSIZE]
    BY <1>a, <1>4, <1>9, ContentType
  <1>11. \A k \in 1..s : Content(ROOTINO)[k] = Entry[k]
    BY <1>8, <1>10 DEF Entry
  <1> QED BY <1>a, <1>4, <1>5, <1>6, <1>7, <1>8, <1>9, <1>10, <1>11

\* A name of the directory.
LEMMA NamedIs ==
    ASSUME DInv, NEW i \in Named
    PROVE  /\ i \in Inode /\ i # ROOTINO /\ dinode[i].type = "file" /\ dinode[i].nlink = 1
           /\ \E k \in 3..dinode[ROOTINO].size : Entry[k] = i
  <1>0. DirInv
    BY DEF DInv
  <1>1. PICK s, c : s = dinode[ROOTINO].size /\ c = Content(ROOTINO)
    OBVIOUS
  <1>2. /\ s \in Nat /\ c \in Seq(Value) /\ Len(c) = s /\ Loaded(ROOTINO).size = s
        /\ \A k \in 1..s : c[k] = Entry[k]
    BY <1>1, RootStill
  <1>3. i \in Inode /\ i \in Range(SubSeq(c, 3, s))
    BY <1>1, <1>2 DEF Named
  <1>4. PICK t : t = SubSeq(c, 3, s)
    OBVIOUS
  <1>5. PICK j \in DOMAIN t : t[j] = i
    BY <1>3, <1>4 DEF Range
  <1>6. s >= 2
    BY <1>0, <1>1 DEF DirInv, DirSound
  <1>7. Len(t) = s - 2 /\ t \in Seq(Value)
    BY <1>2, <1>4, <1>6
  <1>8. j \in 1..(s - 2)
    BY <1>5, <1>7
  <1>9. t[j] = c[j + 2]
    BY <1>2, <1>4, <1>6, <1>8
  <1>10. j + 2 \in 3..s /\ j + 2 \in 1..s
    BY <1>2, <1>8
  <1>11. Entry[j + 2] = i
    BY <1>2, <1>5, <1>9, <1>10
  <1>12. \E k \in 3..s : Entry[k] = i
    BY <1>10, <1>11
  <1>13. i # ROOTINO
    BY <1>0, <1>1, <1>10, <1>11 DEF DirInv, DirSound
  <1>14. dinode[i].type = "file" /\ dinode[i].nlink = 1
    BY <1>0, <1>1, <1>3, <1>12, <1>13 DEF DirInv, DirSound
  <1> QED BY <1>1, <1>3, <1>12, <1>13, <1>14

\* A call that has ended with a reference to i, which is not free.
LEMMA EndedRefs ==
    ASSUME FreeInv, TruncInv, CtlInv, NEW p \in Proc, NEW i \in Inode, Ended(p, i),
           dinode' = dinode, dinode[i].type # "free", lock[i] = NoProc,
           \A k \in Inode : dinode[k].type = "free" => lock'[k] = NoProc, call[p].at \notin Iput
    PROVE  FreeInv' /\ TruncInv'
  <1>0. CtlTypeOK /\ LockInv /\ Only(p)
    BY DEF CtlInv, Ended
  <1>1. TruncSane(p)'
    BY EndCallIs, PutCallIs DEF TruncSane, Ended
  <1>2. ASSUME NEW k \in Inode, dinode[k].type = "free"
        PROVE  /\ lock'[k] = NoProc /\ Opened(k)' = {} /\ Putting(k)' \subseteq Putting(k)
               /\ p \in Putting(k)' => call'[p].at = "drop"
    <2>1. Opened(k)' = Opened(k) /\ Putting(k)' = Putting(k) /\ FreeSane(k)
      BY <1>2 DEF Ended, FreeInv
    <2>2. p \notin Putting(k)
      BY DEF Putting
    <2> QED BY <1>2, <2>1, <2>2 DEF FreeSane
  <1>3. ASSUME NEW q \in Proc, q # p, call[q].at = "trunc"
        PROVE  Opened(call[q].ip)' = Opened(call[q].ip) /\ Putting(call[q].ip)' = Putting(call[q].ip)
    <2>1. PICK k \in Inode : k = call[q].ip
      BY <1>0 DEF CtlTypeOK, Call
    <2>2. call'[q].ip = k
      BY <1>0, <1>3, <2>1 DEF Only
    <2>3. k # i
      BY <1>0, <1>3, <2>1, Procs DEF LockInv
    <2>4. Opened(k)' = Opened(k) /\ Putting(k)' = Putting(k)
      BY <2>3 DEF Ended
    <2> QED BY <2>1, <2>2, <2>4 DEF Opened, Putting
  <1> QED BY <1>0, <1>1, <1>2, <1>3, RefsFrame

\* open() keeps the invariant.
LEMMA OpenStep ==
    ASSUME DInv, NEW p \in Proc, NEW i \in Inode, Open(p, i) PROVE DInv'
  <1>0. CtlInv /\ CtlTypeOK /\ FreeInv /\ TruncInv /\ LogInv /\ DskTypeOK /\ DirInv
    BY DEF DInv, CtlInv
  <1>1. /\ User(p) /\ i \in Named \cup {ROOTINO} /\ lock[i] = NoProc
        /\ inode' = [inode EXCEPT ![i] = Loaded(i)]
        /\ UNCHANGED <<bitmap, blk, dinode, lock>>
    BY DEF Open, CanLock
  <1>2. CtlInv' /\ Ended(p, i) /\ ref' = [ref EXCEPT ![i] = @ + 1]
    BY <1>0, OpenCtl
  <1>3. call[p].at = "user" /\ ~Locks(p) /\ ~panicked /\ call[p].at \notin Iput
    BY <1>1, UserIs
  <1>4. dinode[i].type # "free"
    BY <1>0, <1>1, NamedIs DEF DirInv, DirSound
  <1>5. \A k \in Inode : dinode[k].type = "free" => lock'[k] = NoProc
    BY <1>0, <1>1 DEF FreeInv, FreeSane
  <1>6. FreeInv' /\ TruncInv'
    <2>1. dinode' = dinode
      BY <1>1
    <2> QED BY <1>0, <1>1, <1>2, <1>3, <1>4, <1>5, <2>1, EndedRefs
  <1>7. /\ inode' \in [Inode -> Dinode]
        /\ \A k \in Inode : inode'[k] = IF k = i THEN Loaded(i) ELSE inode[k]
    BY <1>0, <1>1, LoadedType DEF DskTypeOK
  <1>8. \A k \in Inode : inode'[k] = inode[k] \/ ref[k] = 0
    BY <1>7 DEF Loaded
  <1>9. ASSUME NEW k \in Inode PROVE Loaded(k)' = Loaded(k)
    <2>1. CASE k = i
      <3>1. ref'[i] # 0
        BY <1>0, <1>2 DEF CtlTypeOK
      <3> QED BY <1>7, <2>1, <3>1 DEF Loaded
    <2>2. CASE k # i
      <3>1. ref'[k] = ref[k] /\ inode'[k] = inode[k] /\ dinode'[k] = dinode[k]
        BY <1>0, <1>1, <1>2, <1>7, <2>2 DEF CtlTypeOK
      <3> QED BY <3>1 DEF Loaded
    <2> QED BY <2>1, <2>2
  <1>10. /\ Only(p) /\ ~Locks(p)' /\ SameOffs /\ Few(call'[p].logged)
    BY <1>2, EndCallIs, PutCallIs DEF Ended, Locks, SameOffs
  <1>11. UNCHANGED <<bitmap, blk, dinode>> /\ lock' = lock
    BY <1>1
  <1> QED BY <1>2, <1>3, <1>6, <1>7, <1>8, <1>9, <1>10, <1>11, FreeStep

\* The call changes, and nothing else.
LEMMA CallOnly ==
    ASSUME DInv, CtlInv', SameRefs, ~panicked, NEW p \in Proc, Only(p), ~Locks(p), ~Locks(p)',
           call'[p].at \notin Iput, call'[p].logged = {},
           UNCHANGED <<bitmap, blk, dinode, inode, ref, lock, ftable>>
    PROVE  DInv'
  <1>0. CtlInv /\ CtlTypeOK /\ FreeInv /\ TruncInv /\ LogInv /\ DskTypeOK
    BY DEF DInv, CtlInv
  <1>3. \A i \in Inode : dinode[i].type = "free" => lock'[i] = NoProc
    BY <1>0 DEF FreeInv, FreeSane
  <1>4. FreeInv' /\ TruncInv'
    BY <1>0, <1>3, QuietRefs
  <1>6. /\ inode' \in [Inode -> Dinode] /\ \A i \in Inode : inode'[i] = inode[i] \/ ref[i] = 0
        /\ \A i \in Inode : Loaded(i)' = Loaded(i)
    BY <1>0 DEF DskTypeOK, Loaded
  <1>7. SameOffs /\ Few(call'[p].logged) /\ UNCHANGED <<bitmap, blk, dinode>>
        /\ lock' = lock
    BY FewNone DEF SameOffs
  <1> QED BY <1>4, <1>6, <1>7, FreeStep

\* The start of filewrite() keeps the invariant.
LEMMA WriteStep ==
    ASSUME DInv, NEW p \in Proc, NEW d \in Fd, NEW n \in WriteArgs, Write(p, d, n) PROVE DInv'
  <1>1. CtlInv' /\ SameRefs
    BY WriteCtl
  <1>2. User(p) /\ UNCHANGED <<bitmap, blk, dinode, inode, ref, lock, ftable>>
    BY DEF Write
  <1>3. PICK f, c : /\ f = ofile[p][d]
                    /\ c = [Idle EXCEPT !.at = "lock", !.op = "write", !.f = f,
                                        !.ip = ftable[f].ip, !.left = n]
    OBVIOUS
  <1>4. c.at = "lock" /\ c.logged = {}
    BY <1>3 DEF Idle
  <1>5. call' = [call EXCEPT ![p] = c] /\ call \in [Proc -> Call]
    BY <1>3 DEF Write, DInv, CtlInv, CtlTypeOK
  <1>6. call'[p] = c /\ Only(p)
    BY <1>5 DEF Only
  <1>7. call[p].at = "user" /\ ~Locks(p) /\ ~panicked /\ call[p].at \notin Iput
    BY <1>2, UserIs
  <1>8. ~Locks(p)' /\ call'[p].at \notin Iput /\ call'[p].logged = {}
    BY <1>4, <1>6 DEF Locks, Iput
  <1> QED BY <1>1, <1>2, <1>6, <1>7, <1>8, CallOnly

\* The return from a read, and a write that fails, keep the invariant.
LEMMA ReturnStep ==
    ASSUME DInv, NEW p \in Proc, Return(p) \/ WriteFails(p) PROVE DInv'
  <1>1. CtlInv' /\ SameRefs
    BY ReturnCtl DEF DInv
  <1>2. /\ call' = [call EXCEPT ![p] = Idle] /\ call[p].at \in {"return", "lock"} /\ ~panicked
        /\ UNCHANGED <<bitmap, blk, dinode, inode, ref, lock, ftable>>
    BY DEF Return, WriteFails, At
  <1>3. call \in [Proc -> Call]
    BY DEF DInv, CtlInv, CtlTypeOK
  <1>4. call'[p] = Idle /\ Only(p)
    BY <1>2, <1>3 DEF Only
  <1>5. ~Locks(p)' /\ call'[p].at \notin Iput /\ call'[p].logged = {} /\ ~Locks(p)
    BY <1>2, <1>4, IdleIs DEF Locks, Iput
  <1> QED BY <1>1, <1>2, <1>4, <1>5, CallOnly

\* A step of a process that takes, has or gives back the lock of i.
LEMMA HoldStep ==
    ASSUME DInv, CtlInv', ~panicked, NEW p \in Proc, Only(p), NEW i \in Inode,
           UNCHANGED <<bitmap, blk, dinode, inode, ref>>, Locks(p) => call[p].ip = i,
           \A k \in Inode : k # i => lock'[k] = lock[k],
           \A q \in Proc : q # p => SameOff(q), Freed(i)' = Freed(i), Follows(i),
           RangeSane(p)', LogSane(p)', FreeInv', TruncInv'
    PROVE  DInv'
  <1>0. CtlInv /\ CtlTypeOK /\ LockInv /\ DskTypeOK
    BY DEF DInv, CtlInv
  <1>1. ASSUME NEW k \in Inode, k # i PROVE Kept(k) /\ Freed(k)' = Freed(k)
    <2>1. lock[k] # p
      BY <1>0, <1>1, Procs DEF LockInv
    <2>2. lock'[k] = lock[k]
      BY <1>1
    <2> QED BY <1>0, <2>1, <2>2, OthersKept
  <1>2. \A k \in Inode : Follows(k)
    BY <1>1 DEF Follows
  <1>3. \A k \in Inode : Freed(k)' = Freed(k)
    BY <1>1
  <1>4. /\ inode' \in [Inode -> Dinode] /\ \A k \in Inode : inode'[k] = inode[k] \/ ref[k] = 0
        /\ \A k \in Inode : Loaded(k)' = Loaded(k)
    BY <1>0 DEF DskTypeOK, Loaded
  <1>5. UNCHANGED <<bitmap, blk, dinode>>
    OBVIOUS
  <1> QED BY <1>2, <1>3, <1>4, <1>5, QuietData

\* An open file keeps its inode from being free.
LEMMA OpenNotFree ==
    ASSUME CtlInv, FreeInv, NEW p \in Proc, NEW d \in Fd, argfd(p, d), NEW i, NEW f,
           f = ofile[p][d], i = ftable[f].ip
    PROVE  dinode[i].type # "free" /\ i \in Inode /\ f \in File /\ ref[i] # 0
  <1>0. CtlTypeOK /\ FileInv /\ RefInv
    BY DEF CtlInv
  <1>1. f \in File /\ ftable[f].ref # 0 /\ i \in Inode
    BY <1>0, ArgFd
  <1>2. f \in Opened(i)
    BY <1>1 DEF Opened
  <1>3. dinode[i].type # "free"
    BY <1>1, <1>2 DEF FreeInv, FreeSane
  <1>4. ref[i] # 0
    BY <1>0, <1>1, <1>2, RefPositive
  <1> QED BY <1>1, <1>3, <1>4

\* The lock of i is taken for a loop that does not write.
LEMMA TakeStep ==
    ASSUME DInv, CtlInv', SameRefs, ~panicked, NEW p \in Proc, Only(p), ~Locks(p), NEW i \in Inode,
           lock[i] = NoProc, lock' = [lock EXCEPT ![i] = p], dinode[i].type # "free",
           UNCHANGED <<bitmap, blk, dinode, inode, ref, ftable>>,
           call'[p].at = "loop", call'[p].op \in {"read", "create"}, call'[p].logged = {},
           call'[p].j = 0, RangeSane(p)'
    PROVE  DInv'
  <1>0. CtlInv /\ CtlTypeOK /\ LockInv /\ DskTypeOK /\ FreeInv /\ TruncInv
    BY DEF DInv, CtlInv
  <1>1. \A k \in Inode : lock'[k] = IF k = i THEN p ELSE lock[k]
    BY <1>0 DEF CtlTypeOK
  <1>2. SameOffs
    BY DEF SameOffs
  <1>3. \A q \in Proc : SameOff(q)
    BY <1>0, <1>2, SameOffOthers
  <1>4. Still(i) /\ Still(i)'
    BY <1>1 DEF Still, Writing, Truncating, Loops
  <1>5. Follows(i)
    BY <1>4 DEF Follows, Kept
  <1>6. Freed(i)' = Freed(i)
    BY <1>1 DEF Freed
  <1>7. LogSane(p)'
    BY FewNone DEF LogSane, Few, Loops
  <1>8. \A k \in Inode : dinode[k].type = "free" => lock'[k] = NoProc
    BY <1>0, <1>1 DEF FreeInv, FreeSane
  <1>9. FreeInv' /\ TruncInv'
    BY <1>0, <1>8, QuietRefs DEF Iput
  <1>10. \A k \in Inode : k # i => lock'[k] = lock[k]
    BY <1>1
  <1>11. UNCHANGED <<bitmap, blk, dinode, inode, ref>>
    OBVIOUS
  <1> QED BY <1>3, <1>5, <1>6, <1>7, <1>9, <1>10, <1>11, HoldStep

\* The start of fileread() keeps the invariant.
LEMMA ReadStep ==
    ASSUME DInv, NEW p \in Proc, NEW d \in Fd, Read(p, d) PROVE DInv'
  <1>0. CtlInv /\ CtlTypeOK /\ DskTypeOK /\ FreeInv
    BY DEF DInv, CtlInv
  <1>1. CtlInv' /\ SameRefs
    BY <1>0, ReadCtl
  <1>2. PICK f, i, r, n : /\ f = ofile[p][d] /\ i = ftable[f].ip
                          /\ r = inode[i].size - ftable[f].off /\ n = Min({ReadArg, r})
    OBVIOUS
  <1>3. PICK c : c = [Idle EXCEPT !.op = "read", !.f = f, !.ip = i, !.n = n]
    OBVIOUS
  <1>4. User(p) /\ argfd(p, d) /\ lock[i] = NoProc /\ r >= 0 /\ EnterLoop(p, c)
    BY <1>2, <1>3 DEF Read, CanLock
  <1>5. dinode[i].type # "free" /\ i \in Inode /\ f \in File
    BY <1>0, <1>2, <1>4, OpenNotFree
  <1>6. PICK e : e = [c EXCEPT !.at = "loop"]
    OBVIOUS
  <1>7. /\ c.ip = i /\ e.at = "loop" /\ e.op = "read" /\ e.logged = {} /\ e.j = 0 /\ e.n = n
        /\ e.f = f /\ e.ip = i
    BY <1>3, <1>6 DEF Idle
  <1>8. /\ lock' = [lock EXCEPT ![i] = p] /\ call' = [call EXCEPT ![p] = e]
        /\ UNCHANGED <<bitmap, blk, dinode, inode, ref, ftable>>
    BY <1>4, <1>6, <1>7 DEF EnterLoop
  <1>9. call'[p] = e /\ Only(p)
    BY <1>0, <1>8 DEF Only, CtlTypeOK
  <1>10. call[p].at = "user" /\ ~Locks(p) /\ ~panicked
    BY <1>4, UserIs
  <1>11. RangeSane(p)'
    <2>1. inode[i].size \in Nat /\ ftable[f].off \in Nat
      <3>1. inode[i] \in Dinode /\ ftable[f] \in OFile
        BY <1>0, <1>5 DEF DskTypeOK, CtlTypeOK
      <3>2. inode[i].size \in 0..(MAXFILE * BSIZE) /\ ftable[f].off \in Nat
        BY <3>1 DEF Dinode, OFile
      <3> QED BY <3>2
    <2>20. r = inode[i].size - ftable[f].off
      BY <1>2
    <2>2. r \in Nat /\ ReadArg \in Nat
      BY <1>4, <2>1, <2>20, FileDataAssumption
    <2>3. n \in Nat /\ n <= r
      BY <1>2, <2>2, MinTwo
    <2>4. ftable[f].off + n <= inode[i].size
      BY <2>1, <2>2, <2>3, <2>20
    <2>5. FOff(p)' = ftable[f].off /\ call'[p].ip = i /\ call'[p].n = n /\ inode' = inode
          /\ call'[p].op = "read"
      BY <1>7, <1>8, <1>9 DEF FOff
    <2> QED BY <2>4, <2>5 DEF RangeSane, Loops
  <1>12. call'[p].at = "loop" /\ call'[p].op \in {"read", "create"} /\ call'[p].logged = {}
         /\ call'[p].j = 0
    BY <1>7, <1>9
  <1> QED BY <1>1, <1>4, <1>5, <1>8, <1>9, <1>10, <1>11, <1>12, TakeStep

\* The start of create() keeps the invariant.
LEMMA CreateStep ==
    ASSUME DInv, NEW p \in Proc, Create(p) PROVE DInv'
  <1>0. CtlInv /\ CtlTypeOK /\ DskTypeOK /\ FreeInv /\ DirInv
    BY DEF DInv, CtlInv
  <1>1. CtlInv' /\ SameRefs
    BY <1>0, CreateCtl
  <1>2. PICK n : n = inode[ROOTINO].size
    OBVIOUS
  <1>3. PICK c : c = [Idle EXCEPT !.op = "create", !.n = n]
    OBVIOUS
  <1>4. User(p) /\ lock[ROOTINO] = NoProc /\ EnterLoop(p, c)
    BY <1>2, <1>3 DEF Create, CanLock
  <1>5. dinode[ROOTINO].type # "free" /\ ROOTINO \in Inode
    BY <1>0, Consts DEF DirInv, DirSound
  <1>6. PICK e : e = [c EXCEPT !.at = "loop"]
    OBVIOUS
  <1>7. /\ c.ip = ROOTINO /\ e.at = "loop" /\ e.op = "create" /\ e.logged = {} /\ e.j = 0
        /\ e.n = n
    BY <1>3, <1>6 DEF Idle
  <1>8. /\ lock' = [lock EXCEPT ![ROOTINO] = p] /\ call' = [call EXCEPT ![p] = e]
        /\ UNCHANGED <<bitmap, blk, dinode, inode, ref, ftable>>
    BY <1>4, <1>6, <1>7 DEF EnterLoop
  <1>9. call'[p] = e /\ Only(p)
    BY <1>0, <1>8 DEF Only, CtlTypeOK
  <1>10. call[p].at = "user" /\ ~Locks(p) /\ ~panicked
    BY <1>4, UserIs
  <1>11. RangeSane(p)'
    BY <1>2, <1>7, <1>8, <1>9 DEF RangeSane, Loops
  <1>12. call'[p].at = "loop" /\ call'[p].op \in {"read", "create"} /\ call'[p].logged = {}
         /\ call'[p].j = 0
    BY <1>7, <1>9
  <1> QED BY <1>1, <1>4, <1>5, <1>8, <1>9, <1>10, <1>11, <1>12, TakeStep

\* The offset moves of the file that the process had locked.
LEMMA MovedOff ==
    ASSUME CtlInv, ~panicked, NEW p \in Proc, call[p].at = "loop", call[p].op \in {"read", "write"},
           ftable' = [ftable EXCEPT ![call[p].f].off = @ + call[p].n]
    PROVE  \A q \in Proc : q # p => SameOff(q)
  <1>0. ftable \in [File -> OFile]
    BY DEF CtlInv, CtlTypeOK
  <1>1. /\ call[p].ip \in Inode /\ lock[call[p].ip] = p /\ call[p].f \in File
        /\ ftable[call[p].f].ip = call[p].ip
    BY LoopOther
  <1>2. ASSUME NEW q \in Proc, q # p, call[q].at = "loop", call[q].op # "create"
        PROVE  ftable'[call[q].f].off = ftable[call[q].f].off
    <2>1. /\ call[q].ip \in Inode /\ lock[call[q].ip] = q /\ call[q].f \in File
          /\ ftable[call[q].f].ip = call[q].ip
      BY <1>2, LoopOther
    <2>2. call[q].f # call[p].f
      BY <1>1, <1>2, <2>1
    <2> QED BY <1>0, <1>1, <2>1, <2>2
  <1> QED BY <1>2 DEF SameOff

\* The end of fileread() keeps the invariant.
LEMMA ReadEndStep ==
    ASSUME DInv, NEW p \in Proc, ReadEnd(p) PROVE DInv'
  <1>0. CtlInv /\ CtlTypeOK /\ LockInv /\ DskTypeOK /\ FreeInv /\ TruncInv /\ CallInv
    BY DEF DInv, CtlInv
  <1>1. CtlInv' /\ SameRefs
    BY <1>0, ReadEndCtl
  <1>2. PICK i, c : i = call[p].ip /\ c = [Idle EXCEPT !.at = "return", !.out = call[p].out]
    OBVIOUS
  <1>3. c.at = "return" /\ c.logged = {}
    BY <1>2 DEF Idle
  <1>4. /\ call[p].at = "loop" /\ call[p].op = "read" /\ ~panicked
        /\ ftable' = [ftable EXCEPT ![call[p].f].off = @ + call[p].n]
        /\ lock' = [lock EXCEPT ![i] = NoProc] /\ call' = [call EXCEPT ![p] = c]
        /\ UNCHANGED <<bitmap, blk, dinode, inode, ref>>
    BY <1>2 DEF ReadEnd, LoopDone, At
  <1>5. i \in Inode /\ lock[i] = p
    BY <1>0, <1>2, <1>4, LoopOther
  <1>6. call'[p] = c /\ Only(p)
    BY <1>0, <1>4 DEF Only, CtlTypeOK
  <1>7. \A k \in Inode : lock'[k] = IF k = i THEN NoProc ELSE lock[k]
    BY <1>0, <1>4 DEF CtlTypeOK
  <1>8. \A q \in Proc : q # p => SameOff(q)
    BY <1>0, <1>4, MovedOff
  <1>9. Still(i) /\ Still(i)'
    BY <1>4, <1>5, <1>7 DEF Still, Writing, Truncating, Loops
  <1>10. Follows(i)
    BY <1>9 DEF Follows, Kept
  <1>11. Freed(i)' = Freed(i)
    <2>1. call[p].j = 0
      BY <1>0, <1>4 DEF CallInv, CallSane
    <2> QED BY <1>5, <1>7, <2>1 DEF Freed
  <1>12. RangeSane(p)' /\ LogSane(p)'
    BY <1>3, <1>6, FewNone DEF RangeSane, LogSane, Few, Loops
  <1>13. \A k \in Inode : dinode[k].type = "free" => lock'[k] = NoProc
    BY <1>0, <1>7 DEF FreeInv, FreeSane
  <1>14. FreeInv' /\ TruncInv'
    <2>1. call'[p].at \notin Iput /\ dinode' = dinode
      BY <1>3, <1>4, <1>6 DEF Iput
    <2> QED BY <1>0, <1>1, <1>6, <1>13, <2>1, QuietRefs
  <1>15. (\A k \in Inode : k # i => lock'[k] = lock[k]) /\ (Locks(p) => call[p].ip = i)
         /\ UNCHANGED <<bitmap, blk, dinode, inode, ref>>
    BY <1>2, <1>4, <1>7
  <1> QED BY <1>1, <1>4, <1>5, <1>6, <1>8, <1>10, <1>11, <1>12, <1>14, <1>15, HoldStep

\* The loop goes on, and nothing is written.
LEMMA LoopStep ==
    ASSUME DInv, CtlInv', SameRefs, ~panicked, NEW p \in Proc, Only(p), call[p].at = "loop",
           call'[p].at = "loop", call'[p].op = call[p].op, call'[p].f = call[p].f,
           call'[p].ip = call[p].ip, call'[p].n = call[p].n, call'[p].j = call[p].j,
           call'[p].logged = call[p].logged, call'[p].left = call[p].left,
           call[p].op = "write" => call'[p].tot = call[p].tot,
           lock' = lock \/ (lock' = [lock EXCEPT ![call[p].ip] = NoProc] /\ call[p].op = "create"),
           UNCHANGED <<bitmap, blk, dinode, inode, ref, ftable>>
    PROVE  DInv'
  <1>0. /\ CtlInv /\ CtlTypeOK /\ LockInv /\ DskTypeOK /\ FreeInv /\ TruncInv /\ CallInv
        /\ RangeInv /\ LogInv /\ HoleInv /\ ThroughInv
    BY DEF DInv, CtlInv
  <1>1. PICK i : i = call[p].ip
    OBVIOUS
  <1>2. i \in Inode /\ lock[i] = p /\ ref[i] # 0 /\ p # NoProc
    BY <1>0, <1>1, LoopOther, Procs
  <1>3. SameOffs
    BY DEF SameOffs
  <1>4. \A q \in Proc : SameOff(q)
    BY <1>0, <1>3, SameOffOthers
  <1>5. \A k \in Inode : k # i => lock'[k] = lock[k]
    BY <1>0, <1>1 DEF CtlTypeOK
  <1>6. lock'[i] = p \/ (lock'[i] = NoProc /\ call[p].op = "create")
    BY <1>0, <1>1, <1>2 DEF CtlTypeOK
  <1>7. CallSane(p) /\ RangeSane(p) /\ LogSane(p)
    BY <1>0 DEF CallInv, RangeInv, LogInv
  <1>8. Freed(i)' = Freed(i)
    <2>1. call[p].j = 0
      BY <1>7 DEF CallSane
    <2> QED BY <1>2, <1>6, <2>1 DEF Freed
  <1>9. Kept(i)
    <2>1. CASE call[p].op = "write"
      <3>1. Writing(i) /\ Writing(i)' /\ lock'[i] = lock[i]
        BY <1>2, <1>6, <2>1 DEF Writing, Loops
      <3> QED BY <1>2, <1>4, <2>1, <3>1 DEF Kept
    <2>2. CASE call[p].op # "write"
      <3>1. Still(i) /\ Still(i)'
        BY <1>2, <1>6, <2>2 DEF Still, Writing, Truncating, Loops
      <3> QED BY <3>1 DEF Kept
    <2> QED BY <2>1, <2>2
  <1>10. Follows(i)
    BY <1>9 DEF Follows
  <1>11. RangeSane(p)'
    BY <1>7 DEF RangeSane, Loops, FOff
  <1>12. DskTypeOK' /\ OwnInv' /\ DirInv' /\ \A k \in Inode : SameSlots(k)
    <2>1. \A k \in Inode : Loaded(k)' = Loaded(k)
      BY DEF Loaded
    <2>2. ASSUME NEW k \in Inode PROVE Freed(k)' = Freed(k)
      <3>1. CASE k = i
        BY <1>8, <3>1
      <3>2. CASE k # i
        <4>1. lock[k] # p /\ lock'[k] = lock[k]
          BY <1>0, <1>1, <1>2, <1>5, <3>2 DEF LockInv
        <4>2. inode'[k] = inode[k] \/ ref[k] = 0
          OBVIOUS
        <4>3. \A q \in Proc : q # p => SameOff(q)
          BY <1>4
        <4> QED BY <1>0, <4>1, <4>2, <4>3, OthersKept
      <3> QED BY <3>1, <3>2
    <2>3. inode' \in [Inode -> Dinode] /\ UNCHANGED <<bitmap, blk, dinode>>
      BY <1>0 DEF DskTypeOK
    <2> QED BY <2>1, <2>2, <2>3, OwnFrame
  <1>13. LogSane(p)'
    <2>1. CASE Loops(p, "write")
      <3>1. FOff(p)' = FOff(p) /\ ChunkBlocks(p)' = ChunkBlocks(p)
        BY DEF FOff, ChunkBlocks
      <3>2. ASSUME NEW x \in call[p].logged PROVE Logged(p, x)'
        <4>1. Logged(p, x)
          BY <1>7, <2>1 DEF LogSane
        <4>2. ASSUME NEW n \in ChunkBlocks(p), n < MAXFILE
              PROVE  Own'[<<i, SlotOf(n)>>] = Own[<<i, SlotOf(n)>>]
          <5>1. call[p].f \in File /\ call[p].n \in Nat
            BY <1>0, <1>7, <2>1 DEF CallSane, InFile, Loops, CtlTypeOK, Call
          <5>2. FOff(p) \in Nat
            BY <1>0, <5>1 DEF FOff, CtlTypeOK, OFile
          <5>3. FOff(p) \div BSIZE \in Nat
            BY <5>2, DivMod
          <5>4. (FOff(p) + call[p].n - 1) \div BSIZE \in Int
            BY <5>1, <5>2, Consts
          <5>5. n \in 0..(MAXFILE - 1)
            BY <4>2, <5>3, <5>4, Consts DEF ChunkBlocks
          <5> QED BY <1>2, <1>12, <5>5, SlotIn DEF SameSlots
        <4> QED BY <1>1, <3>1, <4>1, <4>2 DEF Logged
      <3>3. Loops(p, "write")'
        BY <2>1 DEF Loops
      <3> QED BY <3>2, <3>3 DEF LogSane
    <2>2. CASE ~Loops(p, "write")
      BY <1>7, <2>2 DEF LogSane, Loops
    <2> QED BY <2>1, <2>2
  <1>14. FreeInv' /\ TruncInv'
    <2>1. \A k \in Inode : dinode[k].type = "free" => lock'[k] = NoProc
      BY <1>0, <1>2, <1>5, <1>6 DEF FreeInv, FreeSane
    <2> QED BY <1>0, <2>1, QuietRefs DEF Iput
  <1>15. UNCHANGED <<bitmap, blk, dinode, inode, ref>> /\ (Locks(p) => call[p].ip = i)
         /\ \A q \in Proc : q # p => SameOff(q)
    BY <1>1, <1>4
  <1> QED BY <1>2, <1>5, <1>8, <1>10, <1>11, <1>13, <1>14, <1>15, HoldStep

\* A piece that readi() copies keeps the invariant.
LEMMA CopyReadStep ==
    ASSUME DInv, NEW p \in Proc, Copy(p), call[p].op # "write" PROVE DInv'
  <1>0. CtlTypeOK
    BY DEF DInv, CtlInv
  <1>1. CtlInv' /\ SameRefs
    BY CopyCtl
  <1>2. /\ Looping(p) /\ blk' = blk
        /\ UNCHANGED <<bitmap, dinode, inode, ref, lock, ftable, ofile, pstate, panicked>>
    BY CopyIs
  <1>3. PICK c : Copied(p, c)
    BY CopyIs
  <1>4. /\ c \in Call /\ call' = [call EXCEPT ![p] = c] /\ c.at = call[p].at /\ c.op = call[p].op
        /\ c.f = call[p].f /\ c.ip = call[p].ip /\ c.n = call[p].n /\ c.j = call[p].j
        /\ c.left = call[p].left /\ c.logged = call[p].logged
    BY <1>3 DEF Copied
  <1>5. call'[p] = c /\ Only(p)
    BY <1>0, <1>4, CallStep DEF CtlTypeOK
  <1>6. call[p].at = "loop" /\ ~panicked
    BY <1>2 DEF Looping, At
  <1>7. UNCHANGED <<bitmap, blk, dinode, inode, ref, ftable>> /\ lock' = lock
    BY <1>2
  <1> QED BY <1>1, <1>4, <1>5, <1>6, <1>7, LoopStep

\* balloc() or ialloc() has panicked.
LEMMA PanicStep ==
    ASSUME DInv, CtlInv', SameRefs, ~panicked, NEW p \in Proc, call[p].at = "loop", call' = call,
           lock' = lock \/ (lock' = [lock EXCEPT ![call[p].ip] = NoProc] /\ call[p].op = "create"),
           UNCHANGED <<bitmap, blk, dinode, inode, ref, ftable>>
    PROVE  DInv'
  <1>1. Only(p)
    BY DEF Only
  <1> QED BY <1>1, LoopStep

\* The start of a chunk keeps the invariant.
LEMMA WriteLockStep ==
    ASSUME DInv, NEW p \in Proc, WriteLock(p) PROVE DInv'
  <1>0. /\ CtlInv /\ CtlTypeOK /\ LockInv /\ DskTypeOK /\ FreeInv /\ TruncInv /\ CallInv
        /\ HoleInv /\ ThroughInv
    BY DEF DInv, CtlInv
  <1>1. CtlInv' /\ SameRefs
    BY WriteLockCtl
  <1>2. PICK b, i, f, n : b = call[p] /\ i = b.ip /\ f = b.f /\ n = Chunk(p)
    OBVIOUS
  <1>3. PICK e : e = [b EXCEPT !.n = n, !.tot = 0, !.logged = {}, !.before = Content(i)]
    OBVIOUS
  <1>4. /\ b.at = "lock" /\ ~panicked /\ lock[i] = NoProc /\ EnterLoop(p, e)
        /\ ftable[f].off <= inode[i].size /\ ftable[f].off + n <= MAXFILE * BSIZE
    BY <1>2, <1>3 DEF WriteLock, At, CanLock, WriteFits
  <1>5. PICK c : c = [e EXCEPT !.at = "loop"]
    OBVIOUS
  <1>6. b \in Call /\ b.left \in Nat /\ i \in Inode
    BY <1>0, <1>2 DEF CtlTypeOK, Call
  <1>7. /\ e.ip = i /\ c.at = "loop" /\ c.op = b.op /\ c.f = f /\ c.ip = i /\ c.n = n
        /\ c.tot = 0 /\ c.logged = {} /\ c.left = b.left /\ c.j = b.j
    BY <1>2, <1>3, <1>5, <1>6 DEF Call
  <1>8. /\ lock' = [lock EXCEPT ![i] = p] /\ call' = [call EXCEPT ![p] = c]
        /\ UNCHANGED <<bitmap, blk, dinode, inode, ref, ftable>>
    BY <1>4, <1>5, <1>7 DEF EnterLoop
  <1>9. call'[p] = c /\ Only(p)
    BY <1>0, <1>8 DEF Only, CtlTypeOK
  <1>10. /\ b.op = "write" /\ f \in File /\ ftable[f].ip = i /\ \E d \in Fd : ofile[p][d] = f
         /\ b.j = 0
    <2>1. CallSane(p)
      BY <1>0 DEF CallInv
    <2> QED BY <1>2, <1>4, <2>1 DEF CallSane, InFile
  <1>11. dinode[i].type # "free" /\ ref[i] # 0
    <2>1. PICK d \in Fd : ofile[p][d] = f
      BY <1>10
    <2>2. argfd(p, d)
      BY <1>10, <2>1 DEF argfd, File, None
    <2> QED BY <1>0, <1>10, <2>1, <2>2, OpenNotFree
  <1>12. n \in Nat /\ n <= b.left /\ n <= max
    <2>1. max \in Nat
      <3>1. (MAXOPBLOCKS - 1 - 1 - 2) \div 2 \in Nat
        BY FileDataAssumption
      <3> QED BY <3>1, Consts, SMTT(30) DEF max
    <2> QED BY <1>2, <1>6, <2>1, MinTwo DEF Chunk
  <1>13. \A k \in Inode : lock'[k] = IF k = i THEN p ELSE lock[k]
    BY <1>0, <1>8 DEF CtlTypeOK
  <1>14. /\ FOff(p)' = ftable[f].off /\ Pos(p)' = ftable[f].off /\ ftable[f].off \in Nat
         /\ call'[p].n = n /\ call'[p].ip = i /\ Loops(p, "write")' /\ call'[p].tot = 0
         /\ inode' = inode /\ call'[p].left = b.left /\ call'[p].logged = {}
    <2>1. ftable[f].off \in Nat
      BY <1>0, <1>10 DEF CtlTypeOK, OFile
    <2> QED BY <1>7, <1>8, <1>9, <1>10, <2>1 DEF FOff, Pos, Loops
  <1>15. RangeSane(p)'
    BY <1>4, <1>12, <1>14 DEF RangeSane, Loops
  <1>16. LogSane(p)'
    BY <1>14 DEF LogSane
  <1>17. Still(i) /\ Writing(i)' /\ ~Still(i)' /\ lock'[i] = p
    BY <1>4, <1>6, <1>13, <1>14, Procs DEF Still, Writing, Truncating
  <1>18. inode[i] = dinode[i] /\ Loaded(i) = inode[i]
    BY <1>0, <1>6, <1>11, <1>17 DEF ThroughInv, ThroughSane, Loaded
  <1>19. ThroughSane(i)'
    BY <1>8, <1>17, <1>18 DEF ThroughSane
  <1>20. ASSUME SameSlots(i) PROVE HoleSane(i)'
    <2>1. PICK s, o, more : s = inode[i].size /\ o = ftable[f].off /\ more = (0 < n)
      OBVIOUS
    <2>2. Covered(Own, i, s)
      BY <1>0, <1>6, <1>17, <1>18, <2>1 DEF HoleInv, HoleSane
    <2>3. \A m \in 0..(MAXFILE - 1) : Own'[<<i, SlotOf(m)>>] = Own[<<i, SlotOf(m)>>]
      BY <1>20, SlotIn DEF SameSlots
    <2>4. s \in Nat /\ o \in Nat /\ o <= s
      BY <1>0, <1>4, <1>6, <1>14, <2>1, Consts DEF DskTypeOK, Dinode
    <2>5. WriteCovered(Own', i, s, o, more)
      <3>1. ASSUME NEW m \in 0..(MAXFILE - 1)
            PROVE  /\ m * BSIZE < s \/ m * BSIZE < o => Own'[<<i, SlotOf(m)>>] # NULL
                   /\ Own'[<<i, SlotOf(m)>>] # NULL => m * BSIZE < s
        <4>1. m * BSIZE \in Nat
          BY Consts, SMTT(30)
        <4>2. m * BSIZE < s \/ m * BSIZE < o => m * BSIZE < s
          BY <2>4, <4>1
        <4> QED BY <2>2, <2>3, <4>2 DEF Covered
      <3> QED BY <3>1 DEF WriteCovered
    <2>6. Pos(lock[i])' = o /\ (call[lock[i]].tot < call[lock[i]].n)' = more
      BY <1>14, <1>17, <2>1
    <2> QED BY <1>14, <1>17, <2>1, <2>5, <2>6 DEF HoleSane
  <1>21. Follows(i)
    BY <1>19, <1>20 DEF Follows
  <1>22. Freed(i)' = Freed(i)
    BY <1>4, <1>7, <1>9, <1>10, <1>17 DEF Freed
  <1>23. FreeInv' /\ TruncInv'
    <2>1. \A k \in Inode : dinode[k].type = "free" => lock'[k] = NoProc
      BY <1>0, <1>11, <1>13 DEF FreeInv, FreeSane
    <2>2. call'[p].at \notin Iput /\ dinode' = dinode
      BY <1>7, <1>8, <1>9 DEF Iput
    <2> QED BY <1>0, <1>1, <1>9, <2>1, <2>2, QuietRefs
  <1>24. \A q \in Proc : q # p => SameOff(q)
    <2>1. SameOffs
      BY <1>8 DEF SameOffs
    <2> QED BY <1>0, <1>4, <2>1, SameOffOthers
  <1>25. /\ \A k \in Inode : k # i => lock'[k] = lock[k]
         /\ Locks(p) => call[p].ip = i
         /\ UNCHANGED <<bitmap, blk, dinode, inode, ref>>
    BY <1>2, <1>8, <1>13
  <1> QED BY <1>1, <1>4, <1>6, <1>9, <1>15, <1>16, <1>21, <1>22, <1>23, <1>24, <1>25, HoldStep

\* The last reference.
LEMMA LastRef ==
    ASSUME CtlInv, NEW i \in Inode, i # ROOTINO, ref[i] = 1, NEW p \in Putting(i)
    PROVE  Opened(i) = {} /\ Putting(i) = {p}
  <1>1. /\ IsFiniteSet(Opened(i)) /\ IsFiniteSet(Putting(i))
        /\ Cardinality(Opened(i)) \in Nat /\ Cardinality(Putting(i)) \in Nat
    BY SetsFinite
  <1>2. Cardinality(Opened(i)) + Cardinality(Putting(i)) = 1
    BY <1>1 DEF CtlInv, RefInv
  <1>3. Cardinality(Putting(i)) # 0
    BY <1>1, FS_EmptySet
  <1>4. Cardinality(Opened(i)) = 0 /\ Cardinality(Putting(i)) = 1
    BY <1>1, <1>2, <1>3
  <1>5. Opened(i) = {}
    BY <1>1, <1>4, FS_EmptySet
  <1>6. PICK q : Putting(i) = {q}
    BY <1>1, <1>4, FS_Singleton
  <1> QED BY <1>5, <1>6

\* The others that are in itrunc().
LEMMA TruncOthers ==
    ASSUME CtlTypeOK, NEW p \in Proc, Only(p), SameRefs
    PROVE  \A q \in Proc : q # p /\ call[q].at = "trunc" =>
              Opened(call[q].ip)' = Opened(call[q].ip) /\ Putting(call[q].ip)' = Putting(call[q].ip)
  <1>1. ASSUME NEW q \in Proc, q # p
        PROVE  Opened(call[q].ip)' = Opened(call[q].ip) /\ Putting(call[q].ip)' = Putting(call[q].ip)
    <2>1. PICK i \in Inode : i = call[q].ip
      BY DEF CtlTypeOK, Call
    <2>2. call'[q].ip = i
      BY <1>1, <2>1 DEF Only
    <2>3. Opened(i)' = Opened(i) /\ Putting(i)' = Putting(i)
      BY DEF SameRefs
    <2> QED BY <2>1, <2>2, <2>3 DEF Opened, Putting
  <1> QED BY <1>1

\* iput() keeps the invariant.
LEMMA PutStep ==
    ASSUME DInv, NEW p \in Proc, Put(p) PROVE DInv'
  <1>0. /\ CtlInv /\ CtlTypeOK /\ LockInv /\ DskTypeOK /\ FreeInv /\ TruncInv /\ CallInv
        /\ HeadInv /\ DirInv /\ LogInv
    BY DEF DInv, CtlInv
  <1>1. PICK i : i = call[p].ip
    OBVIOUS
  <1>2. /\ call[p].at = "put" /\ ~panicked /\ lock[i] = NoProc
        /\ UNCHANGED <<bitmap, blk, dinode, inode, ref, ftable>>
    BY <1>1 DEF Put, At, CanLock
  <1>3. i \in Inode /\ call[p].j = 0 /\ Few(call[p].logged) /\ p \in Putting(i)
    <2>1. CallSane(p) /\ call[p].ip \in Inode
      BY <1>0 DEF CallInv, CtlTypeOK, Call
    <2>2. Few(call[p].logged)
      BY <1>0, <1>2, IdleLogged
    <2> QED BY <1>1, <1>2, <2>1, <2>2 DEF CallSane, Putting, Iput
  <1>4. /\ CtlInv' /\ SameRefs /\ Only(p) /\ call'[p].ip = i
        /\ call'[p].j = 0 /\ Few(call'[p].logged)
        /\ \/ /\ call'[p].at = "trunc" /\ lock' = [lock EXCEPT ![i] = p]
              /\ inode[i].nlink = 0 /\ ref[i] = 1
           \/ call'[p].at = "drop" /\ lock' = lock
    BY <1>0, <1>1, <1>3, PutCtl
  <1>5. dinode[i].type # "free"
    BY <1>0, <1>2, <1>3 DEF FreeInv, FreeSane
  <1>6. \A q \in Proc : q # p /\ call[q].at = "trunc" =>
          Opened(call[q].ip)' = Opened(call[q].ip) /\ Putting(call[q].ip)' = Putting(call[q].ip)
    BY <1>0, <1>4, TruncOthers
  <1>7. ASSUME NEW k \in Inode, dinode[k].type = "free"
        PROVE  /\ lock'[k] = NoProc /\ Opened(k)' = {} /\ Putting(k)' \subseteq Putting(k)
               /\ p \in Putting(k)' => call'[p].at = "drop"
    <2>1. FreeSane(k) /\ Opened(k)' = Opened(k) /\ Putting(k)' = Putting(k) /\ k # i
      BY <1>0, <1>4, <1>5, <1>7 DEF FreeInv, SameRefs
    <2>2. p \notin Putting(k)'
      BY <1>4, <2>1 DEF Putting
    <2>3. lock'[k] = lock[k]
      BY <1>0, <1>4, <2>1 DEF CtlTypeOK
    <2> QED BY <1>7, <2>1, <2>2, <2>3 DEF FreeSane
  <1>8. SameOffs /\ dinode' = dinode /\ UNCHANGED <<bitmap, blk, dinode>>
        /\ UNCHANGED <<bitmap, blk, dinode, inode, ref>>
    BY <1>2 DEF SameOffs
  <1>9. CASE call'[p].at = "drop" /\ lock' = lock
    <2>1. TruncSane(p)'
      BY <1>9 DEF TruncSane
    <2>2. FreeInv' /\ TruncInv'
      BY <1>0, <1>4, <1>6, <1>7, <1>8, <2>1, RefsFrame
    <2>3. ~Locks(p) /\ ~Locks(p)'
      BY <1>2, <1>9 DEF Locks
    <2>4. /\ inode' \in [Inode -> Dinode] /\ \A k \in Inode : inode'[k] = inode[k] \/ ref[k] = 0
          /\ \A k \in Inode : Loaded(k)' = Loaded(k)
      BY <1>0, <1>2 DEF DskTypeOK, Loaded
    <2> QED BY <1>2, <1>4, <1>8, <1>9, <2>2, <2>3, <2>4, FreeStep
  <1>10. CASE /\ call'[p].at = "trunc" /\ lock' = [lock EXCEPT ![i] = p]
              /\ inode[i].nlink = 0 /\ ref[i] = 1
    <2>1. i # ROOTINO
      BY <1>0, <1>10, RootHead
    <2>2. Opened(i) = {} /\ Putting(i) = {p}
      BY <1>0, <1>3, <1>10, <2>1, LastRef
    <2>3. dinode[i].nlink = 0
      BY <1>0, <1>3, <1>10 DEF HeadInv, HeadSane
    <2>4. TruncSane(p)'
      <3>1. Opened(i)' = {} /\ Putting(i)' = {p}
        BY <1>3, <1>4, <2>2 DEF SameRefs
      <3>2. Opened(call[p].ip)' = {} /\ Putting(call[p].ip)' = {p}
        BY <1>4, <3>1 DEF Opened, Putting
      <3> QED BY <1>4, <1>8, <2>3, <3>2 DEF TruncSane
    <2>5. FreeInv' /\ TruncInv'
      BY <1>0, <1>4, <1>6, <1>7, <1>8, <2>4, RefsFrame
    <2>6. \A k \in Inode : lock'[k] = IF k = i THEN p ELSE lock[k]
      BY <1>0, <1>10 DEF CtlTypeOK
    <2>7. p # NoProc
      BY Procs
    <2>8. Follows(i)
      BY <1>3, <1>10, <2>6, <2>7 DEF Follows, Kept, Truncating
    <2>9. Freed(i)' = Freed(i)
      BY <1>2, <1>3, <1>4, <2>6, <2>7 DEF Freed
    <2>10. RangeSane(p)' /\ LogSane(p)'
      BY <1>4, <1>10 DEF RangeSane, LogSane, Few, Loops
    <2>11. \A q \in Proc : q # p => SameOff(q)
      BY <1>0, <1>2, <1>8, SameOffOthers
    <2>12. (\A k \in Inode : k # i => lock'[k] = lock[k]) /\ (Locks(p) => call[p].ip = i)
      BY <1>1, <2>6
    <2> QED BY <1>2, <1>3, <1>4, <1>8, <2>5, <2>8, <2>9, <2>10, <2>11, <2>12, HoldStep
  <1> QED BY <1>4, <1>9, <1>10

\* After the step, too, a locked inode has a reference.
LEMMA LockedRefNext ==
    ASSUME CtlInv'
    PROVE  \A i \in Inode : lock'[i] # NoProc => ref'[i] # 0
  <1>1. (\A i \in Inode : lock[i] # NoProc => ref[i] # 0)'
    BY LockedRef, PTL
  <1> QED BY <1>1

\* The end of iput() keeps the invariant.
LEMMA DropStep ==
    ASSUME DInv, NEW p \in Proc, Drop(p) PROVE DInv'
  <1>0. /\ CtlInv /\ CtlTypeOK /\ LockInv /\ DskTypeOK /\ FreeInv /\ TruncInv /\ ThroughInv
    BY DEF DInv, CtlInv
  <1>1. PICK i : i = call[p].ip
    OBVIOUS
  <1>2. /\ CtlInv' /\ Only(p) /\ call'[p] = Idle /\ i \in Inode
        /\ ref'[i] = ref[i] - 1 /\ ref[i] # 0
        /\ \A k \in Inode : k # i => ref'[k] = ref[k]
        /\ \A k \in Inode : Opened(k)' = Opened(k) /\ Putting(k)' = Putting(k) \ {p}
    BY <1>0, <1>1, DropCtl
  <1>3. /\ call[p].at = "drop" /\ ~panicked
        /\ UNCHANGED <<bitmap, blk, dinode, inode, lock, ftable>>
    BY DEF Drop, At
  <1>4. ASSUME NEW k \in Inode PROVE Loaded(k)' = Loaded(k)
    <2>1. CASE k # i
      BY <1>2, <1>3, <2>1 DEF Loaded
    <2>2. CASE k = i /\ ref'[i] # 0
      BY <1>2, <1>3, <2>2 DEF Loaded
    <2>3. CASE k = i /\ ref'[i] = 0
      <3>1. \A j \in Inode : lock'[j] # NoProc => ref'[j] # 0
        BY <1>2, LockedRefNext
      <3>2. lock[i] = NoProc
        BY <1>2, <1>3, <2>3, <3>1
      <3>3. Loaded(i) = dinode[i]
        BY <1>0, <1>2, <3>2 DEF ThroughInv, ThroughSane, Still, Writing, Truncating
      <3> QED BY <1>3, <2>3, <3>3 DEF Loaded
    <2> QED BY <2>1, <2>2, <2>3
  <1>5. ~Locks(p) /\ ~Locks(p)' /\ Few(call'[p].logged) /\ call'[p].at # "trunc"
        /\ call'[p].at \notin Iput
    BY <1>2, <1>3, FewNone DEF Locks, Idle, Iput
  <1>6. TruncSane(p)'
    BY <1>5 DEF TruncSane
  <1>7. ASSUME NEW k \in Inode, dinode[k].type = "free"
        PROVE  /\ lock'[k] = NoProc /\ Opened(k)' = {} /\ Putting(k)' \subseteq Putting(k)
               /\ p \in Putting(k)' => call'[p].at = "drop"
    <2>1. FreeSane(k)
      BY <1>0 DEF FreeInv
    <2> QED BY <1>2, <1>3, <1>7, <2>1 DEF FreeSane
  <1>8. ASSUME NEW q \in Proc, q # p, call[q].at = "trunc"
        PROVE  Opened(call[q].ip)' = Opened(call[q].ip) /\ Putting(call[q].ip)' = Putting(call[q].ip)
    <2>1. PICK k \in Inode : k = call[q].ip
      BY <1>0 DEF CtlTypeOK, Call
    <2>2. call'[q].ip = k
      BY <1>2, <1>8, <2>1 DEF Only
    <2>3. Putting(k) = {q}
      BY <1>0, <1>8, <2>1 DEF TruncInv, TruncSane
    <2>4. Putting(k)' = Putting(k) /\ Opened(k)' = Opened(k)
      BY <1>2, <1>8, <2>3
    <2> QED BY <2>1, <2>2, <2>4 DEF Opened, Putting
  <1>9. FreeInv' /\ TruncInv'
    <2>1. dinode' = dinode
      BY <1>3
    <2> QED BY <1>0, <1>2, <1>6, <1>7, <1>8, <2>1, RefsFrame
  <1>10. SameOffs /\ UNCHANGED <<bitmap, blk, dinode>> /\ lock' = lock
    BY <1>3 DEF SameOffs
  <1>11. /\ inode' \in [Inode -> Dinode] /\ \A k \in Inode : inode'[k] = inode[k] \/ ref[k] = 0
    BY <1>0, <1>3 DEF DskTypeOK
  <1> QED BY <1>2, <1>3, <1>4, <1>5, <1>9, <1>10, <1>11, FreeStep

-----------------------------------------------------------------------------
(* Steps that change what is on the disk or in the cache.                  *)

\* A block that a place names is in use, not before the data, and named once.
LEMMA OwnIn ==
    DskTypeOK /\ OwnInv =>
      \A w \in Spot : Own[w] # NULL => Own[w] \in bitmap /\ Own[w] \in Block /\ Own[w] >= nmeta
                                       /\ \A v \in Spot : Own[v] = Own[w] => v = w
  BY DEF DskTypeOK, OwnInv, OwnedOnce

\* The indirect block of an inode has a place of its own.
LEMMA IndOwn ==
    ASSUME CtlTypeOK, NEW i \in Inode
    PROVE  /\ <<i, NDIRECT>> \in Spot /\ NDIRECT \in Slot
           /\ Own[<<i, NDIRECT>>] = Loaded(i).addrs[NDIRECT]
  <1>1. NDIRECT \in Slot
    BY Consts DEF Slot
  <1>2. Own[<<i, NDIRECT>>] = SlotAt(Loaded(i).addrs, blk, Freed(i), NDIRECT)
    BY <1>1, OwnAt
  <1>3. NDIRECT <= NDIRECT
    BY Consts
  <1> QED BY <1>1, <1>2, <1>3 DEF SlotAt, Spot

\* A step that works on one inode.
LEMMA DataStep ==
    ASSUME DInv, CtlInv', ~panicked, NEW p \in Proc, Only(p), NEW i0 \in Inode,
           DskTypeOK', OwnInv', DirInv',
           \A i \in Inode : i # i0 => inode'[i] = inode[i],
           \A i \in Inode : i # i0 => dinode'[i] = dinode[i],
           \A i \in Inode : i # i0 => ref'[i] = ref[i],
           \A i \in Inode : i # i0 => SameSlots(i),
           \A i \in Inode : i # i0 => Kept(i),
           \A q \in Proc : q # p => SameOff(q),
           \A q \in Proc : q # p /\ call[q].at = "loop" => call[q].ip # i0,
           HeadSane(i0)', ThroughSane(i0)', HoleSane(i0)', RangeSane(p)', LogSane(p)',
           FreeInv', TruncInv'
    PROVE  DInv'
  <1>0. CtlInv /\ CtlTypeOK /\ RangeInv /\ LogInv /\ CallInv /\ HeadInv /\ ThroughInv /\ HoleInv
    BY DEF DInv, CtlInv
  <1>1. ASSUME NEW i \in Inode PROVE HeadSane(i)' /\ ThroughSane(i)' /\ HoleSane(i)'
    <2>1. CASE i = i0
      BY <2>1
    <2>2. CASE i # i0
      <3>1. Loaded(i)' = Loaded(i) /\ dinode'[i] = dinode[i] /\ SameSlots(i) /\ Kept(i)
        BY <2>2 DEF Loaded
      <3> QED BY <1>0, <3>1, InodeFrame
    <2> QED BY <2>1, <2>2
  <1>2. ASSUME NEW q \in Proc PROVE RangeSane(q)' /\ LogSane(q)'
    <2>1. CASE q = p
      BY <2>1
    <2>2. CASE q # p
      <3>1. call'[q] = call[q] /\ SameOff(q)
        BY <2>2 DEF Only
      <3>2. call[q].at = "loop" => inode'[call[q].ip] = inode[call[q].ip] /\ SameSlots(call[q].ip)
        BY <1>0, <2>2, LoopOther
      <3> QED BY <1>0, <3>1, <3>2, ProcFrame
    <2> QED BY <2>1, <2>2
  <1>3. RangeInv' /\ LogInv'
    BY <1>2 DEF RangeInv, LogInv
  <1>4. HeadInv' /\ ThroughInv' /\ HoleInv'
    BY <1>1 DEF HeadInv, ThroughInv, HoleInv
  <1> QED BY <1>3, <1>4 DEF DInv

\* The inodes that a process in the loop or in itrunc() does not hold.
LEMMA HeldOthers ==
    ASSUME CtlInv, ~panicked, NEW p \in Proc, Locks(p), Only(p), lock[call[p].ip] = p,
           \A k \in Inode : k # call[p].ip => lock'[k] = lock[k],
           \A k \in Inode : k # call[p].ip => inode'[k] = inode[k],
           \A q \in Proc : q # p => SameOff(q)
    PROVE  /\ \A k \in Inode : k # call[p].ip => Kept(k) /\ Freed(k)' = Freed(k)
           /\ \A q \in Proc : q # p /\ call[q].at = "loop" => call[q].ip # call[p].ip
  <1>0. LockInv
    BY DEF CtlInv
  <1>1. ASSUME NEW k \in Inode, k # call[p].ip PROVE Kept(k) /\ Freed(k)' = Freed(k)
    <2>1. lock[k] # p
      BY <1>0, <1>1, Procs DEF LockInv
    <2>2. lock'[k] = lock[k] /\ inode'[k] = inode[k]
      BY <1>1
    <2> QED BY <2>1, <2>2, OthersKept
  <1>2. \A q \in Proc : q # p /\ call[q].at = "loop" => call[q].ip # call[p].ip
    BY LoopOther
  <1> QED BY <1>1, <1>2

\* Types and links stay, and no inode becomes free.
LEMMA HeadRefs ==
    ASSUME FreeInv, TruncInv, CtlTypeOK, NEW p \in Proc, Only(p), SameRefs,
           call'[p].at \notin Iput,
           \A i \in Inode : dinode'[i].type = "free" =>
              dinode[i].type = "free" /\ dinode'[i] = dinode[i] /\ lock'[i] = NoProc,
           \A i \in Inode : dinode'[i].nlink = dinode[i].nlink
    PROVE  FreeInv' /\ TruncInv'
  <1>1. ASSUME NEW i \in Inode PROVE FreeSane(i)'
    <2>1. SUFFICES ASSUME dinode'[i].type = "free"
                   PROVE  /\ lock'[i] = NoProc /\ dinode'[i] = FreeInode /\ Opened(i)' = {}
                          /\ \A q \in Putting(i)' : call'[q].at = "drop"
      BY DEF FreeSane
    <2>2. FreeSane(i) /\ Opened(i)' = Opened(i) /\ Putting(i)' = Putting(i)
      BY DEF FreeInv, SameRefs
    <2>3. ASSUME NEW q \in Putting(i)' PROVE call'[q].at = "drop"
      <3>1. q \in Proc /\ q \in Putting(i) /\ q # p
        BY <2>2, <2>3 DEF Putting
      <3> QED BY <2>1, <2>2, <3>1 DEF FreeSane, Only
    <2> QED BY <2>1, <2>2, <2>3 DEF FreeSane
  <1>2. ASSUME NEW q \in Proc PROVE TruncSane(q)'
    <2>1. CASE q = p
      BY <2>1 DEF TruncSane, Iput
    <2>2. CASE q # p
      <3>1. TruncSane(q) /\ call'[q] = call[q] /\ call[q].ip \in Inode
        BY <2>2 DEF TruncInv, Only, CtlTypeOK, Call
      <3>2. call[q].at = "trunc" => /\ Opened(call[q].ip)' = Opened(call[q].ip)
                                    /\ Putting(call[q].ip)' = Putting(call[q].ip)
        BY <2>2, TruncOthers
      <3>3. SUFFICES ASSUME call[q].at = "trunc"
                     PROVE  /\ Opened(call[q].ip)' = {} /\ Putting(call[q].ip)' = {q}
                            /\ dinode'[call[q].ip].nlink = 0
        BY <3>1 DEF TruncSane
      <3> QED BY <3>1, <3>2, <3>3 DEF TruncSane
    <2> QED BY <2>1, <2>2
  <1> QED BY <1>1, <1>2 DEF FreeInv, TruncInv

\* A later byte is in the same block or a later one.
LEMMA DivUp ==
    ASSUME NEW x \in Nat, NEW y \in Nat, x <= y
    PROVE  x \div BSIZE <= y \div BSIZE
  <1>1. PICK q, r : q = x \div BSIZE /\ r = y \div BSIZE
    OBVIOUS
  <1>2. q \in Nat /\ r \in Nat /\ q * BSIZE <= x
    BY <1>1, DivMod, Begins
  <1>3. ASSUME r < q PROVE FALSE
    <2>1. ~(q * BSIZE < y)
      BY <1>1, <1>2, <1>3, Begins
    <2>2. q * BSIZE \in Nat
      BY <1>2, Consts, SMTT(30)
    <2>3. q * BSIZE = y
      BY <1>2, <2>1, <2>2
    <2>4. r * BSIZE + BSIZE <= q * BSIZE /\ r * BSIZE \in Nat
      BY <1>2, <1>3, MulLess
    <2>5. y % BSIZE \in Unit /\ y = r * BSIZE + (y % BSIZE)
      BY <1>1, DivMod
    <2>6. y % BSIZE < BSIZE
      BY <2>5, Consts DEF Unit
    <2> QED BY <2>2, <2>3, <2>4, <2>5, <2>6, Consts DEF Unit
  <1> QED BY <1>1, <1>2, <1>3

\* Writei() is at a block of its chunk.
LEMMA WriteBlock ==
    ASSUME DInv, NEW p \in Proc, Looping(p), call[p].op = "write"
    PROVE  /\ Loops(p, "write") /\ Bn(p) \in ChunkBlocks(p) /\ Bn(p) = Pos(p) \div BSIZE
           /\ FOff(p) \in Nat /\ Pos(p) \in Nat /\ Pos(p) < FOff(p) + call[p].n
           /\ call[p].ip # ROOTINO /\ ref[call[p].ip] # 0 /\ Locks(p) /\ ~panicked
           /\ inode[call[p].ip] = Loaded(call[p].ip)
           /\ WriteCovered(Own, call[p].ip, inode[call[p].ip].size, Pos(p), TRUE)
  <1>0. CtlInv /\ CtlTypeOK /\ CallInv /\ HoleInv
    BY DEF DInv, CtlInv
  <1>1. /\ call[p].ip \in Inode /\ lock[call[p].ip] = p
        /\ call[p].tot \in Nat /\ call[p].n \in Nat /\ call[p].tot < call[p].n
        /\ Off(p) \in Nat /\ Writing(call[p].ip) /\ Off(p) = Pos(p)
    BY LoopBlock
  <1>2. call[p].at = "loop" /\ ~panicked
    BY DEF Looping, At
  <1>3. Loops(p, "write") /\ Locks(p)
    BY <1>2 DEF Loops, Locks
  <1>4. call[p].f \in File /\ call[p].ip # ROOTINO /\ ref[call[p].ip] # 0
    BY <1>0, <1>2, LoopOther DEF CallInv, CallSane
  <1>5. FOff(p) \in Nat
    BY <1>0, <1>4 DEF FOff, CtlTypeOK, OFile
  <1>6. PICK o, x, y : o = FOff(p) /\ x = Pos(p) /\ y = o + call[p].n - 1
    OBVIOUS
  <1>7. o \in Nat /\ x \in Nat /\ y \in Nat /\ o <= x /\ x <= y /\ x < o + call[p].n
    BY <1>1, <1>5, <1>6 DEF Pos
  <1>8. o \div BSIZE <= x \div BSIZE /\ x \div BSIZE <= y \div BSIZE
    BY <1>7, DivUp
  <1>9. o \div BSIZE \in Nat /\ x \div BSIZE \in Nat /\ y \div BSIZE \in Nat
    BY <1>7, DivMod
  <1>10. x \div BSIZE \in ChunkBlocks(p)
    <2>1. ChunkBlocks(p) = (o \div BSIZE)..(y \div BSIZE)
      BY <1>6 DEF ChunkBlocks
    <2> QED BY <1>8, <1>9, <2>1
  <1>11. Bn(p) = x \div BSIZE
    BY <1>1, <1>6 DEF Bn
  <1>12. WriteCovered(Own, call[p].ip, inode[call[p].ip].size, Pos(p), TRUE)
    <2>1. PICK i, s, z, more : i = call[p].ip /\ s = inode[i].size /\ z = Pos(p)
                               /\ more = (call[p].tot < call[p].n)
      OBVIOUS
    <2>2. WriteCovered(Own, i, s, z, more)
      BY <1>0, <1>1, <2>1 DEF HoleInv, HoleSane
    <2>3. more
      BY <1>1, <2>1
    <2>4. WriteCovered(Own, i, s, z, TRUE)
      BY <2>2, <2>3 DEF WriteCovered
    <2> QED BY <2>1, <2>4
  <1>13. inode[call[p].ip] = Loaded(call[p].ip)
    BY <1>4 DEF Loaded
  <1> QED BY <1>2, <1>3, <1>4, <1>6, <1>7, <1>10, <1>11, <1>12, <1>13

\* A write to a block that is no indirect block leaves all places alone.
LEMMA SameOwn ==
    ASSUME CtlInv, DskTypeOK, OwnInv, \A i \in Inode : Loaded(i)'.addrs = Loaded(i).addrs,
           \A i \in Inode : Freed(i)' = Freed(i), bitmap' = bitmap,
           NEW w \in Spot, w[2] # NDIRECT, Own[w] # NULL,
           \A b \in Block : b # Own[w] => blk'[b] = blk[b]
    PROVE  OwnInv' /\ \A i \in Inode : SameSlots(i)
  <1>0. CtlTypeOK
    BY DEF CtlInv
  <1>1. ASSUME NEW i \in Inode PROVE SameSlots(i)
    <2>1. PICK a : a = Loaded(i).addrs[NDIRECT]
      OBVIOUS
    <2>2. <<i, NDIRECT>> \in Spot /\ Own[<<i, NDIRECT>>] = a
      BY <1>0, <2>1, IndOwn
    <2>3. ASSUME a # NULL PROVE blk'[a] = blk[a]
      <3>1. a \in Block
        BY <2>2, <2>3, OwnIn
      <3>2. a # Own[w]
        <4>1. <<i, NDIRECT>> # w
          OBVIOUS
        <4> QED BY <2>2, <4>1, OwnIn
      <3> QED BY <3>1, <3>2
    <2>4. Loaded(i)'.addrs = Loaded(i).addrs /\ Freed(i)' = Freed(i)
      OBVIOUS
    <2> QED BY <1>0, <2>1, <2>3, <2>4, SlotsSame
  <1>2. \A v \in Spot : Own'[v] = Own[v]
    BY <1>1, SpotsSame DEF Spot
  <1>3. OwnedOnce(Own', bitmap)
    BY <1>2, OwnSame DEF OwnInv
  <1> QED BY <1>1, <1>3 DEF OwnInv

\* The blocks of the root directory.
LEMMA RootBlock ==
    ASSUME DskTypeOK, OwnInv, NEW w \in Spot, w[1] # ROOTINO, Own[w] # NULL
    PROVE  \A n \in 0..(MAXFILE - 1) : Own[<<ROOTINO, SlotOf(n)>>] # NULL =>
              /\ Own[<<ROOTINO, SlotOf(n)>>] # Own[w]
              /\ Own[<<ROOTINO, SlotOf(n)>>] \in bitmap /\ Own[<<ROOTINO, SlotOf(n)>>] \in Block
  <1>1. ASSUME NEW n \in 0..(MAXFILE - 1), Own[<<ROOTINO, SlotOf(n)>>] # NULL
        PROVE  /\ Own[<<ROOTINO, SlotOf(n)>>] # Own[w]
               /\ Own[<<ROOTINO, SlotOf(n)>>] \in bitmap /\ Own[<<ROOTINO, SlotOf(n)>>] \in Block
    <2>1. PICK v : v = <<ROOTINO, SlotOf(n)>>
      OBVIOUS
    <2>2. v \in Spot /\ v # w
      BY <2>1, SlotIn, Consts DEF Spot
    <2> QED BY <1>1, <2>1, <2>2, OwnIn
  <1> QED BY <1>1

\* The blocks of a write after a piece.
LEMMA CoveredMore ==
    ASSUME NEW O, NEW Q, NEW i, NEW s \in Nat, NEW o \in Nat, NEW m \in Nat, m >= 1,
           m <= BSIZE - (o % BSIZE), WriteCovered(O, i, s, o, TRUE),
           \A n \in 0..(MAXFILE - 1) : Q[<<i, SlotOf(n)>>] = O[<<i, SlotOf(n)>>],
           O[<<i, SlotOf(o \div BSIZE)>>] # NULL, NEW more
    PROVE  WriteCovered(Q, i, s, o + m, more)
  <1>1. ASSUME NEW n \in 0..(MAXFILE - 1)
        PROVE  /\ n * BSIZE < s \/ n * BSIZE < o + m => Q[<<i, SlotOf(n)>>] # NULL
               /\ Q[<<i, SlotOf(n)>>] # NULL => n * BSIZE < s \/ n * BSIZE < o + m
    <2>1. PICK q, x : q = o \div BSIZE /\ x = n * BSIZE
      OBVIOUS
    <2>2. q \in Nat /\ x \in Nat /\ n \in Nat
      BY <2>1, DivMod, Consts, SMTT(30)
    <2>3. x < o + m <=> n <= q
      BY <2>1, <2>2, PieceEnds
    <2>4. n < q => x < o
      BY <2>1, <2>2, Begins
    <2>5. /\ x < s \/ x < o => O[<<i, SlotOf(n)>>] # NULL
          /\ O[<<i, SlotOf(n)>>] # NULL => x < s \/ x < o \/ n = q
      BY <2>1 DEF WriteCovered
    <2>6. n = q => O[<<i, SlotOf(n)>>] # NULL
      BY <2>1
    <2>7. x < o => x < o + m
      BY <2>2
    <2>8. n = q => x < o + m
      BY <2>2, <2>3
    <2>9. x < o + m => n < q \/ n = q
      BY <2>2, <2>3
    <2> QED BY <2>1, <2>4, <2>5, <2>6, <2>7, <2>8, <2>9
  <1> QED BY <1>1 DEF WriteCovered

\* A piece that writei() copies keeps the invariant.
LEMMA CopyWriteStep ==
    ASSUME DInv, NEW p \in Proc, Copy(p), call[p].op = "write" PROVE DInv'
  <1>0. /\ CtlInv /\ CtlTypeOK /\ LockInv /\ DskTypeOK /\ FreeInv /\ TruncInv /\ CallInv
        /\ HeadInv /\ DirInv /\ LogInv /\ OwnInv /\ HoleInv /\ ThroughInv /\ RangeInv
    BY DEF DInv, CtlInv
  <1>1. PICK i, n0, b, m, o : i = call[p].ip /\ n0 = Bn(p) /\ b = bmap(i, n0)
                              /\ m = Piece(p) /\ o = Pos(p)
    OBVIOUS
  <1>2. CtlInv' /\ SameRefs
    BY CopyCtl
  <1>3. /\ Looping(p) /\ b # NULL
        /\ UNCHANGED <<bitmap, dinode, inode, ref, lock, ftable, ofile, pstate, panicked>>
    BY <1>1, CopyIs
  <1>4. PICK c : Copied(p, c)
    BY CopyIs
  <1>5. /\ call' = [call EXCEPT ![p] = c] /\ c.at = call[p].at /\ c.op = call[p].op
        /\ c.f = call[p].f /\ c.ip = i /\ c.n = call[p].n /\ c.j = call[p].j
        /\ c.left = call[p].left /\ c.logged = call[p].logged \cup {b}
        /\ c.tot = call[p].tot + m
    BY <1>1, <1>4 DEF Copied
  <1>6. call'[p] = c /\ Only(p)
    BY <1>0, <1>4, CallStep DEF CtlTypeOK, Copied
  <1>7. /\ i \in Inode /\ lock[i] = p /\ Freed(i) = 0 /\ call[p].tot \in Nat /\ call[p].n \in Nat
        /\ call[p].tot < call[p].n /\ n0 \in 0..(MAXFILE - 1)
        /\ b = Own[<<i, SlotOf(n0)>>] /\ b \in Block /\ b \in bitmap /\ Writing(i) /\ Off(p) = o
    BY <1>1, <1>3, LoopBlock
  <1>8. /\ Loops(p, "write") /\ n0 \in ChunkBlocks(p) /\ n0 = o \div BSIZE
        /\ FOff(p) \in Nat /\ o \in Nat /\ o < FOff(p) + call[p].n
        /\ i # ROOTINO /\ ref[i] # 0 /\ Locks(p) /\ ~panicked /\ inode[i] = Loaded(i)
        /\ WriteCovered(Own, i, inode[i].size, o, TRUE)
    BY <1>1, <1>3, WriteBlock
  <1>9. m \in Nat /\ m >= 1 /\ m <= BSIZE - (o % BSIZE)
    BY <1>1, <1>7, <1>8, PieceIs
  <1>10. PICK g : g = [u \in Unit |-> IF u >= o % BSIZE /\ u < (o % BSIZE) + m THEN p ELSE blk[b][u]]
    OBVIOUS
  <1>11. blk' = [blk EXCEPT ![b] = g]
    BY <1>1, <1>7, <1>10 DEF Copy
  <1>12. blk' \in [Block -> [Unit -> Value]] /\ \A x \in Block : x # b => blk'[x] = blk[x]
    <2>1. g \in [Unit -> Value]
      BY <1>0, <1>7, <1>10 DEF DskTypeOK, Value
    <2> QED BY <1>0, <1>7, <1>11, <2>1 DEF DskTypeOK
  <1>13. DskTypeOK'
    BY <1>0, <1>3, <1>12 DEF DskTypeOK
  <1>14. \A k \in Inode : Loaded(k)' = Loaded(k)
    BY <1>3 DEF Loaded
  <1>15. \A q \in Proc : SameOff(q)
    <2>1. SameOffs
      BY <1>3 DEF SameOffs
    <2> QED BY <1>0, <1>8, <2>1, SameOffOthers
  <1>16. /\ \A k \in Inode : k # i => Kept(k) /\ Freed(k)' = Freed(k)
         /\ \A q \in Proc : q # p /\ call[q].at = "loop" => call[q].ip # i
    BY <1>0, <1>1, <1>3, <1>6, <1>7, <1>8, <1>15, HeldOthers
  <1>17. ASSUME NEW k \in Inode PROVE Freed(k)' = Freed(k)
    <2>1. CASE k = i
      BY <1>3, <1>5, <1>6, <1>7, <2>1 DEF Freed
    <2> QED BY <1>16, <2>1
  <1>18. PICK w : w = <<i, SlotOf(n0)>>
    OBVIOUS
  <1>19. w \in Spot /\ w[1] = i /\ w[2] # NDIRECT /\ Own[w] = b
    BY <1>7, <1>18, SlotIn DEF Spot
  <1>20. OwnInv' /\ \A k \in Inode : SameSlots(k)
    <2>1. \A k \in Inode : Loaded(k)'.addrs = Loaded(k).addrs
      BY <1>14
    <2>2. (\A x \in Block : x # Own[w] => blk'[x] = blk[x]) /\ bitmap' = bitmap /\ Own[w] # NULL
      BY <1>3, <1>12, <1>19
    <2> QED BY <1>0, <1>17, <1>19, <2>1, <2>2, SameOwn
  <1>21. DirInv'
    <2>1. Still(ROOTINO) /\ ROOTINO \in Inode
      BY RootStill
    <2>2. \A n \in 0..(MAXFILE - 1) : Own[<<ROOTINO, SlotOf(n)>>] # NULL =>
              blk'[Own[<<ROOTINO, SlotOf(n)>>]] = blk[Own[<<ROOTINO, SlotOf(n)>>]]
      <3>1. Own[w] # NULL /\ w[1] # ROOTINO
        BY <1>3, <1>8, <1>19
      <3>2. \A n \in 0..(MAXFILE - 1) : Own[<<ROOTINO, SlotOf(n)>>] # NULL =>
              Own[<<ROOTINO, SlotOf(n)>>] # b /\ Own[<<ROOTINO, SlotOf(n)>>] \in Block
        BY <1>0, <1>19, <3>1, RootBlock
      <3> QED BY <1>12, <3>2
    <2>3. /\ dinode'[ROOTINO].size = dinode[ROOTINO].size
          /\ \A k \in Inode : dinode'[k].type = dinode[k].type /\ dinode'[k].nlink = dinode[k].nlink
      BY <1>3
    <2>4. SameSlots(ROOTINO)
      BY <1>20, <2>1
    <2> QED BY <1>0, <2>1, <2>2, <2>3, <2>4, DirFrame
  <1>22. /\ Loops(p, "write")' /\ FOff(p)' = FOff(p) /\ Pos(p)' = o + m /\ lock'[i] = p
         /\ call'[p].n = call[p].n /\ call'[p].ip = i /\ Writing(i)' /\ ~Still(i)'
    <2>1. FOff(p)' = FOff(p)
      BY <1>3, <1>5, <1>6 DEF FOff
    <2>2. Loops(p, "write")' /\ lock'[i] = p
      BY <1>3, <1>5, <1>6, <1>7, <1>8 DEF Loops
    <2>3. o = FOff(p) + call[p].tot /\ Pos(p)' = FOff(p)' + call'[p].tot
      BY <1>1 DEF Pos
    <2>4. Pos(p)' = o + m
      BY <1>5, <1>6, <1>7, <1>8, <1>9, <2>1, <2>3
    <2>5. Writing(i)'
      BY <2>2, Procs DEF Writing
    <2> QED BY <1>5, <1>6, <2>1, <2>2, <2>4, <2>5 DEF Still
  <1>23. HeadSane(i)'
    BY <1>0, <1>3, <1>7 DEF HeadInv, HeadSane
  <1>24. ThroughSane(i)'
    <2>1. ThroughSane(i)
      BY <1>0, <1>7 DEF ThroughInv
    <2> QED BY <1>3, <1>7, <1>22, <2>1 DEF ThroughSane
  <1>25. HoleSane(i)'
    <2>1. PICK s, more : s = inode[i].size /\ more = (call'[p].tot < call'[p].n)
      OBVIOUS
    <2>2. s \in Nat
      BY <1>0, <1>7, <1>8, <2>1, LoadedType
    <2>3. \A n \in 0..(MAXFILE - 1) : Own'[<<i, SlotOf(n)>>] = Own[<<i, SlotOf(n)>>]
      BY <1>7, <1>20, SlotIn DEF SameSlots
    <2>4. WriteCovered(Own, i, s, o, TRUE) /\ Own[<<i, SlotOf(o \div BSIZE)>>] # NULL
      BY <1>3, <1>7, <1>8, <2>1
    <2>5. WriteCovered(Own', i, s, o + m, more)
      BY <1>8, <1>9, <2>2, <2>3, <2>4, CoveredMore
    <2> QED BY <1>3, <1>22, <2>1, <2>5 DEF HoleSane
  <1>26. RangeSane(p)'
    <2>1. RangeSane(p)
      BY <1>0 DEF RangeInv
    <2> QED BY <1>1, <1>3, <1>5, <1>6, <1>8, <1>22, <2>1 DEF RangeSane, Loops
  <1>27. LogSane(p)'
    <2>1. ChunkBlocks(p)' = ChunkBlocks(p)
      BY <1>22 DEF ChunkBlocks
    <2>2. ASSUME NEW x \in call'[p].logged PROVE Logged(p, x)'
      <3>1. ASSUME NEW n \in ChunkBlocks(p), n < MAXFILE
            PROVE  Own'[<<i, SlotOf(n)>>] = Own[<<i, SlotOf(n)>>]
        <4>1. FOff(p) \div BSIZE \in Nat /\ (FOff(p) + call[p].n - 1) \div BSIZE \in Int
          BY <1>7, <1>8, DivMod, Consts
        <4>2. n \in 0..(MAXFILE - 1)
          BY <3>1, <4>1, Consts DEF ChunkBlocks
        <4> QED BY <1>7, <1>20, <4>2, SlotIn DEF SameSlots
      <3>2. CASE x = b
        <4>1. n0 \in ChunkBlocks(p)' /\ n0 < MAXFILE /\ x = Own'[<<i, SlotOf(n0)>>]
          BY <1>7, <1>8, <2>1, <3>1, <3>2, Consts
        <4> QED BY <1>3, <1>22, <3>2, <4>1 DEF Logged
      <3>3. CASE x # b
        <4>1. x \in call[p].logged
          BY <1>5, <1>6, <2>2, <3>3
        <4>2. Logged(p, x)
          BY <1>0, <1>8, <4>1 DEF LogInv, LogSane
        <4>3. \/ x = BBLOCK
              \/ x # NULL /\ x = inode'[i].addrs[NDIRECT]
              \/ x # NULL /\ \E n \in ChunkBlocks(p)' :
                    n < MAXFILE /\ x = Own'[<<i, SlotOf(n)>>]
          BY <1>1, <1>3, <2>1, <3>1, <4>2 DEF Logged
        <4> QED BY <1>22, <4>3 DEF Logged
      <3> QED BY <3>2, <3>3
    <2> QED BY <1>22, <2>2 DEF LogSane
  <1>28. FreeInv' /\ TruncInv'
    <2>1. \A k \in Inode : dinode[k].type = "free" => lock'[k] = NoProc
      BY <1>0, <1>3 DEF FreeInv, FreeSane
    <2>2. call'[p].at \notin Iput /\ dinode' = dinode
      BY <1>3, <1>5, <1>6, <1>8 DEF Iput, Loops
    <2> QED BY <1>0, <1>2, <1>6, <2>1, <2>2, QuietRefs
  <1>29. /\ \A k \in Inode : k # i => inode'[k] = inode[k]
         /\ \A k \in Inode : k # i => dinode'[k] = dinode[k]
         /\ \A k \in Inode : k # i => ref'[k] = ref[k]
         /\ \A k \in Inode : k # i => SameSlots(k)
         /\ \A k \in Inode : k # i => Kept(k)
         /\ \A q \in Proc : q # p => SameOff(q)
         /\ \A q \in Proc : q # p /\ call[q].at = "loop" => call[q].ip # i
    BY <1>3, <1>15, <1>16, <1>20
  <1> QED BY <1>2, <1>6, <1>7, <1>8, <1>13, <1>20, <1>21, <1>23, <1>24, <1>25, <1>26, <1>27,
             <1>28, <1>29, DataStep

\* A new block has got place k0 of inode i; blocks L have been logged.
Gained(p, i, new, k0, L) ==
    /\ k0 \in Slot /\ Own[<<i, k0>>] = NULL /\ Own'[<<i, k0>>] = new
    /\ \A k \in Slot : k # k0 => Own'[<<i, k>>] = Own[<<i, k>>]
    /\ k0 = SlotOf(Bn(p)) \/ k0 = NDIRECT
    /\ inode' \in [Inode -> Dinode] /\ \A k \in Inode : k # i => inode'[k] = inode[k]
    /\ inode'[i].type = inode[i].type /\ inode'[i].nlink = inode[i].nlink
    /\ inode'[i].size = inode[i].size
    /\ inode'[i].addrs[NDIRECT] = IF k0 = NDIRECT THEN new ELSE inode[i].addrs[NDIRECT]
    /\ blk' \in [Block -> [Unit -> Value]]
    /\ \A x \in Block : x # new /\ x # Own[<<i, NDIRECT>>] => blk'[x] = blk[x]
    /\ call' = [call EXCEPT ![p] = [call[p] EXCEPT !.logged = @ \cup L]] /\ L \in SUBSET Block
    /\ \A x \in L : x = BBLOCK \/ x = new \/ (x # NULL /\ x = inode[i].addrs[NDIRECT])

\* A direct block, or the indirect block itself, is allocated.
LEMMA GainDirect ==
    ASSUME DInv, NEW p \in Proc, Looping(p), call[p].op = "write", NEW i, i = call[p].ip,
           bmap(i, Bn(p)) = NULL, UNCHANGED <<ref, lock>>,
           NEW new \in Block, new \notin bitmap,
           Bn(p) < NDIRECT \/ inode[i].addrs[NDIRECT] = NULL, BallocDirect(p, new)
    PROVE  \E k0, L : Gained(p, i, new, k0, L)
  <1>0. CtlInv /\ CtlTypeOK /\ DskTypeOK /\ OwnInv
    BY DEF DInv, CtlInv
  <1>1. PICK n, k0, L, a : /\ n = Bn(p) /\ k0 = Min({n, NDIRECT}) /\ L = {BBLOCK, new}
                           /\ a = inode[i].addrs
    OBVIOUS
  <1>2. /\ i \in Inode /\ lock[i] = p /\ Freed(i) = 0 /\ n \in 0..(MAXFILE - 1)
        /\ Own[<<i, SlotOf(n)>>] = NULL
    BY <1>1, LoopBlock
  <1>3. ref[i] # 0 /\ Loaded(i) = inode[i] /\ Locks(p)
    BY WriteBlock
  <1>4. k0 \in Nat /\ k0 <= NDIRECT /\ k0 = IF n < NDIRECT THEN n ELSE NDIRECT
    <2>1. n \in Nat /\ NDIRECT \in Nat
      BY <1>2, Consts
    <2> QED BY <1>1, <2>1, MinTwo
  <1>5. /\ inode' = [inode EXCEPT ![i].addrs[k0] = new]
        /\ blk' = [blk EXCEPT ![new] = Zeroes]
        /\ call' = [call EXCEPT ![p].logged = @ \cup L]
    BY <1>1 DEF BallocDirect
  <1>6. inode \in [Inode -> Dinode] /\ inode[i] \in Dinode /\ a \in [0..NDIRECT -> Block]
    BY <1>0, <1>1, <1>2 DEF DskTypeOK, Dinode
  <1>7. PICK a2 : a2 = [a EXCEPT ![k0] = new]
    OBVIOUS
  <1>8. /\ a2 \in [0..NDIRECT -> Block] /\ a2[k0] = new
        /\ \A k \in 0..NDIRECT : k # k0 => a2[k] = a[k]
    BY <1>4, <1>6, <1>7, Consts
  <1>9. PICK d : d = [inode[i] EXCEPT !.addrs = a2]
    OBVIOUS
  <1>10. /\ d \in Dinode /\ d.type = inode[i].type /\ d.nlink = inode[i].nlink
         /\ d.size = inode[i].size /\ d.addrs = a2
    BY <1>6, <1>8, <1>9 DEF Dinode
  <1>11. inode' = [inode EXCEPT ![i] = d]
    BY <1>1, <1>2, <1>5, <1>6, <1>7, <1>9
  <1>12. /\ inode' \in [Inode -> Dinode] /\ inode'[i] = d
         /\ \A k \in Inode : k # i => inode'[k] = inode[k]
    BY <1>2, <1>6, <1>10, <1>11
  <1>13. /\ blk' \in [Block -> [Unit -> Value]] /\ \A x \in Block : x # new => blk'[x] = blk[x]
         /\ \A u \in Unit : blk'[new][u] = NULL
    <2>1. Zeroes \in [Unit -> Value] /\ \A u \in Unit : Zeroes[u] = NULL
      BY Consts DEF Zeroes, Value
    <2>2. blk \in [Block -> [Unit -> Value]]
      BY <1>0 DEF DskTypeOK
    <2> QED BY <1>5, <2>1, <2>2
  <1>14. NDIRECT \in 0..NDIRECT /\ NDIRECT \in Nat
    BY Consts
  <1>15. a2[NDIRECT] = IF k0 = NDIRECT THEN new ELSE a[NDIRECT]
    BY <1>8, <1>14
  <1>16. \A k \in Slot : Own[<<i, k>>] = SlotAt(a, blk, 0, k)
    BY <1>1, <1>2, <1>3, OwnAt
  <1>17. \A k \in Slot : Own'[<<i, k>>] = SlotAt(a2, blk', 0, k)
    <2>1. Loaded(i)' = d
      BY <1>3, <1>12 DEF Loaded
    <2>2. Freed(i)' = 0
      <3>1. call'[p].j = call[p].j
        BY <1>0, <1>5 DEF CtlTypeOK, Call
      <3> QED BY <1>2, <3>1 DEF Freed
    <2>3. ASSUME NEW k \in Slot
          PROVE  Own'[<<i, k>>] = SlotAt(Loaded(i)'.addrs, blk', Freed(i)', k)
      BY <1>2 DEF Own, Spot
    <2> QED BY <1>10, <2>1, <2>2, <2>3
  <1>18. Own[<<i, k0>>] = NULL /\ k0 \in Slot
    <2>1. k0 \in Slot
      BY <1>4, Consts DEF Slot
    <2>2. CASE n < NDIRECT
      BY <1>2, <1>4, <2>1, <2>2 DEF SlotOf
    <2>3. CASE ~(n < NDIRECT)
      <3>1. a[NDIRECT] = NULL /\ k0 = NDIRECT
        BY <1>1, <1>4, <2>3
      <3> QED BY <1>4, <1>16, <2>1, <3>1 DEF SlotAt
    <2> QED BY <2>1, <2>2, <2>3
  <1>19. Own'[<<i, k0>>] = new
    BY <1>4, <1>8, <1>17, <1>18 DEF SlotAt
  <1>20. ASSUME NEW k \in Slot, k # k0 PROVE Own'[<<i, k>>] = Own[<<i, k>>]
    <2>0. k \in Nat
      BY Consts DEF Slot
    <2>1. CASE k <= NDIRECT
      <3>1. k \in 0..NDIRECT
        BY <2>0, <2>1
      <3>2. a2[k] = a[k]
        BY <1>8, <1>20, <3>1
      <3> QED BY <1>16, <1>17, <2>1, <3>2 DEF SlotAt
    <2>2. CASE ~(k <= NDIRECT)
      <3>1. k - NDIRECT - 1 \in Unit /\ ~(k - NDIRECT - 1 < 0)
        BY <2>0, <2>2, Consts DEF Slot, Unit
      <3>2. CASE k0 = NDIRECT
        <4>1. a[NDIRECT] = NULL
          BY <1>16, <1>18, <3>2, <1>14 DEF SlotAt
        <4>2. Own[<<i, k>>] = NULL
          BY <1>16, <2>2, <4>1 DEF SlotAt
        <4>3. a2[NDIRECT] = new
          BY <1>15, <3>2
        <4>4. Own'[<<i, k>>] = NULL
          BY <1>13, <1>17, <2>2, <3>1, <4>3 DEF SlotAt
        <4> QED BY <4>2, <4>4
      <3>3. CASE k0 # NDIRECT
        <4>1. a2[NDIRECT] = a[NDIRECT]
          BY <1>15, <3>3
        <4>2. a[NDIRECT] # NULL => a[NDIRECT] # new /\ a[NDIRECT] \in Block
          <5>1. <<i, NDIRECT>> \in Spot /\ Own[<<i, NDIRECT>>] = a[NDIRECT]
            BY <1>0, <1>1, <1>2, <1>3, IndOwn
          <5> QED BY <1>0, <5>1, OwnIn
        <4>3. a[NDIRECT] # NULL => blk'[a[NDIRECT]] = blk[a[NDIRECT]]
          BY <1>13, <4>2
        <4> QED BY <1>16, <1>17, <2>2, <3>1, <4>1, <4>3 DEF SlotAt
      <3> QED BY <3>2, <3>3
    <2> QED BY <2>1, <2>2
  <1>21. k0 = SlotOf(Bn(p)) \/ k0 = NDIRECT
    BY <1>1, <1>4 DEF SlotOf
  <1>22. call' = [call EXCEPT ![p] = [call[p] EXCEPT !.logged = @ \cup L]]
    BY <1>5
  <1>23. L \in SUBSET Block /\ \A x \in L : x = BBLOCK \/ x = new
    BY <1>1, Consts
  <1>24. /\ inode'[i].type = inode[i].type /\ inode'[i].nlink = inode[i].nlink
         /\ inode'[i].size = inode[i].size
         /\ inode'[i].addrs[NDIRECT] = IF k0 = NDIRECT THEN new ELSE inode[i].addrs[NDIRECT]
    BY <1>1, <1>10, <1>12, <1>15
  <1>25. /\ \A x \in Block : x # new /\ x # Own[<<i, NDIRECT>>] => blk'[x] = blk[x]
         /\ blk' \in [Block -> [Unit -> Value]]
    BY <1>13
  <1>26. \A k \in Inode : k # i => inode'[k] = inode[k]
    BY <1>12
  <1> QED BY <1>12, <1>18, <1>19, <1>20, <1>21, <1>22, <1>23, <1>24, <1>25, <1>26 DEF Gained

\* A block that the indirect block lists is allocated.
LEMMA GainIndirect ==
    ASSUME DInv, NEW p \in Proc, Looping(p), call[p].op = "write", NEW i, i = call[p].ip,
           bmap(i, Bn(p)) = NULL, UNCHANGED <<ref, lock>>,
           NEW new \in Block, new \notin bitmap, BallocIndirect(p, new)
    PROVE  \E k0, L : Gained(p, i, new, k0, L)
  <1>0. CtlInv /\ CtlTypeOK /\ DskTypeOK /\ OwnInv
    BY DEF DInv, CtlInv
  <1>1. PICK n, k0, a, ind, L : /\ n = Bn(p) /\ k0 = n + 1 /\ a = inode[i].addrs
                                /\ ind = a[NDIRECT] /\ L = {BBLOCK, new, ind}
    OBVIOUS
  <1>2. /\ i \in Inode /\ lock[i] = p /\ Freed(i) = 0 /\ n \in 0..(MAXFILE - 1)
        /\ Own[<<i, SlotOf(n)>>] = NULL
    BY <1>1, LoopBlock
  <1>3. ref[i] # 0 /\ Loaded(i) = inode[i] /\ Locks(p)
    BY WriteBlock
  <1>4. /\ ~(n < NDIRECT) /\ ind # NULL
        /\ blk' = [blk EXCEPT ![new] = Zeroes, ![ind][n - NDIRECT] = new]
        /\ call' = [call EXCEPT ![p].logged = @ \cup L] /\ inode' = inode
    BY <1>1 DEF BallocIndirect
  <1>5. PICK e \in Unit : e = n - NDIRECT
    <2>1. n \in 0..(NDIRECT + BSIZE - 1) /\ ~(n < NDIRECT) /\ NDIRECT \in Nat /\ BSIZE \in Nat
      BY <1>2, <1>4, Consts
    <2>2. n - NDIRECT \in 0..(BSIZE - 1)
      BY <2>1
    <2> QED BY <2>2 DEF Unit
  <1>6. /\ n \in Nat /\ NDIRECT \in Nat /\ k0 \in Slot /\ k0 = SlotOf(n) /\ ~(k0 <= NDIRECT)
        /\ k0 - NDIRECT - 1 = e /\ n = e + NDIRECT
    <2>0. PICK top : top = MAXFILE
      OBVIOUS
    <2>4. top \in Nat /\ NDIRECT \in Nat /\ Slot = 0..top
      BY <2>0, Consts DEF Slot
    <2>5. n \in 0..(top - 1) /\ ~(n < NDIRECT) /\ k0 = n + 1 /\ e = n - NDIRECT
      BY <1>1, <1>2, <1>4, <1>5, <2>0
    <2>1. n \in Nat /\ NDIRECT \in Nat /\ n = e + NDIRECT /\ ~(k0 <= NDIRECT)
          /\ k0 - NDIRECT - 1 = e
      BY <2>4, <2>5
    <2>2. k0 = SlotOf(n)
      BY <1>1, <1>4 DEF SlotOf
    <2>3. k0 \in Slot
      BY <2>4, <2>5
    <2> QED BY <2>1, <2>2, <2>3
  <1>7. inode \in [Inode -> Dinode] /\ blk \in [Block -> [Unit -> Value]]
    BY <1>0 DEF DskTypeOK
  <1>8. <<i, NDIRECT>> \in Spot /\ Own[<<i, NDIRECT>>] = ind
    BY <1>0, <1>1, <1>2, <1>3, IndOwn
  <1>9. ind \in Block /\ ind # new
    BY <1>0, <1>4, <1>8, OwnIn
  <1>10. PICK c1, g : c1 = [blk EXCEPT ![new] = Zeroes] /\ g = [blk[ind] EXCEPT ![e] = new]
    OBVIOUS
  <1>11. /\ c1 \in [Block -> [Unit -> Value]] /\ c1[ind] = blk[ind]
         /\ \A x \in Block : x # new => c1[x] = blk[x]
    <2>1. Zeroes \in [Unit -> Value]
      BY DEF Zeroes, Value
    <2> QED BY <1>7, <1>9, <1>10, <2>1
  <1>12. g \in [Unit -> Value] /\ g[e] = new /\ \A u \in Unit : u # e => g[u] = blk[ind][u]
    <2>1. new \in Value
      BY Consts DEF Value
    <2>2. blk[ind] \in [Unit -> Value]
      BY <1>7, <1>9
    <2> QED BY <1>10, <2>1, <2>2
  <1>13. blk' = [c1 EXCEPT ![ind] = g]
    BY <1>4, <1>5, <1>9, <1>10, <1>11
  <1>14. /\ blk' \in [Block -> [Unit -> Value]] /\ blk'[ind] = g
         /\ \A x \in Block : x # new /\ x # ind => blk'[x] = blk[x]
    BY <1>9, <1>11, <1>12, <1>13
  <1>16. \A k \in Slot : Own[<<i, k>>] = SlotAt(a, blk, 0, k)
    BY <1>1, <1>2, <1>3, OwnAt
  <1>17. \A k \in Slot : Own'[<<i, k>>] = SlotAt(a, blk', 0, k)
    <2>1. Loaded(i)' = inode[i]
      BY <1>3, <1>4 DEF Loaded
    <2>2. Freed(i)' = 0
      <3>1. call'[p].j = call[p].j
        BY <1>0, <1>4 DEF CtlTypeOK, Call
      <3> QED BY <1>2, <3>1 DEF Freed
    <2>3. ASSUME NEW k \in Slot
          PROVE  Own'[<<i, k>>] = SlotAt(Loaded(i)'.addrs, blk', Freed(i)', k)
      BY <1>2 DEF Own, Spot
    <2> QED BY <1>1, <2>1, <2>2, <2>3
  <1>18. Own[<<i, k0>>] = NULL
    BY <1>2, <1>6
  <1>19. Own'[<<i, k0>>] = new
    <2>1. ~(e < 0)
      BY Consts DEF Unit
    <2>2. SlotAt(a, blk', 0, k0) = blk'[ind][e]
      BY <1>1, <1>4, <1>6, <2>1 DEF SlotAt
    <2> QED BY <1>6, <1>12, <1>14, <1>17, <2>2
  <1>20. ASSUME NEW k \in Slot, k # k0 PROVE Own'[<<i, k>>] = Own[<<i, k>>]
    <2>1. CASE k <= NDIRECT
      BY <1>16, <1>17, <2>1 DEF SlotAt
    <2>2. CASE ~(k <= NDIRECT)
      <3>1. PICK u \in Unit : u = k - NDIRECT - 1 /\ ~(u < 0)
        BY <2>2, Consts DEF Slot, Unit
      <3>2. u # e
        BY <1>6, <1>20, <3>1, Consts DEF Slot, Unit
      <3>3. SlotAt(a, blk', 0, k) = blk'[ind][u] /\ SlotAt(a, blk, 0, k) = blk[ind][u]
        BY <1>1, <1>4, <2>2, <3>1 DEF SlotAt
      <3> QED BY <1>12, <1>14, <1>16, <1>17, <3>2, <3>3
    <2> QED BY <2>1, <2>2
  <1>21. k0 # NDIRECT
    BY <1>6
  <1>22. call' = [call EXCEPT ![p] = [call[p] EXCEPT !.logged = @ \cup L]]
    BY <1>4
  <1>23. L \in SUBSET Block /\ \A x \in L : x = BBLOCK \/ x = new \/ (x # NULL /\ x = ind)
    BY <1>1, <1>4, <1>9, Consts
  <1>24. /\ inode' \in [Inode -> Dinode] /\ \A k \in Inode : k # i => inode'[k] = inode[k]
         /\ inode'[i] = inode[i]
    BY <1>4, <1>7
  <1>25. \A x \in Block : x # new /\ x # Own[<<i, NDIRECT>>] => blk'[x] = blk[x]
    BY <1>8, <1>14
  <1>26. \A x \in L : x = BBLOCK \/ x = new \/ (x # NULL /\ x = inode[i].addrs[NDIRECT])
    BY <1>1, <1>23
  <1>27. k0 = SlotOf(Bn(p))
    BY <1>1, <1>6
  <1>28. Gained(p, i, new, k0, L)
    BY <1>6, <1>14, <1>18, <1>19, <1>20, <1>21, <1>22, <1>23, <1>24, <1>25, <1>26, <1>27
       DEF Gained
  <1> QED BY <1>28

\* Every allocation gives one new block to one place.
LEMMA BallocGains ==
    ASSUME DInv, NEW p \in Proc, BallocFor(p), ~panicked'
    PROVE  \E new \in Block : \E k0, L :
              new \notin bitmap /\ bitmap' = bitmap \cup {new} /\ Gained(p, call[p].ip, new, k0, L)
  <1>1. /\ Looping(p) /\ call[p].op = "write" /\ bmap(call[p].ip, Bn(p)) = NULL
        /\ UNCHANGED <<ref, lock>>
    BY BallocIs
  <1>2. PICK new \in Block \ bitmap :
           /\ bitmap' = bitmap \cup {new}
           /\ \/ /\ Bn(p) < NDIRECT \/ inode[call[p].ip].addrs[NDIRECT] = NULL
                 /\ BallocDirect(p, new)
              \/ BallocIndirect(p, new)
    BY BallocIs
  <1>3. PICK i : i = call[p].ip
    OBVIOUS
  <1>4. new \in Block /\ new \notin bitmap
    BY <1>2
  <1>5. ASSUME Bn(p) < NDIRECT \/ inode[i].addrs[NDIRECT] = NULL, BallocDirect(p, new)
        PROVE  \E k0, L : Gained(p, i, new, k0, L)
    BY <1>1, <1>3, <1>4, <1>5, GainDirect
  <1>6. ASSUME BallocIndirect(p, new) PROVE \E k0, L : Gained(p, i, new, k0, L)
    BY <1>1, <1>3, <1>4, <1>6, GainIndirect
  <1>7. PICK k0, L : Gained(p, i, new, k0, L)
    BY <1>2, <1>3, <1>5, <1>6
  <1> QED BY <1>2, <1>3, <1>4, <1>7

\* The blocks of a write after an allocation.
LEMMA CoveredNew ==
    ASSUME NEW O, NEW Q, NEW i, NEW s, NEW o \in Nat, WriteCovered(O, i, s, o, TRUE),
           NEW k0, NEW new, new # NULL, Q[<<i, k0>>] = new,
           \A k \in Slot : k # k0 => Q[<<i, k>>] = O[<<i, k>>],
           k0 = SlotOf(o \div BSIZE) \/ k0 = NDIRECT, o \div BSIZE \in 0..(MAXFILE - 1)
    PROVE  WriteCovered(Q, i, s, o, TRUE)
  <1>1. ASSUME NEW n \in 0..(MAXFILE - 1)
        PROVE  /\ n * BSIZE < s \/ n * BSIZE < o => Q[<<i, SlotOf(n)>>] # NULL
               /\ Q[<<i, SlotOf(n)>>] # NULL =>
                    n * BSIZE < s \/ n * BSIZE < o \/ n = o \div BSIZE
    <2>1. SlotOf(n) \in Slot /\ SlotOf(n) # NDIRECT
      BY SlotIn
    <2>2. /\ n * BSIZE < s \/ n * BSIZE < o => O[<<i, SlotOf(n)>>] # NULL
          /\ O[<<i, SlotOf(n)>>] # NULL =>
               n * BSIZE < s \/ n * BSIZE < o \/ n = o \div BSIZE
      BY DEF WriteCovered
    <2>3. CASE SlotOf(n) = k0
      <3>1. n = o \div BSIZE
        BY <2>1, <2>3, SlotIn
      <3> QED BY <2>3, <3>1
    <2>4. CASE SlotOf(n) # k0
      <3>1. Q[<<i, SlotOf(n)>>] = O[<<i, SlotOf(n)>>]
        BY <2>1, <2>4
      <3> QED BY <2>2, <3>1
    <2> QED BY <2>3, <2>4
  <1> QED BY <1>1 DEF WriteCovered

\* An allocation of bmap() keeps the invariant.
LEMMA BallocStep ==
    ASSUME DInv, NEW p \in Proc, BallocFor(p), ~panicked' PROVE DInv'
  <1>0. /\ CtlInv /\ CtlTypeOK /\ LockInv /\ DskTypeOK /\ FreeInv /\ TruncInv /\ CallInv
        /\ HeadInv /\ DirInv /\ LogInv /\ OwnInv /\ HoleInv /\ ThroughInv /\ RangeInv
    BY DEF DInv, CtlInv
  <1>1. CtlInv' /\ SameRefs
    BY BallocCtl
  <1>2. /\ Looping(p) /\ call[p].op = "write"
        /\ UNCHANGED <<dinode, ref, lock, ftable, ofile, pstate>>
    BY BallocIs
  <1>3. PICK i, n0, o, s : i = call[p].ip /\ n0 = Bn(p) /\ o = Pos(p) /\ s = inode[i].size
    OBVIOUS
  <1>4. PICK new, k0, L : /\ new \in Block /\ new \notin bitmap
                          /\ bitmap' = bitmap \cup {new} /\ Gained(p, i, new, k0, L)
    BY <1>3, BallocGains
  <1>5. /\ i \in Inode /\ lock[i] = p /\ Freed(i) = 0 /\ call[p].tot \in Nat /\ call[p].n \in Nat
        /\ call[p].tot < call[p].n /\ n0 \in 0..(MAXFILE - 1) /\ Writing(i)
        /\ Own[<<i, SlotOf(n0)>>] = NULL
    BY <1>2, <1>3, LoopBlock, BallocIs
  <1>6. /\ Loops(p, "write") /\ n0 \in ChunkBlocks(p) /\ n0 = o \div BSIZE
        /\ FOff(p) \in Nat /\ o \in Nat /\ o < FOff(p) + call[p].n
        /\ i # ROOTINO /\ ref[i] # 0 /\ Locks(p) /\ ~panicked /\ inode[i] = Loaded(i)
        /\ WriteCovered(Own, i, s, o, TRUE)
    BY <1>2, <1>3, WriteBlock
  <1>7. /\ k0 \in Slot /\ Own[<<i, k0>>] = NULL /\ Own'[<<i, k0>>] = new
        /\ \A k \in Slot : k # k0 => Own'[<<i, k>>] = Own[<<i, k>>]
        /\ k0 = SlotOf(n0) \/ k0 = NDIRECT
        /\ inode' \in [Inode -> Dinode] /\ \A k \in Inode : k # i => inode'[k] = inode[k]
        /\ inode'[i].type = inode[i].type /\ inode'[i].nlink = inode[i].nlink
        /\ inode'[i].size = s
        /\ inode'[i].addrs[NDIRECT] = IF k0 = NDIRECT THEN new ELSE inode[i].addrs[NDIRECT]
    BY <1>3, <1>4 DEF Gained
  <1>8. /\ blk' \in [Block -> [Unit -> Value]]
        /\ \A x \in Block : x # new /\ x # Own[<<i, NDIRECT>>] => blk'[x] = blk[x]
    BY <1>4 DEF Gained
  <1>9. /\ call' = [call EXCEPT ![p] = [call[p] EXCEPT !.logged = @ \cup L]] /\ L \in SUBSET Block
        /\ \A x \in L : x = BBLOCK \/ x = new \/ (x # NULL /\ x = inode[i].addrs[NDIRECT])
    BY <1>4 DEF Gained
  <1>10. new # NULL /\ new \in Nat
    <2>1. NULL \in bitmap
      BY <1>0, Consts DEF OwnInv, OwnedOnce
    <2> QED BY <1>4, <2>1, Consts
  <1>11. PICK c : c = [call[p] EXCEPT !.logged = @ \cup L]
    OBVIOUS
  <1>12. /\ c \in Call /\ c.at = call[p].at /\ c.op = call[p].op /\ c.f = call[p].f
         /\ c.ip = i /\ c.n = call[p].n /\ c.tot = call[p].tot /\ c.j = call[p].j
         /\ c.left = call[p].left /\ c.logged = call[p].logged \cup L
    BY <1>0, <1>3, <1>9, <1>11, LogStep
  <1>13. call'[p] = c /\ Only(p)
    <2>1. call' = [call EXCEPT ![p] = c]
      BY <1>9, <1>11
    <2>2. call \in [Proc -> Call]
      BY <1>0 DEF CtlTypeOK
    <2>3. call'[p] = c /\ \A q \in Proc : q # p => call'[q] = call[q]
      BY <2>1, <2>2
    <2> QED BY <2>3 DEF Only
  <1>14. DskTypeOK'
    BY <1>0, <1>2, <1>4, <1>7, <1>8 DEF DskTypeOK
  <1>15. \A q \in Proc : SameOff(q)
    <2>1. SameOffs
      BY <1>2 DEF SameOffs
    <2> QED BY <1>0, <1>6, <2>1, SameOffOthers
  <1>16. /\ \A k \in Inode : k # i => Kept(k) /\ Freed(k)' = Freed(k)
         /\ \A q \in Proc : q # p /\ call[q].at = "loop" => call[q].ip # i
    BY <1>0, <1>2, <1>3, <1>5, <1>6, <1>7, <1>13, <1>15, HeldOthers
  <1>17. PICK w : w = <<i, NDIRECT>>
    OBVIOUS
  <1>18. w \in Spot /\ w[1] = i /\ Own[w] = inode[i].addrs[NDIRECT]
    BY <1>0, <1>5, <1>6, <1>17, IndOwn DEF Spot
  <1>19. ASSUME NEW k \in Inode, k # i PROVE SameSlots(k)
    <2>1. PICK a : a = Loaded(k).addrs[NDIRECT]
      OBVIOUS
    <2>2. <<k, NDIRECT>> \in Spot /\ Own[<<k, NDIRECT>>] = a
      BY <1>0, <2>1, IndOwn
    <2>3. ASSUME a # NULL PROVE blk'[a] = blk[a]
      <3>1. a \in Block /\ a \in bitmap
        BY <1>0, <2>2, <2>3, OwnIn
      <3>2. a # Own[w]
        <4>1. <<k, NDIRECT>> # w
          BY <1>17, <1>19
        <4> QED BY <1>0, <1>18, <2>2, <2>3, <4>1, OwnIn
      <3> QED BY <1>4, <1>8, <1>17, <3>1, <3>2
    <2>4. Loaded(k)' = Loaded(k) /\ Freed(k)' = Freed(k)
      BY <1>2, <1>7, <1>16, <1>19 DEF Loaded
    <2> QED BY <1>0, <2>1, <2>3, <2>4, SlotsSame
  <1>20. OwnInv'
    <2>1. PICK w0 : w0 = <<i, k0>>
      OBVIOUS
    <2>2. w0 \in Spot /\ Own[w0] = NULL /\ Own'[w0] = new
      BY <1>5, <1>7, <2>1 DEF Spot
    <2>3. ASSUME NEW v \in Spot, v # w0 PROVE Own'[v] = Own[v]
      <3>1. CASE v[1] = i
        <4>1. PICK k \in Slot : v = <<i, k>>
          BY <3>1 DEF Spot
        <4> QED BY <1>7, <2>1, <2>3, <4>1
      <3>2. CASE v[1] # i
        <4>1. v[1] \in Inode /\ SameSlots(v[1])
          BY <1>19, <3>2 DEF Spot
        <4> QED BY <4>1, SpotsSame
      <3> QED BY <3>1, <3>2
    <2>4. OwnedOnce(Own, bitmap) /\ bitmap \subseteq Nat
      BY <1>0, Consts DEF OwnInv, DskTypeOK
    <2>5. OwnedOnce(Own', bitmap \cup {new})
      BY <1>4, <1>10, <2>2, <2>3, <2>4, OwnGain
    <2> QED BY <1>4, <2>5 DEF OwnInv
  <1>21. DirInv'
    <2>1. Still(ROOTINO) /\ ROOTINO \in Inode
      BY RootStill
    <2>2. ASSUME NEW n \in 0..(MAXFILE - 1), Own[<<ROOTINO, SlotOf(n)>>] # NULL
          PROVE  blk'[Own[<<ROOTINO, SlotOf(n)>>]] = blk[Own[<<ROOTINO, SlotOf(n)>>]]
      <3>1. PICK v, x : v = <<ROOTINO, SlotOf(n)>> /\ x = Own[v]
        OBVIOUS
      <3>2. v \in Spot /\ v # w
        BY <1>6, <1>17, <2>1, <3>1, SlotIn DEF Spot
      <3>3. x \in bitmap /\ x \in Block /\ x # Own[w]
        BY <1>0, <1>18, <2>2, <3>1, <3>2, OwnIn
      <3> QED BY <1>4, <1>8, <1>17, <3>1, <3>3
    <2>3. /\ dinode'[ROOTINO].size = dinode[ROOTINO].size
          /\ \A k \in Inode : dinode'[k].type = dinode[k].type /\ dinode'[k].nlink = dinode[k].nlink
      BY <1>2
    <2>4. SameSlots(ROOTINO)
      BY <1>6, <1>19, <2>1
    <2> QED BY <1>0, <2>1, <2>2, <2>3, <2>4, DirFrame
  <1>22. /\ Loops(p, "write")' /\ FOff(p)' = FOff(p) /\ Pos(p)' = o /\ lock'[i] = p
         /\ call'[p].n = call[p].n /\ call'[p].ip = i /\ Writing(i)' /\ ~Still(i)'
         /\ call'[p].tot = call[p].tot
    <2>1. FOff(p)' = FOff(p) /\ Pos(p)' = o
      BY <1>2, <1>3, <1>12, <1>13 DEF FOff, Pos
    <2>2. Loops(p, "write")' /\ lock'[i] = p
      BY <1>2, <1>5, <1>6, <1>12, <1>13 DEF Loops
    <2>3. Writing(i)'
      BY <2>2, Procs DEF Writing
    <2> QED BY <1>12, <1>13, <2>1, <2>2, <2>3 DEF Still
  <1>23. HeadSane(i)'
    BY <1>0, <1>2, <1>5, <1>7 DEF HeadInv, HeadSane
  <1>24. s \in Nat
    BY <1>0, <1>3, <1>5, <1>6, LoadedType
  <1>25. ~(FOff(p) + call[p].n <= s)
    <2>1. ASSUME FOff(p) + call[p].n <= s PROVE FALSE
      <3>1. o < s
        BY <1>5, <1>6, <1>24, <2>1
      <3>2. PICK x : x = n0 * BSIZE
        OBVIOUS
      <3>3. x \in Nat /\ x <= o
        <4>1. n0 \in Nat /\ n0 = o \div BSIZE
          BY <1>5, <1>6
        <4>2. x <= o
          BY <1>6, <3>2, <4>1, Begins
        <4>3. x \in Nat
          BY <3>2, <4>1, Consts, SMTT(30)
        <4> QED BY <4>2, <4>3
      <3>4. x < s
        BY <1>6, <1>24, <3>1, <3>3
      <3> QED BY <1>5, <1>6, <3>2, <3>4 DEF WriteCovered
    <2> QED BY <2>1
  <1>26. ThroughSane(i)'
    <2>1. ThroughSane(i)
      BY <1>0, <1>5 DEF ThroughInv
    <2>2. dinode'[i].size = s
      BY <1>2, <1>3, <1>5, <2>1 DEF ThroughSane
    <2> QED BY <1>7, <1>22, <1>25, <2>2 DEF ThroughSane
  <1>27. HoleSane(i)'
    <2>1. o \div BSIZE \in 0..(MAXFILE - 1) /\ (k0 = SlotOf(o \div BSIZE) \/ k0 = NDIRECT)
      BY <1>5, <1>6, <1>7
    <2>2. WriteCovered(Own', i, s, o, TRUE)
      <3>1. PICK Q : Q = Own'
        OBVIOUS
      <3>2. Q[<<i, k0>>] = new /\ \A k \in Slot : k # k0 => Q[<<i, k>>] = Own[<<i, k>>]
        BY <1>7, <3>1
      <3>3. o \in Nat /\ WriteCovered(Own, i, s, o, TRUE) /\ new # NULL
        BY <1>6, <1>10
      <3>4. WriteCovered(Q, i, s, o, TRUE)
        BY <2>1, <3>2, <3>3, CoveredNew
      <3> QED BY <3>1, <3>4
    <2>3. (call'[p].tot < call'[p].n) = TRUE
      BY <1>5, <1>22
    <2> QED BY <1>7, <1>22, <2>2, <2>3 DEF HoleSane
  <1>28. RangeSane(p)'
    <2>1. RangeSane(p)
      BY <1>0 DEF RangeInv
    <2> QED BY <1>3, <1>6, <1>7, <1>12, <1>13, <1>22, <2>1 DEF RangeSane, Loops
  <1>29. LogSane(p)'
    <2>1. ChunkBlocks(p)' = ChunkBlocks(p)
      BY <1>22 DEF ChunkBlocks
    <2>2. ASSUME NEW x \in call'[p].logged PROVE Logged(p, x)'
      <3>0. SUFFICES \/ x = BBLOCK
                     \/ x # NULL /\ x = inode'[i].addrs[NDIRECT]
                     \/ x # NULL /\ \E n \in ChunkBlocks(p) :
                           n < MAXFILE /\ x = Own'[<<i, SlotOf(n)>>]
        BY <1>22, <2>1 DEF Logged
      <3>1. ASSUME NEW n \in ChunkBlocks(p), n < MAXFILE, Own[<<i, SlotOf(n)>>] # NULL
            PROVE  Own'[<<i, SlotOf(n)>>] = Own[<<i, SlotOf(n)>>]
        <4>1. FOff(p) \div BSIZE \in Nat /\ (FOff(p) + call[p].n - 1) \div BSIZE \in Int
          BY <1>5, <1>6, DivMod, Consts
        <4>2. n \in 0..(MAXFILE - 1)
          BY <3>1, <4>1, Consts DEF ChunkBlocks
        <4>3. SlotOf(n) \in Slot /\ SlotOf(n) # k0
          BY <1>7, <3>1, <4>2, SlotIn
        <4> QED BY <1>7, <4>3
      <3>2. inode[i].addrs[NDIRECT] # NULL => inode'[i].addrs[NDIRECT] = inode[i].addrs[NDIRECT]
        BY <1>7, <1>17, <1>18
      <3>3. CASE x = new
        <4>1. n0 \in ChunkBlocks(p) /\ n0 < MAXFILE
          BY <1>5, <1>6, Consts
        <4>2. CASE k0 = NDIRECT
          BY <1>7, <1>10, <3>3, <4>2
        <4>3. CASE k0 = SlotOf(n0)
          BY <1>7, <1>10, <3>3, <4>1, <4>3
        <4> QED BY <1>7, <4>2, <4>3
      <3>4. CASE x # new /\ x \in L
        BY <1>9, <3>2, <3>4
      <3>5. CASE x \notin L
        <4>1. x \in call[p].logged
          BY <1>12, <1>13, <2>2, <3>5
        <4>2. Logged(p, x)
          BY <1>0, <1>6, <4>1 DEF LogInv, LogSane
        <4> QED BY <1>3, <3>1, <3>2, <4>2 DEF Logged
      <3> QED BY <3>3, <3>4, <3>5
    <2> QED BY <1>22, <2>2 DEF LogSane
  <1>30. FreeInv' /\ TruncInv'
    <2>1. \A k \in Inode : dinode[k].type = "free" => lock'[k] = NoProc
      BY <1>0, <1>2 DEF FreeInv, FreeSane
    <2>2. call'[p].at \notin Iput /\ dinode' = dinode
      BY <1>2, <1>6, <1>12, <1>13 DEF Iput, Loops
    <2> QED BY <1>0, <1>1, <1>13, <2>1, <2>2, QuietRefs
  <1>31. /\ \A k \in Inode : k # i => inode'[k] = inode[k]
         /\ \A k \in Inode : k # i => dinode'[k] = dinode[k]
         /\ \A k \in Inode : k # i => ref'[k] = ref[k]
         /\ \A k \in Inode : k # i => SameSlots(k)
         /\ \A k \in Inode : k # i => Kept(k)
         /\ \A q \in Proc : q # p => SameOff(q)
         /\ \A q \in Proc : q # p /\ call[q].at = "loop" => call[q].ip # i
    BY <1>2, <1>7, <1>15, <1>16, <1>19
  <1> QED BY <1>1, <1>5, <1>6, <1>13, <1>14, <1>20, <1>21, <1>23, <1>26, <1>27, <1>28, <1>29,
             <1>30, <1>31, DataStep

\* The panic of balloc() keeps the invariant.
LEMMA BallocPanics ==
    ASSUME DInv, NEW p \in Proc, BallocFor(p), panicked' PROVE DInv'
  <1>1. Looping(p) /\ UNCHANGED <<dinode, ref, lock, ftable>>
    BY BallocIs
  <1>2. call[p].at = "loop" /\ ~panicked
    BY <1>1 DEF Looping, At
  <1>3. UNCHANGED <<bitmap, blk, inode, call>>
    BY <1>2, BallocIs
  <1>4. CtlInv' /\ SameRefs
    BY BallocCtl
  <1> QED BY <1>1, <1>2, <1>3, <1>4, PanicStep

\* The block numbers are as they were, and so are the indirect blocks.
LEMMA SameAddrs ==
    ASSUME CtlInv, OwnInv, UNCHANGED <<bitmap, blk>>,
           \A i \in Inode : Loaded(i)'.addrs = Loaded(i).addrs,
           \A i \in Inode : Freed(i)' = Freed(i)
    PROVE  OwnInv' /\ \A i \in Inode : SameSlots(i)
  <1>0. CtlTypeOK
    BY DEF CtlInv
  <1>1. ASSUME NEW i \in Inode PROVE SameSlots(i)
    <2>1. /\ Loaded(i)'.addrs = Loaded(i).addrs /\ Freed(i)' = Freed(i)
          /\ Loaded(i).addrs[NDIRECT] # NULL =>
               \A u \in Unit : blk'[Loaded(i).addrs[NDIRECT]][u] = blk[Loaded(i).addrs[NDIRECT]][u]
      OBVIOUS
    <2> QED BY <1>0, <2>1, SlotsSame
  <1>2. \A v \in Spot : Own'[v] = Own[v]
    BY <1>1, SpotsSame DEF Spot
  <1>3. OwnedOnce(Own', bitmap)
    BY <1>2, OwnSame DEF OwnInv
  <1> QED BY <1>1, <1>3 DEF OwnInv

\* The end of writei().
LEMMA GrowIs ==
    ASSUME DskTypeOK, NEW i \in Inode, NEW end \in Nat, end <= MAXFILE * BSIZE, Grow(i, end)
    PROVE  /\ inode' \in [Inode -> Dinode] /\ dinode' \in [Inode -> Dinode]
           /\ \A k \in Inode : k # i => inode'[k] = inode[k]
           /\ \A k \in Inode : k # i => dinode'[k] = dinode[k]
           /\ inode'[i].addrs = inode[i].addrs /\ inode'[i].type = inode[i].type
           /\ inode'[i].nlink = inode[i].nlink
           /\ \/ end > inode[i].size /\ inode'[i].size = end /\ dinode'[i] = inode'[i]
              \/ end <= inode[i].size /\ inode'[i] = inode[i] /\ dinode'[i] = dinode[i]
  <1>1. inode \in [Inode -> Dinode] /\ dinode \in [Inode -> Dinode] /\ inode[i] \in Dinode
    BY DEF DskTypeOK
  <1>2. MAXFILE * BSIZE \in Nat
    BY Consts, SMTT(30)
  <1>3. inode[i].size \in Nat
    BY <1>1, <1>2 DEF Dinode
  <1>4. CASE end > inode[i].size
    <2>1. PICK d : d = [inode[i] EXCEPT !.size = end]
      OBVIOUS
    <2>2. end \in 0..(MAXFILE * BSIZE)
      BY <1>2
    <2>3. /\ d \in Dinode /\ d.size = end /\ d.addrs = inode[i].addrs /\ d.type = inode[i].type
          /\ d.nlink = inode[i].nlink
      BY <1>1, <2>1, <2>2 DEF Dinode
    <2>4. inode' = [inode EXCEPT ![i] = d] /\ dinode' = [dinode EXCEPT ![i] = inode'[i]]
      BY <1>4, <2>1 DEF Grow
    <2>5. inode' \in [Inode -> Dinode] /\ inode'[i] = d
      BY <1>1, <2>3, <2>4
    <2>6. dinode' \in [Inode -> Dinode] /\ dinode'[i] = d
      BY <1>1, <2>3, <2>4, <2>5
    <2> QED BY <1>1, <1>4, <2>3, <2>4, <2>5, <2>6
  <1>5. CASE ~(end > inode[i].size)
    <2>1. inode' = inode /\ dinode' = dinode
      BY <1>5 DEF Grow
    <2> QED BY <1>1, <1>3, <1>5, <2>1
  <1> QED BY <1>4, <1>5

\* The end of a chunk, iupdate() included, keeps the invariant.
LEMMA WriteEndStep ==
    ASSUME DInv, NEW p \in Proc, WriteEnd(p) PROVE DInv'
  <1>0. /\ CtlInv /\ CtlTypeOK /\ LockInv /\ DskTypeOK /\ FreeInv /\ TruncInv /\ CallInv
        /\ HeadInv /\ DirInv /\ LogInv /\ OwnInv /\ HoleInv /\ ThroughInv /\ RangeInv
    BY DEF DInv, CtlInv
  <1>1. CtlInv' /\ SameRefs
    BY <1>0, WriteEndCtl
  <1>2. PICK i, n, s, end : i = call[p].ip /\ n = call[p].n /\ s = inode[i].size /\ end = Off(p)
    OBVIOUS
  <1>3. PICK c : c = IF call[p].left = n THEN Idle
                     ELSE [Idle EXCEPT !.at = "lock", !.op = "write", !.f = call[p].f, !.ip = i,
                                       !.left = call[p].left - n]
    OBVIOUS
  <1>4. c.at \in {"user", "lock"} /\ c.logged = {} /\ c.j = 0
    BY <1>3 DEF Idle
  <1>5. /\ call[p].at = "loop" /\ call[p].op = "write" /\ call[p].tot = n /\ ~panicked
        /\ Grow(i, end)
        /\ ftable' = [ftable EXCEPT ![call[p].f].off = @ + call[p].n]
        /\ lock' = [lock EXCEPT ![i] = NoProc] /\ call' = [call EXCEPT ![p] = c]
        /\ UNCHANGED <<bitmap, blk, ref>>
    BY <1>2, <1>3 DEF WriteEnd, LoopDone, At
  <1>6. /\ i \in Inode /\ lock[i] = p /\ ref[i] # 0 /\ call[p].f \in File
        /\ i # ROOTINO /\ Loops(p, "write") /\ Writing(i) /\ Locks(p) /\ call[p].j = 0
    <2>1. /\ i \in Inode /\ lock[i] = p /\ ref[i] # 0 /\ call[p].f \in File
      BY <1>0, <1>2, <1>5, LoopOther
    <2>2. i # ROOTINO /\ call[p].j = 0
      BY <1>0, <1>2, <1>5 DEF CallInv, CallSane
    <2> QED BY <1>5, <2>1, <2>2, Procs DEF Loops, Writing, Locks
  <1>7. /\ end = FOff(p) + n /\ end = Pos(p) /\ end \in Nat /\ end <= MAXFILE * BSIZE
        /\ n \in Nat /\ FOff(p) \in Nat
    <2>1. FOff(p) \in Nat /\ n \in Nat
      BY <1>0, <1>2, <1>6 DEF FOff, CtlTypeOK, OFile, Call
    <2>2. FOff(p) + n <= MAXFILE * BSIZE
      BY <1>0, <1>2, <1>6 DEF RangeInv, RangeSane
    <2>3. end = n + FOff(p) /\ Pos(p) = FOff(p) + n
      BY <1>2, <1>5 DEF Off, FOff, Pos
    <2> QED BY <2>1, <2>2, <2>3
  <1>8. /\ inode' \in [Inode -> Dinode] /\ dinode' \in [Inode -> Dinode]
        /\ \A k \in Inode : k # i => inode'[k] = inode[k]
        /\ \A k \in Inode : k # i => dinode'[k] = dinode[k]
        /\ inode'[i].addrs = inode[i].addrs /\ inode'[i].type = inode[i].type
        /\ inode'[i].nlink = inode[i].nlink
        /\ \/ end > s /\ inode'[i].size = end /\ dinode'[i] = inode'[i]
           \/ end <= s /\ inode'[i] = inode[i] /\ dinode'[i] = dinode[i]
    BY <1>0, <1>2, <1>5, <1>6, <1>7, GrowIs
  <1>9. s \in Nat
    BY <1>0, <1>2, <1>6, Consts, LoadedType DEF Loaded
  <1>10. dinode'[i] = inode'[i] /\ inode'[i].size = IF end > s THEN end ELSE s
    <2>1. ThroughSane(i)
      BY <1>0, <1>6 DEF ThroughInv
    <2>2. end <= s => inode[i] = dinode[i]
      BY <1>2, <1>6, <1>7, <2>1 DEF ThroughSane
    <2> QED BY <1>2, <1>7, <1>8, <1>9, <2>2
  <1>11. call'[p] = c /\ Only(p)
    BY <1>0, <1>5 DEF Only, CtlTypeOK
  <1>12. \A k \in Inode : lock'[k] = IF k = i THEN NoProc ELSE lock[k]
    BY <1>0, <1>5 DEF CtlTypeOK
  <1>13. \A q \in Proc : q # p => SameOff(q)
    BY <1>0, <1>5, MovedOff
  <1>14. DskTypeOK'
    BY <1>0, <1>5, <1>8 DEF DskTypeOK
  <1>15. /\ \A k \in Inode : k # i => Kept(k) /\ Freed(k)' = Freed(k)
         /\ \A q \in Proc : q # p /\ call[q].at = "loop" => call[q].ip # i
    BY <1>0, <1>2, <1>5, <1>6, <1>8, <1>11, <1>12, <1>13, HeldOthers
  <1>16. Freed(i)' = 0 /\ Freed(i) = 0
    BY <1>6, <1>12 DEF Freed
  <1>17. Loaded(i) = inode[i] /\ Loaded(i)' = inode'[i]
    BY <1>5, <1>6 DEF Loaded
  <1>18. OwnInv' /\ \A k \in Inode : SameSlots(k)
    <2>1. ASSUME NEW k \in Inode PROVE Loaded(k)'.addrs = Loaded(k).addrs /\ Freed(k)' = Freed(k)
      <3>1. CASE k = i
        BY <1>8, <1>16, <1>17, <3>1
      <3>2. CASE k # i
        BY <1>5, <1>8, <1>15, <3>2 DEF Loaded
      <3> QED BY <3>1, <3>2
    <2>2. UNCHANGED <<bitmap, blk>>
      BY <1>5
    <2> QED BY <1>0, <2>1, <2>2, SameAddrs
  <1>19. HeadSane(i) /\ inode[i].type = dinode[i].type /\ inode[i].nlink = dinode[i].nlink
    BY <1>0, <1>6 DEF HeadInv, HeadSane
  <1>20. DirInv'
    <2>1. Still(ROOTINO) /\ ROOTINO \in Inode
      BY RootStill
    <2>2. \A k \in Inode : dinode'[k].type = dinode[k].type /\ dinode'[k].nlink = dinode[k].nlink
      BY <1>8, <1>10, <1>19
    <2>3. SameSlots(ROOTINO) /\ dinode'[ROOTINO].size = dinode[ROOTINO].size
      BY <1>6, <1>8, <1>18, <2>1
    <2>4. \A m \in 0..(MAXFILE - 1) : Own[<<ROOTINO, SlotOf(m)>>] # NULL =>
             blk'[Own[<<ROOTINO, SlotOf(m)>>]] = blk[Own[<<ROOTINO, SlotOf(m)>>]]
      BY <1>5
    <2> QED BY <1>0, <2>1, <2>2, <2>3, <2>4, DirFrame
  <1>21. HeadSane(i)'
    BY <1>10 DEF HeadSane
  <1>22. ~Writing(i)' /\ ~Truncating(i)'
    BY <1>6, <1>12 DEF Writing, Truncating
  <1>23. ThroughSane(i)'
    BY <1>10, <1>17, <1>22 DEF ThroughSane
  <1>24. HoleSane(i)'
    <2>1. PICK t : t = inode'[i].size
      OBVIOUS
    <2>2. WriteCovered(Own, i, s, end, FALSE)
      <3>1. PICK more : more = (call[p].tot < call[p].n)
        OBVIOUS
      <3>2. WriteCovered(Own, i, s, end, more)
        BY <1>0, <1>2, <1>6, <1>7, <3>1 DEF HoleInv, HoleSane
      <3>3. ~more
        <4>1. ~(call[p].tot < call[p].n)
          BY <1>2, <1>5, <1>7
        <4> QED BY <3>1, <4>1, Zenon
      <3> QED BY <3>2, <3>3 DEF WriteCovered
    <2>3. Covered(Own', i, t)
      <3>1. ASSUME NEW m \in 0..(MAXFILE - 1)
            PROVE  Own'[<<i, SlotOf(m)>>] # NULL <=> m * BSIZE < t
        <4>1. PICK x : x = m * BSIZE
          OBVIOUS
        <4>2. x \in Nat
          BY <4>1, Consts, SMTT(30)
        <4>3. x < t <=> x < s \/ x < end
          BY <1>7, <1>9, <1>10, <2>1, <4>2
        <4>4. Own[<<i, SlotOf(m)>>] # NULL <=> x < s \/ x < end
          BY <2>2, <4>1 DEF WriteCovered
        <4>5. Own'[<<i, SlotOf(m)>>] = Own[<<i, SlotOf(m)>>]
          BY <1>6, <1>18, SlotIn DEF SameSlots
        <4> QED BY <4>1, <4>3, <4>4, <4>5
      <3> QED BY <3>1 DEF Covered
    <2> QED BY <1>17, <1>22, <2>1, <2>3 DEF HoleSane
  <1>25. RangeSane(p)' /\ LogSane(p)'
    BY <1>4, <1>11, FewNone DEF RangeSane, LogSane, Few, Loops
  <1>26. FreeInv' /\ TruncInv'
    <2>1. call'[p].at \notin Iput
      BY <1>4, <1>11 DEF Iput
    <2>2. dinode[i].type # "free"
      BY <1>0, <1>6, Procs DEF FreeInv, FreeSane
    <2>3. ASSUME NEW k \in Inode, dinode'[k].type = "free"
          PROVE  dinode[k].type = "free" /\ dinode'[k] = dinode[k] /\ lock'[k] = NoProc
      <3>1. k # i
        BY <1>8, <1>10, <1>19, <2>2, <2>3
      <3>2. dinode'[k] = dinode[k] /\ lock'[k] = lock[k]
        BY <1>8, <1>12, <3>1
      <3> QED BY <1>0, <2>3, <3>2 DEF FreeInv, FreeSane
    <2>4. \A k \in Inode : dinode'[k].nlink = dinode[k].nlink
      BY <1>8, <1>10, <1>19
    <2> QED BY <1>0, <1>1, <1>11, <2>1, <2>3, <2>4, HeadRefs
  <1>27. /\ \A k \in Inode : k # i => inode'[k] = inode[k]
         /\ \A k \in Inode : k # i => dinode'[k] = dinode[k]
         /\ \A k \in Inode : k # i => ref'[k] = ref[k]
         /\ \A k \in Inode : k # i => SameSlots(k)
         /\ \A k \in Inode : k # i => Kept(k)
    BY <1>5, <1>8, <1>15, <1>18
  <1> QED BY <1>1, <1>5, <1>6, <1>11, <1>13, <1>14, <1>15, <1>18, <1>20, <1>21, <1>23, <1>24,
             <1>25, <1>26, <1>27, DataStep

-----------------------------------------------------------------------------
(* itrunc() gives back the block of one place.                             *)

Cut(a, a2, k) == a2 = [a EXCEPT ![k] = NULL]
AddrSet(i, k, b) == inode' = [inode EXCEPT ![i].addrs[k] = b]
NullFrom(bs, b, j, m) == \A x \in Unit : j <= x /\ x < m => bs[b][x] = NULL

\* Place k0 has named block b and names none; the others are as they were.
OneLess(a, j, a2, j2, bs, k0, b) ==
    /\ k0 \in Slot /\ SlotAt(a, bs, j, k0) = b /\ SlotAt(a2, bs, j2, k0) = NULL
    /\ \A k \in Slot : k # k0 => SlotAt(a2, bs, j2, k) = SlotAt(a, bs, j, k)

\* itrunc() gives up a direct block.
LEMMA LoseDirect ==
    ASSUME NEW a \in [0..NDIRECT -> Block], NEW a2, NEW bs, NEW j \in Nat,
           NEW k0 \in 0..(NDIRECT - 1), Cut(a, a2, k0)
    PROVE  OneLess(a, j, a2, j, bs, k0, a[k0])
  <1>1. NDIRECT \in Nat /\ k0 \in 0..NDIRECT /\ NDIRECT \in 0..NDIRECT /\ k0 # NDIRECT
        /\ k0 <= NDIRECT
    BY Consts
  <1>2. a2[k0] = NULL /\ \A k \in 0..NDIRECT : k # k0 => a2[k] = a[k]
    BY <1>1 DEF Cut
  <1>3. k0 \in Slot
    BY <1>1, Consts DEF Slot
  <1>4. ASSUME NEW k \in Slot, k # k0 PROVE SlotAt(a2, bs, j, k) = SlotAt(a, bs, j, k)
    <2>1. k <= NDIRECT => k \in 0..NDIRECT
      BY <1>1 DEF Slot
    <2> QED BY <1>1, <1>2, <1>4, <2>1 DEF SlotAt
  <1>5. SlotAt(a, bs, j, k0) = a[k0] /\ SlotAt(a2, bs, j, k0) = NULL
    BY <1>1, <1>2 DEF SlotAt
  <1> QED BY <1>3, <1>4, <1>5 DEF OneLess

\* itrunc() gives up a block that the indirect block lists.
LEMMA LoseEntry ==
    ASSUME NEW a, NEW bs, NEW j \in Nat, NEW m \in Unit, j <= m, a[NDIRECT] # NULL,
           NullFrom(bs, a[NDIRECT], j, m), NEW k0, k0 = NDIRECT + 1 + m
    PROVE  OneLess(a, j, a, m + 1, bs, k0, bs[a[NDIRECT]][m])
  <1>0. NDIRECT \in Nat /\ m \in Nat /\ Unit \subseteq Nat
    BY Consts
  <1>1. k0 \in Slot /\ ~(k0 <= NDIRECT) /\ k0 - NDIRECT - 1 = m /\ ~(m < j) /\ m < m + 1
    BY <1>0, Consts DEF Slot, Unit
  <1>2. SlotAt(a, bs, j, k0) = bs[a[NDIRECT]][m] /\ SlotAt(a, bs, m + 1, k0) = NULL
    BY <1>1 DEF SlotAt
  <1>3. ASSUME NEW k \in Slot, k # k0 PROVE SlotAt(a, bs, m + 1, k) = SlotAt(a, bs, j, k)
    <2>1. CASE k <= NDIRECT
      BY <2>1 DEF SlotAt
    <2>2. CASE ~(k <= NDIRECT)
      <3>1. PICK x \in Unit : x = k - NDIRECT - 1
        BY <1>0, <2>2, Consts DEF Slot, Unit
      <3>2. x # m /\ x \in Nat
        BY <1>0, <1>3, <3>1 DEF Slot
      <3>3. CASE x < j
        <4>1. x < m + 1
          BY <1>0, <3>2, <3>3
        <4> QED BY <2>2, <3>1, <3>3, <4>1 DEF SlotAt
      <3>4. CASE j <= x /\ x < m
        <4>1. x < m + 1 /\ ~(x < j) /\ bs[a[NDIRECT]][x] = NULL
          BY <1>0, <3>2, <3>4 DEF NullFrom
        <4> QED BY <2>2, <3>1, <4>1 DEF SlotAt
      <3>5. CASE x > m
        <4>1. ~(x < m + 1) /\ ~(x < j)
          BY <1>0, <3>2, <3>5
        <4> QED BY <2>2, <3>1, <4>1 DEF SlotAt
      <3> QED BY <1>0, <3>2, <3>3, <3>4, <3>5
    <2> QED BY <2>1, <2>2
  <1> QED BY <1>1, <1>2, <1>3 DEF OneLess

\* itrunc() gives up the indirect block, of which it has passed every entry.
LEMMA LoseIndirect ==
    ASSUME NEW a \in [0..NDIRECT -> Block], NEW a2, NEW bs, NEW j \in Nat, a[NDIRECT] # NULL,
           NullFrom(bs, a[NDIRECT], j, BSIZE), Cut(a, a2, NDIRECT)
    PROVE  OneLess(a, j, a2, j, bs, NDIRECT, a[NDIRECT])
  <1>1. NDIRECT \in Nat /\ NDIRECT \in 0..NDIRECT /\ NDIRECT <= NDIRECT /\ NDIRECT \in Slot
    BY Consts DEF Slot
  <1>2. a2[NDIRECT] = NULL /\ \A k \in 0..NDIRECT : k # NDIRECT => a2[k] = a[k]
    BY <1>1 DEF Cut
  <1>3. ASSUME NEW k \in Slot, k # NDIRECT PROVE SlotAt(a2, bs, j, k) = SlotAt(a, bs, j, k)
    <2>1. CASE k <= NDIRECT
      <3>1. k \in 0..NDIRECT
        BY <2>1, Consts DEF Slot
      <3> QED BY <1>2, <1>3, <2>1, <3>1 DEF SlotAt
    <2>2. CASE ~(k <= NDIRECT)
      <3>1. PICK x \in Unit : x = k - NDIRECT - 1
        BY <1>1, <2>2, Consts DEF Slot, Unit
      <3>2. x \in Nat
        BY Consts
      <3>3. SlotAt(a2, bs, j, k) = NULL
        BY <1>2, <2>2 DEF SlotAt
      <3>4. SlotAt(a, bs, j, k) = NULL
        <4>1. x < j \/ bs[a[NDIRECT]][x] = NULL
          BY <3>2, Consts DEF NullFrom, Unit
        <4> QED BY <2>2, <3>1, <4>1 DEF SlotAt
      <3> QED BY <3>3, <3>4
    <2> QED BY <2>1, <2>2
  <1>4. SlotAt(a, bs, j, NDIRECT) = a[NDIRECT] /\ SlotAt(a2, bs, j, NDIRECT) = NULL
    BY <1>1, <1>2 DEF SlotAt
  <1> QED BY <1>1, <1>3, <1>4 DEF OneLess

\* Inode i has lost the block of place k0.
Lost(p, i, k0) ==
    /\ k0 \in Slot /\ Own[<<i, k0>>] # NULL /\ bfree(p, Own[<<i, k0>>])
    /\ Own'[<<i, k0>>] = NULL
    /\ \A k \in Slot : k # k0 => Own'[<<i, k>>] = Own[<<i, k>>]
    /\ inode' \in [Inode -> Dinode] /\ \A k \in Inode : k # i => inode'[k] = inode[k]
    /\ inode'[i].type = inode[i].type /\ inode'[i].nlink = inode[i].nlink

\* The addresses of inode i change.
Readdressed(i, a2) ==
    /\ inode' \in [Inode -> Dinode] /\ \A m \in Inode : m # i => inode'[m] = inode[m]
    /\ inode'[i].type = inode[i].type /\ inode'[i].nlink = inode[i].nlink
    /\ inode'[i].addrs = a2

\* An inode with one address cleared.
LEMMA SetAddr ==
    ASSUME inode \in [Inode -> Dinode], NEW i \in Inode, NEW k \in 0..NDIRECT,
           AddrSet(i, k, NULL), NEW a2, Cut(inode[i].addrs, a2, k)
    PROVE  Readdressed(i, a2)
  <1>1. PICK a : a = inode[i].addrs
    OBVIOUS
  <1>2. inode[i] \in Dinode /\ a \in [0..NDIRECT -> Block]
    BY <1>1 DEF Dinode
  <1>3. a2 \in [0..NDIRECT -> Block] /\ a2 = [a EXCEPT ![k] = NULL]
    BY <1>1, <1>2, Consts DEF Cut
  <1>4. PICK d : d = [inode[i] EXCEPT !.addrs = a2]
    OBVIOUS
  <1>5. /\ d \in Dinode /\ d.type = inode[i].type /\ d.nlink = inode[i].nlink /\ d.addrs = a2
    BY <1>2, <1>3, <1>4 DEF Dinode
  <1>6. inode' = [inode EXCEPT ![i] = d]
    BY <1>1, <1>3, <1>4 DEF AddrSet
  <1>7. inode'[i] = d /\ inode' \in [Inode -> Dinode]
        /\ \A m \in Inode : m # i => inode'[m] = inode[m]
    BY <1>5, <1>6
  <1> QED BY <1>1, <1>5, <1>7 DEF Readdressed

\* Every step of itrunc() takes one block from one place.
LEMMA TruncLoses ==
    ASSUME CtlInv, DskTypeOK, NEW p \in Proc, Trunc(p), NEW i, i = call[p].ip
    PROVE  \E k0 : Lost(p, i, k0)
  <1>0. CtlTypeOK
    BY DEF CtlInv
  <1>1. PICK a, j : a = inode[i].addrs /\ j = call[p].j
    OBVIOUS
  <1>2. /\ CtlInv' /\ Only(p) /\ lock[i] = p /\ i \in Inode /\ UNCHANGED <<blk, dinode, ref, lock>>
        /\ call[p].at = "trunc" /\ p # NoProc
    BY TruncCtl, Procs DEF Trunc, At
  <1>3. inode \in [Inode -> Dinode] /\ a \in [0..NDIRECT -> Block] /\ j \in Nat
    <2>1. inode \in [Inode -> Dinode] /\ inode[i] \in Dinode
      BY <1>2 DEF DskTypeOK
    <2>2. call[p] \in Call
      BY <1>0 DEF CtlTypeOK
    <2>3. j \in 0..NINDIRECT
      BY <1>1, <2>2 DEF Call
    <2>4. j \in Nat
      BY <2>3, Consts
    <2>5. a \in [0..NDIRECT -> Block]
      BY <1>1, <2>1 DEF Dinode
    <2> QED BY <2>1, <2>4, <2>5
  <1>4. ref[i] # 0
    BY <1>2, LockedRef
  <1>5. \A k \in Slot : Own[<<i, k>>] = SlotAt(a, blk, j, k)
    <2>1. Loaded(i) = inode[i] /\ Freed(i) = j
      BY <1>1, <1>2, <1>4 DEF Loaded, Freed
    <2> QED BY <1>1, <1>2, <2>1, OwnAt
  <1>6. ASSUME NEW a2, NEW j2, a2 = inode'[i].addrs, j2 = call'[p].j
        PROVE  \A k \in Slot : Own'[<<i, k>>] = SlotAt(a2, blk, j2, k)
    <2>1. Loaded(i)' = inode'[i] /\ Freed(i)' = j2
      BY <1>2, <1>4, <1>6 DEF Loaded, Freed
    <2>2. ASSUME NEW k \in Slot
          PROVE  Own'[<<i, k>>] = SlotAt(Loaded(i)'.addrs, blk', Freed(i)', k)
      BY <1>2 DEF Own, Spot
    <2> QED BY <1>2, <1>6, <2>1, <2>2
  <1>7. NULL \in Block /\ NDIRECT \in 0..NDIRECT /\ NDIRECT \in Nat
    BY Consts
  <1>8. CASE /\ Direct(i) # {} /\ bfree(p, a[Min(Direct(i))])
             /\ inode' = [inode EXCEPT ![i].addrs[Min(Direct(i))] = NULL]
             /\ call' = [call EXCEPT ![p].logged = @ \cup {BBLOCK}]
    <2>1. PICK S, k0 : S = Direct(i) /\ k0 = Min(S)
      OBVIOUS
    <2>2. k0 \in S
      <3>1. S = {k \in 0..(NDIRECT - 1) : a[k] # NULL} /\ S # {}
        BY <1>1, <1>8, <2>1 DEF Direct
      <3>2. S \subseteq Nat
        BY <1>7, <3>1
      <3> QED BY <2>1, <3>1, <3>2, MinNat
    <2>20. k0 \in 0..(NDIRECT - 1) /\ a[k0] # NULL
      BY <1>1, <2>1, <2>2 DEF Direct
    <2>3. k0 \in 0..(NDIRECT - 1) /\ a[k0] # NULL /\ k0 \in 0..NDIRECT
      BY <1>7, <2>20
    <2>4. bfree(p, a[k0]) /\ AddrSet(i, k0, NULL)
      BY <1>8, <2>1 DEF AddrSet
    <2>5. PICK a2 : Cut(a, a2, k0)
      BY DEF Cut
    <2>6. /\ inode' \in [Inode -> Dinode] /\ \A m \in Inode : m # i => inode'[m] = inode[m]
          /\ inode'[i].type = inode[i].type /\ inode'[i].nlink = inode[i].nlink
          /\ inode'[i].addrs = a2
      <3>1. Cut(inode[i].addrs, a2, k0)
        BY <1>1, <2>5
      <3>2. Readdressed(i, a2)
        BY <1>2, <1>3, <2>3, <2>4, <3>1, SetAddr
      <3> QED BY <3>2 DEF Readdressed
    <2>7. call'[p].j = j
      BY <1>0, <1>1, <1>8 DEF CtlTypeOK, Call
    <2>8. \A k \in Slot : Own'[<<i, k>>] = SlotAt(a2, blk, j, k)
      BY <1>6, <2>6, <2>7
    <2>9. OneLess(a, j, a2, j, blk, k0, a[k0])
      BY <1>3, <2>3, <2>5, LoseDirect
    <2>10. /\ Own[<<i, k0>>] = a[k0] /\ Own'[<<i, k0>>] = NULL
           /\ \A k \in Slot : k # k0 => Own'[<<i, k>>] = Own[<<i, k>>]
      BY <1>5, <2>8, <2>9 DEF OneLess
    <2>11. Lost(p, i, k0)
      BY <2>3, <2>4, <2>6, <2>9, <2>10 DEF Lost, OneLess
    <2> QED BY <2>11
  <1>9. ASSUME a[NDIRECT] # NULL, Entries(p) # {}, bfree(p, blk[a[NDIRECT]][Min(Entries(p))]),
               call' = [call EXCEPT ![p].j = Min(Entries(p)) + 1], inode' = inode
        PROVE  \E k0 : Lost(p, i, k0)
    <2>1. PICK S, m : S = Entries(p) /\ m = Min(S)
      OBVIOUS
    <2>2. m \in S /\ \A y \in S : m <= y
      <3>1. S \subseteq Nat /\ S # {}
        BY <1>0, <1>9, <2>1, EntriesIn
      <3> QED BY <2>1, <3>1, MinNat
    <2>3. S = {k \in j..(NINDIRECT - 1) : blk[a[NDIRECT]][k] # NULL}
      BY <1>1, <2>1 DEF Entries
    <2>4. m \in Unit /\ j <= m /\ blk[a[NDIRECT]][m] # NULL
      BY <1>3, <2>2, <2>3, Consts DEF Unit
    <2>5. NullFrom(blk, a[NDIRECT], j, m)
      <3>0. SUFFICES ASSUME NEW x \in Unit, j <= x, x < m PROVE blk[a[NDIRECT]][x] = NULL
        BY DEF NullFrom
      <3>1. x \in j..(NINDIRECT - 1) /\ ~(m <= x)
        BY <1>3, <2>4, <3>0, Consts DEF Unit
      <3> QED BY <2>2, <2>3, <3>1
    <2>6. PICK k0 : k0 = NDIRECT + 1 + m
      OBVIOUS
    <2>7. call'[p].j = m + 1
      BY <1>0, <1>9, <2>1 DEF CtlTypeOK, Call
    <2>8. \A k \in Slot : Own'[<<i, k>>] = SlotAt(a, blk, m + 1, k)
      BY <1>1, <1>6, <1>9, <2>7
    <2>9. OneLess(a, j, a, m + 1, blk, k0, blk[a[NDIRECT]][m])
      BY <1>3, <1>9, <2>4, <2>5, <2>6, LoseEntry
    <2>10. /\ Own[<<i, k0>>] = blk[a[NDIRECT]][m] /\ Own'[<<i, k0>>] = NULL
           /\ \A k \in Slot : k # k0 => Own'[<<i, k>>] = Own[<<i, k>>]
      BY <1>5, <2>8, <2>9 DEF OneLess
    <2>11. bfree(p, Own[<<i, k0>>])
      BY <1>9, <2>1, <2>10
    <2>12. Lost(p, i, k0)
      BY <1>3, <1>9, <2>4, <2>9, <2>10, <2>11 DEF Lost, OneLess
    <2> QED BY <2>12
  <1>10. ASSUME a[NDIRECT] # NULL, Entries(p) = {}, bfree(p, a[NDIRECT]),
                inode' = [inode EXCEPT ![i].addrs[NDIRECT] = NULL], call' = call
         PROVE  \E k0 : Lost(p, i, k0)
    <2>1. {k \in j..(NINDIRECT - 1) : blk[a[NDIRECT]][k] # NULL} = {}
      BY <1>1, <1>10 DEF Entries
    <2>2. NullFrom(blk, a[NDIRECT], j, BSIZE)
      <3>0. SUFFICES ASSUME NEW x \in Unit, j <= x PROVE blk[a[NDIRECT]][x] = NULL
        BY DEF NullFrom
      <3>1. x \in j..(NINDIRECT - 1)
        BY <1>3, <3>0, Consts DEF Unit
      <3> QED BY <2>1, <3>1
    <2>3. PICK a2 : Cut(a, a2, NDIRECT)
      BY DEF Cut
    <2>13. AddrSet(i, NDIRECT, NULL)
      BY <1>10 DEF AddrSet
    <2>4. /\ inode' \in [Inode -> Dinode] /\ \A m \in Inode : m # i => inode'[m] = inode[m]
          /\ inode'[i].type = inode[i].type /\ inode'[i].nlink = inode[i].nlink
          /\ inode'[i].addrs = a2
      <3>1. Cut(inode[i].addrs, a2, NDIRECT)
        BY <1>1, <2>3
      <3>2. Readdressed(i, a2)
        BY <1>2, <1>3, <1>7, <2>13, <3>1, SetAddr
      <3> QED BY <3>2 DEF Readdressed
    <2>5. \A k \in Slot : Own'[<<i, k>>] = SlotAt(a2, blk, j, k)
      <3>1. call'[p].j = j
        BY <1>1, <1>10
      <3> QED BY <1>6, <2>4, <3>1
    <2>6. OneLess(a, j, a2, j, blk, NDIRECT, a[NDIRECT])
      BY <1>3, <1>10, <2>2, <2>3, LoseIndirect
    <2>7. /\ Own[<<i, NDIRECT>>] = a[NDIRECT] /\ Own'[<<i, NDIRECT>>] = NULL
          /\ \A k \in Slot : k # NDIRECT => Own'[<<i, k>>] = Own[<<i, k>>]
      BY <1>5, <2>5, <2>6 DEF OneLess
    <2>8. Lost(p, i, NDIRECT)
      BY <1>10, <2>4, <2>6, <2>7 DEF Lost, OneLess
    <2> QED BY <2>8
  <1> QED BY <1>1, <1>8, <1>9, <1>10 DEF Trunc

\* A step of itrunc() keeps the invariant.
LEMMA TruncStep ==
    ASSUME DInv, NEW p \in Proc, Trunc(p) PROVE DInv'
  <1>0. /\ CtlInv /\ CtlTypeOK /\ LockInv /\ DskTypeOK /\ FreeInv /\ TruncInv
        /\ HeadInv /\ DirInv /\ LogInv /\ OwnInv /\ HoleInv /\ ThroughInv
    BY DEF DInv, CtlInv
  <1>1. PICK i : i = call[p].ip
    OBVIOUS
  <1>2. /\ CtlInv' /\ SameRefs /\ Only(p) /\ lock[i] = p /\ i \in Inode
        /\ call'[p].at = "trunc" /\ call'[p].ip = i
        /\ call'[p].logged \subseteq call[p].logged \cup {BBLOCK}
    BY <1>0, <1>1, TruncCtl
  <1>3. /\ call[p].at = "trunc" /\ ~panicked /\ Locks(p)
        /\ UNCHANGED <<blk, dinode, ref, lock, ftable>>
    BY DEF Trunc, At, Locks
  <1>4. PICK k0 : Lost(p, i, k0)
    BY <1>0, <1>1, TruncLoses
  <1>5. /\ k0 \in Slot /\ Own[<<i, k0>>] # NULL /\ bfree(p, Own[<<i, k0>>])
        /\ Own'[<<i, k0>>] = NULL
        /\ \A k \in Slot : k # k0 => Own'[<<i, k>>] = Own[<<i, k>>]
        /\ inode' \in [Inode -> Dinode] /\ \A k \in Inode : k # i => inode'[k] = inode[k]
        /\ inode'[i].type = inode[i].type /\ inode'[i].nlink = inode[i].nlink
    BY <1>4 DEF Lost
  <1>6. i # ROOTINO
    BY <1>2, <1>3, RootStill, Procs DEF Still, Truncating
  <1>7. \A q \in Proc : SameOff(q)
    <2>1. SameOffs
      BY <1>3 DEF SameOffs
    <2> QED BY <1>0, <1>3, <2>1, SameOffOthers
  <1>8. /\ \A k \in Inode : k # i => Kept(k) /\ Freed(k)' = Freed(k)
        /\ \A q \in Proc : q # p /\ call[q].at = "loop" => call[q].ip # i
    BY <1>0, <1>1, <1>2, <1>3, <1>5, <1>7, HeldOthers
  <1>9. ASSUME NEW k \in Inode, k # i PROVE SameSlots(k)
    <2>1. Loaded(k)' = Loaded(k) /\ Freed(k)' = Freed(k)
      BY <1>3, <1>5, <1>8, <1>9 DEF Loaded
    <2>2. Loaded(k)'.addrs = Loaded(k).addrs /\
          (Loaded(k).addrs[NDIRECT] # NULL =>
             \A u \in Unit : blk'[Loaded(k).addrs[NDIRECT]][u] = blk[Loaded(k).addrs[NDIRECT]][u])
      BY <1>3, <2>1
    <2> QED BY <1>0, <2>1, <2>2, SlotsSame
  <1>10. OwnInv' /\ bitmap' \subseteq bitmap
    <2>1. PICK w0, b : w0 = <<i, k0>> /\ b = Own[w0]
      OBVIOUS
    <2>2. w0 \in Spot /\ Own[w0] # NULL /\ Own'[w0] = NULL
      BY <1>2, <1>5, <2>1 DEF Spot
    <2>3. ASSUME NEW v \in Spot, v # w0 PROVE Own'[v] = Own[v]
      <3>1. CASE v[1] = i
        <4>1. PICK k \in Slot : v = <<i, k>>
          BY <3>1 DEF Spot
        <4> QED BY <1>5, <2>1, <2>3, <4>1
      <3>2. CASE v[1] # i
        <4>1. v[1] \in Inode /\ SameSlots(v[1])
          BY <1>9, <3>2 DEF Spot
        <4> QED BY <4>1, SpotsSame
      <3> QED BY <3>1, <3>2
    <2>4. OwnedOnce(Own, bitmap) /\ bitmap \subseteq Nat
      BY <1>0, Consts DEF OwnInv, DskTypeOK
    <2>5. OwnedOnce(Own', bitmap \ {Own[w0]}) /\ Own[w0] \in bitmap
      BY <2>2, <2>3, <2>4, OwnLose
    <2>6. bitmap' = bitmap \ {Own[w0]}
      BY <1>5, <2>1, <2>5 DEF bfree
    <2> QED BY <2>5, <2>6 DEF OwnInv
  <1>11. DskTypeOK'
    BY <1>0, <1>3, <1>5, <1>10 DEF DskTypeOK
  <1>12. DirInv'
    <2>1. Still(ROOTINO) /\ ROOTINO \in Inode
      BY RootStill
    <2>2. /\ \A k \in Inode : dinode'[k].type = dinode[k].type /\ dinode'[k].nlink = dinode[k].nlink
          /\ SameSlots(ROOTINO) /\ dinode'[ROOTINO].size = dinode[ROOTINO].size
          /\ \A m \in 0..(MAXFILE - 1) : Own[<<ROOTINO, SlotOf(m)>>] # NULL =>
               blk'[Own[<<ROOTINO, SlotOf(m)>>]] = blk[Own[<<ROOTINO, SlotOf(m)>>]]
      BY <1>3, <1>6, <1>9, <2>1
    <2> QED BY <1>0, <2>1, <2>2, DirFrame
  <1>13. Truncating(i)' /\ ~Writing(i)' /\ ~Still(i)'
    BY <1>2, <1>3, Procs DEF Truncating, Writing, Still, Loops
  <1>14. HeadSane(i)' /\ ThroughSane(i)' /\ HoleSane(i)'
    <2>1. HeadSane(i)'
      BY <1>0, <1>2, <1>3, <1>5 DEF HeadInv, HeadSane
    <2> QED BY <1>13, <2>1 DEF ThroughSane, HoleSane
  <1>15. RangeSane(p)' /\ LogSane(p)'
    <2>1. Few(call[p].logged)
      BY <1>0, <1>3, IdleLogged
    <2>2. Few(call'[p].logged)
      BY <1>2, <2>1, FewMore
    <2> QED BY <1>2, <2>2 DEF RangeSane, LogSane, Few, Loops
  <1>16. FreeInv' /\ TruncInv'
    <2>1. dinode[i].type # "free"
      BY <1>0, <1>2, Procs DEF FreeInv, FreeSane
    <2>2. ASSUME NEW k \in Inode, dinode[k].type = "free"
          PROVE  /\ lock'[k] = NoProc /\ Opened(k)' = {} /\ Putting(k)' \subseteq Putting(k)
                 /\ p \in Putting(k)' => call'[p].at = "drop"
      <3>1. FreeSane(k) /\ Opened(k)' = Opened(k) /\ Putting(k)' = Putting(k) /\ k # i
        BY <1>0, <1>2, <2>1, <2>2 DEF FreeInv, SameRefs
      <3>2. p \notin Putting(k)'
        BY <1>2, <3>1 DEF Putting
      <3> QED BY <1>3, <2>2, <3>1, <3>2 DEF FreeSane
    <2>3. \A q \in Proc : q # p /\ call[q].at = "trunc" =>
            Opened(call[q].ip)' = Opened(call[q].ip) /\ Putting(call[q].ip)' = Putting(call[q].ip)
      BY <1>0, <1>2, TruncOthers
    <2>4. TruncSane(p)'
      <3>1. TruncSane(p)
        BY <1>0 DEF TruncInv
      <3>2. Opened(i)' = {} /\ Putting(i)' = {p} /\ dinode[i].nlink = 0
        BY <1>1, <1>2, <1>3, <3>1 DEF TruncSane, SameRefs
      <3>3. Opened(call[p].ip)' = {} /\ Putting(call[p].ip)' = {p}
        BY <1>2, <3>2 DEF Opened, Putting
      <3> QED BY <1>2, <1>3, <3>2, <3>3 DEF TruncSane
    <2>5. dinode' = dinode
      BY <1>3
    <2> QED BY <1>0, <1>2, <2>2, <2>3, <2>4, <2>5, RefsFrame
  <1>17. /\ \A k \in Inode : k # i => inode'[k] = inode[k]
         /\ \A k \in Inode : k # i => dinode'[k] = dinode[k]
         /\ \A k \in Inode : k # i => ref'[k] = ref[k]
         /\ \A k \in Inode : k # i => SameSlots(k)
         /\ \A k \in Inode : k # i => Kept(k)
         /\ \A q \in Proc : q # p => SameOff(q)
    BY <1>3, <1>5, <1>7, <1>8, <1>9
  <1> QED BY <1>2, <1>3, <1>8, <1>10, <1>11, <1>12, <1>14, <1>15, <1>16, <1>17, DataStep

\* A file without blocks.
LEMMA NoBlocks ==
    ASSUME NEW a, \A k \in 0..NDIRECT : a[k] = NULL, NEW bs, NEW j, NEW k \in Slot
    PROVE  SlotAt(a, bs, j, k) = NULL
  <1>1. NDIRECT \in 0..NDIRECT /\ (k <= NDIRECT => k \in 0..NDIRECT)
    BY Consts DEF Slot
  <1> QED BY <1>1 DEF SlotAt

\* A file of size 0 has no block.
LEMMA CoveredNone ==
    ASSUME NEW O, NEW i, \A k \in Slot : O[<<i, k>>] = NULL
    PROVE  Covered(O, i, 0)
  <1>1. ASSUME NEW n \in 0..(MAXFILE - 1) PROVE O[<<i, SlotOf(n)>>] # NULL <=> n * BSIZE < 0
    <2>1. n * BSIZE \in Nat
      BY Consts, SMTT(30)
    <2>2. ~(n * BSIZE < 0)
      BY <2>1
    <2>3. O[<<i, SlotOf(n)>>] = NULL
      BY SlotIn
    <2> QED BY <2>2, <2>3
  <1> QED BY <1>1 DEF Covered

\* A file that nothing names is freed.
LEMMA DirFreed ==
    ASSUME DirInv, \A k \in 1..dinode[ROOTINO].size : Entry'[k] = Entry[k],
           dinode[ROOTINO].size \in Nat, NEW i \in Inode, i # ROOTINO, dinode[i].nlink = 0,
           dinode'[i] = FreeInode, \A k \in Inode : k # i => dinode'[k] = dinode[k]
    PROVE  DirInv'
  <1>1. PICK s, e, f : s = dinode[ROOTINO].size /\ e = Entry /\ f = Entry'
    OBVIOUS
  <1>2. DirSound(e, dinode) /\ ROOTINO \in Inode /\ dinode'[ROOTINO] = dinode[ROOTINO]
    BY <1>1, Consts DEF DirInv
  <1>3. s \in Nat /\ s >= 2
    BY <1>1, <1>2 DEF DirSound
  <1>4. f[1] = e[1] /\ f[2] = e[2] /\ \A k \in 3..s : f[k] = e[k]
    BY <1>1, <1>3
  <1>5. \A k \in 3..s : f[k] # i
    BY <1>1, <1>2, <1>4 DEF DirSound
  <1>6. FreeInode.type = "free" /\ FreeInode.nlink = 0
    BY DEF FreeInode
  <1>7. ASSUME NEW k \in Inode \ {ROOTINO}
        PROVE  /\ dinode'[k].type # "dir"
               /\ (\E m \in 3..s : f[m] = k) => dinode'[k].type = "file" /\ dinode'[k].nlink = 1
               /\ (\A m \in 3..s : f[m] # k) => dinode'[k].nlink = 0
    <2>1. CASE k = i
      BY <1>5, <1>6, <2>1
    <2>2. CASE k # i
      BY <1>1, <1>2, <1>4, <2>2 DEF DirSound
    <2> QED BY <2>1, <2>2
  <1>8. DirSound(f, dinode')
    BY <1>1, <1>2, <1>4, <1>7 DEF DirSound
  <1> QED BY <1>1, <1>8 DEF DirInv

\* The end of itrunc() keeps the invariant.
LEMMA TruncDoneStep ==
    ASSUME DInv, NEW p \in Proc, TruncDone(p) PROVE DInv'
  <1>0. /\ CtlInv /\ CtlTypeOK /\ LockInv /\ DskTypeOK /\ FreeInv /\ TruncInv
        /\ HeadInv /\ DirInv /\ LogInv /\ OwnInv /\ HoleInv /\ ThroughInv
    BY DEF DInv, CtlInv
  <1>1. PICK i : i = call[p].ip
    OBVIOUS
  <1>2. /\ CtlInv' /\ SameRefs /\ Only(p) /\ call'[p].ip = i /\ call'[p].at = "drop"
        /\ call'[p].logged = call[p].logged /\ lock[i] = p
    BY <1>0, <1>1, TruncDoneCtl
  <1>3. /\ call[p].at = "trunc" /\ ~panicked /\ Locks(p)
        /\ \A k \in 0..NDIRECT : inode[i].addrs[k] = NULL
        /\ inode' = [inode EXCEPT ![i].size = 0, ![i].type = "free"]
        /\ dinode' = [dinode EXCEPT ![i] = inode'[i]]
        /\ lock' = [lock EXCEPT ![i] = NoProc]
        /\ UNCHANGED <<bitmap, blk, ref, ftable>>
    BY <1>1 DEF TruncDone, At, Locks
  <1>4. i \in Inode /\ ref[i] # 0 /\ p # NoProc
    <2>1. i \in Inode
      BY <1>0, <1>1 DEF CtlTypeOK, Call
    <2> QED BY <1>0, <1>2, <2>1, LockedRef, Procs
  <1>5. i # ROOTINO
    BY <1>2, <1>3, <1>4, RootStill DEF Still, Truncating
  <1>6. /\ TruncSane(p) /\ Opened(i) = {} /\ Putting(i) = {p} /\ dinode[i].nlink = 0
        /\ inode[i].nlink = 0
    <2>1. TruncSane(p)
      BY <1>0 DEF TruncInv
    <2>2. Opened(i) = {} /\ Putting(i) = {p} /\ dinode[i].nlink = 0
      BY <1>1, <1>3, <2>1 DEF TruncSane
    <2> QED BY <1>0, <1>4, <2>1, <2>2 DEF HeadInv, HeadSane
  <1>7. /\ inode'[i] = FreeInode /\ dinode'[i] = FreeInode
        /\ \A k \in Inode : k # i => inode'[k] = inode[k]
        /\ \A k \in Inode : k # i => dinode'[k] = dinode[k]
        /\ inode' \in [Inode -> Dinode] /\ dinode' \in [Inode -> Dinode]
    <2>1. PICK d : d = [[inode[i] EXCEPT !.size = 0] EXCEPT !.type = "free"]
      OBVIOUS
    <2>2. inode \in [Inode -> Dinode] /\ dinode \in [Inode -> Dinode] /\ inode[i] \in Dinode
      BY <1>0, <1>4 DEF DskTypeOK
    <2>3. inode' = [inode EXCEPT ![i] = d]
      BY <1>3, <1>4, <2>1, <2>2
    <2>4. d.type = "free" /\ d.nlink = 0 /\ d.size = 0 /\ d.addrs = inode[i].addrs /\ d \in Dinode
      <3>1. 0 \in 0..(MAXFILE * BSIZE)
        BY Consts, SMTT(30)
      <3> QED BY <1>6, <2>1, <2>2, <3>1 DEF Dinode
    <2>5. inode[i].addrs = [k \in 0..NDIRECT |-> NULL]
      BY <1>3, <2>2 DEF Dinode
    <2>6. d = FreeInode
      <3>1. d = [type |-> d.type, nlink |-> d.nlink, size |-> d.size, addrs |-> d.addrs]
        BY <2>4 DEF Dinode
      <3> QED BY <2>4, <2>5, <3>1 DEF FreeInode
    <2>7. inode'[i] = d /\ inode' \in [Inode -> Dinode] /\ \A k \in Inode : k # i => inode'[k] = inode[k]
      BY <1>4, <2>2, <2>3, <2>4
    <2>8. dinode'[i] = d /\ dinode' \in [Inode -> Dinode]
          /\ \A k \in Inode : k # i => dinode'[k] = dinode[k]
      BY <1>3, <1>4, <2>2, <2>4, <2>7
    <2> QED BY <2>6, <2>7, <2>8
  <1>8. \A k \in Inode : lock'[k] = IF k = i THEN NoProc ELSE lock[k]
    BY <1>0, <1>3 DEF CtlTypeOK
  <1>9. \A q \in Proc : SameOff(q)
    <2>1. SameOffs
      BY <1>3 DEF SameOffs
    <2> QED BY <1>0, <1>3, <2>1, SameOffOthers
  <1>10. /\ \A k \in Inode : k # i => Kept(k) /\ Freed(k)' = Freed(k)
         /\ \A q \in Proc : q # p /\ call[q].at = "loop" => call[q].ip # i
    BY <1>0, <1>1, <1>2, <1>3, <1>7, <1>8, <1>9, HeldOthers
  <1>11. Loaded(i) = inode[i] /\ Loaded(i)' = FreeInode
    BY <1>3, <1>4, <1>7 DEF Loaded
  <1>12. (\A k \in Slot : Own[<<i, k>>] = NULL) /\ (\A k \in Slot : Own'[<<i, k>>] = NULL)
    <2>1. ASSUME NEW k \in Slot PROVE Own[<<i, k>>] = NULL
      BY <1>3, <1>4, <1>11, OwnAt, NoBlocks
    <2>2. ASSUME NEW k \in Slot PROVE Own'[<<i, k>>] = NULL
      <3>1. Own'[<<i, k>>] = SlotAt(Loaded(i)'.addrs, blk', Freed(i)', k)
        BY <1>4 DEF Own, Spot
      <3>2. \A m \in 0..NDIRECT : FreeInode.addrs[m] = NULL
        BY DEF FreeInode
      <3> QED BY <1>11, <3>1, <3>2, NoBlocks
    <2> QED BY <2>1, <2>2
  <1>13. \A k \in Inode : SameSlots(k)
    <2>1. ASSUME NEW k \in Inode, k # i PROVE SameSlots(k)
      <3>1. Loaded(k)' = Loaded(k) /\ Freed(k)' = Freed(k)
        BY <1>3, <1>7, <1>10, <2>1 DEF Loaded
      <3>2. Loaded(k)'.addrs = Loaded(k).addrs /\
            (Loaded(k).addrs[NDIRECT] # NULL =>
               \A u \in Unit : blk'[Loaded(k).addrs[NDIRECT]][u] = blk[Loaded(k).addrs[NDIRECT]][u])
        BY <1>3, <3>1
      <3> QED BY <1>0, <3>1, <3>2, SlotsSame
    <2>2. SameSlots(i)
      BY <1>12 DEF SameSlots
    <2> QED BY <2>1, <2>2
  <1>14. OwnInv'
    <2>1. \A v \in Spot : Own'[v] = Own[v]
      BY <1>13, SpotsSame DEF Spot
    <2>2. OwnedOnce(Own', bitmap)
      BY <1>0, <2>1, OwnSame DEF OwnInv
    <2> QED BY <1>3, <2>2 DEF OwnInv
  <1>15. DskTypeOK'
    BY <1>0, <1>3, <1>7 DEF DskTypeOK
  <1>16. DirInv'
    <2>1. Still(ROOTINO) /\ ROOTINO \in Inode
      BY RootStill
    <2>2. /\ SameSlots(ROOTINO) /\ dinode'[ROOTINO].size = dinode[ROOTINO].size
          /\ \A m \in 0..(MAXFILE - 1) : Own[<<ROOTINO, SlotOf(m)>>] # NULL =>
               blk'[Own[<<ROOTINO, SlotOf(m)>>]] = blk[Own[<<ROOTINO, SlotOf(m)>>]]
      BY <1>3, <1>5, <1>7, <1>13, <2>1
    <2>3. /\ dinode[ROOTINO].size \in Nat
          /\ \A k \in 1..dinode[ROOTINO].size : Entry'[k] = Entry[k]
      BY <1>0, <2>1, <2>2, EntrySame
    <2> QED BY <1>0, <1>4, <1>5, <1>6, <1>7, <2>3, DirFreed
  <1>17. ~Writing(i)' /\ ~Truncating(i)' /\ lock'[i] = NoProc
    BY <1>4, <1>8 DEF Writing, Truncating
  <1>18. HeadSane(i)' /\ ThroughSane(i)' /\ HoleSane(i)'
    <2>1. HeadSane(i)' /\ ThroughSane(i)'
      BY <1>7, <1>11, <1>17 DEF HeadSane, ThroughSane
    <2>2. Covered(Own', i, 0) /\ FreeInode.size = 0
      BY <1>12, CoveredNone DEF FreeInode
    <2> QED BY <1>11, <1>17, <2>1, <2>2 DEF HoleSane
  <1>19. RangeSane(p)' /\ LogSane(p)'
    <2>1. Few(call[p].logged)
      BY <1>0, <1>3, IdleLogged
    <2>2. Few(call'[p].logged)
      BY <1>2, <2>1, FewMore
    <2> QED BY <1>2, <2>2 DEF RangeSane, LogSane, Few, Loops
  <1>20. ASSUME NEW k \in Inode PROVE FreeSane(k)'
    <2>1. Opened(k)' = Opened(k) /\ Putting(k)' = Putting(k) /\ FreeSane(k)
      BY <1>0, <1>2 DEF SameRefs, FreeInv
    <2>2. CASE k = i
      <3>1. \A q \in Putting(i)' : call'[q].at = "drop"
        BY <1>2, <1>6, <2>1, <2>2
      <3> QED BY <1>6, <1>7, <1>17, <2>1, <2>2, <3>1 DEF FreeSane
    <2>3. CASE k # i
      <3>1. \A q \in Putting(k)' : q \in Proc /\ q # p /\ call'[q] = call[q]
        BY <1>1, <1>2, <2>1, <2>3 DEF Putting, Only
      <3> QED BY <1>7, <1>8, <2>1, <2>3, <3>1 DEF FreeSane
    <2> QED BY <2>2, <2>3
  <1>21. ASSUME NEW q \in Proc PROVE TruncSane(q)'
    <2>1. CASE q = p
      BY <1>2, <2>1 DEF TruncSane
    <2>2. CASE q # p
      <3>1. TruncSane(q) /\ call'[q] = call[q] /\ call[q].ip \in Inode
        BY <1>0, <1>2, <2>2 DEF TruncInv, Only, CtlTypeOK, Call
      <3>2. call[q].at = "trunc" => /\ Opened(call[q].ip)' = Opened(call[q].ip)
                                    /\ Putting(call[q].ip)' = Putting(call[q].ip)
        BY <1>0, <1>2, <2>2, TruncOthers
      <3>3. call[q].at = "trunc" => call[q].ip # i
        BY <1>0, <1>2, <2>2 DEF LockInv
      <3>4. SUFFICES ASSUME call[q].at = "trunc"
                     PROVE  /\ Opened(call[q].ip)' = {} /\ Putting(call[q].ip)' = {q}
                            /\ dinode'[call[q].ip].nlink = 0
        BY <3>1 DEF TruncSane
      <3> QED BY <1>7, <3>1, <3>2, <3>3, <3>4 DEF TruncSane
    <2> QED BY <2>1, <2>2
  <1>22. FreeInv' /\ TruncInv'
    BY <1>20, <1>21 DEF FreeInv, TruncInv
  <1>23. /\ \A k \in Inode : k # i => inode'[k] = inode[k]
         /\ \A k \in Inode : k # i => dinode'[k] = dinode[k]
         /\ \A k \in Inode : k # i => ref'[k] = ref[k]
         /\ \A k \in Inode : k # i => SameSlots(k)
         /\ \A k \in Inode : k # i => Kept(k)
         /\ \A q \in Proc : q # p => SameOff(q)
    BY <1>3, <1>7, <1>9, <1>10, <1>13
  <1> QED BY <1>2, <1>3, <1>4, <1>10, <1>14, <1>15, <1>16, <1>18, <1>19, <1>22, <1>23, DataStep

-----------------------------------------------------------------------------
(* Entries of the directory.                                               *)

\* Entry k0 of the directory becomes v.
RootWrite(k0, v) ==
    blk' = [blk EXCEPT ![bmap(ROOTINO, (k0 - 1) \div BSIZE)][(k0 - 1) % BSIZE] = v]
RootSpot(k) == <<ROOTINO, SlotOf((k - 1) \div BSIZE)>>

\* Where an entry of the directory is.
LEMMA RootPlace ==
    ASSUME DInv, NEW k \in 1..dinode[ROOTINO].size
    PROVE  /\ RootSpot(k) \in Spot /\ RootSpot(k)[1] = ROOTINO /\ RootSpot(k)[2] # NDIRECT
           /\ Own[RootSpot(k)] # NULL /\ Own[RootSpot(k)] \in Block
           /\ bmap(ROOTINO, (k - 1) \div BSIZE) = Own[RootSpot(k)]
           /\ (k - 1) % BSIZE \in Unit /\ k - 1 \in Nat
           /\ (k - 1) \div BSIZE \in 0..(MAXFILE - 1)
           /\ Entry[k] = blk[Own[RootSpot(k)]][(k - 1) % BSIZE]
  <1>0. CtlInv /\ DskTypeOK /\ OwnInv /\ HoleInv
    BY DEF DInv
  <1>1. Still(ROOTINO) /\ ROOTINO \in Inode /\ Loaded(ROOTINO) = dinode[ROOTINO]
        /\ dinode[ROOTINO].size \in Nat
    BY RootStill
  <1>2. PICK x \in Nat : x = k - 1
    BY <1>1
  <1>3. x < Loaded(ROOTINO).size
    BY <1>1, <1>2
  <1>4. PICK n : n = x \div BSIZE
    OBVIOUS
  <1>5. /\ n \in 0..(MAXFILE - 1) /\ x % BSIZE \in Unit
        /\ Own[<<ROOTINO, SlotOf(n)>>] # NULL /\ Own[<<ROOTINO, SlotOf(n)>>] \in Block
        /\ bmap(ROOTINO, n) = Own[<<ROOTINO, SlotOf(n)>>]
    BY <1>0, <1>1, <1>3, <1>4, ByteBlock
  <1>6. RootSpot(k) = <<ROOTINO, SlotOf(n)>>
    BY <1>2, <1>4 DEF RootSpot
  <1>7. SlotOf(n) \in Slot /\ SlotOf(n) # NDIRECT
    BY <1>5, SlotIn
  <1>8. RootSpot(k) \in Spot /\ RootSpot(k)[1] = ROOTINO /\ RootSpot(k)[2] # NDIRECT
    BY <1>1, <1>6, <1>7 DEF Spot
  <1>9. Entry[k] = blk[Own[<<ROOTINO, SlotOf(n)>>]][x % BSIZE]
    BY <1>2, <1>4 DEF Entry
  <1> QED BY <1>2, <1>4, <1>5, <1>6, <1>8, <1>9

\* What the write of an entry does to the blocks.
LEMMA RootWritten ==
    ASSUME DInv, NEW k0 \in 1..dinode[ROOTINO].size, NEW v \in Value, RootWrite(k0, v)
    PROVE  /\ blk' \in [Block -> [Unit -> Value]]
           /\ \A b \in Block : b # Own[RootSpot(k0)] => blk'[b] = blk[b]
           /\ blk'[Own[RootSpot(k0)]][(k0 - 1) % BSIZE] = v
           /\ \A u \in Unit : u # (k0 - 1) % BSIZE =>
                 blk'[Own[RootSpot(k0)]][u] = blk[Own[RootSpot(k0)]][u]
  <1>1. PICK b, o : b = Own[RootSpot(k0)] /\ o = (k0 - 1) % BSIZE
    OBVIOUS
  <1>2. b \in Block /\ o \in Unit /\ bmap(ROOTINO, (k0 - 1) \div BSIZE) = b
    BY <1>1, RootPlace
  <1>3. blk' = [blk EXCEPT ![b][o] = v]
    BY <1>1, <1>2 DEF RootWrite
  <1>4. blk \in [Block -> [Unit -> Value]]
    BY DEF DInv, DskTypeOK
  <1>5. PICK g : g = [blk[b] EXCEPT ![o] = v]
    OBVIOUS
  <1>6. blk' = [blk EXCEPT ![b] = g]
    BY <1>3, <1>5
  <1>7. g \in [Unit -> Value] /\ g[o] = v /\ \A u \in Unit : u # o => g[u] = blk[b][u]
    BY <1>2, <1>4, <1>5
  <1> QED BY <1>1, <1>2, <1>4, <1>6, <1>7

\* A write of one entry leaves the other entries alone.
LEMMA EntryWrite ==
    ASSUME DInv, NEW k0 \in 1..dinode[ROOTINO].size, NEW v \in Value, RootWrite(k0, v),
           SameSlots(ROOTINO), dinode'[ROOTINO] = dinode[ROOTINO]
    PROVE  /\ Entry'[k0] = v
           /\ \A k \in 1..dinode[ROOTINO].size : k # k0 => Entry'[k] = Entry[k]
  <1>1. PICK s : s = dinode[ROOTINO].size
    OBVIOUS
  <1>2. s \in Nat /\ s = dinode'[ROOTINO].size
    BY <1>1, RootStill
  <1>3. ASSUME NEW k \in 1..s
        PROVE  Entry'[k] = blk'[Own[RootSpot(k)]][(k - 1) % BSIZE]
    <2>1. PICK n : n = (k - 1) \div BSIZE
      OBVIOUS
    <2>2. SlotOf(n) \in Slot
      BY <1>1, <1>3, <2>1, RootPlace, SlotIn
    <2>3. Entry'[k] = blk'[Own'[<<ROOTINO, SlotOf(n)>>]][(k - 1) % BSIZE]
      BY <1>2, <1>3, <2>1 DEF Entry
    <2>4. Own'[<<ROOTINO, SlotOf(n)>>] = Own[<<ROOTINO, SlotOf(n)>>]
      BY <2>2 DEF SameSlots
    <2> QED BY <2>1, <2>3, <2>4 DEF RootSpot
  <1>4. ASSUME NEW k \in 1..s, k # k0 PROVE Entry'[k] = Entry[k]
    <2>1. PICK x \in Nat, y \in Nat : x = k - 1 /\ y = k0 - 1
      BY <1>1, <1>4, RootPlace
    <2>2. PICK m, n : m = x \div BSIZE /\ n = y \div BSIZE
      OBVIOUS
    <2>3. x # y /\ m \in 0..(MAXFILE - 1) /\ n \in 0..(MAXFILE - 1)
      BY <1>1, <1>4, <2>1, <2>2, RootPlace
    <2>4. PICK b, c : b = Own[RootSpot(k)] /\ c = Own[RootSpot(k0)]
      OBVIOUS
    <2>5. b \in Block /\ x % BSIZE \in Unit /\ Entry[k] = blk[b][x % BSIZE]
          /\ b # NULL /\ RootSpot(k) \in Spot /\ RootSpot(k0) \in Spot
      BY <1>1, <1>4, <2>1, <2>4, RootPlace
    <2>6. CASE m = n
      <3>1. x = m * BSIZE + (x % BSIZE) /\ y = n * BSIZE + (y % BSIZE)
        BY <2>2, DivMod
      <3>2. x % BSIZE # y % BSIZE
        BY <2>3, <2>6, <3>1
      <3>3. b = c
        BY <2>1, <2>2, <2>4, <2>6 DEF RootSpot
      <3>4. blk'[c][x % BSIZE] = blk[c][x % BSIZE]
        BY <2>1, <2>4, <2>5, <3>2, RootWritten
      <3> QED BY <1>3, <1>4, <2>1, <2>4, <2>5, <3>3, <3>4
    <2>7. CASE m # n
      <3>1. SlotOf(m) # SlotOf(n)
        BY <2>3, <2>7, SlotIn
      <3>2. RootSpot(k) # RootSpot(k0)
        BY <2>1, <2>2, <3>1 DEF RootSpot
      <3>3. b # c
        BY <2>4, <2>5, <3>2, OwnIn DEF DInv
      <3>4. blk'[b] = blk[b]
        BY <2>4, <2>5, <3>3, RootWritten
      <3> QED BY <1>3, <1>4, <2>1, <2>4, <2>5, <3>4
    <2> QED BY <2>6, <2>7
  <1>5. Entry'[k0] = v
    BY <1>1, <1>3, RootWritten
  <1> QED BY <1>1, <1>4, <1>5

\* References after a call on inode i that ends, if i is not free.
LEMMA EndedHeads ==
    ASSUME FreeInv, TruncInv, CtlInv, NEW p \in Proc, NEW i \in Inode, Ended(p, i),
           dinode'[i].type # "free", lock[i] = NoProc,
           \A k \in Inode : k # i => dinode'[k] = dinode[k],
           \A k \in Inode : k # i /\ dinode[k].type = "free" => lock'[k] = NoProc,
           call[p].at \notin Iput
    PROVE  FreeInv' /\ TruncInv'
  <1>0. CtlTypeOK /\ LockInv /\ Only(p)
    BY DEF CtlInv, Ended
  <1>1. TruncSane(p)'
    BY EndCallIs, PutCallIs DEF TruncSane, Ended
  <1>2. ASSUME NEW k \in Inode PROVE FreeSane(k)'
    <2>1. CASE k = i
      BY <2>1 DEF FreeSane
    <2>2. CASE k # i
      <3>1. SUFFICES ASSUME dinode[k].type = "free"
                     PROVE  /\ lock'[k] = NoProc /\ dinode'[k] = FreeInode /\ Opened(k)' = {}
                            /\ \A q \in Putting(k)' : call'[q].at = "drop"
        BY <2>2 DEF FreeSane
      <3>2. Opened(k)' = Opened(k) /\ Putting(k)' = Putting(k) /\ FreeSane(k)
        BY <2>2 DEF Ended, FreeInv
      <3>3. \A q \in Putting(k) : q \in Proc /\ q # p
        BY DEF Putting
      <3> QED BY <1>0, <2>2, <3>1, <3>2, <3>3 DEF FreeSane, Only
    <2> QED BY <2>1, <2>2
  <1>3. ASSUME NEW q \in Proc, q # p PROVE TruncSane(q)'
    <2>1. TruncSane(q) /\ call'[q] = call[q]
      BY <1>0, <1>3 DEF TruncInv, Only
    <2>2. SUFFICES ASSUME call[q].at = "trunc"
                   PROVE  /\ Opened(call[q].ip)' = {} /\ Putting(call[q].ip)' = {q}
                          /\ dinode'[call[q].ip].nlink = 0
      BY <2>1 DEF TruncSane, Opened, Putting
    <2>3. PICK k \in Inode : k = call[q].ip
      BY <1>0 DEF CtlTypeOK, Call
    <2>4. call'[q].ip = k
      BY <2>1, <2>3
    <2>5. k # i
      BY <1>0, <1>3, <2>2, <2>3, Procs DEF LockInv
    <2>6. Opened(k)' = Opened(k) /\ Putting(k)' = Putting(k)
      BY <2>5 DEF Ended
    <2>7. Opened(call[q].ip)' = Opened(k)' /\ Putting(call[q].ip)' = Putting(k)'
      BY <2>4 DEF Opened, Putting
    <2> QED BY <2>1, <2>2, <2>3, <2>5, <2>6, <2>7 DEF TruncSane
  <1> QED BY <1>1, <1>2, <1>3 DEF FreeInv, TruncInv

\* The name of file i goes.
LEMMA DirGone ==
    ASSUME DirInv, dinode[ROOTINO].size \in Nat, NEW k0 \in 3..dinode[ROOTINO].size,
           NEW i \in Inode, i # ROOTINO, Entry[k0] = i, Entry'[k0] = 0,
           \A k \in 1..dinode[ROOTINO].size : k # k0 => Entry'[k] = Entry[k],
           dinode'[i].type = dinode[i].type, dinode'[i].nlink = 0,
           \A k \in Inode : k # i => dinode'[k] = dinode[k]
    PROVE  DirInv'
  <1>1. PICK s, e, f : s = dinode[ROOTINO].size /\ e = Entry /\ f = Entry'
    OBVIOUS
  <1>2. DirSound(e, dinode) /\ ROOTINO \in Inode /\ dinode'[ROOTINO] = dinode[ROOTINO]
        /\ i # 0 /\ 0 \notin Inode
    BY <1>1, Consts DEF DirInv, Inode
  <1>3. s \in Nat /\ s >= 2 /\ k0 \in 3..s
    BY <1>1, <1>2 DEF DirSound
  <1>4. /\ f[1] = e[1] /\ f[2] = e[2] /\ f[k0] = 0 /\ e[k0] = i
        /\ \A k \in 3..s : k # k0 => f[k] = e[k]
    BY <1>1, <1>3
  <1>5. \A k \in 3..s : k # k0 => e[k] # i
    BY <1>1, <1>2, <1>3, <1>4 DEF DirSound
  <1>6. ASSUME NEW k \in Inode \ {ROOTINO}
        PROVE  /\ dinode'[k].type # "dir"
               /\ (\E m \in 3..s : f[m] = k) => dinode'[k].type = "file" /\ dinode'[k].nlink = 1
               /\ (\A m \in 3..s : f[m] # k) => dinode'[k].nlink = 0
    <2>1. CASE k = i
      <3>1. \A m \in 3..s : f[m] # i
        BY <1>2, <1>4, <1>5
      <3> QED BY <1>1, <1>2, <2>1, <3>1 DEF DirSound
    <2>2. CASE k # i
      <3>1. \A m \in 3..s : f[m] = k <=> e[m] = k
        BY <1>2, <1>4, <2>2
      <3>2. dinode'[k] = dinode[k]
        BY <2>2
      <3> QED BY <1>1, <1>2, <3>1, <3>2 DEF DirSound
    <2> QED BY <2>1, <2>2
  <1>7. /\ \A k \in 3..s : f[k] \in (Inode \cup {0}) \ {ROOTINO}
        /\ \A k, l \in 3..s : f[k] = f[l] /\ f[k] # 0 => k = l
    BY <1>1, <1>2, <1>4, Consts DEF DirSound
  <1>8. DirSound(f, dinode')
    BY <1>1, <1>2, <1>4, <1>6, <1>7 DEF DirSound
  <1> QED BY <1>1, <1>8 DEF DirInv

\* A free inode gets a name.
LEMMA DirMade ==
    ASSUME DirInv, dinode[ROOTINO].size \in Nat, NEW k0 \in 3..dinode[ROOTINO].size,
           NEW i \in Inode, i # ROOTINO, Entry[k0] = 0, Entry'[k0] = i,
           \A k \in 1..dinode[ROOTINO].size : k # k0 => Entry'[k] = Entry[k],
           dinode[i].type = "free", dinode'[i].type = "file", dinode'[i].nlink = 1,
           \A k \in Inode : k # i => dinode'[k] = dinode[k]
    PROVE  DirInv'
  <1>1. PICK s, e, f : s = dinode[ROOTINO].size /\ e = Entry /\ f = Entry'
    OBVIOUS
  <1>2. DirSound(e, dinode) /\ ROOTINO \in Inode /\ dinode'[ROOTINO] = dinode[ROOTINO]
        /\ i # 0 /\ 0 \notin Inode
    BY <1>1, Consts DEF DirInv, Inode
  <1>3. s \in Nat /\ s >= 2 /\ k0 \in 3..s
    BY <1>1, <1>2 DEF DirSound
  <1>4. /\ f[1] = e[1] /\ f[2] = e[2] /\ f[k0] = i /\ e[k0] = 0
        /\ \A k \in 3..s : k # k0 => f[k] = e[k]
    BY <1>1, <1>3
  <1>5. \A k \in 3..s : e[k] # i
    BY <1>1, <1>2 DEF DirSound
  <1>6. ASSUME NEW k \in Inode \ {ROOTINO}
        PROVE  /\ dinode'[k].type # "dir"
               /\ (\E m \in 3..s : f[m] = k) => dinode'[k].type = "file" /\ dinode'[k].nlink = 1
               /\ (\A m \in 3..s : f[m] # k) => dinode'[k].nlink = 0
    <2>1. CASE k = i
      BY <1>3, <1>4, <2>1
    <2>2. CASE k # i
      <3>1. \A m \in 3..s : f[m] = k <=> e[m] = k
        BY <1>2, <1>4, <2>2
      <3>2. dinode'[k] = dinode[k]
        BY <2>2
      <3> QED BY <1>1, <1>2, <3>1, <3>2 DEF DirSound
    <2> QED BY <2>1, <2>2
  <1>7. /\ \A k \in 3..s : f[k] \in (Inode \cup {0}) \ {ROOTINO}
        /\ \A k, l \in 3..s : f[k] = f[l] /\ f[k] # 0 => k = l
    BY <1>1, <1>2, <1>4, <1>5 DEF DirSound
  <1>8. DirSound(f, dinode')
    BY <1>1, <1>2, <1>4, <1>6, <1>7 DEF DirSound
  <1> QED BY <1>1, <1>8 DEF DirInv

\* unlink() keeps the invariant.
LEMMA UnlinkStep ==
    ASSUME DInv, NEW p \in Proc, NEW i \in Inode, Unlink(p, i) PROVE DInv'
  <1>0. /\ CtlInv /\ CtlTypeOK /\ LockInv /\ DskTypeOK /\ FreeInv /\ TruncInv
        /\ HeadInv /\ DirInv /\ LogInv /\ OwnInv /\ HoleInv /\ ThroughInv
    BY DEF DInv, CtlInv
  <1>1. PICK s : s = dinode[ROOTINO].size
    OBVIOUS
  <1>2. /\ Still(ROOTINO) /\ ROOTINO \in Inode /\ inode[ROOTINO] = dinode[ROOTINO] /\ s \in Nat
        /\ \A k \in 1..s : Content(ROOTINO)[k] = Entry[k]
    BY <1>1, RootStill
  <1>3. PICK k0 : k0 = CHOOSE k \in 3..inode[ROOTINO].size : Content(ROOTINO)[k] = i
    OBVIOUS
  <1>4. PICK new : new = [Loaded(i) EXCEPT !.nlink = @ - 1]
    OBVIOUS
  <1>5. /\ User(p) /\ i \in Named /\ lock[ROOTINO] = NoProc /\ lock[i] = NoProc
        /\ RootWrite(k0, 0)
        /\ inode' = [inode EXCEPT ![i] = new] /\ dinode' = [dinode EXCEPT ![i] = new]
        /\ UNCHANGED <<bitmap, lock, ftable>>
    BY <1>3, <1>4 DEF Unlink, CanLock, RootWrite
  <1>7. call[p].at = "user" /\ ~Locks(p) /\ ~panicked /\ call[p].at \notin Iput
    BY <1>5, UserIs
  <1>8. /\ i # ROOTINO /\ dinode[i].type = "file" /\ dinode[i].nlink = 1
        /\ \E k \in 3..s : Entry[k] = i
    BY <1>1, <1>5, NamedIs
  <1>9. k0 \in 3..s /\ Entry[k0] = i
    <2>1. \A k \in 3..s : Content(ROOTINO)[k] = Entry[k]
      BY <1>2
    <2>2. k0 = CHOOSE k \in 3..s : Content(ROOTINO)[k] = i
      BY <1>1, <1>2, <1>3
    <2>3. \E k \in 3..s : Content(ROOTINO)[k] = i
      BY <1>8, <2>1
    <2>4. k0 \in 3..s /\ Content(ROOTINO)[k0] = i
      BY <2>2, <2>3
    <2> QED BY <2>1, <2>4
  <1>6. CtlInv' /\ Ended(p, i) /\ ref' = [ref EXCEPT ![i] = @ + 1]
    <2>1. PICK b, l : b = bmap(ROOTINO, (k0 - 1) \div BSIZE) /\ l = {b, IBLOCK(i)}
      OBVIOUS
    <2>2. k0 \in 1..dinode[ROOTINO].size
      BY <1>1, <1>2, <1>9
    <2>3. b \in Block
      BY <2>1, <2>2, RootPlace
    <2>4. Few(l) /\ l \in SUBSET Block
      BY <2>1, <2>3, InodeBlock, FewTwo
    <2>5. call' = [call EXCEPT ![p] = PutCall(i, l)]
      BY <1>3, <2>1 DEF Unlink
    <2> QED BY <1>0, <2>4, <2>5, UnlinkCtl
  <1>10. Still(i) /\ Loaded(i) = dinode[i] /\ dinode[i] \in Dinode
    <2>1. Still(i)
      BY <1>5 DEF Still, Writing, Truncating
    <2> QED BY <1>0, <2>1 DEF ThroughInv, ThroughSane, DskTypeOK
  <1>11. /\ new \in Dinode /\ new.type = "file" /\ new.nlink = 0 /\ new.size = dinode[i].size
         /\ new.addrs = dinode[i].addrs
    <2>1. PICK d : d = dinode[i]
      OBVIOUS
    <2>2. d \in Dinode /\ d.type = "file" /\ d.nlink = 1 /\ new = [d EXCEPT !.nlink = @ - 1]
      BY <1>4, <1>8, <1>10, <2>1
    <2>3. new = [d EXCEPT !.nlink = 0]
      BY <2>2
    <2> QED BY <2>1, <2>2, <2>3 DEF Dinode
  <1>12. /\ inode'[i] = new /\ dinode'[i] = new
         /\ \A k \in Inode : k # i => inode'[k] = inode[k]
         /\ \A k \in Inode : k # i => dinode'[k] = dinode[k]
         /\ inode' \in [Inode -> Dinode] /\ dinode' \in [Inode -> Dinode]
    BY <1>0, <1>5, <1>11 DEF DskTypeOK
  <1>13. ref'[i] # 0 /\ \A k \in Inode : k # i => ref'[k] = ref[k]
    <2>1. ref \in [Inode -> Nat]
      BY <1>0 DEF CtlTypeOK
    <2> QED BY <1>6, <2>1
  <1>14. Loaded(i)' = new /\ \A k \in Inode : Loaded(k)'.addrs = Loaded(k).addrs
    <2>1. Loaded(i)' = new
      BY <1>12, <1>13 DEF Loaded
    <2>2. ASSUME NEW k \in Inode, k # i PROVE Loaded(k)' = Loaded(k)
      BY <1>12, <1>13, <2>2 DEF Loaded
    <2> QED BY <1>10, <1>11, <2>1, <2>2
  <1>15. Only(p) /\ SameOffs /\ ~Locks(p)' /\ Few(call'[p].logged) /\ call'[p].at # "loop"
    BY <1>6, EndCallIs, PutCallIs DEF Ended, Locks, SameOffs
  <1>16. \A q \in Proc : SameOff(q)
    BY <1>0, <1>7, <1>15, SameOffOthers
  <1>17. ASSUME NEW k \in Inode, k # i PROVE Kept(k) /\ Freed(k)' = Freed(k)
    <2>1. lock'[k] = lock[k] /\ lock[k] # p /\ inode'[k] = inode[k]
      BY <1>0, <1>5, <1>7, <1>12, <1>17, Procs DEF LockInv
    <2> QED BY <1>0, <1>15, <1>16, <2>1, OthersKept
  <1>18. \A k \in Inode : Freed(k)' = Freed(k)
    <2>1. Freed(i)' = Freed(i)
      BY <1>5 DEF Freed
    <2> QED BY <1>17, <2>1
  <1>19. k0 \in 1..s /\ 0 \in Value
    BY <1>2, <1>9 DEF Value
  <1>20. PICK w : w = RootSpot(k0)
    OBVIOUS
  <1>21. /\ w \in Spot /\ w[2] # NDIRECT /\ Own[w] # NULL
         /\ blk' \in [Block -> [Unit -> Value]]
         /\ \A b \in Block : b # Own[w] => blk'[b] = blk[b]
    BY <1>1, <1>5, <1>19, <1>20, RootPlace, RootWritten
  <1>22. OwnInv' /\ \A k \in Inode : SameSlots(k)
    <2>1. bitmap' = bitmap
      BY <1>5
    <2> QED BY <1>0, <1>14, <1>18, <1>21, <2>1, SameOwn
  <1>23. DskTypeOK'
    BY <1>0, <1>5, <1>12, <1>21 DEF DskTypeOK
  <1>24. DirInv'
    <2>1. SameSlots(ROOTINO) /\ dinode'[ROOTINO] = dinode[ROOTINO]
      BY <1>2, <1>8, <1>12, <1>22
    <2>2. Entry'[k0] = 0 /\ \A k \in 1..s : k # k0 => Entry'[k] = Entry[k]
      BY <1>1, <1>5, <1>19, <2>1, EntryWrite
    <2>3. dinode'[i].type = dinode[i].type /\ dinode'[i].nlink = 0
      BY <1>8, <1>11, <1>12
    <2> QED BY <1>0, <1>1, <1>2, <1>8, <1>9, <1>12, <2>2, <2>3, DirGone
  <1>25. ~Writing(i)' /\ ~Truncating(i)'
    BY <1>5 DEF Writing, Truncating
  <1>26. HeadSane(i)' /\ ThroughSane(i)'
    BY <1>12, <1>14, <1>25 DEF HeadSane, ThroughSane
  <1>27. HoleSane(i)'
    <2>1. PICK z : z = dinode[i].size
      OBVIOUS
    <2>2. Covered(Own, i, z)
      BY <1>0, <1>10, <2>1 DEF HoleInv, HoleSane
    <2>3. \A n \in 0..(MAXFILE - 1) : Own'[<<i, SlotOf(n)>>] = Own[<<i, SlotOf(n)>>]
      BY <1>22, SlotIn DEF SameSlots
    <2>4. Covered(Own', i, z)
      BY <2>2, <2>3 DEF Covered
    <2> QED BY <1>11, <1>14, <1>25, <2>1, <2>4 DEF HoleSane
  <1>28. RangeSane(p)' /\ LogSane(p)'
    BY <1>15 DEF RangeSane, LogSane, Few, Loops
  <1>29. FreeInv' /\ TruncInv'
    <2>1. dinode'[i].type # "free"
      BY <1>11, <1>12
    <2>2. \A k \in Inode : k # i /\ dinode[k].type = "free" => lock'[k] = NoProc
      BY <1>0, <1>5 DEF FreeInv, FreeSane
    <2> QED BY <1>0, <1>5, <1>6, <1>7, <1>12, <2>1, <2>2, EndedHeads
  <1>30. \A q \in Proc : q # p /\ call[q].at = "loop" => call[q].ip # i
    BY <1>0, <1>5, <1>7, LoopOther, Procs
  <1>31. /\ \A k \in Inode : k # i => SameSlots(k)
         /\ \A k \in Inode : k # i => Kept(k)
         /\ \A q \in Proc : q # p => SameOff(q)
    BY <1>16, <1>17, <1>22
  <1> QED BY <1>6, <1>7, <1>12, <1>13, <1>15, <1>22, <1>23, <1>24, <1>26, <1>27, <1>28, <1>29,
             <1>30, <1>31, DataStep

\* While an inode is free, there is room for its name.
LEMMA FreePlace ==
    ASSUME DInv, NEW i \in Inode, dinode[i].type = "free"
    PROVE  /\ i # ROOTINO /\ Place \in 3..dinode[ROOTINO].size /\ Entry[Place] = 0
  <1>1. PICK s, e : s = dinode[ROOTINO].size /\ e = Entry
    OBVIOUS
  <1>2. /\ inode[ROOTINO] = dinode[ROOTINO] /\ s \in Nat
        /\ \A k \in 1..s : Content(ROOTINO)[k] = e[k]
    BY <1>1, RootStill
  <1>3. DirSound(e, dinode)
    BY <1>1 DEF DInv, DirInv
  <1>4. i # ROOTINO /\ s >= NINODES /\ e[1] = ROOTINO /\ e[2] = ROOTINO /\ s >= 2
    BY <1>1, <1>3 DEF DirSound
  <1>5. PICK S : S = {k \in 1..s : Content(ROOTINO)[k] = 0}
    OBVIOUS
  <1>6. \E k \in 3..s : e[k] = 0
    <2>1. SUFFICES ASSUME \A k \in 3..s : e[k] # 0 PROVE FALSE
      OBVIOUS
    <2>2. PICK D, T, T1 : D = 3..s /\ T1 = Inode \ {ROOTINO} /\ T = T1 \ {i}
      OBVIOUS
    <2>3. ASSUME NEW k \in D PROVE e[k] \in T
      <3>1. e[k] \in Inode /\ e[k] # ROOTINO
        BY <1>1, <1>3, <2>1, <2>2, <2>3 DEF DirSound
      <3>2. e[k] # i
        BY <1>1, <1>3, <1>4, <2>2, <2>3 DEF DirSound
      <3> QED BY <2>2, <3>1, <3>2
    <2>4. PICK g : g = [k \in D |-> e[k]]
      OBVIOUS
    <2>5. g \in [D -> T] /\ \A k \in D : g[k] = e[k]
      BY <2>3, <2>4
    <2>6. IsFiniteSet(Inode) /\ Cardinality(Inode) = NINODES - 1
      <3>1. PICK n : n = NINODES - 1
        OBVIOUS
      <3>2. n \in Int /\ n >= 1 /\ 1 \in Int /\ Inode = 1..n
        BY <3>1, Consts DEF Inode
      <3>3. IsFiniteSet(1..n) /\ Cardinality(1..n) = IF 1 > n THEN 0 ELSE n - 1 + 1
        BY <3>2, FS_Interval
      <3>4. Cardinality(1..n) = n
        BY <3>2, <3>3
      <3> QED BY <3>1, <3>2, <3>3, <3>4
    <2>7. IsFiniteSet(T1) /\ Cardinality(T1) = NINODES - 2
      <3>1. ROOTINO \in Inode
        BY Consts
      <3>2. IsFiniteSet(T1) /\ Cardinality(T1) = Cardinality(Inode) - 1
        BY <2>2, <2>6, <3>1, CardLose
      <3> QED BY <2>6, <3>2, Consts
    <2>8. IsFiniteSet(T) /\ Cardinality(T) = NINODES - 3
      <3>1. i \in T1
        BY <1>4, <2>2
      <3>2. IsFiniteSet(T) /\ Cardinality(T) = Cardinality(T1) - 1
        BY <2>2, <2>7, <3>1, CardLose
      <3> QED BY <2>7, <3>2, Consts
    <2>9. IsFiniteSet(D) /\ Cardinality(D) = s - 2
      <3>1. IsFiniteSet(D) /\ Cardinality(D) = IF 3 > s THEN 0 ELSE s - 3 + 1
        BY <1>2, <2>2, FS_Interval
      <3> QED BY <1>2, <1>4, <3>1
    <2>10. Cardinality(T) < Cardinality(D)
      BY <1>2, <1>4, <2>8, <2>9, Consts
    <2>11. PICK x \in D, y \in D : x # y /\ g[x] = g[y]
      BY <2>5, <2>8, <2>9, <2>10, FS_PigeonHole
    <2>12. e[x] = e[y] /\ e[x] # 0
      BY <2>1, <2>2, <2>5, <2>11
    <2> QED BY <1>1, <1>3, <2>2, <2>11, <2>12 DEF DirSound
  <1>7. S \subseteq Nat /\ S # {}
    BY <1>2, <1>5, <1>6
  <1>8. PICK m : m = Min(S)
    OBVIOUS
  <1>9. m \in S
    BY <1>7, <1>8, MinNat
  <1>10. m \in 1..s /\ e[m] = 0
    BY <1>2, <1>5, <1>9
  <1>11. m # 1 /\ m # 2
    BY <1>4, <1>10, Consts
  <1>12. m \in 3..s
    BY <1>2, <1>10, <1>11
  <1>13. Place = m
    BY <1>1, <1>2, <1>5, <1>8 DEF Place
  <1> QED BY <1>1, <1>4, <1>10, <1>12, <1>13

\* create() of a new file keeps the invariant.
LEMMA CreateEndStep ==
    ASSUME DInv, NEW p \in Proc, CreateEnd(p), FreeInodes # {} PROVE DInv'
  <1>0. /\ CtlInv /\ CtlTypeOK /\ LockInv /\ DskTypeOK /\ FreeInv /\ TruncInv /\ CallInv
        /\ HeadInv /\ DirInv /\ LogInv /\ OwnInv /\ HoleInv /\ ThroughInv
    BY DEF DInv, CtlInv
  <1>1. PICK i, k0, new : i = Min(FreeInodes) /\ k0 = Place
                          /\ new = [FreeInode EXCEPT !.type = "file", !.nlink = 1]
    OBVIOUS
  <1>2. /\ LoopDone(p, "create") /\ lock' = [lock EXCEPT ![ROOTINO] = NoProc]
        /\ dinode' = [dinode EXCEPT ![i] = new] /\ inode' = [inode EXCEPT ![i] = new]
        /\ RootWrite(k0, i) /\ UNCHANGED <<bitmap, panicked>>
    BY <1>1 DEF CreateEnd, RootWrite
  <1>3. /\ call[p].at = "loop" /\ call[p].op = "create" /\ ~panicked /\ call[p].at \notin Iput
        /\ Locks(p)
    BY <1>2 DEF LoopDone, At, Iput, Locks
  <1>5. i \in Inode /\ dinode[i].type = "free"
    <2>1. PICK S : S = FreeInodes
      OBVIOUS
    <2>2. S \subseteq Nat /\ S # {}
      BY <2>1, Consts DEF FreeInodes
    <2>3. i \in S
      BY <1>1, <2>1, <2>2, MinNat
    <2> QED BY <2>1, <2>3 DEF FreeInodes
  <1>6. i # ROOTINO /\ k0 \in 3..dinode[ROOTINO].size /\ Entry[k0] = 0
    BY <1>1, <1>5, FreePlace
  <1>4. /\ CtlInv' /\ i \in FreeInodes /\ Ended(p, i) /\ ref' = [ref EXCEPT ![i] = @ + 1]
        /\ lock[ROOTINO] = p /\ call[p].ip = ROOTINO
    <2>1. PICK b, l : b = bmap(ROOTINO, (k0 - 1) \div BSIZE) /\ l = {IBLOCK(i), b}
      OBVIOUS
    <2>2. k0 \in 1..dinode[ROOTINO].size
      BY <1>6, RootStill
    <2>3. b \in Block
      BY <2>1, <2>2, RootPlace
    <2>4. Few(l) /\ l \in SUBSET Block
      BY <1>5, <2>1, <2>3, InodeBlock, FewTwo
    <2>5. OpenFile(p, i, l)
      BY <1>1, <2>1 DEF CreateEnd
    <2>6. \E h \in SUBSET Block : Few(h) /\ OpenFile(p, Min(FreeInodes), h)
      BY <1>1, <2>4, <2>5
    <2> QED BY <1>0, <1>1, <1>2, <1>3, <2>6, CreateEndCtl
  <1>7. lock[i] = NoProc /\ dinode[i] = FreeInode
    BY <1>0, <1>5 DEF FreeInv, FreeSane
  <1>8. PICK s : s = dinode[ROOTINO].size
    OBVIOUS
  <1>9. Still(ROOTINO) /\ ROOTINO \in Inode /\ s \in Nat
    BY <1>8, RootStill
  <1>10. Still(i) /\ Loaded(i) = FreeInode
    <2>1. Still(i)
      BY <1>7 DEF Still, Writing, Truncating
    <2> QED BY <1>0, <1>5, <1>7, <2>1 DEF ThroughInv, ThroughSane
  <1>11. /\ new \in Dinode /\ new.type = "file" /\ new.nlink = 1 /\ new.size = 0
         /\ new.addrs = FreeInode.addrs /\ FreeInode.size = 0
    <2>1. FreeInode \in Dinode
      BY <1>0, <1>5, <1>7 DEF DskTypeOK
    <2>2. PICK a : a = FreeInode.addrs
      OBVIOUS
    <2>3. FreeInode.size = 0 /\ new = [type |-> "file", nlink |-> 1, size |-> 0, addrs |-> a]
      BY <1>1, <2>2 DEF FreeInode
    <2> QED BY <2>1, <2>2, <2>3 DEF Dinode
  <1>12. /\ inode'[i] = new /\ dinode'[i] = new
         /\ \A k \in Inode : k # i => inode'[k] = inode[k]
         /\ \A k \in Inode : k # i => dinode'[k] = dinode[k]
         /\ inode' \in [Inode -> Dinode] /\ dinode' \in [Inode -> Dinode]
    BY <1>0, <1>2, <1>5, <1>11 DEF DskTypeOK
  <1>13. ref'[i] # 0 /\ \A k \in Inode : k # i => ref'[k] = ref[k]
    <2>1. ref \in [Inode -> Nat]
      BY <1>0 DEF CtlTypeOK
    <2> QED BY <1>4, <1>5, <2>1
  <1>14. Loaded(i)' = new /\ \A k \in Inode : Loaded(k)'.addrs = Loaded(k).addrs
    <2>1. Loaded(i)' = new
      BY <1>12, <1>13 DEF Loaded
    <2>2. ASSUME NEW k \in Inode, k # i PROVE Loaded(k)' = Loaded(k)
      BY <1>12, <1>13, <2>2 DEF Loaded
    <2> QED BY <1>10, <1>11, <2>1, <2>2
  <1>15. Only(p) /\ SameOffs /\ Few(call'[p].logged) /\ call'[p].at # "loop"
    BY <1>4, <1>5, EndCallIs, PutCallIs DEF Ended, SameOffs
  <1>16. \A q \in Proc : SameOff(q)
    BY <1>0, <1>3, <1>15, SameOffOthers
  <1>17. \A k \in Inode : lock'[k] = IF k = ROOTINO THEN NoProc ELSE lock[k]
    BY <1>0, <1>2 DEF CtlTypeOK
  <1>18. ASSUME NEW k \in Inode, k # i, k # ROOTINO PROVE Kept(k) /\ Freed(k)' = Freed(k)
    <2>1. lock'[k] = lock[k] /\ lock[k] # p /\ inode'[k] = inode[k]
      BY <1>0, <1>4, <1>12, <1>17, <1>18, Procs DEF LockInv
    <2> QED BY <1>0, <1>15, <1>16, <2>1, OthersKept
  <1>19. Kept(ROOTINO) /\ Freed(ROOTINO)' = Freed(ROOTINO)
    <2>1. lock'[ROOTINO] = NoProc
      BY <1>9, <1>17
    <2>2. Still(ROOTINO)'
      BY <2>1 DEF Still, Writing, Truncating
    <2>3. Freed(ROOTINO) = 0
      BY <1>0, <1>9, FreedNone DEF Still
    <2>4. Freed(ROOTINO)' = 0
      BY <2>1 DEF Freed
    <2> QED BY <1>9, <2>2, <2>3, <2>4 DEF Kept
  <1>20. lock'[i] = NoProc
    BY <1>5, <1>6, <1>7, <1>17
  <1>21. \A k \in Inode : Freed(k)' = Freed(k)
    <2>1. Freed(i)' = Freed(i)
      BY <1>7, <1>20 DEF Freed
    <2> QED BY <1>18, <1>19, <2>1
  <1>22. k0 \in 1..s /\ i \in Value
    BY <1>5, <1>6, <1>8, <1>9, Consts DEF Value
  <1>23. PICK w : w = RootSpot(k0)
    OBVIOUS
  <1>24. /\ w \in Spot /\ w[2] # NDIRECT /\ Own[w] # NULL
         /\ blk' \in [Block -> [Unit -> Value]]
         /\ \A b \in Block : b # Own[w] => blk'[b] = blk[b]
    BY <1>2, <1>8, <1>22, <1>23, RootPlace, RootWritten
  <1>25. OwnInv' /\ \A k \in Inode : SameSlots(k)
    <2>1. bitmap' = bitmap
      BY <1>2
    <2> QED BY <1>0, <1>14, <1>21, <1>24, <2>1, SameOwn
  <1>26. DskTypeOK'
    BY <1>0, <1>2, <1>12, <1>24 DEF DskTypeOK
  <1>27. DirInv'
    <2>1. SameSlots(ROOTINO) /\ dinode'[ROOTINO] = dinode[ROOTINO]
      BY <1>6, <1>9, <1>12, <1>25
    <2>2. Entry'[k0] = i /\ \A k \in 1..s : k # k0 => Entry'[k] = Entry[k]
      BY <1>2, <1>8, <1>22, <2>1, EntryWrite
    <2>3. dinode'[i].type = "file" /\ dinode'[i].nlink = 1
      BY <1>11, <1>12
    <2> QED BY <1>0, <1>5, <1>6, <1>8, <1>9, <1>12, <2>2, <2>3, DirMade
  <1>28. ~Writing(i)' /\ ~Truncating(i)'
    BY <1>20 DEF Writing, Truncating
  <1>29. HeadSane(i)' /\ ThroughSane(i)'
    BY <1>12, <1>14, <1>28 DEF HeadSane, ThroughSane
  <1>30. HoleSane(i)'
    <2>1. Covered(Own, i, 0)
      BY <1>0, <1>5, <1>10, <1>11 DEF HoleInv, HoleSane
    <2>2. \A n \in 0..(MAXFILE - 1) : Own'[<<i, SlotOf(n)>>] = Own[<<i, SlotOf(n)>>]
      BY <1>5, <1>25, SlotIn DEF SameSlots
    <2>3. Covered(Own', i, 0)
      BY <2>1, <2>2 DEF Covered
    <2> QED BY <1>11, <1>14, <1>28, <2>3 DEF HoleSane
  <1>31. RangeSane(p)' /\ LogSane(p)'
    BY <1>15 DEF RangeSane, LogSane, Few, Loops
  <1>32. FreeInv' /\ TruncInv'
    <2>1. dinode'[i].type # "free"
      BY <1>11, <1>12
    <2>2. \A k \in Inode : k # i /\ dinode[k].type = "free" => lock'[k] = NoProc
      BY <1>0, <1>17 DEF FreeInv, FreeSane
    <2> QED BY <1>0, <1>3, <1>4, <1>5, <1>7, <1>12, <2>1, <2>2, EndedHeads
  <1>33. \A q \in Proc : q # p /\ call[q].at = "loop" => call[q].ip # i
    BY <1>0, <1>3, <1>7, LoopOther, Procs
  <1>34. /\ \A k \in Inode : k # i => SameSlots(k)
         /\ \A k \in Inode : k # i => Kept(k)
         /\ \A q \in Proc : q # p => SameOff(q)
    BY <1>16, <1>18, <1>19, <1>25
  <1> QED BY <1>3, <1>4, <1>5, <1>12, <1>13, <1>15, <1>25, <1>26, <1>27, <1>29, <1>30, <1>31,
             <1>32, <1>33, <1>34, DataStep

\* ialloc() panics when there is no inode.
LEMMA CreatePanics ==
    ASSUME DInv, NEW p \in Proc, CreateEnd(p), FreeInodes = {} PROVE DInv'
  <1>0. CtlInv
    BY DEF DInv
  <1>1. /\ LoopDone(p, "create") /\ lock' = [lock EXCEPT ![ROOTINO] = NoProc]
        /\ UNCHANGED <<bitmap, blk, dinode, inode, ref, ftable, call>>
    BY DEF CreateEnd
  <1>2. call[p].at = "loop" /\ call[p].op = "create" /\ ~panicked
    BY <1>1 DEF LoopDone, At
  <1>3. CtlInv' /\ call[p].ip = ROOTINO
    BY <1>0, <1>2, CreateEndCtl DEF CtlInv, CallInv, CallSane
  <1>4. SameRefs
    BY <1>1 DEF SameRefs, Opened, Putting
  <1> QED BY <1>1, <1>2, <1>3, <1>4, PanicStep

-----------------------------------------------------------------------------
(* The invariant holds at the start and in every step.                     *)

\* At the start no process is in the kernel and no file is open.
LEMMA InitCtl ==
    ASSUME Init PROVE CtlInv
  <1>0. /\ ref = [i \in Inode |-> IF i = ROOTINO THEN 1 ELSE 0]
        /\ lock = [i \in Inode |-> NoProc]
        /\ ftable = [f \in File |-> [ref |-> 0, ip |-> None, off |-> 0]]
        /\ ofile = [p \in Proc |-> [d \in Fd |-> None]]
        /\ pstate = [p \in Proc |-> IF p = InitProc THEN "run" ELSE "unused"]
        /\ call = [p \in Proc |-> Idle] /\ panicked = FALSE
    BY DEF Init
  <1>1. CtlTypeOK
    <2>1. ref \in [Inode -> Nat]
      BY <1>0
    <2>2. ftable \in [File -> OFile]
      BY <1>0 DEF OFile
    <2>3. call \in [Proc -> Call]
      BY <1>0, IdleIs
    <2>4. lock \in [Inode -> Proc \cup {NoProc}] /\ ofile \in [Proc -> [Fd -> File \cup {None}]]
      BY <1>0
    <2>5. pstate \in [Proc -> {"unused", "run", "exit"}] /\ panicked \in BOOLEAN
      BY <1>0
    <2> QED BY <2>1, <2>2, <2>3, <2>4, <2>5 DEF CtlTypeOK
  <1>2. \A p \in Proc : call[p].at = "user" /\ call[p].op = "none" /\ call[p].j = 0
    BY <1>0, IdleIs
  <1>3. \A f \in File : ftable[f].ref = 0
    BY <1>0
  <1>4. FileInv
    <2>1. ASSUME NEW f \in File PROVE Uses(f) = {}
      <3>1. f # None
        BY FileDataAssumption DEF File, None
      <3> QED BY <1>0, <3>1 DEF Uses
    <2>2. Cardinality({}) = 0
      BY FS_EmptySet
    <2> QED BY <1>3, <2>1, <2>2 DEF FileInv
  <1>5. ProcInv
    BY <1>0, <1>2 DEF ProcInv
  <1>6. RefInv
    <2>1. ASSUME NEW i \in Inode PROVE Opened(i) = {} /\ Putting(i) = {}
      BY <1>2, <1>3 DEF Opened, Putting, Iput
    <2>2. Cardinality({}) = 0
      BY FS_EmptySet
    <2>3. ASSUME NEW i \in Inode
          PROVE  ref[i] = Cardinality(Opened(i)) + Cardinality(Putting(i))
                            + (IF i = ROOTINO THEN 1 ELSE 0)
      <3>1. ref[i] = IF i = ROOTINO THEN 1 ELSE 0
        BY <1>0
      <3>2. Cardinality(Opened(i)) = 0 /\ Cardinality(Putting(i)) = 0
        BY <2>1, <2>2
      <3> QED BY <3>1, <3>2
    <2> QED BY <2>3 DEF RefInv
  <1>7. CallInv
    BY <1>2 DEF CallInv, CallSane, InFile
  <1>8. LockInv
    BY <1>0, <1>2 DEF LockInv
  <1> QED BY <1>1, <1>4, <1>5, <1>6, <1>7, <1>8 DEF CtlInv

\* The invariant holds on a sound image.
LEMMA InitData ==
    ASSUME ImageSound, Init PROVE DInv
  <1>0. CtlInv
    BY InitCtl
  <1>1. /\ bitmap = Bitmap(Disk) /\ blk = Disk.blk /\ dinode = Disk.ino /\ inode = dinode
        /\ lock = [i \in Inode |-> NoProc] /\ call = [p \in Proc |-> Idle]
        /\ ftable = [f \in File |-> [ref |-> 0, ip |-> None, off |-> 0]]
    BY DEF Init
  <1>2. \A i \in Inode : Loaded(i) = dinode[i] /\ Freed(i) = 0 /\ lock[i] = NoProc
    BY <1>1 DEF Loaded, Freed
  <1>3. \A p \in Proc : call[p].at = "user" /\ call[p].logged = {}
    BY <1>1, IdleIs
  <1>4. \A w \in Spot : Own[w] = DiskOwn[w]
    <2>1. ASSUME NEW w \in Spot PROVE Own[w] = DiskOwn[w]
      <3>1. w[1] \in Inode
        BY DEF Spot
      <3>2. Loaded(w[1]) = Disk.ino[w[1]] /\ Freed(w[1]) = 0
        BY <1>1, <1>2, <3>1
      <3> QED BY <1>1, <3>2 DEF Own, DiskOwn
    <2> QED BY <2>1
  <1>5. Own = DiskOwn
    BY <1>4 DEF Own, DiskOwn
  <1>6. OwnInv
    BY <1>1, <1>5 DEF OwnInv, ImageSound
  <1>7. DskTypeOK
    <2>1. bitmap \subseteq Block
      BY <1>1 DEF Bitmap
    <2> QED BY <1>1, <2>1 DEF DskTypeOK, ImageSound
  <1>8. RangeInv /\ LogInv
    BY <1>3, FewNone DEF RangeInv, RangeSane, LogInv, LogSane, Loops
  <1>9. HeadInv
    BY <1>1 DEF HeadInv, HeadSane
  <1>10. \A i \in Inode : ~Writing(i) /\ ~Truncating(i)
    BY <1>2 DEF Writing, Truncating
  <1>11. ThroughInv
    BY <1>2, <1>10 DEF ThroughInv, ThroughSane
  <1>12. HoleInv
    <2>1. ASSUME NEW i \in Inode PROVE HoleSane(i)
      <3>1. Covered(DiskOwn, i, Disk.ino[i].size)
        BY DEF ImageSound
      <3>2. Loaded(i).size = Disk.ino[i].size
        BY <1>1, <1>2
      <3> QED BY <1>5, <1>10, <3>1, <3>2 DEF HoleSane
    <2> QED BY <2>1 DEF HoleInv
  <1>13. FreeInv
    <2>1. ASSUME NEW i \in Inode PROVE Opened(i) = {} /\ Putting(i) = {}
      BY <1>1, <1>3 DEF Opened, Putting, Iput
    <2>2. ASSUME NEW i \in Inode PROVE FreeSane(i)
      <3>1. dinode[i].type = "free" => dinode[i] = FreeInode
        BY <1>1 DEF ImageSound
      <3> QED BY <1>2, <2>1, <3>1 DEF FreeSane
    <2> QED BY <2>2 DEF FreeInv
  <1>14. TruncInv
    BY <1>3 DEF TruncInv, TruncSane
  <1>15. DirInv
    <2>1. Entry = DiskEntry
      BY <1>1, <1>5 DEF Entry, DiskEntry
    <2> QED BY <1>1, <2>1 DEF DirInv, ImageSound
  <1> QED BY <1>0, <1>6, <1>7, <1>8, <1>9, <1>11, <1>12, <1>13, <1>14, <1>15 DEF DInv

\* Every system call keeps the invariant when it begins.
LEMMA EnterStep ==
    ASSUME DInv, NEW p \in Proc, Enter(p) PROVE DInv'
  <1>1. ASSUME NEW d \in Fd, Close(p, d) PROVE DInv'
    <2>1. argfd(p, d) /\ fileclose(p, d) /\ At(p, "user") /\ pstate[p] # "unused" /\ pstate' = pstate
      BY <1>1 DEF Close, User, At
    <2> QED BY <2>1, CloseStep
  <1>2. CASE Descriptors(p)
    BY <1>1, <1>2, OpenStep, DupStep, ForkStep, ExitStep DEF Descriptors
  <1>3. CASE Bytes(p)
    BY <1>3, ReadStep, WriteStep, CreateStep, UnlinkStep DEF Bytes
  <1> QED BY <1>2, <1>3 DEF Enter

\* Every step inside a system call keeps the invariant.
LEMMA InsideStep ==
    ASSUME DInv, NEW p \in Proc, Inside(p) PROVE DInv'
  <1>1. CASE InWrite(p)
    BY <1>1, WriteLockStep, ReturnStep, WriteEndStep DEF InWrite
  <1>2. CASE InLoop(p)
    <2>1. CASE BallocFor(p)
      <3>1. CASE panicked'
        BY <2>1, <3>1, BallocPanics
      <3>2. CASE ~panicked'
        BY <2>1, <3>2, BallocStep
      <3> QED BY <3>1, <3>2
    <2>2. CASE Copy(p)
      BY <2>2, CopyWriteStep, CopyReadStep
    <2>3. CASE CreateEnd(p)
      BY <2>3, CreateEndStep, CreatePanics
    <2> QED BY <1>2, <2>1, <2>2, <2>3, ReadEndStep, ReturnStep DEF InLoop
  <1>3. CASE InPut(p)
    BY <1>3, PutStep, TruncStep, TruncDoneStep, DropStep, ExitCloseStep DEF InPut
  <1> QED BY <1>1, <1>2, <1>3 DEF Inside

\* A step that changes nothing keeps the invariant.
LEMMA StutterStep ==
    ASSUME DInv, UNCHANGED vars PROVE DInv'
  <1>0. UNCHANGED <<bitmap, blk, dinode, inode, ref, lock, ftable, ofile, pstate, call, panicked>>
    BY DEF vars
  <1>1. CtlTypeOK' /\ DskTypeOK'
    BY <1>0 DEF DInv, CtlInv, CtlTypeOK, DskTypeOK
  <1>2. FileInv' /\ ProcInv' /\ RefInv' /\ CallInv' /\ LockInv'
    BY <1>0 DEF DInv, CtlInv, FileInv, ProcInv, RefInv, CallInv, CallSane, InFile, LockInv, Locks,
                Uses, Opened, Putting
  <1>3. RangeInv' /\ HeadInv' /\ ThroughInv'
    BY <1>0 DEF DInv, RangeInv, RangeSane, Loops, FOff, HeadInv, HeadSane, ThroughInv,
                ThroughSane, Still, Writing, Truncating, Loaded
  <1>4. Own' = Own
    BY <1>0 DEF Own, Loaded, Freed
  <1>5. OwnInv' /\ DirInv'
    <2>1. OwnInv'
      BY <1>0, <1>4 DEF DInv, OwnInv
    <2>2. Entry' = Entry
      BY <1>0, <1>4 DEF Entry
    <2>3. DirInv'
      BY <1>0, <2>2 DEF DInv, DirInv
    <2> QED BY <2>1, <2>3
  <1>6. HoleInv'
    <2>1. ASSUME NEW i \in Inode PROVE HoleSane(i)'
      <3>1. HoleSane(i)
        BY DEF DInv, HoleInv
      <3> QED BY <1>0, <1>4, <3>1 DEF HoleSane, Still, Writing, Truncating, Loops, Loaded, Pos, FOff
    <2> QED BY <2>1 DEF HoleInv
  <1>7. FreeInv' /\ TruncInv'
    BY <1>0 DEF DInv, FreeInv, FreeSane, TruncInv, TruncSane, Opened, Putting
  <1>8. LogInv'
    BY <1>0, <1>4 DEF DInv, LogInv, LogSane, Few, Logged, ChunkBlocks, Loops, FOff
  <1> QED BY <1>1, <1>2, <1>3, <1>5, <1>6, <1>7, <1>8 DEF DInv, CtlInv

\* On a sound image, the invariant of all of this module's theorems holds.
THEOREM DataInvariant ==
    ASSUME ImageSound PROVE Spec => []DInv
  <1>1. Init => DInv
    BY InitData
  <1>2. DInv /\ [Next]_vars => DInv'
    BY EnterStep, InsideStep, StutterStep DEF Next
  <1> QED BY <1>1, <1>2, PTL DEF Spec

-----------------------------------------------------------------------------
(* What follows from the invariant.                                        *)

\* Places and BlockAt, which BlocksExact is about, are those of Own.
LEMMA PlaceIs ==
    ASSUME DInv, NEW w
    PROVE  /\ (\E i \in Inode : w \in Places(i)) <=> w \in Spot /\ Own[w] # NULL
           /\ w \in Spot /\ Own[w] # NULL => BlockAt(w) = Own[w]
  <1>0. CtlTypeOK /\ DskTypeOK
    BY DEF DInv, CtlInv
  <1>1. ASSUME NEW i \in Inode, w \in Places(i)
        PROVE  w \in Spot /\ Own[w] # NULL
    <2>1. PICK a, j : a = Loaded(i).addrs /\ j = Freed(i)
      OBVIOUS
    <2>2. j \in Nat
      BY <1>0, <2>1, FreedType
    <2>3. \/ \E k \in 0..NDIRECT : a[k] # NULL /\ w = <<i, k>>
          \/ /\ a[NDIRECT] # NULL
             /\ \E k \in j..(NINDIRECT - 1) : blk[a[NDIRECT]][k] # NULL /\ w = <<i, NDIRECT + 1 + k>>
      BY <1>1, <2>1 DEF Places
    <2>4. CASE \E k \in 0..NDIRECT : a[k] # NULL /\ w = <<i, k>>
      <3>1. PICK k \in 0..NDIRECT : a[k] # NULL /\ w = <<i, k>>
        BY <2>4
      <3>2. k \in Slot /\ k <= NDIRECT
        BY Consts DEF Slot
      <3>3. Own[<<i, k>>] = a[k]
        BY <2>1, <3>2, OwnAt DEF SlotAt
      <3> QED BY <3>1, <3>2, <3>3 DEF Spot
    <2>5. CASE a[NDIRECT] # NULL /\ \E k \in j..(NINDIRECT - 1) :
                  blk[a[NDIRECT]][k] # NULL /\ w = <<i, NDIRECT + 1 + k>>
      <3>1. PICK k \in j..(NINDIRECT - 1) : blk[a[NDIRECT]][k] # NULL /\ w = <<i, NDIRECT + 1 + k>>
        BY <2>5
      <3>2. PICK m : m = NDIRECT + 1 + k
        OBVIOUS
      <3>3. m \in Slot /\ ~(m <= NDIRECT) /\ m - NDIRECT - 1 = k /\ ~(k < j)
        BY <2>2, <3>1, <3>2, Consts DEF Slot
      <3>4. Own[<<i, m>>] = SlotAt(a, blk, j, m)
        BY <2>1, <3>3, OwnAt
      <3>5. SlotAt(a, blk, j, m) = blk[a[NDIRECT]][k]
        BY <2>5, <3>3 DEF SlotAt
      <3> QED BY <3>1, <3>2, <3>3, <3>4, <3>5 DEF Spot
    <2> QED BY <2>3, <2>4, <2>5
  <1>2. ASSUME w \in Spot, Own[w] # NULL
        PROVE  (\E i \in Inode : w \in Places(i)) /\ BlockAt(w) = Own[w]
    <2>1. PICK i \in Inode, k \in Slot : w = <<i, k>>
      BY <1>2 DEF Spot
    <2>2. PICK a, j : a = Loaded(i).addrs /\ j = Freed(i)
      OBVIOUS
    <2>3. j \in Nat
      BY <1>0, <2>2, FreedType
    <2>4. Own[w] = SlotAt(a, blk, j, k) /\ w[1] = i /\ w[2] = k
      BY <2>1, <2>2, OwnAt
    <2>5. BlockAt(w) = IF k <= NDIRECT THEN a[k] ELSE blk[a[NDIRECT]][k - NDIRECT - 1]
      BY <2>2, <2>4 DEF BlockAt
    <2>6. CASE k <= NDIRECT
      <3>1. Own[w] = a[k] /\ k \in 0..NDIRECT
        BY <2>4, <2>6, Consts DEF SlotAt, Slot
      <3>2. w \in Places(i)
        BY <1>2, <2>1, <2>2, <3>1 DEF Places
      <3> QED BY <2>5, <2>6, <3>1, <3>2
    <2>7. CASE ~(k <= NDIRECT)
      <3>1. a[NDIRECT] # NULL /\ ~(k - NDIRECT - 1 < j) /\ Own[w] = blk[a[NDIRECT]][k - NDIRECT - 1]
        BY <1>2, <2>4, <2>7 DEF SlotAt
      <3>2. PICK m : m = k - NDIRECT - 1
        OBVIOUS
      <3>3. m \in j..(NINDIRECT - 1) /\ k = NDIRECT + 1 + m
        BY <2>3, <2>7, <3>1, <3>2, Consts DEF Slot
      <3>4. w = <<i, NDIRECT + 1 + m>> /\ blk[a[NDIRECT]][m] # NULL
        BY <1>2, <2>1, <3>1, <3>2, <3>3
      <3>5. w \in Places(i)
        BY <2>2, <3>1, <3>3, <3>4 DEF Places
      <3> QED BY <2>5, <2>7, <3>1, <3>5
    <2> QED BY <2>6, <2>7
  <1> QED BY <1>1, <1>2

\* The invariant implies BlocksExact: Own is a bijection to the blocks in
\* use.
LEMMA InvBlocks ==
    ASSUME DInv PROVE BlocksExact
  <1>0. OwnedOnce(Own, bitmap) /\ bitmap \subseteq Block
    BY DEF DInv, OwnInv, DskTypeOK
  <1>1. PICK P, T : P = UNION {Places(i) : i \in Inode} /\ T = {BlockAt(w) : w \in P}
    OBVIOUS
  <1>2. \A w : w \in P <=> w \in Spot /\ Own[w] # NULL
    BY <1>1, PlaceIs
  <1>3. \A w \in P : BlockAt(w) = Own[w]
    BY <1>2, PlaceIs
  <1>4. \A b : b \in T <=> \E w \in P : b = Own[w]
    BY <1>1, <1>3
  <1>5. Cardinality(T) = Cardinality(P)
    <2>1. IsFiniteSet(P)
      <3>1. IsFiniteSet(Inode) /\ IsFiniteSet(Slot)
        <4>1. NINODES - 1 \in Int /\ NDIRECT + NINDIRECT \in Int /\ 0 \in Int /\ 1 \in Int
          BY Consts
        <4> QED BY <4>1, FS_Interval DEF Inode, Slot
      <3>2. IsFiniteSet(Spot)
        BY <3>1, FS_Product DEF Spot
      <3>3. P \in SUBSET Spot
        BY <1>2
      <3> QED BY <3>2, <3>3, FS_Subset
    <2>2. PICK h : h = [w \in P |-> Own[w]]
      OBVIOUS
    <2>3. h \in [P -> T] /\ \A w \in P : h[w] = Own[w]
      BY <1>4, <2>2
    <2>4. \A v, w \in P : h[v] = h[w] => v = w
      BY <1>0, <1>2, <2>3 DEF OwnedOnce
    <2>5. \A b \in T : \E w \in P : h[w] = b
      BY <1>4, <2>3
    <2> QED BY <2>1, <2>3, <2>4, <2>5, CardSame
  <1>6. \A b \in T : b \in bitmap /\ b >= nmeta
    BY <1>0, <1>2, <1>4 DEF OwnedOnce
  <1>7. ASSUME NEW b \in bitmap PROVE b \in 0..(nmeta - 1) \/ b \in T
    <2>1. b \in Nat /\ nmeta \in Nat /\ nmeta >= 4 /\ NULL = 0
      BY <1>0, <1>7, Consts
    <2>2. CASE b >= nmeta
      <3>1. PICK w \in Spot : Own[w] = b
        BY <1>0, <1>7, <2>2 DEF OwnedOnce
      <3>2. b # NULL
        BY <2>1, <2>2
      <3> QED BY <1>2, <1>4, <3>1, <3>2
    <2>3. CASE b < nmeta
      BY <2>1, <2>3
    <2> QED BY <2>1, <2>2, <2>3
  <1>8. \A b \in 0..(nmeta - 1) : b \in bitmap
    BY <1>0 DEF OwnedOnce
  <1>9. bitmap = (0..(nmeta - 1)) \cup T
    BY <1>6, <1>7, <1>8
  <1>10. T \cap (0..(nmeta - 1)) = {}
    <2>1. ASSUME NEW b \in T, b \in 0..(nmeta - 1) PROVE FALSE
      BY <1>6, <2>1, Consts
    <2> QED BY <2>1
  <1> QED BY <1>1, <1>5, <1>9, <1>10 DEF BlocksExact

\* The invariant implies Settled.
LEMMA InvSettled ==
    ASSUME DInv PROVE Settled
  <1>0. inode \in [Inode -> Dinode] /\ ThroughInv /\ HoleInv
    BY DEF DInv, DskTypeOK
  <1>1. ASSUME NEW i \in Inode, lock[i] = NoProc
        PROVE  /\ Loaded(i) = dinode[i]
               /\ \A n \in 0..(MAXFILE - 1) : bmap(i, n) # NULL <=> n * BSIZE < Loaded(i).size
    <2>1. Still(i) /\ Freed(i) = 0
      BY <1>1 DEF Still, Writing, Truncating, Freed
    <2>2. Loaded(i) = dinode[i] /\ Covered(Own, i, Loaded(i).size)
      BY <1>0, <2>1 DEF ThroughInv, ThroughSane, HoleInv, HoleSane
    <2>3. \A n \in 0..(MAXFILE - 1) : bmap(i, n) = Own[<<i, SlotOf(n)>>]
      BY <1>0, <2>1, BmapOwn
    <2>4. PICK z : z = Loaded(i).size
      OBVIOUS
    <2>5. \A n \in 0..(MAXFILE - 1) : bmap(i, n) # NULL <=> n * BSIZE < z
      BY <2>2, <2>3, <2>4 DEF Covered
    <2> QED BY <2>2, <2>4, <2>5
  <1> QED BY <1>1 DEF Settled, WriteThrough, NoHoles

\* The image of a finite set is no larger.
LEMMA CardImage ==
    ASSUME NEW S, NEW T, NEW h, IsFiniteSet(S), h \in [S -> T], \A t \in T : \E s \in S : h[s] = t
    PROVE  IsFiniteSet(T) /\ Cardinality(T) <= Cardinality(S)
  <1>1. h \in Surjection(S, T)
    BY DEF Surjection
  <1> QED BY <1>1, FS_Surjection

\* A set with one more element.
LEMMA CardMore ==
    ASSUME NEW S, NEW x, IsFiniteSet(S), NEW n \in Nat, Cardinality(S) <= n
    PROVE  IsFiniteSet(S \cup {x}) /\ Cardinality(S \cup {x}) <= n + 1
  <1>1. /\ IsFiniteSet(S \cup {x}) /\ Cardinality(S) \in Nat
        /\ Cardinality(S \cup {x}) = IF x \in S THEN Cardinality(S) ELSE Cardinality(S) + 1
    BY FS_AddElement, FS_CardinalityType
  <1> QED BY <1>1

\* A chunk of at most k blocks of bytes reaches into at most k + 1 blocks.
LEMMA ChunkSize ==
    ASSUME NEW o \in Nat, NEW n \in Nat, NEW k \in Nat, n <= k * BSIZE
    PROVE  /\ IsFiniteSet((o \div BSIZE)..((o + n - 1) \div BSIZE))
           /\ Cardinality((o \div BSIZE)..((o + n - 1) \div BSIZE)) <= k + 1
  <1>1. PICK a, b : a = o \div BSIZE /\ b = (o + n - 1) \div BSIZE
    OBVIOUS
  <1>2. a \in Nat /\ b \in Int /\ BSIZE \in Nat /\ BSIZE >= 1
    <2>1. a \in Nat /\ BSIZE \in Nat /\ BSIZE >= 1
      BY <1>1, DivMod, Consts
    <2>2. b \in Int
      BY <1>1, <2>1
    <2> QED BY <2>1, <2>2
  <1>3. b <= a + k
    <2>1. CASE o + n = 0
      <3>1. b = -1
        <4>1. o + n - 1 = -1
          BY <2>1
        <4>2. (-1) \div BSIZE = -1
          BY <1>2
        <4> QED BY <1>1, <4>1, <4>2
      <3> QED BY <1>2, <3>1
    <2>2. CASE o + n # 0
      <3>1. PICK x \in Nat : x = o + n - 1
        BY <2>2
      <3>2. b \in Nat /\ b * BSIZE <= x /\ b * BSIZE \in Nat
        <4>1. b \in Nat /\ b * BSIZE <= x
          BY <1>1, <3>1, DivMod, Begins
        <4> QED BY <1>2, <4>1, SMTT(30)
      <3>3. ASSUME a + k < b PROVE FALSE
        <4>1. PICK c \in Nat : c = a + k
          BY <1>2
        <4>2. c * BSIZE + BSIZE <= b * BSIZE /\ c * BSIZE \in Nat
          BY <3>2, <3>3, <4>1, MulLess
        <4>3. c * BSIZE = a * BSIZE + k * BSIZE /\ a * BSIZE \in Nat /\ k * BSIZE \in Nat
          BY <1>2, <4>1, SMTT(30)
        <4>4. PICK r : r = o % BSIZE
          OBVIOUS
        <4>5. r \in Nat /\ r < BSIZE /\ o = a * BSIZE + r
          BY <1>1, <1>2, <4>4, DivMod DEF Unit
        <4> QED BY <1>2, <3>1, <3>2, <4>2, <4>3, <4>5
      <3> QED BY <1>2, <3>2, <3>3
    <2> QED BY <2>1, <2>2
  <1>4. IsFiniteSet(a..b) /\ Cardinality(a..b) = IF a > b THEN 0 ELSE b - a + 1
    BY <1>2, FS_Interval
  <1>5. Cardinality(a..b) <= k + 1
    BY <1>2, <1>3, <1>4
  <1> QED BY <1>1, <1>4, <1>5

\* The invariant implies OpFits: the bitmap, the indirect block, the blocks of the
\* chunk and the inode.
LEMMA InvOpFits ==
    ASSUME DInv PROVE OpFits
  <1>0. CtlTypeOK /\ CallInv /\ RangeInv /\ LogInv
    BY DEF DInv, CtlInv
  <1>1. MAXOPBLOCKS \in Nat /\ MAXOPBLOCKS >= 6
    BY FileDataAssumption
  <1>2. ASSUME NEW p \in Proc, NEW T, NEW n \in Nat, IsFiniteSet(T), Cardinality(T) <= n,
               call[p].logged \subseteq T, n + 1 <= MAXOPBLOCKS
        PROVE  Cardinality(call[p].logged \cup (IF InOp(p) THEN {IBLOCK(call[p].ip)} ELSE {}))
                 <= MAXOPBLOCKS
    <2>1. PICK x, U : x = IBLOCK(call[p].ip) /\ U = T \cup {x}
      OBVIOUS
    <2>2. IsFiniteSet(U) /\ Cardinality(U) <= n + 1
      BY <1>2, <2>1, CardMore
    <2>3. PICK V : V = call[p].logged \cup (IF InOp(p) THEN {x} ELSE {})
      OBVIOUS
    <2>4. V \in SUBSET U
      BY <1>2, <2>1, <2>3
    <2>5. Cardinality(V) <= Cardinality(U) /\ IsFiniteSet(V)
      BY <2>2, <2>4, FS_Subset
    <2>6. Cardinality(V) \in Nat /\ Cardinality(U) \in Nat
      BY <2>2, <2>5, FS_CardinalityType
    <2>7. Cardinality(V) <= MAXOPBLOCKS
      BY <1>1, <1>2, <2>2, <2>5, <2>6
    <2> QED BY <2>1, <2>3, <2>7
  <1>3. ASSUME NEW p \in Proc, ~Loops(p, "write")
        PROVE  Cardinality(call[p].logged \cup (IF InOp(p) THEN {IBLOCK(call[p].ip)} ELSE {}))
                 <= MAXOPBLOCKS
    <2>1. PICK b, c \in Block : call[p].logged \subseteq {BBLOCK, b, c}
      BY <1>0, <1>3 DEF LogInv, LogSane, Few
    <2>2. PICK S, T, R : S = {BBLOCK} /\ T = S \cup {b} /\ R = T \cup {c}
      OBVIOUS
    <2>3. IsFiniteSet(S) /\ Cardinality(S) <= 1 /\ 1 \in Nat
      <3>1. IsFiniteSet(S) /\ Cardinality(S) = 1
        BY <2>2, FS_Singleton
      <3> QED BY <3>1
    <2>4. IsFiniteSet(T) /\ Cardinality(T) <= 2
      <3>1. IsFiniteSet(T) /\ Cardinality(T) <= 1 + 1
        BY <2>2, <2>3, CardMore
      <3> QED BY <3>1
    <2>5. IsFiniteSet(R) /\ Cardinality(R) <= 3
      <3>1. IsFiniteSet(R) /\ Cardinality(R) <= 2 + 1
        BY <2>2, <2>4, CardMore
      <3> QED BY <3>1
    <2>6. 3 \in Nat /\ 3 + 1 <= MAXOPBLOCKS /\ call[p].logged \subseteq R
      BY <1>1, <2>1, <2>2
    <2> QED BY <1>2, <2>5, <2>6
  <1>4. ASSUME NEW p \in Proc, Loops(p, "write")
        PROVE  Cardinality(call[p].logged \cup (IF InOp(p) THEN {IBLOCK(call[p].ip)} ELSE {}))
                 <= MAXOPBLOCKS
    <2>1. PICK o, n, k : o = FOff(p) /\ n = call[p].n /\ k = (MAXOPBLOCKS - 1 - 1 - 2) \div 2
      OBVIOUS
    <2>2. k \in Nat /\ k + 3 <= MAXOPBLOCKS - 1
      BY <1>1, <2>1
    <2>3. n \in Nat /\ n <= k * BSIZE
      BY <1>0, <1>4, <2>1 DEF RangeInv, RangeSane, max, CtlTypeOK, Call
    <2>4. o \in Nat
      <3>1. call[p].f \in File
        BY <1>0, <1>4 DEF CallInv, CallSane, InFile, Loops
      <3> QED BY <1>0, <2>1, <3>1 DEF FOff, CtlTypeOK, OFile
    <2>5. PICK D : D = ChunkBlocks(p)
      OBVIOUS
    <2>6. IsFiniteSet(D) /\ Cardinality(D) <= k + 1
      <3>1. D = (o \div BSIZE)..((o + n - 1) \div BSIZE)
        BY <2>1, <2>5 DEF ChunkBlocks
      <3> QED BY <2>2, <2>3, <2>4, <3>1, ChunkSize
    <2>7. PICK h : h = [m \in D |-> Own[<<call[p].ip, SlotOf(m)>>]]
      OBVIOUS
    <2>8. PICK R : R = {h[m] : m \in D}
      OBVIOUS
    <2>9. IsFiniteSet(R) /\ Cardinality(R) <= Cardinality(D)
      <3>1. h \in [D -> R] /\ \A t \in R : \E m \in D : h[m] = t
        BY <2>7, <2>8
      <3> QED BY <2>6, <3>1, CardImage
    <2>10. Cardinality(R) <= k + 1 /\ k + 1 \in Nat
      <3>1. Cardinality(R) \in Nat /\ Cardinality(D) \in Nat
        BY <2>6, <2>9, FS_CardinalityType
      <3> QED BY <2>2, <2>6, <2>9, <3>1
    <2>11. PICK R1, R2, y : y = inode[call[p].ip].addrs[NDIRECT] /\ R1 = R \cup {BBLOCK}
                            /\ R2 = R1 \cup {y}
      OBVIOUS
    <2>12. PICK k1 \in Nat, k2 \in Nat, k3 \in Nat : k1 = k + 1 /\ k2 = k1 + 1 /\ k3 = k2 + 1
      BY <2>2
    <2>13. IsFiniteSet(R2) /\ Cardinality(R2) <= k3
      <3>1. IsFiniteSet(R1) /\ Cardinality(R1) <= k1 + 1
        BY <2>9, <2>10, <2>11, <2>12, CardMore
      <3>2. Cardinality(R1) <= k2
        BY <2>12, <3>1
      <3>3. IsFiniteSet(R2) /\ Cardinality(R2) <= k2 + 1
        BY <2>11, <3>1, <3>2, CardMore
      <3> QED BY <2>12, <3>3
    <2>14. ASSUME NEW x \in call[p].logged PROVE x \in R2
      <3>1. Logged(p, x)
        BY <1>0, <1>4, <2>14 DEF LogInv, LogSane
      <3>2. x = BBLOCK \/ x = y \/ \E m \in D : x = h[m]
        BY <2>5, <2>7, <2>11, <3>1 DEF Logged
      <3> QED BY <2>8, <2>11, <3>2
    <2>15. k3 + 1 <= MAXOPBLOCKS
      BY <1>1, <2>2, <2>12
    <2>16. call[p].logged \subseteq R2
      BY <2>14
    <2> QED BY <1>2, <2>13, <2>15, <2>16
  <1> QED BY <1>3, <1>4 DEF OpFits

\* balloc(), bmap(), itrunc() and bfree(), for any disk, files and processes: at
\* every moment the bitmap marks the blocks before the data and those that
\* exactly one place of one inode names, and no others.
THEOREM BlocksSafe ==
    ASSUME ImageSound PROVE Spec => []BlocksExact
  <1>1. DInv => BlocksExact
    BY InvBlocks
  <1> QED BY <1>1, DataInvariant, PTL

\* iupdate() and writei(): an inode that nobody has locked is the same in the
\* cache and on disk, and has a block for every byte below its size and none
\* beyond.
THEOREM SettledSafe ==
    ASSUME ImageSound PROVE Spec => []Settled
  <1>1. DInv => Settled
    BY InvSettled
  <1> QED BY <1>1, DataInvariant, PTL

\* filewrite(): cut into chunks of max bytes, no operation gives the log more
\* blocks than begin_op() has reserved for it.
THEOREM OpFitsSafe ==
    ASSUME ImageSound PROVE Spec => []OpFits
  <1>1. DInv => OpFits
    BY InvOpFits
  <1> QED BY <1>1, DataInvariant, PTL

-----------------------------------------------------------------------------
\* The kernel panics only when the disk has no free block or no free inode.
PanicFull == panicked' /\ ~panicked => Block \subseteq bitmap \/ FreeInodes = {}

\* A panic in a step says which resource has run out.
LEMMA PanicCause ==
    ASSUME DInv, NEW p \in Proc, Enter(p) \/ Inside(p), panicked', ~panicked
    PROVE  Block \subseteq bitmap \/ FreeInodes = {}
  <1>0. CtlInv /\ CtlTypeOK /\ DskTypeOK /\ OwnInv
    BY DEF DInv, CtlInv
  <1>1. BallocFor(p) \/ CreateEnd(p) \/ Trunc(p)
    BY DEF Enter, Inside, Descriptors, Bytes, Open, Dup, Close, fileclose, Fork, Exit, Read, Write,
           Create, EnterLoop, Unlink, InWrite, WriteLock, WriteFails, WriteEnd, InLoop, Copy,
           ReadEnd, Return, InPut, Put, TruncDone, Drop, ExitClose
  <1>2. CASE CreateEnd(p)
    BY <1>2 DEF CreateEnd
  <1>3. CASE Trunc(p)
    <2>1. PICK i : i = call[p].ip
      OBVIOUS
    <2>2. PICK k0 : Lost(p, i, k0)
      BY <1>0, <1>3, <2>1, TruncLoses
    <2>3. k0 \in Slot /\ Own[<<i, k0>>] # NULL /\ bfree(p, Own[<<i, k0>>])
      BY <2>2 DEF Lost
    <2>4. <<i, k0>> \in Spot
      BY <1>0, <2>1, <2>3 DEF Spot, CtlTypeOK, Call
    <2>5. Own[<<i, k0>>] \in bitmap
      BY <1>0, <2>3, <2>4, OwnIn
    <2> QED BY <2>3, <2>5 DEF bfree
  <1>4. CASE BallocFor(p)
    <2>1. /\ Looping(p) /\ bmap(call[p].ip, Bn(p)) = NULL
          /\ Block \subseteq bitmap \/ ~\E q \in Proc : InOp(q)
      BY <1>4 DEF BallocFor
    <2>2. call[p].at = "loop" /\ call[p].op = "write"
      BY <2>1, LoopBlock DEF Looping, At
    <2>3. InOp(p)
      BY <2>2 DEF InOp
    <2> QED BY <2>1, <2>3
  <1> QED BY <1>1, <1>2, <1>3, <1>4

\* balloc(), ialloc() and bfree(): the only panics are those of a full disk.  No
\* block is freed twice, and readi(), outside an operation, never allocates.
THEOREM PanicOnlyFull ==
    ASSUME ImageSound PROVE Spec => [][PanicFull]_vars
  <1>1. DInv /\ [Next]_vars => [PanicFull]_vars
    BY PanicCause DEF Next, PanicFull
  <1> QED BY <1>1, DataInvariant, PTL DEF Spec
=============================================================================
