------------------------------ MODULE FileData ------------------------------
(***************************************************************************)
(* The contents of files: allocation of blocks, bmap(), itrunc(), readi()  *)
(* and writei() of fs.c, the table of open files of file.c and the system  *)
(* calls on descriptors of sysfile.c, on the disk that mkfs has made.      *)
(*                                                                         *)
(* readi() and writei() are the same loop: a balloc(), one step each, for  *)
(* every block that bmap() misses, and a step for every piece copied.  The *)
(* names are those of one directory, and finding, entering and striking    *)
(* one off are single steps: module FileTree is about them.  A process     *)
(* writes bytes that bear its name.                                        *)
(***************************************************************************)
EXTENDS Mkfs, FiniteSets, FiniteSetsExt

CONSTANTS Proc, NoProc,
          InitProc,      \* runs from the start and never exits
          NFILE, NOFILE, \* open files of the system and of a process
          MAXOPBLOCKS,   \* blocks that one operation may write to the log
          NFILES, Text,  \* files that mkfs puts on the disk, and their byte
          ReadArg,       \* argument of read()
          WriteArgs,     \* arguments of write()
          NCALLS         \* bound: system calls of a behaviour

File == 1..NFILE
Fd   == 0..(NOFILE - 1)
None == 0

Disk == Image([k \in 1..NFILES |-> <<Text>>])

\* The root directory has room for the name of every inode, so that it does not
\* grow.
ASSUME FileDataAssumption ==
    /\ IsFiniteSet(Proc) /\ InitProc \in Proc /\ NoProc \notin Proc
    /\ NFILE \in Nat /\ NOFILE \in Nat /\ NFILES \in Nat
    /\ ReadArg \in Nat /\ WriteArgs \subseteq Nat \ {0}
    /\ MAXOPBLOCKS \in Nat /\ MAXOPBLOCKS >= 6
    /\ NFILES + 1 < NINODES /\ NINODES <= Disk.ino[ROOTINO].size

VARIABLES
    bitmap,     \* the blocks marked in use
    blk,        \* contents of each block
    dinode,     \* inodes on disk
    inode,      \* in-memory copies, of no meaning if ref is 0
    ref, lock,  \* per inode: ip->ref and the holder of ip->lock
    ftable,     \* per open file: ref, ip and off
    ofile,      \* per process: its descriptors
    pstate,     \* per process: "unused", "run" or "exit"
    call,       \* per process: the system call that it is in
    panicked,
    ncalls      \* system calls so far

vars == <<bitmap, blk, dinode, inode, ref, lock, ftable, ofile, pstate, call, panicked,
          ncalls>>

(***************************************************************************)
(* A system call: "lock": filewrite() is about to lock the inode; "loop":  *)
(* in readi(), writei() or the scan of a directory, tot of n bytes done;   *)
(* "return": a read has returned; "put", "trunc", "drop": in iput().  left *)
(* is what filewrite() has still to do, j the next entry of the indirect   *)
(* block in itrunc(), out what has been read, logged the blocks given to   *)
(* log_write() in this operation (history; OpFits adds the block of inode  *)
(* ip, which the last step of an operation logs; what creating a file has  *)
(* logged stays until the next call), before the contents of the file when *)
(* writei() began (history).                                               *)
(***************************************************************************)
Idle == [at |-> "user", op |-> "none", f |-> None, ip |-> ROOTINO, n |-> 0,
         tot |-> 0, left |-> 0, j |-> 0, out |-> <<>>, logged |-> {}, before |-> <<>>]

\* A call that has ended, one that ends in iput(i): blocks l are logged.
EndCall(l)    == [Idle EXCEPT !.logged = l]
PutCall(i, l) == [Idle EXCEPT !.at = "put", !.ip = i, !.logged = l]

Init ==
    /\ bitmap = Bitmap(Disk) /\ blk = Disk.blk /\ dinode = Disk.ino
    /\ inode = dinode
    /\ ref = [i \in Inode |-> IF i = ROOTINO THEN 1 ELSE 0]
    /\ lock = [i \in Inode |-> NoProc]
    /\ ftable = [f \in File |-> [ref |-> 0, ip |-> None, off |-> 0]]
    /\ ofile = [p \in Proc |-> [d \in Fd |-> None]]
    /\ pstate = [p \in Proc |-> IF p = InitProc THEN "run" ELSE "unused"]
    /\ call = [p \in Proc |-> Idle]
    /\ panicked = FALSE /\ ncalls = 0

\* ilock() reads the inode from disk unless it is in the cache.
Loaded(i) == IF ref[i] = 0 THEN dinode[i] ELSE inode[i]

\* bmap() without allocation, and the bytes of a file.
bmap(i, n) == Bmap([ino |-> [inode EXCEPT ![i] = Loaded(i)], blk |-> blk], i, n)
Content(i) == [k \in 1..Loaded(i).size |->
                  blk[bmap(i, (k - 1) \div BSIZE)][(k - 1) % BSIZE]]

\* The files of the directory.
Named == {i \in Inode : i \in Range(SubSeq(Content(ROOTINO), 3, Loaded(ROOTINO).size))}

User(p) == pstate[p] = "run" /\ call[p].at = "user" /\ ~panicked
CanLock(i) == lock[i] = NoProc
At(p, l) == call[p].at = l /\ ~panicked
Panic == panicked' = TRUE

-----------------------------------------------------------------------------
(* Descriptors and open files.                                             *)

FreeFiles  == {f \in File : ftable[f].ref = 0}
FreeFds(p) == {d \in Fd : ofile[p][d] = None}
argfd(p, d) == ofile[p][d] # None

\* filealloc() and fdalloc() for inode i, or iunlockput(); either way the
\* caller has got a reference to i.  The operation has logged blocks l.
OpenFile(p, i, l) ==
    /\ ref' = [ref EXCEPT ![i] = @ + 1]
    /\ IF FreeFiles = {} \/ FreeFds(p) = {}
       THEN /\ call' = [call EXCEPT ![p] = PutCall(i, l)]
            /\ UNCHANGED <<ftable, ofile>>
       ELSE /\ ftable' = [ftable EXCEPT ![Min(FreeFiles)] = [ref |-> 1, ip |-> i, off |-> 0]]
            /\ ofile' = [ofile EXCEPT ![p][Min(FreeFds(p))] = Min(FreeFiles)]
            /\ call' = [call EXCEPT ![p] = EndCall(l)]

\* open() of a file that exists, to read and write, or of the directory, to read.
Open(p, i) ==
    /\ User(p) /\ i \in Named \cup {ROOTINO} /\ CanLock(i)
    /\ inode' = [inode EXCEPT ![i] = Loaded(i)]
    /\ OpenFile(p, i, {})
    /\ UNCHANGED <<bitmap, blk, dinode, lock, pstate, panicked>>

Dup(p, d) ==
    /\ User(p) /\ argfd(p, d) /\ FreeFds(p) # {}
    /\ ofile' = [ofile EXCEPT ![p][Min(FreeFds(p))] = ofile[p][d]]
    /\ ftable' = [ftable EXCEPT ![ofile[p][d]].ref = @ + 1]
    /\ UNCHANGED <<bitmap, blk, dinode, inode, ref, lock, pstate, call, panicked>>

\* fork(): the child gets the descriptors of its parent.
Fork(p, c) ==
    /\ User(p) /\ pstate[c] = "unused"
    /\ pstate' = [pstate EXCEPT ![c] = "run"]
    /\ ofile' = [ofile EXCEPT ![c] = ofile[p]]
    /\ ftable' = [f \in File |->
          [ftable[f] EXCEPT !.ref = @ + Cardinality({d \in Fd : ofile[p][d] = f})]]
    /\ UNCHANGED <<bitmap, blk, dinode, inode, ref, lock, call, panicked>>

\* fileclose(): the last close gives up the inode.
fileclose(p, d) ==
    LET f == ofile[p][d] IN
    /\ ofile' = [ofile EXCEPT ![p][d] = None]
    /\ ftable' = [ftable EXCEPT ![f].ref = @ - 1]
    /\ call' = IF ftable[f].ref > 1 THEN call
               ELSE [call EXCEPT ![p] = PutCall(ftable[f].ip, {})]
    /\ UNCHANGED <<bitmap, blk, dinode, inode, ref, lock, panicked>>

Close(p, d) == User(p) /\ argfd(p, d) /\ fileclose(p, d) /\ UNCHANGED pstate

\* exit() closes one descriptor after the other.
Exit(p) ==
    /\ User(p) /\ p # InitProc
    /\ pstate' = [pstate EXCEPT ![p] = "exit"]
    /\ UNCHANGED <<bitmap, blk, dinode, inode, ref, lock, ftable, ofile, call, panicked>>

ExitClose(p) ==
    /\ pstate[p] = "exit" /\ At(p, "user")
    /\ IF \E d \in Fd : argfd(p, d)
       THEN fileclose(p, Min({d \in Fd : argfd(p, d)})) /\ UNCHANGED pstate
       ELSE /\ pstate' = [pstate EXCEPT ![p] = "unused"]
            /\ UNCHANGED <<bitmap, blk, dinode, inode, ref, lock, ftable, ofile, call, panicked>>

-----------------------------------------------------------------------------
(* readi() and writei().                                                   *)

\* Mutant: no limit.
maxUnlimited == MAXFILE * BSIZE

max == ((MAXOPBLOCKS - 1 - 1 - 2) \div 2) * BSIZE

EnterLoop(p, c) ==
    /\ lock' = [lock EXCEPT ![c.ip] = p]
    /\ call' = [call EXCEPT ![p] = [c EXCEPT !.at = "loop"]]
    /\ UNCHANGED <<bitmap, blk, dinode, inode, ref, ftable, ofile, pstate, panicked>>

\* fileread(): locks the inode; readi() reads what there is, at most.
Read(p, d) ==
    LET f == ofile[p][d]
        i == ftable[f].ip
        rest == inode[i].size - ftable[f].off
    IN
    /\ User(p) /\ argfd(p, d) /\ CanLock(i) /\ rest >= 0
    /\ EnterLoop(p, [Idle EXCEPT !.op = "read", !.f = f, !.ip = i, !.n = Min({ReadArg, rest})])

\* filewrite() begins, and takes the inode for one chunk after the other.
Write(p, d, n) ==
    LET f == ofile[p][d] IN
    /\ User(p) /\ argfd(p, d) /\ inode[ftable[f].ip].type = "file"
    /\ call' = [call EXCEPT ![p] = [Idle EXCEPT !.at = "lock", !.op = "write", !.f = f,
                                                !.ip = ftable[f].ip, !.left = n]]
    /\ UNCHANGED <<bitmap, blk, dinode, inode, ref, lock, ftable, ofile, pstate, panicked>>

WriteFits(p, n) ==
    LET c == call[p] IN
    /\ ftable[c.f].off <= inode[c.ip].size
    /\ ftable[c.f].off + n <= MAXFILE * BSIZE

Chunk(p) == Min({call[p].left, max})

WriteLock(p) ==
    /\ At(p, "lock") /\ CanLock(call[p].ip)
    /\ WriteFits(p, Chunk(p))
    /\ EnterLoop(p, [call[p] EXCEPT !.n = Chunk(p), !.tot = 0, !.logged = {},
                                    !.before = Content(call[p].ip)])

\* writei() returns -1 and filewrite() gives up, whatever it has written so far.
WriteFails(p) ==
    /\ At(p, "lock") /\ CanLock(call[p].ip)
    /\ ~WriteFits(p, Chunk(p))
    /\ call' = [call EXCEPT ![p] = Idle]
    /\ UNCHANGED <<bitmap, blk, dinode, inode, ref, lock, ftable, ofile, pstate, panicked>>

\* open() with O_CREATE: create() scans the directory for the name.
Create(p) ==
    /\ User(p) /\ CanLock(ROOTINO)
    /\ EnterLoop(p, [Idle EXCEPT !.op = "create", !.n = inode[ROOTINO].size])

Looping(p) == At(p, "loop") /\ call[p].tot < call[p].n

\* Where the loop is: byte, block of the file, bytes to do in this block.
Off(p) == call[p].tot + (IF call[p].op = "create" THEN 0 ELSE ftable[call[p].f].off)
Bn(p)  == Off(p) \div BSIZE
Piece(p) == Min({call[p].n - call[p].tot, BSIZE - (Off(p) % BSIZE)})

\* begin_op() has been called and end_op() has not.
InOp(p) == \/ call[p].at \in {"put", "trunc", "drop"}
           \/ call[p].at = "loop" /\ call[p].op # "read"

\* bmap() allocates a block: the indirect block first if that is missing.
\* balloc() panics if there is no block, log_write() outside an operation.
BallocFor(p) ==
    LET i == call[p].ip
        new == Min(Block \ bitmap)
        ind == inode[i].addrs[NDIRECT]
    IN
    /\ Looping(p) /\ bmap(i, Bn(p)) = NULL
    /\ IF Block \subseteq bitmap \/ ~\E q \in Proc : InOp(q)
       THEN Panic /\ UNCHANGED <<bitmap, blk, inode, call>>
       ELSE /\ bitmap' = bitmap \cup {new}
            /\ IF Bn(p) < NDIRECT \/ ind = NULL
               THEN /\ inode' = [inode EXCEPT ![i].addrs[Min({Bn(p), NDIRECT})] = new]
                    /\ blk' = [blk EXCEPT ![new] = Zeroes]
                    /\ call' = [call EXCEPT ![p].logged = @ \cup {BBLOCK, new}]
               ELSE /\ blk' = [blk EXCEPT ![new] = Zeroes, ![ind][Bn(p) - NDIRECT] = new]
                    /\ call' = [call EXCEPT ![p].logged = @ \cup {BBLOCK, new, ind}]
                    /\ UNCHANGED inode
            /\ UNCHANGED panicked
    /\ UNCHANGED <<dinode, ref, lock, ftable, ofile, pstate>>

\* One piece is copied, to or from the block.
Copy(p) ==
    LET b  == bmap(call[p].ip, Bn(p))
        o  == Off(p) % BSIZE
        m  == Piece(p)
    IN
    /\ Looping(p) /\ b # NULL
    /\ \/ /\ call[p].op = "write"
          /\ blk' = [blk EXCEPT ![b] = [u \in Unit |-> IF u >= o /\ u < o + m THEN p ELSE @[u]]]
          /\ call' = [call EXCEPT ![p].tot = @ + m, ![p].logged = @ \cup {b}]
       \/ /\ call[p].op = "read"
          /\ call' = [call EXCEPT ![p].tot = @ + m,
                                  ![p].out = @ \o [k \in 1..m |-> blk[b][o + k - 1]]]
          /\ UNCHANGED blk
       \/ /\ call[p].op = "create"
          /\ call' = [call EXCEPT ![p].tot = @ + m]
          /\ UNCHANGED blk
    /\ UNCHANGED <<bitmap, dinode, inode, ref, lock, ftable, ofile, pstate, panicked>>

LoopDone(p, op) == At(p, "loop") /\ call[p].op = op /\ call[p].tot = call[p].n

\* Mutant: the offset moves by what was asked for, not by what was read.
ReadEndAsked(p) ==
    /\ LoopDone(p, "read")
    /\ ftable' = [ftable EXCEPT ![call[p].f].off = @ + ReadArg]
    /\ lock' = [lock EXCEPT ![call[p].ip] = NoProc]
    /\ call' = [call EXCEPT ![p] = [Idle EXCEPT !.at = "return", !.out = call[p].out]]
    /\ UNCHANGED <<bitmap, blk, dinode, inode, ref, ofile, pstate, panicked>>

\* fileread() moves the offset and unlocks.
ReadEnd(p) ==
    /\ LoopDone(p, "read")
    /\ ftable' = [ftable EXCEPT ![call[p].f].off = @ + call[p].n]
    /\ lock' = [lock EXCEPT ![call[p].ip] = NoProc]
    /\ call' = [call EXCEPT ![p] = [Idle EXCEPT !.at = "return", !.out = call[p].out]]
    /\ UNCHANGED <<bitmap, blk, dinode, inode, ref, ofile, pstate, panicked>>

Return(p) ==
    /\ At(p, "return")
    /\ call' = [call EXCEPT ![p] = Idle]
    /\ UNCHANGED <<bitmap, blk, dinode, inode, ref, lock, ftable, ofile, pstate, panicked>>

\* Mutant: the size grows in memory only.
GrowInMemory(i, end) ==
    /\ inode' = [inode EXCEPT ![i].size = IF end > @ THEN end ELSE @]
    /\ UNCHANGED dinode

\* The end of writei(): the size, and iupdate(), if the file has grown.
Grow(i, end) ==
    IF end > inode[i].size
    THEN /\ inode' = [inode EXCEPT ![i].size = end]
         /\ dinode' = [dinode EXCEPT ![i] = inode'[i]]
    ELSE UNCHANGED <<inode, dinode>>

\* filewrite() moves the offset, unlocks and goes on with the next chunk.
WriteEnd(p) ==
    LET c == call[p] IN
    /\ LoopDone(p, "write")
    /\ Grow(c.ip, Off(p))
    /\ ftable' = [ftable EXCEPT ![c.f].off = @ + c.n]
    /\ lock' = [lock EXCEPT ![c.ip] = NoProc]
    /\ call' = [call EXCEPT ![p] = IF c.left = c.n THEN Idle
                   ELSE [Idle EXCEPT !.at = "lock", !.op = "write", !.f = c.f, !.ip = c.ip,
                                     !.left = c.left - c.n]]
    /\ UNCHANGED <<bitmap, blk, ref, ofile, pstate, panicked>>

FreeInodes == {i \in Inode : dinode[i].type = "free"}
Place == Min({k \in 1..inode[ROOTINO].size : Content(ROOTINO)[k] = 0})

\* create() has not found the name: ialloc(), dirlink(), and the rest of open().
CreateEnd(p) ==
    LET i == Min(FreeInodes)
        new == [FreeInode EXCEPT !.type = "file", !.nlink = 1]
        b == bmap(ROOTINO, (Place - 1) \div BSIZE)
    IN
    /\ LoopDone(p, "create")
    /\ lock' = [lock EXCEPT ![ROOTINO] = NoProc]
    /\ IF FreeInodes = {}
       THEN Panic /\ UNCHANGED <<blk, dinode, inode, ref, ftable, ofile, call>>
       ELSE /\ dinode' = [dinode EXCEPT ![i] = new]
            /\ inode' = [inode EXCEPT ![i] = new]
            /\ blk' = [blk EXCEPT ![b][(Place - 1) % BSIZE] = i]
            /\ OpenFile(p, i, {IBLOCK(i), b})
            /\ UNCHANGED panicked
    /\ UNCHANGED <<bitmap, pstate>>

-----------------------------------------------------------------------------
(* unlink() and iput().                                                    *)

Unlink(p, i) ==
    LET k == CHOOSE k \in 3..inode[ROOTINO].size : Content(ROOTINO)[k] = i
        new == [Loaded(i) EXCEPT !.nlink = @ - 1]
        b == bmap(ROOTINO, (k - 1) \div BSIZE)
    IN
    /\ User(p) /\ i \in Named /\ CanLock(ROOTINO) /\ CanLock(i)
    /\ blk' = [blk EXCEPT ![b][(k - 1) % BSIZE] = 0]
    /\ inode' = [inode EXCEPT ![i] = new]
    /\ dinode' = [dinode EXCEPT ![i] = new]
    /\ ref' = [ref EXCEPT ![i] = @ + 1]
    /\ call' = [call EXCEPT ![p] = PutCall(i, {b, IBLOCK(i)})]
    /\ UNCHANGED <<bitmap, lock, ftable, ofile, pstate, panicked>>

\* iput() locks the inode and frees it if this is the last reference.
Put(p) ==
    LET i == call[p].ip
        last == inode[i].nlink = 0 /\ ref[i] = 1
    IN
    /\ At(p, "put") /\ CanLock(i)
    /\ lock' = IF last THEN [lock EXCEPT ![i] = p] ELSE lock
    /\ call' = [call EXCEPT ![p].at = IF last THEN "trunc" ELSE "drop"]
    /\ UNCHANGED <<bitmap, blk, dinode, inode, ref, ftable, ofile, pstate, panicked>>

\* bfree()
bfree(p, b) ==
    IF b \in bitmap
    THEN /\ bitmap' = bitmap \ {b}
         /\ UNCHANGED panicked
    ELSE Panic /\ UNCHANGED bitmap

\* Mutant: the indirect block goes without the blocks that it lists.
EntriesIgnored(p) == {}

Direct(i) == {k \in 0..(NDIRECT - 1) : inode[i].addrs[k] # NULL}
Entries(p) == {k \in call[p].j..(NINDIRECT - 1) :
                  blk[inode[call[p].ip].addrs[NDIRECT]][k] # NULL}

\* itrunc() frees the direct blocks, those that the indirect block lists, which
\* it does not change, and the indirect block.
Trunc(p) ==
    LET i == call[p].ip
        a == inode[i].addrs
    IN
    /\ At(p, "trunc")
    /\ \/ /\ Direct(i) # {}
          /\ bfree(p, a[Min(Direct(i))])
          /\ inode' = [inode EXCEPT ![i].addrs[Min(Direct(i))] = NULL]
          /\ call' = [call EXCEPT ![p].logged = @ \cup {BBLOCK}]
       \/ /\ Direct(i) = {} /\ a[NDIRECT] # NULL /\ Entries(p) # {}
          /\ bfree(p, blk[a[NDIRECT]][Min(Entries(p))])
          /\ call' = [call EXCEPT ![p].j = Min(Entries(p)) + 1]
          /\ UNCHANGED inode
       \/ /\ Direct(i) = {} /\ a[NDIRECT] # NULL /\ Entries(p) = {}
          /\ bfree(p, a[NDIRECT])
          /\ inode' = [inode EXCEPT ![i].addrs[NDIRECT] = NULL]
          /\ UNCHANGED call
    /\ UNCHANGED <<blk, dinode, ref, lock, ftable, ofile, pstate>>

\* The inode is free on disk, then unlocked.
TruncDone(p) ==
    LET i == call[p].ip IN
    /\ At(p, "trunc") /\ \A k \in 0..NDIRECT : inode[i].addrs[k] = NULL
    /\ inode' = [inode EXCEPT ![i].size = 0, ![i].type = "free"]
    /\ dinode' = [dinode EXCEPT ![i] = inode'[i]]
    /\ lock' = [lock EXCEPT ![i] = NoProc]
    /\ call' = [call EXCEPT ![p].at = "drop"]
    /\ UNCHANGED <<bitmap, blk, ref, ftable, ofile, pstate, panicked>>

Drop(p) ==
    /\ At(p, "drop")
    /\ ref' = [ref EXCEPT ![call[p].ip] = @ - 1]
    /\ call' = [call EXCEPT ![p] = Idle]
    /\ UNCHANGED <<bitmap, blk, dinode, inode, lock, ftable, ofile, pstate, panicked>>

-----------------------------------------------------------------------------
\* A process enters a system call.
Descriptors(p) ==
    \/ \E i \in Inode : Open(p, i)
    \/ \E d \in Fd : Dup(p, d) \/ Close(p, d)
    \/ \E c \in Proc : Fork(p, c)
    \/ Exit(p)

Bytes(p) ==
    \/ \E d \in Fd : Read(p, d) \/ \E n \in WriteArgs : Write(p, d, n)
    \/ Create(p)
    \/ \E i \in Inode : Unlink(p, i)

Enter(p) == /\ ncalls < NCALLS /\ ncalls' = ncalls + 1
            /\ Descriptors(p) \/ Bytes(p)

\* A process is in one.
InWrite(p) == WriteLock(p) \/ WriteFails(p) \/ WriteEnd(p)

InLoop(p) == BallocFor(p) \/ Copy(p) \/ ReadEnd(p) \/ Return(p) \/ CreateEnd(p)

InPut(p) == Put(p) \/ Trunc(p) \/ TruncDone(p) \/ Drop(p) \/ ExitClose(p)

Inside(p) == /\ InWrite(p) \/ InLoop(p) \/ InPut(p)
             /\ UNCHANGED ncalls

Next == \E p \in Proc : Enter(p) \/ Inside(p)

Spec == Init /\ [][Next]_vars

-----------------------------------------------------------------------------
(* Properties.                                                             *)

\* The blocks that belong to inode i, once for every place that names them;
\* itrunc() has given back those that it has passed in the indirect block.
Freed(i) == IF lock[i] = NoProc THEN 0 ELSE call[lock[i]].j
Places(i) ==
    LET a == Loaded(i).addrs IN
    {<<i, k>> : k \in {k \in 0..NDIRECT : a[k] # NULL}}
      \cup IF a[NDIRECT] = NULL THEN {}
           ELSE {<<i, NDIRECT + 1 + k>> :
                    k \in {k \in Freed(i)..(NINDIRECT - 1) : blk[a[NDIRECT]][k] # NULL}}
BlockAt(w) ==
    LET a == Loaded(w[1]).addrs IN
    IF w[2] <= NDIRECT THEN a[w[2]] ELSE blk[a[NDIRECT]][w[2] - NDIRECT - 1]

\* balloc(), bmap() and itrunc(): at every moment a block is marked in the
\* bitmap if and only if it is one of the blocks before the data or has exactly
\* one place in one inode; none is shared, none leaks, none is freed twice.
BlocksExact ==
    LET places == UNION {Places(i) : i \in Inode}
        owned == {BlockAt(w) : w \in places}
    IN
    /\ Cardinality(owned) = Cardinality(places)
    /\ bitmap = (0..(nmeta - 1)) \cup owned
    /\ owned \cap (0..(nmeta - 1)) = {}

\* "Must be called after every change to an ip->xxx field that lives on disk,
\* since i-node cache is write-through" (iupdate() in fs.c): an inode that is
\* not locked is the same in the cache and on disk.
WriteThrough == \A i \in Inode : lock[i] = NoProc => Loaded(i) = dinode[i]

\* A file that is not locked has a block for every byte below its size, so that
\* readi(), which runs outside an operation of the log, never allocates one;
\* and none beyond, which would be lost when the file is cut off later.
NoHoles ==
    \A i \in Inode : lock[i] = NoProc =>
       \A n \in 0..(MAXFILE - 1) : bmap(i, n) # NULL <=> n * BSIZE < Loaded(i).size

Settled == WriteThrough /\ NoHoles

\* The comment in filewrite(): "write a few blocks at a time to avoid exceeding
\* the maximum log transaction size".  Neither a chunk of a write, nor a
\* create(), nor an unlink() or a last close with the itrunc() in it gives more
\* blocks to log_write() than begin_op() has reserved for the operation.
OpFits == \A p \in Proc :
    Cardinality(call[p].logged
        \cup (IF InOp(p) THEN {IBLOCK(call[p].ip)} ELSE {})) <= MAXOPBLOCKS

\* The bytes of a file as programs see them: a chunk of a write shows when the
\* inode is unlocked, and itrunc() hides them at once.
Seen(i) ==
    LET p == lock[i] IN
    IF p = NoProc THEN Content(i)
    ELSE CASE call[p].at = "trunc" -> <<>>
           [] call[p].op = "write" -> call[p].before
           [] OTHER -> Content(i)

B == INSTANCE ByteFiles WITH
    Root <- ROOTINO, MaxPiece <- max,
    content <- [i \in Inode |-> Seen(i)],
    file <- [f \in File |-> IF ftable[f].ref = 0 THEN [ip |-> None, off |-> 0]
                            ELSE [ip |-> ftable[f].ip, off |-> ftable[f].off]],
    out <- [p \in Proc |-> IF call[p].at = "return" THEN call[p].out ELSE <<>>]

\* Files are byte sequences: every chunk of a write and every read happens at
\* one moment at the offset of the open file, which processes share across
\* fork() and dup(), and the bytes of an open file stay when its name goes.
IsByteFiles == B!Spec
=============================================================================
