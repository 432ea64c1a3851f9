----------------------------- MODULE SoundImage -----------------------------
(***************************************************************************)
(* What a disk image must be for the file system to start from: every      *)
(* block in use has one place, every file has the blocks below its size,   *)
(* and the names and the link counts agree.  Image() of Mkfs builds such   *)
(* an image unless the entries of the root fill its blocks exactly.        *)
(***************************************************************************)
EXTENDS FileData

(* The places where an inode names blocks: k <= NDIRECT is addrs[k], the   *)
(* others are the entries of the indirect block, those below j left out.   *)

Slot == 0..(NDIRECT + NINDIRECT)
Spot == Inode \X Slot

SlotAt(a, bs, j, k) ==
    IF k <= NDIRECT THEN a[k]
    ELSE IF a[NDIRECT] = NULL \/ k - NDIRECT - 1 < j THEN NULL
    ELSE bs[a[NDIRECT]][k - NDIRECT - 1]

\* The place that names block n of a file.
SlotOf(n) == IF n < NDIRECT THEN n ELSE n + 1

\* O: which block each place names.  Every block in use is before the data or
\* has one place.
OwnedOnce(O, used) ==
    /\ \A w \in Spot : O[w] # NULL => O[w] \in used /\ O[w] >= nmeta
    /\ \A v, w \in Spot : O[v] # NULL /\ O[v] = O[w] => v = w
    /\ \A b \in used : b >= nmeta => \E w \in Spot : O[w] = b
    /\ \A b \in 0..(nmeta - 1) : b \in used

\* A file of that size has the blocks below it and no other.
Covered(O, i, size) ==
    \A n \in 0..(MAXFILE - 1) : O[<<i, SlotOf(n)>>] # NULL <=> n * BSIZE < size

\* e: the entries of the root directory; ino: the inodes.
DirSound(e, ino) ==
    /\ ino[ROOTINO].type = "dir" /\ ino[ROOTINO].nlink = 1
    /\ ino[ROOTINO].size >= NINODES /\ ino[ROOTINO].size >= 2
    /\ e[1] = ROOTINO /\ e[2] = ROOTINO
    /\ \A k \in 3..ino[ROOTINO].size : e[k] \in (Inode \cup {0}) \ {ROOTINO}
    /\ \A k, l \in 3..ino[ROOTINO].size : e[k] = e[l] /\ e[k] # 0 => k = l
    /\ \A i \in Inode \ {ROOTINO} :
         /\ ino[i].type # "dir"
         /\ (\E k \in 3..ino[ROOTINO].size : e[k] = i)
              => ino[i].type = "file" /\ ino[i].nlink = 1
         /\ (\A k \in 3..ino[ROOTINO].size : e[k] # i) => ino[i].nlink = 0

Value == Nat \cup Proc \cup {Text}
Dinode == [type: {"free", "file", "dir"}, nlink: Nat, size: 0..(MAXFILE * BSIZE),
           addrs: [0..NDIRECT -> Block]]

\* The image is a sound file system.
DiskOwn == [w \in Spot |-> SlotAt(Disk.ino[w[1]].addrs, Disk.blk, 0, w[2])]
DiskEntry == [k \in 1..Disk.ino[ROOTINO].size |->
                 Disk.blk[DiskOwn[<<ROOTINO, SlotOf((k - 1) \div BSIZE)>>]][(k - 1) % BSIZE]]
ImageSound ==
    /\ Disk.blk \in [Block -> [Unit -> Value]] /\ Disk.ino \in [Inode -> Dinode]
    /\ OwnedOnce(DiskOwn, Bitmap(Disk))
    /\ \A i \in Inode : Covered(DiskOwn, i, Disk.ino[i].size)
    /\ \A i \in Inode : Disk.ino[i].type = "free" => Disk.ino[i] = FreeInode
    /\ DirSound(DiskEntry, Disk.ino)
=============================================================================
