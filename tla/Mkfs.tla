-------------------------------- MODULE Mkfs --------------------------------
(***************************************************************************)
(* The disk image that mkfs.c builds: the layout of the disk, the root     *)
(* directory with an entry per file, the files, and the bitmap.  A         *)
(* directory entry and a block number take one unit of a block each.       *)
(***************************************************************************)
EXTENDS Naturals, Sequences, SequencesExt

CONSTANTS FSSIZE,    \* blocks of the disk
          BSIZE,     \* units of a block
          IPB,       \* inodes of a block
          NINODES,   \* the inode numbers are below it
          nlog,      \* blocks of the log
          NDIRECT    \* direct block numbers of an inode

NINDIRECT == BSIZE
MAXFILE   == NDIRECT + NINDIRECT
Inode     == 1..(NINODES - 1)
Block     == 0..(FSSIZE - 1)
Unit      == 0..(BSIZE - 1)
NULL      == 0       \* no block: the boot block is never part of a file

\* [ boot block | sb block | log | inode blocks | free bit map | data blocks ],
\* with a bitmap of one block, as balloc() of mkfs.c asserts.
ninodeblocks == NINODES \div IPB + 1
nmeta        == 2 + nlog + ninodeblocks + 1
IBLOCK(i)    == 2 + nlog + i \div IPB
BBLOCK       == 2 + nlog + ninodeblocks

ASSUME MkfsAssumption ==
    /\ BSIZE \in Nat \ {0} /\ IPB \in Nat \ {0} /\ NINODES \in Nat
    /\ NDIRECT \in Nat /\ nlog \in Nat
    /\ FSSIZE \in Nat /\ FSSIZE > nmeta

Zeroes == [u \in Unit |-> 0]
FreeInode == [type |-> "free", nlink |-> 0, size |-> 0,
              addrs |-> [k \in 0..NDIRECT |-> NULL]]

\* The image before the first file: zeroes everywhere.
Blank == [ino |-> [i \in Inode |-> FreeInode], blk |-> [b \in Block |-> Zeroes],
          freeblock |-> nmeta]

\* The number of block n of inode i in the image im, NULL if there is none.
Bmap(im, i, n) ==
    LET a == im.ino[i].addrs IN
    IF n < NDIRECT THEN a[n]
    ELSE IF a[NDIRECT] = NULL THEN NULL ELSE im.blk[a[NDIRECT]][n - NDIRECT]

\* Block n of inode i becomes the next free block; an indirect block is
\* allocated before it when there is none.
Extend(im, i, n) ==
    LET f == im.freeblock
        t == im.ino[i].addrs[NDIRECT]
    IN
    IF n < NDIRECT
    THEN [im EXCEPT !.ino[i].addrs[n] = f, !.freeblock = f + 1]
    ELSE IF t = NULL
    THEN [im EXCEPT !.ino[i].addrs[NDIRECT] = f, !.blk[f][n - NDIRECT] = f + 1,
                    !.freeblock = f + 2]
    ELSE [im EXCEPT !.blk[t][n - NDIRECT] = f, !.freeblock = f + 1]

\* iappend() of one unit to inode i.
iappend(im, i, v) ==
    LET off == im.ino[i].size
        n   == off \div BSIZE
        e   == IF Bmap(im, i, n) = NULL THEN Extend(im, i, n) ELSE im
    IN  [e EXCEPT !.blk[Bmap(e, i, n)][off % BSIZE] = v, !.ino[i].size = off + 1]

AppendAll(im, i, s) == FoldLeft(LAMBDA x, v : iappend(x, i, v), im, s)

ialloc(im, i, type) == [im EXCEPT !.ino[i].type = type, !.ino[i].nlink = 1]

ROOTINO == 1

\* The root directory, "." and "..", an entry and an inode for every file, and
\* at last the size of the root, rounded up beyond the last entry.
Root == AppendAll(ialloc(Blank, ROOTINO, "dir"), ROOTINO, <<ROOTINO, ROOTINO>>)

AddFile(im, i, s) ==
    AppendAll(iappend(ialloc(im, i, "file"), ROOTINO, i), i, s)

Image(files) ==
    LET im == FoldLeftDomain(LAMBDA x, k : AddFile(x, k + 1, files[k]), Root, files)
    IN  [im EXCEPT !.ino[ROOTINO].size = (@ \div BSIZE + 1) * BSIZE]

\* balloc(freeblock): the bitmap marks the blocks below the first free one.
Bitmap(im) == {b \in Block : b < im.freeblock}
=============================================================================
