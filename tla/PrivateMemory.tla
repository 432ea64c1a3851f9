---------------------------- MODULE PrivateMemory ----------------------------
(***************************************************************************)
(* What virtual memory promises to programs: each has pages of its own,    *)
(* new ones are zero, a child starts with a copy of its parent's, a new    *)
(* program with its segment, a guard page and a stack; nothing one program *)
(* does, and no failure, changes the memory of another.                    *)
(***************************************************************************)
EXTENDS Naturals

CONSTANTS Proc, InitProc, VPage

VARIABLE img   \* per process: from its pages to contents and access

Empty == [a \in {} |-> [val |-> 0, u |-> TRUE]]
Fresh == [val |-> 0, u |-> TRUE]

MInit == img = [p \in Proc |-> IF p = InitProc THEN [a \in {0} |-> Fresh] ELSE Empty]

Give(p, f) == img' = [img EXCEPT ![p] = f]

\* A program may write where the PTE_U bit is set.
Write(p) ==
    \E a \in DOMAIN img[p], v \in {0, 1} :
       img[p][a].u /\ Give(p, [img[p] EXCEPT ![a].val = v])

Extend(p) ==
    \E a \in VPage \ DOMAIN img[p] :
       Give(p, [b \in DOMAIN img[p] \cup {a} |-> IF b = a THEN Fresh ELSE img[p][b]])

Release(p) ==
    \E a \in DOMAIN img[p] : Give(p, [b \in DOMAIN img[p] \ {a} |-> img[p][b]])

Fork(p, c) == img[c] = Empty /\ Give(c, img[p])

Exec(p) ==
    \E n \in VPage :
       Give(p, [a \in 0..(n + 1) |-> [val |-> IF a = n THEN 0 ELSE 1, u |-> a # n]])

Reap(p) == Give(p, Empty)

MNext ==
    \E p \in Proc :
       \/ Write(p) \/ Extend(p) \/ Release(p) \/ Exec(p) \/ Reap(p)
       \/ \E c \in Proc : Fork(p, c)

MSpec == MInit /\ [][MNext]_img
=============================================================================
