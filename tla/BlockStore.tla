---------------------------- MODULE BlockStore ----------------------------
(***************************************************************************)
(* What the buffer cache promises to the file system: every block has one  *)
(* value and one lock, and only the process that holds the lock of a block *)
(* changes its value.                                                      *)
(***************************************************************************)
CONSTANTS Thread, Block, Val, NoThread

VARIABLES value, owner

bvars == <<value, owner>>

BInit == value \in [Block -> Val] /\ owner = [n \in Block |-> NoThread]

Lock(t, n) ==
    /\ owner[n] = NoThread
    /\ owner' = [owner EXCEPT ![n] = t]
    /\ UNCHANGED value

Update(t, n, v) ==
    /\ owner[n] = t
    /\ value' = [value EXCEPT ![n] = v]
    /\ UNCHANGED owner

Unlock(t, n) ==
    /\ owner[n] = t
    /\ owner' = [owner EXCEPT ![n] = NoThread]
    /\ UNCHANGED value

BNext ==
    \E t \in Thread, n \in Block :
       Lock(t, n) \/ Unlock(t, n) \/ \E v \in Val : Update(t, n, v)

BSpec == BInit /\ [][BNext]_bvars
=============================================================================
