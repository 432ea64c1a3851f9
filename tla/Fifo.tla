------------------------------- MODULE Fifo -------------------------------
(***************************************************************************)
(* What a pipe promises: bytes come out once, in the order in which they   *)
(* went in, and never more than Cap of them are inside.                    *)
(***************************************************************************)
EXTENDS Naturals, Sequences

CONSTANTS Byte, Cap

VARIABLE q

FInit == q = <<>>

Put(v) == Len(q) < Cap /\ q' = Append(q, v)

Get == q # <<>> /\ q' = Tail(q)

FNext == Get \/ \E v \in Byte : Put(v)

FSpec == FInit /\ [][FNext]_q
=============================================================================
