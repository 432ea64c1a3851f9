---------------------------- MODULE AtomicDisk ----------------------------
(***************************************************************************)
(* What the log promises to the system calls of the file system: a crash   *)
(* loses whole operations only.  The durable contents of the disk change   *)
(* in one step, at a moment at which no operation is open, to what the     *)
(* operations that have ended wrote; a crash brings them back.             *)
(***************************************************************************)
CONSTANTS Thread, Block, Val

VARIABLES mem,    \* the contents that the running system sees
          dur,    \* the contents that survive a crash
          open    \* the threads between begin_op() and end_op()

avars == <<mem, dur, open>>

AInit == mem = dur /\ dur \in [Block -> Val] /\ open = {}

Begin(t) == t \notin open /\ open' = open \cup {t} /\ UNCHANGED <<mem, dur>>

Write(t, b, v) ==
    /\ t \in open
    /\ mem' = [mem EXCEPT ![b] = v]
    /\ UNCHANGED <<dur, open>>

End(t) == t \in open /\ open' = open \ {t} /\ UNCHANGED <<mem, dur>>

Commit == open = {} /\ dur' = mem /\ UNCHANGED <<mem, open>>

Crash == mem' = dur /\ open' = {} /\ UNCHANGED dur

ANext ==
    \/ \E t \in Thread : Begin(t) \/ End(t)
    \/ \E t \in Thread, b \in Block, v \in Val : Write(t, b, v)
    \/ Commit
    \/ Crash

ASpec == AInit /\ [][ANext]_avars
=============================================================================
