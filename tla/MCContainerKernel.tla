-------------------------- MODULE MCContainerKernel --------------------------
(***************************************************************************)
(* ContainerKernel from two states that it reaches from userinit() with    *)
(* three slots and lists of two entries.  What comes before them has empty *)
(* lists, or a list with one entry taken.                                  *)
(***************************************************************************)
EXTENDS ContainerKernel

(***************************************************************************)
(* init waits.  It has created container 1 and forked, and the child has   *)
(* joined the container: its new self, slot 3, is the first on the list,   *)
(* and its old self is gone.  Slot 3 has forked.  Either the child, listed *)
(* second, is a zombie now, whose entry is stale when it is waited for; or *)
(* the fork has failed, and the second entry is free.                      *)
(***************************************************************************)
Start(forked) ==
    /\ state = <<"SLEEPING", IF forked THEN "ZOMBIE" ELSE "UNUSED", "RUNNABLE">>
    /\ pid = <<1, 4, 3>> /\ nextpid = 5
    /\ parent = <<0, IF forked THEN 3 ELSE 0, 1>> /\ chan = <<1, 0, 0>>
    /\ killed = [p \in Proc |-> FALSE]
    /\ pc = <<"wait", IF forked THEN "exit" ELSE "forkret", "user">>
    /\ np = [p \in Proc |-> Null] /\ rem = [p \in Proc |-> 0]
    /\ ptlock = NoCPU /\ tklock = NoCPU /\ ticking = FALSE
    /\ running = [c \in CPU |-> Null] /\ phase = [c \in CPU |-> "sched"]
    /\ cursor = [c \in CPU |-> IF forked THEN 1 ELSE 2]
    /\ containerID = <<Host, IF forked THEN 1 ELSE Host, 1>>
    /\ stack = <<<<Host, 0>>, IF forked THEN <<Host, 0>> ELSE <<>>, <<1, 1>>>>
    /\ containerNum = 2 /\ pages = [k \in Container |-> k = 1]
    /\ listed = [k \in Container |-> [i \in Entry |->
                   CASE k = Host /\ i = 1 -> InitProc
                     [] k = 1 /\ i = 1 -> 3
                     [] k = 1 /\ i = 2 /\ forked -> 2
                     [] OTHER -> Null]]
    /\ generated = [k \in Container |->
                      IF k = 1 /\ forked THEN 2 ELSE IF k < 2 THEN 1 ELSE 0]
    /\ used = [k \in Container |-> IF k = 1 THEN 1 ELSE 0]
    /\ allocFor = Host /\ joining = [p \in Proc |-> NoJoin]
    /\ cnt = [c \in CPU |-> 1] /\ pick = [c \in CPU |-> 1]
    /\ curLocation = [c \in CPU |-> [k \in Container |->
                        IF k = 1 /\ forked THEN 2 ELSE IF k < 2 THEN 1 ELSE 0]]

MCFairSpec == (Start(TRUE) \/ Start(FALSE)) /\ [][Next]_vars /\ Fairness
=============================================================================
