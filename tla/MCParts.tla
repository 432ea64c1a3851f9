------------------------------ MODULE MCParts -------------------------------
(***************************************************************************)
(* Seven parts that share no variable: address spaces, a pipe, the         *)
(* console, the keyboard, the messages, the spin locks and the scheduler   *)
(* log.  They are checked in one run; a behaviour is one of one of them.   *)
(***************************************************************************)
EXTENDS Memory, Pipe, Console, Keyboard, MsgQueue, SpinLock, SchedLog, TLC

VARIABLE part

PartsInit ==
    /\ part \in {"memory", "pipe", "console", "keyboard", "messages", "locks", "log"}
    /\ MemInit /\ Init /\ ConInit /\ KbdInit /\ MsgInit /\ SpinInit /\ SlogInit

PartsNext ==
    /\ \/ /\ part = "memory" /\ MemNext
          /\ UNCHANGED <<vars, convars, kbdvars, msgvars, spinvars, slogvars>>
       \/ /\ part = "pipe" /\ Next
          /\ UNCHANGED <<memvars, convars, kbdvars, msgvars, spinvars, slogvars>>
       \/ /\ part = "console" /\ ConNext
          /\ UNCHANGED <<memvars, vars, kbdvars, msgvars, spinvars, slogvars>>
       \/ /\ part = "keyboard" /\ KbdNext
          /\ UNCHANGED <<memvars, vars, convars, msgvars, spinvars, slogvars>>
       \/ /\ part = "messages" /\ MsgNext
          /\ UNCHANGED <<memvars, vars, convars, kbdvars, spinvars, slogvars>>
       \/ /\ part = "locks" /\ SpinNext
          /\ UNCHANGED <<memvars, vars, convars, kbdvars, msgvars, slogvars>>
       \/ /\ part = "log" /\ SlogNext
          /\ UNCHANGED <<memvars, vars, convars, kbdvars, msgvars, spinvars>>
    /\ UNCHANGED part

PartsSpec ==
    PartsInit /\ [][PartsNext]_<<memvars, vars, convars, kbdvars, msgvars, spinvars,
                                slogvars, part>>

(* The writers of a pipe, the readers of the console, the senders and the  *)
(* messages, the threads and the processors are alike.  As a behaviour is  *)
(* one of one part, the parts may share their two pairs of model values.   *)
Symmetry == Permutations(Writer) \cup Permutations(Tty)
=============================================================================
