----------------------------- MODULE LineInput ------------------------------
(***************************************************************************)
(* What the console promises: a line that can be edited until it is        *)
(* entered, and text that readers take in the order in which it was typed, *)
(* each character once.                                                    *)
(***************************************************************************)
EXTENDS Naturals, Sequences, SequencesExt

CONSTANTS Tty, Char, Cap

VARIABLES line,    \* typed and not entered
          ready,   \* entered and not read
          got      \* per reader: what its read() has got so far

LInit == line = <<>> /\ ready = <<>> /\ got = [p \in Tty |-> <<>>]

Type(c) ==
    /\ Len(line) + Len(ready) < Cap
    /\ IF c \in {"nl", "^D"} \/ Len(line) + Len(ready) + 1 = Cap
       THEN ready' = ready \o Append(line, c) /\ line' = <<>>
       ELSE line' = Append(line, c) /\ UNCHANGED ready
    /\ UNCHANGED got

Erase == line # <<>> /\ line' = Front(line) /\ UNCHANGED <<ready, got>>

KillLine == line' = <<>> /\ UNCHANGED <<ready, got>>

Begin(p) == got' = [got EXCEPT ![p] = <<>>] /\ UNCHANGED <<line, ready>>

Deliver(p) ==
    /\ ready # <<>> /\ Head(ready) # "^D"
    /\ got' = [got EXCEPT ![p] = Append(@, Head(ready))]
    /\ ready' = Tail(ready)
    /\ UNCHANGED line

\* ^D ends the input of one reader that has got nothing.
Eof(p) ==
    /\ ready # <<>> /\ Head(ready) = "^D" /\ got[p] = <<>>
    /\ ready' = Tail(ready)
    /\ UNCHANGED <<line, got>>

LNext == \/ \E c \in Char : Type(c)
         \/ Erase \/ KillLine
         \/ \E p \in Tty : Begin(p) \/ Deliver(p) \/ Eof(p)

LSpec == LInit /\ [][LNext]_<<line, ready, got>>
=============================================================================
