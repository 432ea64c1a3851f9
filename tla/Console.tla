------------------------------ MODULE Console -------------------------------
(***************************************************************************)
(* Console input (console.c): consoleintr() puts the characters of the     *)
(* keyboard or the serial line into a ring, in which the line typed last   *)
(* can be edited, and consoleread() takes them out, all under cons.lock.   *)
(* kill() takes ptable.lock only.                                          *)
(***************************************************************************)
EXTENDS Naturals, Sequences

CONSTANTS Tty, NoTty,   \* processes that read, and the holder of the free lock
          Char,         \* characters that are stored, "nl" and "^D" among them
          INPUT_BUF,
          UintMax,      \* input.r, input.w and input.e wrap there
          ReadSizes     \* arguments of read()

ASSUME ConsoleAssumption ==
    /\ NoTty \notin Tty /\ {"nl", "^D"} \subseteq Char
    /\ INPUT_BUF \in Nat \ {0}
    /\ UintMax \in Nat /\ UintMax > INPUT_BUF /\ UintMax % INPUT_BUF = 0
    /\ ReadSizes \subseteq Nat \ {0}

VARIABLES input,     \* buf and the indices r (read), w (write), e (edit)
          cons,      \* holder of cons.lock
          at,        \* per reader, see At
          n,         \* per reader: characters that it may still take
          got,       \* per reader: characters that it has got in this read()
          dead       \* per reader: p->killed

convars == <<input, cons, at, n, got, dead>>

\* "user": not in consoleread(); "loop": with cons.lock; "sleep", "asleep",
\* "awake": on the way into sleep(), in it, and on the way out.
At == {"user", "loop", "sleep", "asleep", "awake"}

Inc(k) == (k + 1) % UintMax
Dec(k) == (k + UintMax - 1) % UintMax
Minus(a, b) == (a + UintMax - b) % UintMax
Ring(k) == k % INPUT_BUF

ConInit ==
    /\ input = [buf |-> [i \in 0..(INPUT_BUF - 1) |-> "nl"], r |-> 0, w |-> 0, e |-> 0]
    /\ cons = NoTty
    /\ at = [p \in Tty |-> "user"]
    /\ n = [p \in Tty |-> 0]
    /\ got = [p \in Tty |-> <<>>]
    /\ dead = [p \in Tty |-> FALSE]

-----------------------------------------------------------------------------
(* consoleintr(): what it does with one character.                         *)

\* wakeup(&input.r)
WakeReaders == at' = [p \in Tty |-> IF at[p] = "asleep" THEN "awake" ELSE at[p]]

\* Mutant: a full buffer is handed over without a wakeup.
InsertQuiet(c) ==
    LET e == Inc(input.e)
        full == Minus(e, input.r) = INPUT_BUF
    IN
    /\ cons = NoTty /\ Minus(input.e, input.r) < INPUT_BUF
    /\ input' = [input EXCEPT !.buf[Ring(input.e)] = c, !.e = e,
                              !.w = IF c \in {"nl", "^D"} \/ full THEN e ELSE @]
    /\ IF c \in {"nl", "^D"} THEN WakeReaders ELSE UNCHANGED at
    /\ UNCHANGED <<cons, n, got, dead>>

\* Any other character goes into the ring unless that is full; the end of a
\* line, the end of the file and a full ring hand the text over to the readers.
Insert(c) ==
    LET e == Inc(input.e)
        enter == c \in {"nl", "^D"} \/ Minus(e, input.r) = INPUT_BUF
    IN
    /\ cons = NoTty /\ Minus(input.e, input.r) < INPUT_BUF
    /\ input' = [input EXCEPT !.buf[Ring(input.e)] = c, !.e = e,
                              !.w = IF enter THEN e ELSE @]
    /\ IF enter THEN WakeReaders ELSE UNCHANGED at
    /\ UNCHANGED <<cons, n, got, dead>>

\* Mutant: the test is for text that nobody has read, entered or not.
BackspaceAny ==
    /\ cons = NoTty /\ input.e # input.r
    /\ input' = [input EXCEPT !.e = Dec(@)]
    /\ UNCHANGED <<cons, at, n, got, dead>>

\* ^H or DEL.
Backspace ==
    /\ cons = NoTty /\ input.e # input.w
    /\ input' = [input EXCEPT !.e = Dec(@)]
    /\ UNCHANGED <<cons, at, n, got, dead>>

\* ^U: back to the start of the line, at most to what has been handed over.
Stop(k) == k = input.w \/ input.buf[Ring(Dec(k))] = "nl"
KillTo == CHOOSE k \in 0..(UintMax - 1) :
    /\ Stop(k)
    /\ \A j \in 1..Minus(input.e, k) : ~Stop((k + j) % UintMax)

ControlU ==
    /\ cons = NoTty /\ input.e # input.w
    /\ input' = [input EXCEPT !.e = KillTo]
    /\ UNCHANGED <<cons, at, n, got, dead>>

-----------------------------------------------------------------------------
(* consoleread().                                                          *)

ReadLine(p, k) ==
    /\ at[p] = "user" /\ ~dead[p] /\ cons = NoTty
    /\ cons' = p
    /\ at' = [at EXCEPT ![p] = "loop"]
    /\ n' = [n EXCEPT ![p] = k]
    /\ got' = [got EXCEPT ![p] = <<>>]
    /\ UNCHANGED <<input, dead>>

NothingReady(p) == at[p] = "loop" /\ input.r = input.w

ReadKilled(p) ==
    /\ NothingReady(p) /\ dead[p]
    /\ cons' = NoTty
    /\ at' = [at EXCEPT ![p] = "user"]
    /\ UNCHANGED <<input, n, got, dead>>

ReadSleep(p) ==
    /\ NothingReady(p) /\ ~dead[p]
    /\ at' = [at EXCEPT ![p] = "sleep"]
    /\ UNCHANGED <<input, cons, n, got, dead>>

\* sleep() has ptable.lock, releases cons.lock and marks the process.
ReadAsleep(p) ==
    /\ at[p] = "sleep"
    /\ cons' = NoTty
    /\ at' = [at EXCEPT ![p] = "asleep"]
    /\ UNCHANGED <<input, n, got, dead>>

ReadAwake(p) ==
    /\ at[p] = "awake" /\ cons = NoTty
    /\ cons' = p
    /\ at' = [at EXCEPT ![p] = "loop"]
    /\ UNCHANGED <<input, n, got, dead>>

\* A character is taken.  ^D ends the read; it stays for the next one if this
\* one has got something.
ReadChar(p) ==
    LET c == input.buf[Ring(input.r)]
        eof == c = "^D"
    IN
    /\ at[p] = "loop" /\ input.r # input.w
    /\ input' = [input EXCEPT !.r = IF eof /\ got[p] # <<>> THEN @ ELSE Inc(@)]
    /\ got' = [got EXCEPT ![p] = IF eof THEN @ ELSE Append(@, c)]
    /\ n' = [n EXCEPT ![p] = IF eof THEN @ ELSE @ - 1]
    /\ IF eof \/ c = "nl" \/ n[p] = 1
       THEN cons' = NoTty /\ at' = [at EXCEPT ![p] = "user"]
       ELSE UNCHANGED <<cons, at>>
    /\ UNCHANGED dead

KillReader(p) ==
    /\ ~dead[p]
    /\ dead' = [dead EXCEPT ![p] = TRUE]
    /\ at' = [at EXCEPT ![p] = IF @ = "asleep" THEN "awake" ELSE @]
    /\ UNCHANGED <<input, cons, n, got>>

-----------------------------------------------------------------------------
consoleintr == (\E c \in Char : Insert(c)) \/ Backspace \/ ControlU

consoleread(p) ==
    \/ \E k \in ReadSizes : ReadLine(p, k)
    \/ ReadKilled(p) \/ ReadSleep(p) \/ ReadAsleep(p) \/ ReadAwake(p) \/ ReadChar(p)

ConNext == consoleintr \/ \E p \in Tty : consoleread(p) \/ KillReader(p)

ConSpec == ConInit /\ [][ConNext]_convars

-----------------------------------------------------------------------------
(* Properties.                                                             *)

\* No reader sleeps through a line: while cons.lock is free, nobody is asleep
\* in consoleread() with text that has been handed over, whether by a newline,
\* by ^D or because the ring was full.
NoLostLine ==
    cons = NoTty /\ input.r # input.w => \A p \in Tty : at[p] # "asleep"

\* The characters of the ring from index a up to index b.
Text(a, b) == [k \in 1..Minus(b, a) |-> input.buf[Ring(a + k - 1)]]

L == INSTANCE LineInput WITH
    line <- Text(input.w, input.e), ready <- Text(input.r, input.w), Cap <- INPUT_BUF

\* The ring with its three wrapping indices is an edit line and a queue:
\* editing never reaches text that has been entered, ^D ends one read() and is
\* not lost when a reader that already has text meets it first, and every
\* character goes to one reader.
IsLineInput == L!LSpec
=============================================================================
