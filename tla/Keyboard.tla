------------------------------ MODULE Keyboard ------------------------------
(***************************************************************************)
(* The keyboard (kbd.c): keys send scan codes, with an escape byte in      *)
(* front on the right half of the board, and kbdgetc() turns them into     *)
(* characters, with the modifiers in a static variable.                    *)
(***************************************************************************)
EXTENDS Naturals, Sequences

CONSTANT PortMax   \* bound: bytes that wait in the controller

\* Scan codes without the top bit: a letter, Enter and the modifiers.
Code == {"letter", "enter", "ctl", "shift", "caps"}

\* The keys of the model: the right Ctrl and the Enter of the keypad are
\* escaped.
Key == [code : Code, e0 : {FALSE}] \cup [code : {"ctl", "enter"}, e0 : {TRUE}]

E0 == [code |-> "E0", up |-> FALSE]

VARIABLES port,    \* bytes that the controller holds
          held,    \* keys that are down
          shift,   \* the static variable of kbdgetc()
          typed    \* the character that kbdgetc() has returned, "" for none

kbdvars == <<port, held, shift, typed>>

\* shiftcode, togglecode and the maps of kbd.h, indexed by code and top bit.
shiftcode(d) == CASE d.code = "ctl" -> {"CTL"}
                  [] d.code = "shift" /\ ~d.e0 -> {"SHIFT"}
                  [] OTHER -> {}
togglecode(d) == IF d.code = "caps" /\ ~d.e0 THEN {"CAPSLOCK"} ELSE {}

charcode(s, d) ==
    CASE d.code = "enter" -> IF "CTL" \in s THEN "cr" ELSE "nl"
      [] d.code = "letter" /\ ~d.e0 ->
            IF "CTL" \in s THEN "^A" ELSE IF "SHIFT" \in s THEN "A" ELSE "a"
      [] OTHER -> ""

Swap(c) == CASE c = "a" -> "A" [] c = "A" -> "a" [] OTHER -> c

KbdInit == port = <<>> /\ held = {} /\ shift = {} /\ typed = ""

\* A key goes down, again if it repeats, or up.
Send(k, up) == port' = port \o (IF k.e0 THEN <<E0>> ELSE <<>>) \o <<[code |-> k.code, up |-> up]>>

Press(k) ==
    /\ Len(port) + 2 <= PortMax
    /\ Send(k, FALSE)
    /\ held' = held \cup {k}
    /\ UNCHANGED <<shift, typed>>

Lift(k) ==
    /\ Len(port) + 2 <= PortMax /\ k \in held
    /\ Send(k, TRUE)
    /\ held' = held \ {k}
    /\ UNCHANGED <<shift, typed>>

-----------------------------------------------------------------------------
(* kbdgetc(), one byte.                                                    *)

Data == [code |-> Head(port).code, e0 |-> "E0ESC" \in shift]

Escape ==
    /\ port # <<>> /\ Head(port) = E0
    /\ shift' = shift \cup {"E0ESC"}
    /\ typed' = ""
    /\ port' = Tail(port) /\ UNCHANGED held

\* Mutant: a release does not end the escape.
ReleasedKeepsEscape ==
    /\ port # <<>> /\ Head(port).up
    /\ shift' = shift \ shiftcode(Data)
    /\ typed' = ""
    /\ port' = Tail(port) /\ UNCHANGED held

Released ==
    /\ port # <<>> /\ Head(port).up
    /\ shift' = shift \ (shiftcode(Data) \cup {"E0ESC"})
    /\ typed' = ""
    /\ port' = Tail(port) /\ UNCHANGED held

Pressed ==
    LET on == (shift \ {"E0ESC"}) \cup shiftcode(Data)
        s  == (on \ togglecode(Data)) \cup (togglecode(Data) \ on)
        c  == charcode(s, Data)
    IN
    /\ port # <<>> /\ Head(port) # E0 /\ ~Head(port).up
    /\ shift' = s
    /\ typed' = IF "CAPSLOCK" \in s THEN Swap(c) ELSE c
    /\ port' = Tail(port) /\ UNCHANGED held

kbdgetc == Escape \/ Released \/ Pressed

KbdNext == kbdgetc \/ \E k \in Key : Press(k) \/ Lift(k)

KbdSpec == KbdInit /\ [][KbdNext]_kbdvars

-----------------------------------------------------------------------------
\* No modifier is stuck (kbdgetc()): once all bytes are read, a modifier is on
\* only while one of its keys is down, on either half of the board and in any
\* order of presses and releases, and no escape is left over.
NoStuckModifier ==
    port = <<>> =>
       /\ "E0ESC" \notin shift
       /\ "CTL" \in shift => \E k \in held : k.code = "ctl"
       /\ "SHIFT" \in shift => \E k \in held : k.code = "shift"
=============================================================================
