----------------------------- MODULE ByteFiles ------------------------------
(***************************************************************************)
(* What files promise to programs: a file is a sequence of bytes, an open  *)
(* file an offset in one.  A read returns the bytes at the offset and      *)
(* moves it; a piece of a write replaces or appends bytes there and moves  *)
(* it; nothing else changes the bytes of a file as long as it is open.     *)
(***************************************************************************)
EXTENDS Naturals, Sequences

CONSTANTS Proc, Inode, File, Root, MaxPiece

VARIABLES content,   \* per inode: its bytes
          file,      \* per open file: inode (Closed if none) and offset
          out        \* per process: what its read has returned

Closed == 0

Overwrite(s, off, n, v) ==
    [k \in 1..(IF off + n > Len(s) THEN off + n ELSE Len(s)) |->
        IF k > off /\ k <= off + n THEN v ELSE s[k]]

Init == /\ \A f \in File : file[f].ip = Closed
        /\ out = [p \in Proc |-> <<>>]

\* p writes bytes p.
Write(p, f, n) ==
    /\ file[f].ip # Closed /\ file[f].off <= Len(content[file[f].ip])
    /\ content' = [content EXCEPT ![file[f].ip] = Overwrite(@, file[f].off, n, p)]
    /\ file' = [file EXCEPT ![f].off = @ + n]
    /\ UNCHANGED out

Read(p, f) ==
    /\ file[f].ip # Closed
    /\ LET s == content[file[f].ip]
           r == SubSeq(s, file[f].off + 1, file[f].off + Len(out'[p]))
       IN  /\ file[f].off + Len(out'[p]) <= Len(s)
           /\ out' = [out EXCEPT ![p] = r]
           /\ file' = [file EXCEPT ![f].off = @ + Len(r)]
    /\ UNCHANGED content

Return(p) == out' = [out EXCEPT ![p] = <<>>] /\ UNCHANGED <<content, file>>

Opens(f, i) ==
    /\ file[f].ip = Closed
    /\ file' = [file EXCEPT ![f] = [ip |-> i, off |-> 0]]

Open(f, i) == Opens(f, i) /\ UNCHANGED <<content, out>>

Close(f) ==
    /\ file' = [file EXCEPT ![f] = [ip |-> Closed, off |-> 0]]
    /\ UNCHANGED <<content, out>>

\* A new file is empty; its name goes to a free place of the directory.
Create(i) ==
    /\ content[i] = <<>>
    /\ \E k \in DOMAIN content[Root] :
          content[Root][k] = 0 /\ content' = [content EXCEPT ![Root][k] = i]
    /\ UNCHANGED file \/ \E f \in File : Opens(f, i)
    /\ UNCHANGED out

Unlink(i) ==
    /\ \E k \in DOMAIN content[Root] :
          content[Root][k] = i /\ content' = [content EXCEPT ![Root][k] = 0]
    /\ UNCHANGED <<file, out>>

\* The bytes go when nobody has the file open and no entry names it.
Remove(i) ==
    /\ \A f \in File : file[f].ip # i
    /\ \A k \in DOMAIN content[Root] : content[Root][k] # i
    /\ content' = [content EXCEPT ![i] = <<>>]
    /\ UNCHANGED <<file, out>>

Next ==
    \/ \E p \in Proc, f \in File :
          Read(p, f) \/ \E n \in 1..MaxPiece : Write(p, f, n)
    \/ \E p \in Proc : Return(p)
    \/ \E f \in File : Close(f) \/ \E i \in Inode : Open(f, i)
    \/ \E i \in Inode : Create(i) \/ Unlink(i) \/ Remove(i)

Spec == Init /\ [][Next]_<<content, file, out>>
=============================================================================
