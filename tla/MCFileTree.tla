---------------------------- MODULE MCFileTree ----------------------------
(***************************************************************************)
(* Instances of FileTree for TLC: the system calls that processes make.    *)
(***************************************************************************)
EXTENDS FileTree

CONSTANTS t1, t2

One(n, p) == [name |-> n, path |-> p, new |-> <<>>]

\* t1 makes files and directories and moves around, t2 removes and links.
MCCalls ==
    [t \in Thread |->
       IF t = t1
       THEN {One("create", <<"a">>), One("mkdir", <<"a">>), One("chdir", <<"a">>),
             One("chdir", <<"..">>)}
       ELSE {One("unlink", <<"/", "a">>), One("unlink", <<"/", "a", "a">>),
             One("open", <<"/", "a">>), One("create", <<"a">>),
             [name |-> "link", path |-> <<"a">>, new |-> <<"b">>]}]

\* t1 stands in a directory and uses its ".."; t2 removes that directory and
\* its parent and makes a new one.
MCDotDot ==
    [t \in Thread |->
       IF t = t1
       THEN {One("mkdir", <<"a">>), One("chdir", <<"a">>), One("mkdir", <<"..", "b">>)}
       ELSE {One("unlink", <<"/", "a">>), One("unlink", <<"/", "a", "a">>),
             One("mkdir", <<"/", "a">>)}]
=============================================================================
