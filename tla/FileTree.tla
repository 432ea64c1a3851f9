------------------------------ MODULE FileTree ------------------------------
(***************************************************************************)
(* The inode layer and the system calls on names (fs.c, sysfile.c): inodes *)
(* with their links on disk, the inode cache with reference counts and     *)
(* sleep locks, path lookup, and open, create, mkdir, mknod, link, unlink, *)
(* chdir and close as sequences of steps of several processes.             *)
(*                                                                         *)
(* A step ends where the code takes or gives up a lock that matters:       *)
(* whatever a process does to an inode while it holds the sleep lock is    *)
(* one action.  The test, the clearing and the release inside iput() are   *)
(* separate.  Contents are modelled for directories only.                  *)
(***************************************************************************)
EXTENDS Integers, Sequences, FiniteSets

CONSTANTS Thread, NoThread,
          NINODES,     \* inodes on the disk
          Name,        \* the names of files, "." and ".." apart
          Calls        \* per process: the system calls it makes

Ino   == 1..NINODES
Root  == 1
NoIno == 0
Entry == Name \cup {".", ".."}
NoCall == [name |-> "none", path |-> <<>>, new |-> <<>>]
Type  == {"free", "dir", "file", "dev"}

\* A path is a sequence of entries, with "/" in front if it is absolute.
IsAbs(p) == p # <<>> /\ p[1] = "/"
Rest(p) == IF IsAbs(p) THEN Tail(p) ELSE p

ASSUME FileTreeAssumption ==
    /\ NoThread \notin Thread /\ IsFiniteSet(Thread)
    /\ NINODES \in Nat \ {0}
    /\ Name \cap {".", "..", "/"} = {} /\ IsFiniteSet(Name)
    /\ \A t \in Thread : \A c \in Calls[t] :
          /\ c.name \in {"open", "openw", "create", "mkdir", "mknod", "link",
                         "unlink", "chdir"}
          /\ Rest(c.path) \in Seq(Entry) /\ Rest(c.new) \in Seq(Entry)

VARIABLES
    dinode,      \* on disk, per inode: type and nlink
    ents,        \* contents of the directories
    inode,       \* in the cache, per inode: valid, type and nlink
    ref, lock,   \* in the cache, per inode: ip->ref and the holder of ip->lock
    cwd, file,   \* per process: current directory and open file, NoIno if none
    call,        \* per process: the system call it makes
    path,        \* per process: what is left of the path that namex() follows
    ip, dp,      \* per process: the variables of that name in sysfile.c
    pc,          \* per process, see PC
    todo, put,   \* per process: the inodes it must iput() before it goes on,
                 \* and how far iput() of the first one is
    panicked

diskvars  == <<dinode, ents>>
cachevars == <<inode, ref, lock>>
procvars  == <<cwd, file, call, path, ip, dp, pc>>
vars      == <<diskvars, cachevars, procvars, todo, put, panicked>>

(***************************************************************************)
(* "namei" and "nameiparent": in namex(); "found" and "parent": it has     *)
(* returned ip or dp.  "exists", "new", "made": create() has found ip,     *)
(* allocated it, returned it locked.  "child", "notempty", "unlinked":     *)
(* sys_unlink() has found ip, cannot remove it, has removed the entry.     *)
(* "taken", "bad": sys_link() finds the new name in use, goes to bad.      *)
(* "end": end_op() and the return.                                         *)
(***************************************************************************)
PC == {"idle", "namei", "nameiparent", "found", "parent", "exists", "new",
       "made", "child", "notempty", "unlinked", "taken", "bad", "end"}

\* t is at l and has no iput() to do first.
At(t, l) == pc[t] = l /\ todo[t] = <<>> /\ ~panicked

Goto(t, l) == pc' = [pc EXCEPT ![t] = l]

\* t goes on at l after iput() of the inodes s.
PutThen(t, s, l) == Goto(t, l) /\ todo' = [todo EXCEPT ![t] = s]

Stays == UNCHANGED todo

-----------------------------------------------------------------------------
(* The inode cache.                                                        *)

\* The inode that ilock(i) leaves in the cache.
Loaded(i) ==
    IF inode[i].valid THEN inode[i]
    ELSE [valid |-> TRUE, type |-> dinode[i].type, nlink |-> dinode[i].nlink]

\* ilock(i) gets the lock and does not panic.
CanLock(i) == lock[i] = NoThread /\ Loaded(i).type # "free"

\* Without a reference the entry may be recycled, and iget() sets valid to 0.
Blank == [valid |-> FALSE, type |-> "free", nlink |-> 0]

Lookup(i, n) == ents[i][n]

\* The inode i with nlink changed to n, in the cache and by iupdate() on disk.
WithLinks(nodes, i, n)  == [nodes EXCEPT ![i] = [@ EXCEPT !.nlink = n]]

\* The inode that t will lock in its next step, NoIno if none.
Wants(t) ==
    CASE todo[t] # <<>> /\ put[t] = "test" -> Head(todo[t])
      [] todo[t] # <<>> -> NoIno
      [] pc[t] \in {"namei", "found", "new", "exists", "child", "bad"} -> ip[t]
      [] pc[t] \in {"nameiparent", "parent"} -> dp[t]
      [] OTHER -> NoIno

\* ilock() reads a free inode from the disk: "ilock: no type".
IlockPanic(t) ==
    /\ ~panicked /\ todo[t] = <<>>
    /\ Wants(t) # NoIno /\ lock[Wants(t)] = NoThread
    /\ Loaded(Wants(t)).type = "free"
    /\ panicked' = TRUE
    /\ UNCHANGED <<diskvars, cachevars, procvars, todo, put>>

\* Mutant: iput() does not look at the other references.
PutTestAnyRef(t) ==
    /\ ~panicked /\ todo[t] # <<>> /\ put[t] = "test"
    /\ LET i == Head(todo[t])
       IN  /\ lock[i] = NoThread
           /\ IF inode[i].valid /\ inode[i].nlink = 0
              THEN /\ lock' = [lock EXCEPT ![i] = t]
                   /\ put' = [put EXCEPT ![t] = "trunc"]
              ELSE /\ put' = [put EXCEPT ![t] = "drop"]
                   /\ UNCHANGED lock
    /\ UNCHANGED <<diskvars, inode, ref, procvars, todo, panicked>>

\* iput(): with the lock, is this the last reference to an inode without links?
PutTest(t) ==
    /\ ~panicked /\ todo[t] # <<>> /\ put[t] = "test"
    /\ LET i == Head(todo[t])
       IN  /\ lock[i] = NoThread
           /\ IF inode[i].valid /\ inode[i].nlink = 0 /\ ref[i] = 1
              THEN /\ lock' = [lock EXCEPT ![i] = t]
                   /\ put' = [put EXCEPT ![t] = "trunc"]
              ELSE /\ put' = [put EXCEPT ![t] = "drop"]
                   /\ UNCHANGED lock
    /\ UNCHANGED <<diskvars, inode, ref, procvars, todo, panicked>>

\* ... itrunc(), type = 0 and iupdate(): the inode is free on disk.
PutTrunc(t) ==
    /\ ~panicked /\ put[t] = "trunc"
    /\ LET i == Head(todo[t])
       IN  /\ dinode' = [dinode EXCEPT ![i].type = "free"]
           /\ inode' = [inode EXCEPT ![i].type = "free"]
           /\ ents' = [ents EXCEPT ![i] = [n \in Entry |-> NoIno]]
    /\ put' = [put EXCEPT ![t] = "clear"]
    /\ UNCHANGED <<ref, lock, procvars, todo, panicked>>

\* ... valid = 0 and releasesleep().
PutClear(t) ==
    /\ ~panicked /\ put[t] = "clear"
    /\ inode' = [inode EXCEPT ![Head(todo[t])].valid = FALSE]
    /\ lock' = [lock EXCEPT ![Head(todo[t])] = NoThread]
    /\ put' = [put EXCEPT ![t] = "drop"]
    /\ UNCHANGED <<diskvars, ref, procvars, todo, panicked>>

\* ... and the reference is dropped under icache.lock.
PutDrop(t) ==
    /\ ~panicked /\ put[t] = "drop"
    /\ LET i == Head(todo[t])
       IN  /\ ref' = [ref EXCEPT ![i] = @ - 1]
           /\ inode' = [inode EXCEPT ![i] = IF ref[i] = 1 THEN Blank ELSE @]
    /\ todo' = [todo EXCEPT ![t] = Tail(@)]
    /\ put' = [put EXCEPT ![t] = "test"]
    /\ UNCHANGED <<diskvars, lock, procvars, panicked>>

-----------------------------------------------------------------------------
(* namex().                                                                *)

Start(t, p) == IF IsAbs(p) THEN Root ELSE cwd[t]

\* Calls that begin with nameiparent(); the others use namei().
ByParent == {"create", "mkdir", "mknod", "unlink"}

\* A process makes a system call with a path: the first reference of namex().
Call(t, c) ==
    /\ At(t, "idle")
    /\ call' = [call EXCEPT ![t] = c]
    /\ path' = [path EXCEPT ![t] = Rest(c.path)]
    /\ LET s == Start(t, c.path)
       IN  /\ ref' = [ref EXCEPT ![s] = @ + 1]
           /\ IF c.name \in ByParent
              THEN /\ dp' = [dp EXCEPT ![t] = s] /\ UNCHANGED ip
                   /\ IF Rest(c.path) = <<>> THEN PutThen(t, <<s>>, "end")
                      ELSE Goto(t, "nameiparent") /\ Stays
              ELSE /\ ip' = [ip EXCEPT ![t] = s] /\ UNCHANGED dp
                   /\ Goto(t, IF Rest(c.path) = <<>> THEN "found" ELSE "namei")
                   /\ Stays
    /\ UNCHANGED <<diskvars, inode, lock, cwd, file, put, panicked>>

\* Mutant: a failing lookup keeps its reference.
WalkLeak(t) ==
    /\ At(t, "namei")
    /\ LET i == ip[t]
           next == IF Loaded(i).type = "dir" THEN Lookup(i, Head(path[t])) ELSE NoIno
       IN  /\ CanLock(i)
           /\ inode' = [inode EXCEPT ![i] = Loaded(i)]
           /\ IF next = NoIno
              THEN PutThen(t, <<>>, "end") /\ UNCHANGED <<ref, ip, path>>
              ELSE /\ ref' = [ref EXCEPT ![next] = @ + 1]
                   /\ ip' = [ip EXCEPT ![t] = next]
                   /\ path' = [path EXCEPT ![t] = Tail(@)]
                   /\ PutThen(t, <<i>>, IF Len(path[t]) = 1 THEN "found" ELSE "namei")
    /\ UNCHANGED <<diskvars, lock, cwd, file, call, dp, put, panicked>>

\* The next element of the path: ilock, dirlookup with iget, iunlock.
Walk(t) ==
    /\ At(t, "namei")
    /\ LET i == ip[t]
           next == IF Loaded(i).type = "dir" THEN Lookup(i, Head(path[t])) ELSE NoIno
       IN  /\ CanLock(i)
           /\ inode' = [inode EXCEPT ![i] = Loaded(i)]
           /\ IF next = NoIno
              THEN PutThen(t, <<i>>, "end") /\ UNCHANGED <<ref, ip, path>>
              ELSE /\ ref' = [ref EXCEPT ![next] = @ + 1]
                   /\ ip' = [ip EXCEPT ![t] = next]
                   /\ path' = [path EXCEPT ![t] = Tail(@)]
                   /\ PutThen(t, <<i>>, IF Len(path[t]) = 1 THEN "found" ELSE "namei")
    /\ UNCHANGED <<diskvars, lock, cwd, file, call, dp, put, panicked>>

\* The same for nameiparent(), which stops one level early.
WalkParent(t) ==
    /\ At(t, "nameiparent")
    /\ LET i == dp[t]
           isdir == Loaded(i).type = "dir"
           next == IF isdir THEN Lookup(i, Head(path[t])) ELSE NoIno
       IN  /\ CanLock(i)
           /\ inode' = [inode EXCEPT ![i] = Loaded(i)]
           /\ \/ /\ isdir /\ Len(path[t]) = 1
                 /\ Goto(t, "parent") /\ Stays
                 /\ UNCHANGED <<ref, dp, path>>
              \/ /\ Len(path[t]) > 1 /\ next # NoIno
                 /\ ref' = [ref EXCEPT ![next] = @ + 1]
                 /\ dp' = [dp EXCEPT ![t] = next]
                 /\ path' = [path EXCEPT ![t] = Tail(@)]
                 /\ PutThen(t, <<i>>, "nameiparent")
              \/ /\ ~isdir \/ (Len(path[t]) > 1 /\ next = NoIno)
                 /\ PutThen(t, <<i>>, IF call[t].name = "link" THEN "bad" ELSE "end")
                 /\ UNCHANGED <<ref, dp, path>>
    /\ UNCHANGED <<diskvars, lock, cwd, file, call, ip, put, panicked>>

-----------------------------------------------------------------------------
(* open, close and chdir.                                                  *)

\* sys_open() without O_CREATE, once namei() has returned: a directory is
\* opened for reading only.  A process has one file descriptor.
Open(t) ==
    /\ At(t, "found") /\ call[t].name \in {"open", "openw"}
    /\ CanLock(ip[t])
    /\ inode' = [inode EXCEPT ![ip[t]] = Loaded(ip[t])]
    /\ IF file[t] # NoIno \/ (Loaded(ip[t]).type = "dir" /\ call[t].name = "openw")
       THEN PutThen(t, <<ip[t]>>, "end") /\ UNCHANGED file
       ELSE /\ file' = [file EXCEPT ![t] = ip[t]]
            /\ Goto(t, "end") /\ Stays
    /\ UNCHANGED <<diskvars, ref, lock, cwd, call, path, ip, dp, put, panicked>>

\* sys_close(), fileclose() of the last reference to the file.
Close(t) ==
    /\ At(t, "idle") /\ file[t] # NoIno
    /\ file' = [file EXCEPT ![t] = NoIno]
    /\ PutThen(t, <<file[t]>>, "end")
    /\ UNCHANGED <<diskvars, cachevars, cwd, call, path, ip, dp, put, panicked>>

Chdir(t) ==
    /\ At(t, "found") /\ call[t].name = "chdir"
    /\ CanLock(ip[t])
    /\ inode' = [inode EXCEPT ![ip[t]] = Loaded(ip[t])]
    /\ IF Loaded(ip[t]).type # "dir"
       THEN PutThen(t, <<ip[t]>>, "end") /\ UNCHANGED cwd
       ELSE cwd' = [cwd EXCEPT ![t] = ip[t]] /\ PutThen(t, <<cwd[t]>>, "end")
    /\ UNCHANGED <<diskvars, ref, lock, file, call, path, ip, dp, put, panicked>>

-----------------------------------------------------------------------------
(* create(), for open with O_CREATE, mkdir and mknod.                      *)

Creates == {"create", "mkdir", "mknod"}
TypeOf(t) == CASE call[t].name = "mkdir" -> "dir" [] call[t].name = "mknod" -> "dev"
               [] OTHER -> "file"

\* The name is in use: dp is given up before ip is locked.
CreateExists(t) ==
    /\ At(t, "parent") /\ call[t].name \in Creates
    /\ CanLock(dp[t])
    /\ LET i == Lookup(dp[t], Head(path[t]))
       IN  /\ i # NoIno
           /\ ref' = [ref EXCEPT ![i] = @ + 1]
           /\ ip' = [ip EXCEPT ![t] = i]
    /\ inode' = [inode EXCEPT ![dp[t]] = Loaded(dp[t])]
    /\ PutThen(t, <<dp[t]>>, "exists")
    /\ UNCHANGED <<diskvars, lock, cwd, file, call, path, dp, put, panicked>>

Exists(t) ==
    /\ At(t, "exists") /\ CanLock(ip[t])
    /\ inode' = [inode EXCEPT ![ip[t]] = Loaded(ip[t])]
    /\ IF TypeOf(t) = "file" /\ Loaded(ip[t]).type = "file"
       THEN lock' = [lock EXCEPT ![ip[t]] = t] /\ Goto(t, "made") /\ Stays
       ELSE PutThen(t, <<ip[t]>>, "end") /\ UNCHANGED lock
    /\ UNCHANGED <<diskvars, ref, cwd, file, call, path, ip, dp, put, panicked>>

FreeInodes == {i \in Ino : dinode[i].type = "free"}

\* The name is new: ialloc() takes the first free inode and refers to it.
CreateAlloc(t) ==
    /\ At(t, "parent") /\ call[t].name \in Creates
    /\ CanLock(dp[t])
    /\ Lookup(dp[t], Head(path[t])) = NoIno
    /\ lock' = [lock EXCEPT ![dp[t]] = t]
    /\ inode' = [inode EXCEPT ![dp[t]] = Loaded(dp[t])]
    /\ \E i \in FreeInodes :
          /\ \A j \in FreeInodes : i <= j
          /\ dinode' = [dinode EXCEPT ![i] = [type |-> TypeOf(t), nlink |-> 0]]
          /\ ref' = [ref EXCEPT ![i] = @ + 1]
          /\ ip' = [ip EXCEPT ![t] = i]
    /\ Goto(t, "new") /\ Stays
    /\ UNCHANGED <<ents, cwd, file, call, path, dp, put, panicked>>

\* "ialloc: no inodes".
IallocPanic(t) ==
    /\ At(t, "parent") /\ call[t].name \in Creates
    /\ CanLock(dp[t])
    /\ Lookup(dp[t], Head(path[t])) = NoIno /\ FreeInodes = {}
    /\ panicked' = TRUE
    /\ UNCHANGED <<diskvars, cachevars, procvars, todo, put>>

\* The new inode gets its link, its "." and ".." and its entry in dp.
CreateLink(t) ==
    /\ At(t, "new") /\ CanLock(ip[t])
    /\ LET i == ip[t]
           d == dp[t]
           up == IF TypeOf(t) = "dir" THEN inode[d].nlink + 1 ELSE inode[d].nlink
       IN  /\ inode' = WithLinks(WithLinks([inode EXCEPT ![i] = Loaded(i)], i, 1), d, up)
           /\ dinode' = WithLinks(WithLinks(dinode, i, 1), d, up)
           /\ ents' = [ents EXCEPT ![d][Head(path[t])] = i,
                                   ![i]["."] = IF TypeOf(t) = "dir" THEN i ELSE NoIno,
                                   ![i][".."] = IF TypeOf(t) = "dir" THEN d ELSE NoIno]
           /\ lock' = [lock EXCEPT ![i] = t, ![d] = NoThread]
           /\ PutThen(t, <<d>>, "made")
    /\ UNCHANGED <<ref, cwd, file, call, path, ip, dp, put, panicked>>

\* create() has returned ip, locked: sys_open() opens it, the others drop it.
Made(t) ==
    /\ At(t, "made")
    /\ lock' = [lock EXCEPT ![ip[t]] = NoThread]
    /\ IF call[t].name = "create" /\ file[t] = NoIno
       THEN file' = [file EXCEPT ![t] = ip[t]] /\ Goto(t, "end") /\ Stays
       ELSE PutThen(t, <<ip[t]>>, "end") /\ UNCHANGED file
    /\ UNCHANGED <<diskvars, inode, ref, cwd, call, path, ip, dp, put, panicked>>

-----------------------------------------------------------------------------
(* sys_link().                                                             *)

\* Mutant: the link is not counted.
LinkOldUncounted(t) ==
    /\ At(t, "found") /\ call[t].name = "link"
    /\ CanLock(ip[t])
    /\ LET i == ip[t]
           s == Start(t, call[t].new)
           n == Loaded(i).nlink
       IN  \/ /\ Loaded(i).type = "dir"
              /\ inode' = [inode EXCEPT ![i] = Loaded(i)]
              /\ PutThen(t, <<i>>, "end")
              /\ UNCHANGED <<dinode, ref, dp, path>>
           \/ /\ Loaded(i).type # "dir"
              /\ inode' = WithLinks([inode EXCEPT ![i] = Loaded(i)], i, n)
              /\ dinode' = WithLinks(dinode, i, n)
              /\ ref' = [ref EXCEPT ![s] = @ + 1]
              /\ dp' = [dp EXCEPT ![t] = s]
              /\ path' = [path EXCEPT ![t] = Rest(call[t].new)]
              /\ IF Rest(call[t].new) = <<>> THEN PutThen(t, <<s>>, "bad")
                 ELSE Goto(t, "nameiparent") /\ Stays
    /\ UNCHANGED <<ents, lock, cwd, file, call, ip, put, panicked>>

\* The link is counted before there is an entry; then nameiparent(new).
LinkOld(t) ==
    /\ At(t, "found") /\ call[t].name = "link"
    /\ CanLock(ip[t])
    /\ LET i == ip[t]
           s == Start(t, call[t].new)
           n == Loaded(i).nlink + 1
       IN  \/ /\ Loaded(i).type = "dir"
              /\ inode' = [inode EXCEPT ![i] = Loaded(i)]
              /\ PutThen(t, <<i>>, "end")
              /\ UNCHANGED <<dinode, ref, dp, path>>
           \/ /\ Loaded(i).type # "dir"
              /\ inode' = WithLinks([inode EXCEPT ![i] = Loaded(i)], i, n)
              /\ dinode' = WithLinks(dinode, i, n)
              /\ ref' = [ref EXCEPT ![s] = @ + 1]
              /\ dp' = [dp EXCEPT ![t] = s]
              /\ path' = [path EXCEPT ![t] = Rest(call[t].new)]
              /\ IF Rest(call[t].new) = <<>> THEN PutThen(t, <<s>>, "bad")
                 ELSE Goto(t, "nameiparent") /\ Stays
    /\ UNCHANGED <<ents, lock, cwd, file, call, ip, put, panicked>>

\* dirlink() adds the entry, or finds the name in use and drops the inode it
\* names while dp is locked.
LinkNew(t) ==
    /\ At(t, "parent") /\ call[t].name = "link"
    /\ CanLock(dp[t])
    /\ inode' = [inode EXCEPT ![dp[t]] = Loaded(dp[t])]
    /\ LET d == dp[t]
           n == Head(path[t])
           e == Lookup(d, n)
       IN  \/ /\ e = NoIno
              /\ ents' = [ents EXCEPT ![d][n] = ip[t]]
              /\ PutThen(t, <<d, ip[t]>>, "end")
              /\ UNCHANGED <<ref, lock>>
           \/ /\ e # NoIno
              /\ ref' = [ref EXCEPT ![e] = @ + 1]
              /\ lock' = [lock EXCEPT ![d] = t]
              /\ PutThen(t, <<e>>, "taken")
              /\ UNCHANGED ents
    /\ UNCHANGED <<dinode, cwd, file, call, path, ip, dp, put, panicked>>

LinkTaken(t) ==
    /\ At(t, "taken")
    /\ lock' = [lock EXCEPT ![dp[t]] = NoThread]
    /\ PutThen(t, <<dp[t]>>, "bad")
    /\ UNCHANGED <<diskvars, inode, ref, cwd, file, call, path, ip, dp, put, panicked>>

LinkBad(t) ==
    /\ At(t, "bad") /\ CanLock(ip[t])
    /\ LET i == ip[t]
           n == Loaded(i).nlink - 1
       IN  /\ inode' = WithLinks([inode EXCEPT ![i] = Loaded(i)], i, n)
           /\ dinode' = WithLinks(dinode, i, n)
           /\ PutThen(t, <<i>>, "end")
    /\ UNCHANGED <<ents, ref, lock, cwd, file, call, path, ip, dp, put, panicked>>

-----------------------------------------------------------------------------
(* sys_unlink().                                                           *)

\* With dp locked the name is looked up; "." and ".." are refused.
UnlinkFind(t) ==
    /\ At(t, "parent") /\ call[t].name = "unlink"
    /\ CanLock(dp[t])
    /\ inode' = [inode EXCEPT ![dp[t]] = Loaded(dp[t])]
    /\ LET n == Head(path[t])
           e == Lookup(dp[t], n)
       IN  \/ /\ n \in {".", ".."} \/ e = NoIno
              /\ PutThen(t, <<dp[t]>>, "end")
              /\ UNCHANGED <<ref, ip, lock>>
           \/ /\ n \notin {".", ".."} /\ e # NoIno
              /\ lock' = [lock EXCEPT ![dp[t]] = t]
              /\ ref' = [ref EXCEPT ![e] = @ + 1]
              /\ ip' = [ip EXCEPT ![t] = e]
              /\ Goto(t, "child") /\ Stays
    /\ UNCHANGED <<diskvars, cwd, file, call, path, dp, put, panicked>>

IsDirEmpty(i) == \A n \in Name : ents[i][n] = NoIno

\* With dp and ip locked the entry is erased and dp released; a directory
\* also gives back the link of its "..".  An inode without a link is a panic.
UnlinkErase(t) ==
    /\ At(t, "child") /\ CanLock(ip[t])
    /\ LET i == ip[t]
           d == dp[t]
           isdir == Loaded(i).type = "dir"
           up == IF isdir THEN inode[d].nlink - 1 ELSE inode[d].nlink
           loaded == [inode EXCEPT ![i] = Loaded(i)]
       IN  \/ /\ Loaded(i).nlink < 1
              /\ panicked' = TRUE
              /\ UNCHANGED <<diskvars, inode, lock, pc, todo>>
           \/ /\ Loaded(i).nlink >= 1 /\ isdir /\ ~IsDirEmpty(i)
              /\ inode' = loaded
              /\ PutThen(t, <<i>>, "notempty")
              /\ UNCHANGED <<diskvars, lock, panicked>>
           \/ /\ Loaded(i).nlink >= 1 /\ (~isdir \/ IsDirEmpty(i))
              /\ ents' = [ents EXCEPT ![d][Head(path[t])] = NoIno]
              /\ inode' = WithLinks(loaded, d, up)
              /\ dinode' = WithLinks(dinode, d, up)
              /\ lock' = [lock EXCEPT ![d] = NoThread, ![i] = t]
              /\ PutThen(t, <<d>>, "unlinked")
              /\ UNCHANGED panicked
    /\ UNCHANGED <<ref, cwd, file, call, path, ip, dp, put>>

UnlinkNotEmpty(t) ==
    /\ At(t, "notempty")
    /\ lock' = [lock EXCEPT ![dp[t]] = NoThread]
    /\ PutThen(t, <<dp[t]>>, "end")
    /\ UNCHANGED <<diskvars, inode, ref, cwd, file, call, path, ip, dp, put, panicked>>

\* ... and the inode loses the link.
UnlinkCount(t) ==
    /\ At(t, "unlinked")
    /\ LET i == ip[t]
       IN  /\ inode' = WithLinks(inode, i, inode[i].nlink - 1)
           /\ dinode' = WithLinks(dinode, i, inode[i].nlink - 1)
           /\ lock' = [lock EXCEPT ![i] = NoThread]
           /\ PutThen(t, <<i>>, "end")
    /\ UNCHANGED <<ents, ref, cwd, file, call, path, ip, dp, put, panicked>>

\* The call returns: its local variables are gone.
Return(t) ==
    /\ At(t, "end")
    /\ call' = [call EXCEPT ![t] = NoCall]
    /\ path' = [path EXCEPT ![t] = <<>>]
    /\ ip' = [ip EXCEPT ![t] = NoIno]
    /\ dp' = [dp EXCEPT ![t] = NoIno]
    /\ Goto(t, "idle")
    /\ UNCHANGED <<diskvars, cachevars, cwd, file, todo, put, panicked>>

-----------------------------------------------------------------------------
\* mkfs has made the root directory; every process is in it.
Init ==
    /\ dinode = [i \in Ino |-> IF i = Root THEN [type |-> "dir", nlink |-> 1]
                               ELSE [type |-> "free", nlink |-> 0]]
    /\ ents = [i \in Ino |-> [n \in Entry |-> IF i = Root /\ n \notin Name
                                              THEN Root ELSE NoIno]]
    /\ inode = [i \in Ino |-> Blank]
    /\ ref = [i \in Ino |-> IF i = Root THEN Cardinality(Thread) ELSE 0]
    /\ lock = [i \in Ino |-> NoThread]
    /\ cwd = [t \in Thread |-> Root]
    /\ file = [t \in Thread |-> NoIno]
    /\ call = [t \in Thread |-> NoCall]
    /\ path = [t \in Thread |-> <<>>]
    /\ ip = [t \in Thread |-> NoIno] /\ dp = [t \in Thread |-> NoIno]
    /\ pc = [t \in Thread |-> "idle"]
    /\ todo = [t \in Thread |-> <<>>]
    /\ put = [t \in Thread |-> "test"]
    /\ panicked = FALSE

Iput(t) == PutTest(t) \/ PutTrunc(t) \/ PutClear(t) \/ PutDrop(t)

Namex(t)  == Walk(t) \/ WalkParent(t) \/ IlockPanic(t)
Opening(t) == Open(t) \/ Chdir(t) \/ Close(t)
Create(t) ==
    \/ CreateExists(t) \/ Exists(t) \/ CreateAlloc(t) \/ IallocPanic(t)
    \/ CreateLink(t) \/ Made(t)
Link(t)   == LinkOld(t) \/ LinkNew(t) \/ LinkTaken(t) \/ LinkBad(t)
Unlink(t) ==
    \/ UnlinkFind(t) \/ UnlinkErase(t) \/ UnlinkNotEmpty(t) \/ UnlinkCount(t)

Next ==
    \E t \in Thread :
       \/ \E c \in Calls[t] : Call(t, c)
       \/ Namex(t) \/ Iput(t)
       \/ Opening(t) \/ Create(t) \/ Link(t) \/ Unlink(t)
       \/ Return(t)

Spec == Init /\ [][Next]_vars

-----------------------------------------------------------------------------
TypeOK ==
    /\ dinode \in [Ino -> [type : Type, nlink : Int]]
    /\ ents \in [Ino -> [Entry -> Ino \cup {NoIno}]]
    /\ inode \in [Ino -> [valid : BOOLEAN, type : Type, nlink : Int]]
    /\ ref \in [Ino -> Nat]
    /\ lock \in [Ino -> Thread \cup {NoThread}]
    /\ cwd \in [Thread -> Ino]
    /\ file \in [Thread -> Ino \cup {NoIno}]
    /\ \A t \in Thread : call[t] \in Calls[t] \cup {NoCall}
    /\ path \in [Thread -> Seq(Entry)]
    /\ ip \in [Thread -> Ino \cup {NoIno}] /\ dp \in [Thread -> Ino \cup {NoIno}]
    /\ pc \in [Thread -> PC]
    /\ todo \in [Thread -> Seq(Ino)]
    /\ put \in [Thread -> {"test", "trunc", "clear", "drop"}]
    /\ panicked \in BOOLEAN

\* Whether the variables of the system call are references.
HoldsIp(t) ==
    \/ pc[t] \in {"namei", "found", "exists", "new", "made", "child", "unlinked", "bad"}
    \/ pc[t] \in {"nameiparent", "parent", "taken"} /\ call[t].name = "link"
HoldsDp(t) == pc[t] \in {"nameiparent", "parent", "new", "child", "notempty", "taken"}

\* The references of a process: current directory, open file, variables of the
\* system call, and the inodes, two at most, that it is about to drop.
Slot == {"cwd", "file", "ip", "dp", "first", "last"}
Pointer(t, s) ==
    CASE s = "cwd" -> cwd[t]
      [] s = "file" -> file[t]
      [] s = "ip" -> IF HoldsIp(t) THEN ip[t] ELSE NoIno
      [] s = "dp" -> IF HoldsDp(t) THEN dp[t] ELSE NoIno
      [] s = "first" -> IF Len(todo[t]) > 1 THEN todo[t][1] ELSE NoIno
      [] s = "last" -> IF todo[t] # <<>> THEN todo[t][Len(todo[t])] ELSE NoIno

\* ip->ref "tracks the number of in-memory pointers to the entry" (fs.c), on
\* every path through the system calls, failing ones included.
RefExact ==
    \A i \in Ino : ref[i] = Cardinality({x \in Thread \X Slot : Pointer(x[1], x[2]) = i})

\* The entries that name i, "." and ".." apart, and those of i that name a
\* directory.
Names(i) == {e \in Ino \X Name : ents[e[1]][e[2]] = i}
Subdirs(i) ==
    {e \in {i} \X Name : /\ ents[e[1]][e[2]] # NoIno
                         /\ dinode[ents[e[1]][e[2]]].type = "dir"}

\* nlink is the "Number of links to inode in file system" (fs.h): at every
\* moment it counts at least the entries that name the inode and, for a
\* directory, its subdirectories, so that no entry outlives its inode.  It
\* fails for a program that follows the ".." of a removed directory.
LinksCovered ==
    \A i \in Ino :
       /\ Cardinality(Names(i)) + Cardinality(Subdirs(i)) <= dinode[i].nlink
       /\ Names(i) # {} => dinode[i].type # "free"

\* Nobody works in or on an inode that iput() has freed.
NotFreedInUse ==
    \A t \in Thread :
       /\ dinode[cwd[t]].type = "dir"
       /\ file[t] # NoIno => dinode[file[t]].type # "free"

\* The names form a tree: a directory has one name, and its ".." is the
\* directory which holds that name.
IsTree ==
    \A d \in Ino : dinode[d].type = "dir" =>
       \A e, f \in Names(d) : e = f /\ ents[d][".."] = e[1]

\* Links and tree together, what create(), sys_link() and sys_unlink() keep up
\* while they hold one or two of the inodes.
TreeSound == LinksCovered /\ IsTree

\* iput(): "If that was the last reference and the inode has no links to it,
\* free the inode (and its content) on disk."  Two overlapping calls refute
\* this (README, "What the code does not guarantee"); no run relies on it.
LastPutFrees ==
    \A i \in Ino : dinode[i].type # "free" /\ dinode[i].nlink = 0 => ref[i] > 0

\* A process waits for a lock that it holds itself, or two processes wait for
\* each other.
WaitsFor(t, u) == Wants(t) # NoIno /\ lock[Wants(t)] = u
Stuck(t) == WaitsFor(t, t) \/ \E u \in Thread : WaitsFor(t, u) /\ WaitsFor(u, t)

\* The separation of iget() and ilock() "also helps avoid deadlock and races
\* during pathname lookup" (fs.c): no process is stuck.
NoDeadlock == \A t \in Thread : ~Stuck(t)
=============================================================================
