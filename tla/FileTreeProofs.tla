--------------------------- MODULE FileTreeProofs ---------------------------
(***************************************************************************)
(* Proofs about the inode layer, for any number of processes, inodes and   *)
(* names and any system calls: the reference counts are exact and nobody   *)
(* uses an inode that iput() has freed.  For programs that do not use ".." *)
(* the link counts cover the entries and the directories form a tree.      *)
(***************************************************************************)
EXTENDS FileTree, FiniteSetTheorems, SequenceTheorems, TLAPS

-----------------------------------------------------------------------------
(* Counting the places that hold a value.                                  *)

Fiber(P, X, i) == {x \in X : P[x] = i}
One(v, i) == IF v = i THEN 1 ELSE 0

Num(P, X, i) == Cardinality(Fiber(P, X, i))

\* A map that changes at one place y.
Elsewhere(P, Q, X, y) == \A x \in X : x # y => Q[x] = P[x]
Shifts(P, Q, X, y, i) ==
    /\ Num(P, X, i) \in Nat /\ Num(Q, X, i) \in Nat
    /\ Num(Q, X, i) = (Num(P, X, i) + One(Q[y], i)) - One(P[y], i)

LEMMA CountOne ==
    ASSUME NEW X, IsFiniteSet(X), NEW P, NEW Q, NEW y \in X, NEW i, Elsewhere(P, Q, X, y)
    PROVE  Shifts(P, Q, X, y, i)
  <1>1. PICK A, B : A = Fiber(P, X, i) /\ B = Fiber(Q, X, i)
    OBVIOUS
  <1>2. A \subseteq X /\ B \subseteq X
    BY <1>1 DEF Fiber
  <1>3. IsFiniteSet(A) /\ IsFiniteSet(B)
    BY <1>2, FS_Subset
  <1>4. Cardinality(A) \in Nat /\ Cardinality(B) \in Nat
    BY <1>3, FS_CardinalityType
  <1>5. \A x \in X : x # y => (x \in A <=> x \in B)
    BY <1>1 DEF Fiber, Elsewhere
  <1>6. y \in A <=> P[y] = i
    BY <1>1 DEF Fiber
  <1>7. y \in B <=> Q[y] = i
    BY <1>1 DEF Fiber
  <1>8. CASE y \in A /\ y \notin B
    <2>1. B = A \ {y}
      BY <1>2, <1>5, <1>8
    <2>2. Cardinality(B) = Cardinality(A) - 1
      BY <1>3, <1>8, <2>1, FS_RemoveElement
    <2> QED BY <1>1, <1>4, <1>6, <1>7, <1>8, <2>2 DEF One, Shifts, Num
  <1>9. CASE y \notin A /\ y \in B
    <2>1. B = A \cup {y}
      BY <1>2, <1>5, <1>9
    <2>2. Cardinality(B) = Cardinality(A) + 1
      BY <1>3, <1>9, <2>1, FS_AddElement
    <2> QED BY <1>1, <1>4, <1>6, <1>7, <1>9, <2>2 DEF One, Shifts, Num
  <1>10. CASE y \in A <=> y \in B
    <2>1. B = A
      BY <1>2, <1>5, <1>10
    <2> QED BY <1>1, <1>4, <1>6, <1>7, <1>10, <2>1 DEF One, Shifts, Num
  <1> QED BY <1>8, <1>9, <1>10

\* Two places, and three, with the same value count twice.
LEMMA CountTwo ==
    ASSUME NEW X, IsFiniteSet(X), NEW P, NEW x \in X, NEW y \in X, NEW i, P[x] = i
    PROVE  /\ Num(P, X, i) >= 1
           /\ x # y /\ P[y] = i => Num(P, X, i) >= 2
  <1>1. PICK A : A = Fiber(P, X, i)
    OBVIOUS
  <1>2. A \subseteq X /\ x \in A /\ (P[y] = i => y \in A)
    BY <1>1 DEF Fiber
  <1>3. IsFiniteSet(A) /\ Cardinality(A) \in Nat
    BY <1>2, FS_Subset, FS_CardinalityType
  <1>4. IsFiniteSet(A \ {x}) /\ Cardinality(A \ {x}) = Cardinality(A) - 1
    BY <1>2, <1>3, FS_RemoveElement
  <1>5. Cardinality(A \ {x}) \in Nat
    BY <1>4, FS_CardinalityType
  <1>6. ASSUME x # y, P[y] = i PROVE Cardinality(A) >= 2
    <2>1. y \in A \ {x}
      BY <1>2, <1>6
    <2>2. Cardinality((A \ {x}) \ {y}) = Cardinality(A \ {x}) - 1 /\ IsFiniteSet((A \ {x}) \ {y})
      BY <1>4, <2>1, FS_RemoveElement
    <2>3. Cardinality((A \ {x}) \ {y}) \in Nat
      BY <2>2, FS_CardinalityType
    <2> QED BY <1>3, <1>4, <1>5, <2>2, <2>3
  <1> QED BY <1>1, <1>3, <1>4, <1>5, <1>6 DEF Num

\* A map that changes at six places.
Mix(P, Q, X, S) == [x \in X |-> IF x \in S THEN Q[x] ELSE P[x]]
MixCount(P, Q, X, S, i) == Num(Mix(P, Q, X, S), X, i)
MixStep(P, Q, X, S, T, y, i) ==
    /\ MixCount(P, Q, X, S, i) \in Nat
    /\ MixCount(P, Q, X, T, i) = (MixCount(P, Q, X, S, i) + One(Q[y], i)) - One(P[y], i)

LEMMA CountMix ==
    ASSUME NEW X, IsFiniteSet(X), NEW P, NEW Q, NEW S, NEW T, NEW y \in X, y \notin S,
           T = S \cup {y}, NEW i
    PROVE  MixStep(P, Q, X, S, T, y, i)
  <1>1. PICK M, N : M = Mix(P, Q, X, S) /\ N = Mix(P, Q, X, T)
    OBVIOUS
  <1>2. Elsewhere(M, N, X, y)
    BY <1>1 DEF Mix, Elsewhere
  <1>3. M[y] = P[y] /\ N[y] = Q[y]
    BY <1>1 DEF Mix
  <1>4. Shifts(M, N, X, y, i)
    BY <1>2, CountOne
  <1>5. MixCount(P, Q, X, S, i) = Num(M, X, i) /\ MixCount(P, Q, X, T, i) = Num(N, X, i)
    BY <1>1 DEF MixCount
  <1> QED BY <1>3, <1>4, <1>5 DEF Shifts, MixStep

Distinct(a, b, c, d, e, f) ==
    /\ a # b /\ a # c /\ a # d /\ a # e /\ a # f /\ b # c /\ b # d /\ b # e /\ b # f
    /\ c # d /\ c # e /\ c # f /\ d # e /\ d # f /\ e # f
SixApart(P, Q, X, a, b, c, d, e, f) == \A x \in X : x \notin {a, b, c, d, e, f} => Q[x] = P[x]
Sum(P, i, a, b, c, d, e, f) ==
    ((((One(P[a], i) + One(P[b], i)) + One(P[c], i)) + One(P[d], i)) + One(P[e], i)) + One(P[f], i)
SixShift(P, Q, X, i, a, b, c, d, e, f) ==
    Num(Q, X, i) = (Num(P, X, i) + Sum(Q, i, a, b, c, d, e, f)) - Sum(P, i, a, b, c, d, e, f)

LEMMA CountSix ==
    ASSUME NEW X, IsFiniteSet(X), NEW P, NEW Q, NEW i,
           NEW a \in X, NEW b \in X, NEW c \in X, NEW d \in X, NEW e \in X, NEW f \in X,
           Distinct(a, b, c, d, e, f), SixApart(P, Q, X, a, b, c, d, e, f)
    PROVE  SixShift(P, Q, X, i, a, b, c, d, e, f)
  <1> DEFINE N(S) == MixCount(P, Q, X, S, i)
  <1>1. PICK S1, S2, S3, S4, S5, S6 :
           /\ S1 = {} \cup {a} /\ S2 = S1 \cup {b} /\ S3 = S2 \cup {c}
           /\ S4 = S3 \cup {d} /\ S5 = S4 \cup {e} /\ S6 = S5 \cup {f}
    OBVIOUS
  <1>2. a \notin {} /\ b \notin S1 /\ c \notin S2 /\ d \notin S3 /\ e \notin S4 /\ f \notin S5
    BY <1>1 DEF Distinct
  <1>3. MixStep(P, Q, X, {}, S1, a, i)
    BY <1>1, <1>2, CountMix
  <1>4. MixStep(P, Q, X, S1, S2, b, i)
    BY <1>1, <1>2, CountMix
  <1>5. MixStep(P, Q, X, S2, S3, c, i)
    BY <1>1, <1>2, CountMix
  <1>6. MixStep(P, Q, X, S3, S4, d, i)
    BY <1>1, <1>2, CountMix
  <1>7. MixStep(P, Q, X, S4, S5, e, i)
    BY <1>1, <1>2, CountMix
  <1>8. MixStep(P, Q, X, S5, S6, f, i)
    BY <1>1, <1>2, CountMix
  <1>9. N({}) = Num(P, X, i)
    BY DEF Fiber, Mix, MixCount, Num
  <1>10. N(S6) = Num(Q, X, i)
    <2>1. \A x \in X : Mix(P, Q, X, S6)[x] = Q[x]
      BY <1>1 DEF Mix, SixApart
    <2> QED BY <2>1 DEF Fiber, MixCount, Num
  <1>11. \A v : One(v, i) \in Nat
    BY DEF One
  <1> HIDE DEF N
  <1>12. /\ N({}) \in Nat /\ N(S1) \in Nat /\ N(S2) \in Nat /\ N(S3) \in Nat /\ N(S4) \in Nat
         /\ N(S5) \in Nat
         /\ N(S1) = (N({}) + One(Q[a], i)) - One(P[a], i)
         /\ N(S2) = (N(S1) + One(Q[b], i)) - One(P[b], i)
         /\ N(S3) = (N(S2) + One(Q[c], i)) - One(P[c], i)
         /\ N(S4) = (N(S3) + One(Q[d], i)) - One(P[d], i)
         /\ N(S5) = (N(S4) + One(Q[e], i)) - One(P[e], i)
         /\ N(S6) = (N(S5) + One(Q[f], i)) - One(P[f], i)
    BY <1>3, <1>4, <1>5, <1>6, <1>7, <1>8 DEF MixStep, N
  <1> QED BY <1>9, <1>10, <1>11, <1>12 DEF SixShift, Sum

-----------------------------------------------------------------------------
(* The inductive invariant.  TreeInv holds whatever programs do.           *)

Todo == {<<>>} \cup {<<a>> : a \in Ino} \cup {<<a, b>> : a, b \in Ino}

TreeTypes ==
    /\ dinode \in [Ino -> [type : Type, nlink : Int]]
    /\ ents \in [Ino -> [Entry -> Ino \cup {NoIno}]]
    /\ inode \in [Ino -> [valid : BOOLEAN, type : Type, nlink : Int]]
    /\ ref \in [Ino -> Int]
    /\ lock \in [Ino -> Thread \cup {NoThread}]
    /\ cwd \in [Thread -> Ino]
    /\ file \in [Thread -> Ino \cup {NoIno}]
    /\ call = [t \in Thread |-> call[t]]
    /\ path \in [Thread -> Seq(Entry)]
    /\ ip \in [Thread -> Ino \cup {NoIno}] /\ dp \in [Thread -> Ino \cup {NoIno}]
    /\ pc \in [Thread -> PC]
    /\ todo \in [Thread -> Todo]
    /\ put \in [Thread -> {"test", "trunc", "clear", "drop"}]
    /\ panicked \in BOOLEAN

\* The inodes that t has locked, for the system call and in iput().
PcLock(t) ==
    CASE pc[t] \in {"new", "child", "notempty", "taken"} -> dp[t]
      [] pc[t] \in {"made", "unlinked"} -> ip[t]
      [] OTHER -> NoIno
PutLock(t) == IF put[t] \in {"trunc", "clear"} THEN Head(todo[t]) ELSE NoIno

\* What the variables of a process are.
ThreadOK(t) ==
    /\ call[t] \in Calls[t] \cup {NoCall}
    /\ HoldsIp(t) => ip[t] # NoIno
    /\ pc[t] = "taken" => call[t].name = "link"
    /\ HoldsDp(t) => dp[t] # NoIno
    /\ pc[t] \in {"namei", "nameiparent", "parent", "new", "child"} => path[t] # <<>>
    /\ put[t] # "test" => todo[t] # <<>>
    /\ PcLock(t) # NoIno => lock[PcLock(t)] = t /\ PcLock(t) # PutLock(t)
    /\ PutLock(t) # NoIno => lock[PutLock(t)] = t

\* An inode in the cache is what is on the disk, unless iput() has freed it.
CacheOK(i) ==
    inode[i].valid =>
       \/ inode[i].type = dinode[i].type /\ inode[i].nlink = dinode[i].nlink
          /\ inode[i].type # "free"
       \/ \E t \in Thread : put[t] = "clear" /\ PutLock(t) = i

\* An inode that is used is not free and iput() is not about to free it.
UseOK(t) ==
    /\ dinode[cwd[t]].type = "dir"
    /\ file[t] # NoIno => dinode[file[t]].type # "free"
    /\ pc[t] = "made" => dinode[ip[t]].type # "free"
    /\ put[t] = "trunc" => \A u \in Thread : PutLock(t) \notin {cwd[u], file[u]}

TreeInv ==
    /\ TreeTypes /\ RefExact
    /\ \A t \in Thread : ThreadOK(t) /\ UseOK(t)
    /\ \A i \in Ino : CacheOK(i)

-----------------------------------------------------------------------------
(* References.                                                             *)

PtrMap == [x \in Thread \X Slot |-> Pointer(x[1], x[2])]
Here(t, i) ==
    ((((One(Pointer(t, "cwd"), i) + One(Pointer(t, "file"), i)) + One(Pointer(t, "ip"), i))
      + One(Pointer(t, "dp"), i)) + One(Pointer(t, "first"), i)) + One(Pointer(t, "last"), i)

LEMMA PlacesFinite == IsFiniteSet(Thread \X Slot)
  <1>1. IsFiniteSet(Slot)
    <2>1. \A S, x : IsFiniteSet(S) => IsFiniteSet(S \cup {x})
      BY FS_AddElement
    <2>2. Slot = ((((({} \cup {"cwd"}) \cup {"file"}) \cup {"ip"}) \cup {"dp"}) \cup {"first"}) \cup {"last"}
      BY DEF Slot
    <2>3. IsFiniteSet((({} \cup {"cwd"}) \cup {"file"}) \cup {"ip"})
      BY <2>1, FS_EmptySet, Zenon
    <2> QED BY <2>1, <2>2, <2>3, Zenon
  <1> QED BY <1>1, FS_Product, FileTreeAssumption

LEMMA RefIs == RefExact <=> \A i \in Ino : ref[i] = Num(PtrMap, Thread \X Slot, i)
  <1>1. ASSUME NEW i
        PROVE  {x \in Thread \X Slot : Pointer(x[1], x[2]) = i} = Fiber(PtrMap, Thread \X Slot, i)
    BY DEF Fiber, PtrMap
  <1> QED BY <1>1 DEF RefExact, Num

\* A step of t changes the count by what t's own references change.
LEMMA RefStep ==
    ASSUME RefExact, NEW t \in Thread,
           \A u \in Thread, s \in Slot : u # t => Pointer(u, s)' = Pointer(u, s),
           \A i \in Ino : ref'[i] = (ref[i] + Here(t, i)') - Here(t, i)
    PROVE  RefExact'
  <1>0. RefExact' <=> (\A i \in Ino : ref[i] = Num(PtrMap, Thread \X Slot, i))'
    BY RefIs, PTL
  <1>1. SUFFICES ASSUME NEW i \in Ino PROVE ref'[i] = Num(PtrMap, Thread \X Slot, i)'
    BY <1>0
  <1>2. PICK X : X = Thread \X Slot
    OBVIOUS
  <1>3. PICK P : P = PtrMap
    OBVIOUS
  <1>4. PICK Q : Q = PtrMap'
    OBVIOUS
  <1>5. PICK a, b, c, d, e, f :
           /\ a = <<t, "cwd">> /\ b = <<t, "file">> /\ c = <<t, "ip">>
           /\ d = <<t, "dp">> /\ e = <<t, "first">> /\ f = <<t, "last">>
    OBVIOUS
  <1>6. a \in X /\ b \in X /\ c \in X /\ d \in X /\ e \in X /\ f \in X
    BY <1>2, <1>5 DEF Slot
  <1>7. Distinct(a, b, c, d, e, f)
    BY <1>5 DEF Distinct
  <1>8. SixApart(P, Q, X, a, b, c, d, e, f)
    <2>1. SUFFICES ASSUME NEW x \in X, x \notin {a, b, c, d, e, f} PROVE Q[x] = P[x]
      BY DEF SixApart
    <2>2. PICK u \in Thread, s \in Slot : x = <<u, s>>
      BY <1>2
    <2>3. u # t
      BY <1>5, <2>1, <2>2 DEF Slot
    <2>4. P[x] = Pointer(u, s)
      BY <1>2, <1>3, <2>2 DEF PtrMap
    <2>5. Q[x] = Pointer(u, s)'
      BY <1>2, <1>4, <2>2 DEF PtrMap
    <2> QED BY <2>3, <2>4, <2>5
  <1>9. SixShift(P, Q, X, i, a, b, c, d, e, f)
    <2>1. IsFiniteSet(X)
      BY <1>2, PlacesFinite
    <2> QED BY <1>6, <1>7, <1>8, <2>1, CountSix
  <1>10. /\ P[a] = Pointer(t, "cwd") /\ P[b] = Pointer(t, "file") /\ P[c] = Pointer(t, "ip")
         /\ P[d] = Pointer(t, "dp") /\ P[e] = Pointer(t, "first") /\ P[f] = Pointer(t, "last")
    BY <1>3, <1>5 DEF PtrMap, Slot
  <1>11. /\ Q[a] = Pointer(t, "cwd")' /\ Q[b] = Pointer(t, "file")' /\ Q[c] = Pointer(t, "ip")'
         /\ Q[d] = Pointer(t, "dp")' /\ Q[e] = Pointer(t, "first")' /\ Q[f] = Pointer(t, "last")'
    BY <1>4, <1>5 DEF PtrMap, Slot
  <1>12. Num(Q, X, i) = (Num(P, X, i) + Here(t, i)') - Here(t, i)
    BY <1>9, <1>10, <1>11 DEF Here, SixShift, Sum
  <1>13. ref[i] = Num(P, X, i)
    BY <1>2, <1>3, RefIs
  <1>14. Num(PtrMap, Thread \X Slot, i)' = Num(Q, X, i)
    BY <1>2, <1>4 DEF Num, Fiber
  <1> QED BY <1>12, <1>13, <1>14

\* An inode with a reference has a count, with two a higher one.
LEMMA RefAtLeast ==
    ASSUME RefExact, NEW t \in Thread, NEW s \in Slot, NEW u \in Thread, NEW r \in Slot,
           NEW i \in Ino, Pointer(t, s) = i
    PROVE  /\ ref[i] >= 1
           /\ Pointer(u, r) = i /\ ref[i] = 1 => u = t /\ r = s
  <1>1. PICK X : X = Thread \X Slot
    OBVIOUS
  <1>2. PICK P : P = PtrMap
    OBVIOUS
  <1>3. PICK x, y : x = <<t, s>> /\ y = <<u, r>>
    OBVIOUS
  <1>4. x \in X /\ y \in X /\ (x = y <=> u = t /\ r = s)
    BY <1>1, <1>3
  <1>5. P[x] = Pointer(t, s) /\ P[y] = Pointer(u, r)
    BY <1>2, <1>3 DEF PtrMap
  <1>6. ref[i] = Num(P, X, i)
    BY <1>1, <1>2, RefIs
  <1>7. IsFiniteSet(X)
    BY <1>1, PlacesFinite
  <1>8. Num(P, X, i) >= 1 /\ (x # y /\ P[y] = i => Num(P, X, i) >= 2)
    BY <1>4, <1>5, <1>7, CountTwo
  <1> QED BY <1>4, <1>5, <1>6, <1>8

-----------------------------------------------------------------------------
(* A step of one process.                                                  *)

Others(t) ==
    \A u \in Thread : u # t =>
       /\ cwd'[u] = cwd[u] /\ file'[u] = file[u] /\ call'[u] = call[u] /\ path'[u] = path[u]
       /\ ip'[u] = ip[u] /\ dp'[u] = dp[u] /\ pc'[u] = pc[u]
       /\ todo'[u] = todo[u] /\ put'[u] = put[u]

\* A lock changes hands only if it is free or t holds it.
LockFrame(t) == \A i \in Ino : lock'[i] # lock[i] => lock[i] \in {NoThread, t}

TypeFrame == \A i \in Ino : dinode[i].type # "free" => dinode'[i].type = dinode[i].type

CacheStep(i) ==
    \/ inode'[i] = inode[i] /\ (dinode'[i] = dinode[i] \/ dinode[i].type = "free")
    \/ inode'[i].valid => /\ inode'[i].type = dinode'[i].type /\ inode'[i].nlink = dinode'[i].nlink
                          /\ inode'[i].type # "free"

RefChange(t) == \A i \in Ino : ref'[i] = (ref[i] + Here(t, i)') - Here(t, i)

InUse(t) ==
    /\ dinode[cwd[t]].type = "dir"
    /\ file[t] # NoIno => dinode[file[t]].type # "free"
    /\ pc[t] = "made" => dinode[ip[t]].type # "free"

\* What t takes as its directory or file is not about to be freed.
Spared(t) == \A u \in Thread : put[u] = "trunc" => PutLock(u) \notin {cwd'[t], file'[t]}

FirstOf(s) == IF Len(s) > 1 THEN s[1] ELSE NoIno
LastOf(s) == IF s # <<>> THEN s[Len(s)] ELSE NoIno

LEMMA SeqSlots ==
    /\ FirstOf(<<>>) = NoIno /\ LastOf(<<>>) = NoIno
    /\ \A a : FirstOf(<<a>>) = NoIno /\ LastOf(<<a>>) = a /\ <<a>> # <<>> /\ Head(<<a>>) = a
              /\ Tail(<<a>>) = <<>>
    /\ \A a, b : FirstOf(<<a, b>>) = a /\ LastOf(<<a, b>>) = b /\ <<a, b>> # <<>>
                 /\ Head(<<a, b>>) = a /\ Tail(<<a, b>>) = <<b>>
  BY DEF FirstOf, LastOf

LEMMA PointerIs ==
    ASSUME NEW t
    PROVE  /\ Pointer(t, "cwd") = cwd[t] /\ Pointer(t, "file") = file[t]
           /\ Pointer(t, "ip") = IF HoldsIp(t) THEN ip[t] ELSE NoIno
           /\ Pointer(t, "dp") = IF HoldsDp(t) THEN dp[t] ELSE NoIno
           /\ Pointer(t, "first") = FirstOf(todo[t]) /\ Pointer(t, "last") = LastOf(todo[t])
  BY DEF Pointer, FirstOf, LastOf

LEMMA PointerNext ==
    ASSUME NEW t
    PROVE  /\ Pointer(t, "cwd")' = cwd'[t] /\ Pointer(t, "file")' = file'[t]
           /\ Pointer(t, "ip")' = IF HoldsIp(t)' THEN ip'[t] ELSE NoIno
           /\ Pointer(t, "dp")' = IF HoldsDp(t)' THEN dp'[t] ELSE NoIno
           /\ Pointer(t, "first")' = FirstOf(todo'[t]) /\ Pointer(t, "last")' = LastOf(todo'[t])
  BY DEF Pointer, FirstOf, LastOf

LEMMA OthersSame ==
    ASSUME NEW t \in Thread, Others(t), NEW u \in Thread, u # t
    PROVE  /\ \A s \in Slot : Pointer(u, s)' = Pointer(u, s)
           /\ PcLock(u)' = PcLock(u) /\ PutLock(u)' = PutLock(u)
           /\ HoldsIp(u)' = HoldsIp(u) /\ HoldsDp(u)' = HoldsDp(u)
  <1>1. /\ cwd'[u] = cwd[u] /\ file'[u] = file[u] /\ call'[u] = call[u] /\ path'[u] = path[u]
        /\ ip'[u] = ip[u] /\ dp'[u] = dp[u] /\ pc'[u] = pc[u]
        /\ todo'[u] = todo[u] /\ put'[u] = put[u]
    BY DEF Others
  <1>2. HoldsIp(u)' = HoldsIp(u)
    BY <1>1 DEF HoldsIp
  <1>3. HoldsDp(u)' = HoldsDp(u)
    BY <1>1 DEF HoldsDp
  <1>4. PcLock(u)' = PcLock(u)
    BY <1>1 DEF PcLock
  <1>5. PutLock(u)' = PutLock(u)
    BY <1>1 DEF PutLock
  <1>6. ASSUME NEW s \in Slot PROVE Pointer(u, s)' = Pointer(u, s)
    BY <1>1, <1>2, <1>3, PointerIs, PointerNext DEF Slot
  <1> QED BY <1>2, <1>3, <1>4, <1>5, <1>6

\* The processes other than t keep their locks.
LEMMA OthersOK ==
    ASSUME TreeInv, NEW t \in Thread, Others(t), LockFrame(t), NEW u \in Thread, u # t
    PROVE  ThreadOK(u)'
  <1>1. /\ call'[u] = call[u] /\ path'[u] = path[u]
        /\ ip'[u] = ip[u] /\ dp'[u] = dp[u] /\ pc'[u] = pc[u]
        /\ todo'[u] = todo[u] /\ put'[u] = put[u]
    BY DEF Others
  <1>2. /\ PcLock(u)' = PcLock(u) /\ PutLock(u)' = PutLock(u)
        /\ HoldsIp(u)' = HoldsIp(u) /\ HoldsDp(u)' = HoldsDp(u)
    BY OthersSame
  <1>3. ThreadOK(u) /\ TreeTypes
    BY DEF TreeInv
  <1>4. PcLock(u) \in Ino \cup {NoIno}
    BY <1>3 DEF TreeTypes, PcLock
  <1>5. put[u] \in {"trunc", "clear"} => PutLock(u) \in Ino
    <2>1. todo[u] \in Todo
      BY <1>3 DEF TreeTypes
    <2>2. put[u] \in {"trunc", "clear"} => todo[u] # <<>>
      BY <1>3 DEF ThreadOK
    <2> QED BY <2>1, <2>2, SeqSlots DEF PutLock, Todo
  <1>6. PutLock(u) \in Ino \cup {NoIno}
    BY <1>5 DEF PutLock
  <1>7. u # NoThread
    BY FileTreeAssumption
  <1>8. PcLock(u) # NoIno => lock'[PcLock(u)] = u /\ PcLock(u) # PutLock(u)
    BY <1>3, <1>4, <1>7 DEF ThreadOK, LockFrame
  <1>9. PutLock(u) # NoIno => lock'[PutLock(u)] = u
    BY <1>3, <1>6, <1>7 DEF ThreadOK, LockFrame
  <1> QED BY <1>1, <1>2, <1>3, <1>8, <1>9 DEF ThreadOK

LEMMA PutLockIn ==
    ASSUME TreeInv, NEW u \in Thread, put[u] \in {"trunc", "clear"}
    PROVE  PutLock(u) \in Ino /\ PutLock(u) # NoIno /\ lock[PutLock(u)] = u
  <1>1. todo[u] \in Todo /\ todo[u] # <<>>
    BY DEF TreeInv, TreeTypes, ThreadOK
  <1>2. PutLock(u) \in Ino
    BY <1>1, SeqSlots DEF PutLock, Todo
  <1>3. PutLock(u) # NoIno
    BY <1>2 DEF Ino, NoIno
  <1> QED BY <1>2, <1>3 DEF TreeInv, ThreadOK

\* A step of a system call keeps the invariant if it keeps the part of t.
LEMMA Quiet ==
    ASSUME TreeInv, NEW t \in Thread, todo[t] = <<>>, Others(t), LockFrame(t), put' = put,
           TreeTypes', ThreadOK(t)', TypeFrame, \A i \in Ino : CacheStep(i),
           InUse(t)', Spared(t), RefChange(t)
    PROVE  TreeInv'
  <1>1. put[t] = "test"
    <2>1. ThreadOK(t)
      BY DEF TreeInv
    <2> QED BY <2>1 DEF ThreadOK
  <1>2. RefExact'
    <2>1. \A u \in Thread, s \in Slot : u # t => Pointer(u, s)' = Pointer(u, s)
      BY OthersSame
    <2> QED BY <2>1, RefStep DEF TreeInv, RefChange
  <1>3. ASSUME NEW u \in Thread PROVE ThreadOK(u)'
    BY OthersOK
  <1>4. ASSUME NEW i \in Ino PROVE CacheOK(i)'
    <2>1. CacheOK(i) /\ CacheStep(i)
      BY DEF TreeInv
    <2>2. ASSUME NEW u \in Thread, put[u] = "clear", PutLock(u) = i
          PROVE  put'[u] = "clear" /\ PutLock(u)' = i
      BY <1>1, <2>2, OthersSame
    <2>3. CASE inode'[i] = inode[i] /\ (dinode'[i] = dinode[i] \/ dinode[i].type = "free")
      BY <2>1, <2>2, <2>3 DEF CacheOK
    <2>4. CASE inode'[i].valid => /\ inode'[i].type = dinode'[i].type
                                  /\ inode'[i].nlink = dinode'[i].nlink /\ inode'[i].type # "free"
      BY <2>4 DEF CacheOK
    <2> QED BY <2>1, <2>3, <2>4 DEF CacheStep
  <1>5. ASSUME NEW u \in Thread PROVE UseOK(u)'
    <2>1. UseOK(u) /\ TreeTypes /\ ThreadOK(u)
      BY DEF TreeInv
    <2>2. ASSUME u # t PROVE InUse(u)'
      <3>1. cwd'[u] = cwd[u] /\ file'[u] = file[u] /\ pc'[u] = pc[u] /\ ip'[u] = ip[u]
        BY <2>2 DEF Others
      <3>2. cwd[u] \in Ino /\ (file[u] # NoIno => file[u] \in Ino)
        BY <2>1 DEF TreeTypes
      <3>3. pc[u] = "made" => ip[u] \in Ino
        BY <2>1 DEF TreeTypes, ThreadOK, HoldsIp
      <3>4. "dir" # "free"
        OBVIOUS
      <3> QED BY <2>1, <3>1, <3>2, <3>3, <3>4 DEF InUse, UseOK, TypeFrame
    <2>3. InUse(u)'
      BY <2>2
    <2>4. ASSUME put'[u] = "trunc", NEW w \in Thread PROVE PutLock(u)' \notin {cwd'[w], file'[w]}
      <3>1. u # t /\ put[u] = "trunc"
        BY <1>1, <2>4
      <3>2. PutLock(u)' = PutLock(u)
        BY <3>1, OthersSame
      <3>3. CASE w = t
        BY <3>1, <3>2, <3>3 DEF Spared
      <3>4. CASE w # t
        BY <2>1, <3>1, <3>2, <3>4 DEF Others, UseOK
      <3> QED BY <3>3, <3>4
    <2> QED BY <2>3, <2>4 DEF UseOK, InUse
  <1> QED BY <1>2, <1>3, <1>4, <1>5 DEF TreeInv

\* ilock() of a free lock gives what is on the disk.
LEMMA LoadedIs ==
    ASSUME TreeInv, NEW i \in Ino, lock[i] = NoThread
    PROVE  Loaded(i) = [valid |-> TRUE, type |-> dinode[i].type, nlink |-> dinode[i].nlink]
  <1>1. CASE ~inode[i].valid
    BY <1>1 DEF Loaded
  <1>2. CASE inode[i].valid
    <2>1. ~\E t \in Thread : put[t] = "clear" /\ PutLock(t) = i
      BY PutLockIn, FileTreeAssumption
    <2>2. CacheOK(i) /\ inode[i] \in [valid : BOOLEAN, type : Type, nlink : Int]
      BY DEF TreeInv, TreeTypes
    <2>3. inode[i].type = dinode[i].type /\ inode[i].nlink = dinode[i].nlink
      BY <1>2, <2>1, <2>2 DEF CacheOK
    <2>4. inode[i] = [valid |-> TRUE, type |-> dinode[i].type, nlink |-> dinode[i].nlink]
      BY <1>2, <2>2, <2>3
    <2> QED BY <1>2, <2>4 DEF Loaded
  <1> QED BY <1>1, <1>2

\* A process that holds a lock keeps others from freeing the inode.
LEMMA FreeLock ==
    ASSUME TreeInv, NEW i \in Ino, NEW t \in Thread, todo[t] = <<>>,
           lock[i] = NoThread \/ PcLock(t) = i
    PROVE  \A u \in Thread : put[u] \in {"trunc", "clear"} => PutLock(u) # i
  <1>1. ThreadOK(t)
    BY DEF TreeInv
  <1>2. put[t] = "test"
    BY <1>1 DEF ThreadOK
  <1>3. PcLock(t) = i => lock[i] = t
    BY <1>1 DEF ThreadOK, Ino, NoIno
  <1>4. t # NoThread
    BY FileTreeAssumption
  <1> QED BY <1>2, <1>3, <1>4, PutLockIn, FileTreeAssumption

Tot(c, f, i, d, a, b, j) ==
    ((((One(c, j) + One(f, j)) + One(i, j)) + One(d, j)) + One(a, j)) + One(b, j)
Refs(t, c, f, i, d, a, b) ==
    /\ Pointer(t, "cwd") = c /\ Pointer(t, "file") = f /\ Pointer(t, "ip") = i
    /\ Pointer(t, "dp") = d /\ Pointer(t, "first") = a /\ Pointer(t, "last") = b
RefsNext(t, c, f, i, d, a, b) ==
    /\ Pointer(t, "cwd")' = c /\ Pointer(t, "file")' = f /\ Pointer(t, "ip")' = i
    /\ Pointer(t, "dp")' = d /\ Pointer(t, "first")' = a /\ Pointer(t, "last")' = b

SameTot(c, f, i, d, a, b, c2, f2, i2, d2, a2, b2) ==
    \A j \in Ino : Tot(c2, f2, i2, d2, a2, b2, j) = Tot(c, f, i, d, a, b, j)
MoreTot(c, f, i, d, a, b, c2, f2, i2, d2, a2, b2, n) ==
    \A j \in Ino : Tot(c2, f2, i2, d2, a2, b2, j) = Tot(c, f, i, d, a, b, j) + One(n, j)

\* References that only move from one variable of t to another.
LEMMA RefsMove ==
    ASSUME TreeTypes, ref' = ref, NEW t,
           NEW c, NEW f, NEW i, NEW d, NEW a, NEW b, Refs(t, c, f, i, d, a, b),
           NEW c2, NEW f2, NEW i2, NEW d2, NEW a2, NEW b2, RefsNext(t, c2, f2, i2, d2, a2, b2),
           SameTot(c, f, i, d, a, b, c2, f2, i2, d2, a2, b2)
    PROVE  RefChange(t)
  <1>1. SUFFICES ASSUME NEW j \in Ino PROVE ref'[j] = (ref[j] + Here(t, j)') - Here(t, j)
    BY DEF RefChange
  <1>2. Here(t, j) = Tot(c, f, i, d, a, b, j)
    BY DEF Here, Tot, Refs
  <1>3. Here(t, j)' = Tot(c2, f2, i2, d2, a2, b2, j)
    BY DEF Here, Tot, RefsNext
  <1>4. Tot(c, f, i, d, a, b, j) \in Int
    BY DEF Tot, One
  <1>5. ref[j] \in Int
    BY DEF TreeTypes
  <1> QED BY <1>2, <1>3, <1>4, <1>5 DEF SameTot

\* A reference to n more.
LEMMA RefsGain ==
    ASSUME TreeTypes, NEW n \in Ino, ref' = [ref EXCEPT ![n] = @ + 1], NEW t,
           NEW c, NEW f, NEW i, NEW d, NEW a, NEW b, Refs(t, c, f, i, d, a, b),
           NEW c2, NEW f2, NEW i2, NEW d2, NEW a2, NEW b2, RefsNext(t, c2, f2, i2, d2, a2, b2),
           MoreTot(c, f, i, d, a, b, c2, f2, i2, d2, a2, b2, n)
    PROVE  RefChange(t)
  <1>1. SUFFICES ASSUME NEW j \in Ino PROVE ref'[j] = (ref[j] + Here(t, j)') - Here(t, j)
    BY DEF RefChange
  <1>2. Here(t, j) = Tot(c, f, i, d, a, b, j)
    BY DEF Here, Tot, Refs
  <1>3. Here(t, j)' = Tot(c2, f2, i2, d2, a2, b2, j)
    BY DEF Here, Tot, RefsNext
  <1>4. Tot(c, f, i, d, a, b, j) \in Int /\ One(n, j) \in Int
    BY DEF Tot, One
  <1>5. ref[j] \in Int /\ ref'[j] = ref[j] + One(n, j)
    BY DEF TreeTypes, One
  <1> QED BY <1>2, <1>3, <1>4, <1>5 DEF MoreTot

LEMMA OneNone == \A j \in Ino : One(NoIno, j) = 0
  BY DEF One, Ino, NoIno

LEMMA OneType == \A v, j : One(v, j) \in Int
  BY DEF One

\* ilock() alone.
LEMMA LoadCache ==
    ASSUME TreeInv, NEW i \in Ino, CanLock(i), inode' = [inode EXCEPT ![i] = Loaded(i)],
           dinode' = dinode
    PROVE  /\ TypeFrame /\ \A j \in Ino : CacheStep(j)
           /\ inode' \in [Ino -> [valid : BOOLEAN, type : Type, nlink : Int]]
  <1>1. TreeTypes
    BY DEF TreeInv
  <1>2. Loaded(i) = [valid |-> TRUE, type |-> dinode[i].type, nlink |-> dinode[i].nlink]
    BY LoadedIs DEF CanLock
  <1>3. Loaded(i).type # "free"
    BY DEF CanLock
  <1>4. TypeFrame
    BY DEF TypeFrame
  <1>5. dinode[i] \in [type : Type, nlink : Int]
    BY <1>1 DEF TreeTypes
  <1>6. Loaded(i) \in [valid : BOOLEAN, type : Type, nlink : Int]
    BY <1>2, <1>5
  <1>7. inode' \in [Ino -> [valid : BOOLEAN, type : Type, nlink : Int]]
    BY <1>1, <1>6 DEF TreeTypes
  <1>8. \A j \in Ino : inode'[j] = IF j = i THEN Loaded(i) ELSE inode[j]
    BY <1>1 DEF TreeTypes
  <1>9. ASSUME NEW j \in Ino PROVE CacheStep(j)
    <2>1. CASE j = i
      BY <1>2, <1>3, <1>8, <2>1 DEF CacheStep
    <2>2. CASE j # i
      BY <1>8, <2>2 DEF CacheStep
    <2> QED BY <2>1, <2>2
  <1> QED BY <1>4, <1>7, <1>9

-----------------------------------------------------------------------------
(* The steps of the system calls.  t gets new values for its variables;    *)
(* the rest is about the disk, the locks and the counts.                   *)

\* HoldsIp and HoldsDp for a call k at l, and the lock of PcLock.
IpHeld(k, l) ==
    \/ l \in {"namei", "found", "exists", "new", "made", "child", "unlinked", "bad"}
    \/ l \in {"nameiparent", "parent", "taken"} /\ k.name = "link"
DpHeld(l) == l \in {"nameiparent", "parent", "new", "child", "notempty", "taken"}
LockAt(l, i, d) ==
    CASE l \in {"new", "child", "notempty", "taken"} -> d
      [] l \in {"made", "unlinked"} -> i
      [] OTHER -> NoIno

StepTo(t, k, c, f, p, i, d, l, s) ==
    /\ call' = [call EXCEPT ![t] = k] /\ cwd' = [cwd EXCEPT ![t] = c]
    /\ file' = [file EXCEPT ![t] = f] /\ path' = [path EXCEPT ![t] = p]
    /\ ip' = [ip EXCEPT ![t] = i] /\ dp' = [dp EXCEPT ![t] = d]
    /\ pc' = [pc EXCEPT ![t] = l] /\ todo' = [todo EXCEPT ![t] = s] /\ put' = put

DiskStep ==
    /\ dinode' \in [Ino -> [type : Type, nlink : Int]]
    /\ ents' \in [Ino -> [Entry -> Ino \cup {NoIno}]]
    /\ inode' \in [Ino -> [valid : BOOLEAN, type : Type, nlink : Int]]
    /\ panicked' \in BOOLEAN
    /\ TypeFrame /\ \A i \in Ino : CacheStep(i)

LockStep(t, l, i, d) ==
    /\ lock' \in [Ino -> Thread \cup {NoThread}] /\ LockFrame(t)
    /\ LockAt(l, i, d) # NoIno => lock'[LockAt(l, i, d)] = t

\* An inode that nobody else can be about to free.
Mine(t, i) == lock[i] = NoThread \/ PcLock(t) = i

Fits(t, k, c, f, p, i, d, l, s) ==
    /\ k \in Calls[t] \cup {NoCall} /\ c \in Ino /\ f \in Ino \cup {NoIno} /\ p \in Seq(Entry)
    /\ i \in Ino \cup {NoIno} /\ d \in Ino \cup {NoIno} /\ l \in PC /\ s \in Todo
    /\ IpHeld(k, l) => i # NoIno
    /\ DpHeld(l) => d # NoIno
    /\ l \in {"namei", "nameiparent", "parent", "new", "child"} => p # <<>>
    /\ c = cwd[t] \/ (dinode'[c].type = "dir" /\ Mine(t, c))
    /\ f \in {file[t], NoIno} \/ (dinode'[f].type # "free" /\ Mine(t, f))
    /\ l = "made" => dinode'[i].type # "free"
    /\ l = "taken" => k.name = "link"

\* How much n counts more than before, n being NoIno if there is no change.
RefTo(t, k, c, f, i, d, l, s, n) ==
    /\ ref' = IF n = NoIno THEN ref ELSE [ref EXCEPT ![n] = @ + 1]
    /\ n \in Ino \cup {NoIno}
    /\ \A j \in Ino :
          Tot(c, f, IF IpHeld(k, l) THEN i ELSE NoIno, IF DpHeld(l) THEN d ELSE NoIno, FirstOf(s), LastOf(s), j)
          = Tot(cwd[t], file[t], Pointer(t, "ip"), Pointer(t, "dp"), NoIno, NoIno, j) + One(n, j)

LEMMA StepToIs ==
    ASSUME TreeTypes, NEW t \in Thread,
           NEW k, NEW c, NEW f, NEW p, NEW i, NEW d, NEW l, NEW s, StepTo(t, k, c, f, p, i, d, l, s)
    PROVE  /\ Others(t)
           /\ call'[t] = k /\ cwd'[t] = c /\ file'[t] = f /\ path'[t] = p /\ ip'[t] = i
           /\ dp'[t] = d /\ pc'[t] = l /\ todo'[t] = s /\ put'[t] = put[t]
  BY DEF Others, TreeTypes, StepTo

LEMMA StepHeld ==
    ASSUME TreeTypes, NEW t \in Thread,
           NEW k, NEW c, NEW f, NEW p, NEW i, NEW d, NEW l, NEW s, StepTo(t, k, c, f, p, i, d, l, s)
    PROVE  /\ HoldsIp(t)' = IpHeld(k, l) /\ HoldsDp(t)' = DpHeld(l) /\ PcLock(t)' = LockAt(l, i, d)
           /\ RefsNext(t, c, f, IF IpHeld(k, l) THEN i ELSE NoIno, IF DpHeld(l) THEN d ELSE NoIno,
                       FirstOf(s), LastOf(s))
  <1>1. /\ call'[t] = k /\ cwd'[t] = c /\ file'[t] = f /\ ip'[t] = i
        /\ dp'[t] = d /\ pc'[t] = l /\ todo'[t] = s
    BY StepToIs
  <1>2. HoldsIp(t)' = IpHeld(k, l)
    BY <1>1 DEF HoldsIp, IpHeld
  <1>3. HoldsDp(t)' = DpHeld(l)
    BY <1>1 DEF HoldsDp, DpHeld
  <1>4. PcLock(t)' = LockAt(l, i, d)
    BY <1>1 DEF PcLock, LockAt
  <1> QED BY <1>1, <1>2, <1>3, <1>4, PointerNext DEF RefsNext

LEMMA CallStep ==
    ASSUME TreeInv, NEW t \in Thread, todo[t] = <<>>,
           NEW k, NEW c, NEW f, NEW p, NEW i, NEW d, NEW l, NEW s, NEW n,
           StepTo(t, k, c, f, p, i, d, l, s), DiskStep, LockStep(t, l, i, d),
           Fits(t, k, c, f, p, i, d, l, s), RefTo(t, k, c, f, i, d, l, s, n)
    PROVE  TreeInv'
  <1>1. TreeTypes /\ ThreadOK(t) /\ UseOK(t)
    BY DEF TreeInv
  <1>2. /\ Others(t)
        /\ call'[t] = k /\ cwd'[t] = c /\ file'[t] = f /\ path'[t] = p /\ ip'[t] = i
        /\ dp'[t] = d /\ pc'[t] = l /\ todo'[t] = s /\ put'[t] = put[t]
    BY <1>1, StepToIs
  <1>3. put[t] = "test" /\ put' = put
    BY <1>1 DEF ThreadOK, StepTo
  <1>4. ref' \in [Ino -> Int]
    BY <1>1 DEF RefTo, TreeTypes
  <1>5. TreeTypes'
    <2>1. /\ cwd' \in [Thread -> Ino] /\ file' \in [Thread -> Ino \cup {NoIno}]
          /\ call' = [u \in Thread |-> call'[u]] /\ path' \in [Thread -> Seq(Entry)]
      BY <1>1 DEF TreeTypes, StepTo, Fits
    <2>2. /\ ip' \in [Thread -> Ino \cup {NoIno}] /\ dp' \in [Thread -> Ino \cup {NoIno}]
          /\ pc' \in [Thread -> PC] /\ todo' \in [Thread -> Todo]
          /\ put' \in [Thread -> {"test", "trunc", "clear", "drop"}]
      BY <1>1 DEF TreeTypes, StepTo, Fits
    <2> QED BY <1>4, <2>1, <2>2 DEF TreeTypes, DiskStep, LockStep
  <1>6. HoldsIp(t)' = IpHeld(k, l) /\ HoldsDp(t)' = DpHeld(l) /\ PcLock(t)' = LockAt(l, i, d)
    BY <1>1, StepHeld
  <1>7. PutLock(t)' = NoIno
    BY <1>2, <1>3 DEF PutLock
  <1>8. ThreadOK(t)'
    <2>1. LockAt(l, i, d) # NoIno => lock'[LockAt(l, i, d)] = t
      BY DEF LockStep
    <2> QED BY <1>2, <1>3, <1>6, <1>7, <2>1 DEF ThreadOK, Fits
  <1>9. TypeFrame /\ (\A j \in Ino : CacheStep(j)) /\ LockFrame(t)
    BY DEF DiskStep, LockStep
  <1>10. InUse(t)'
    <2>1. dinode'[c].type = "dir"
      BY <1>1, <1>9 DEF Fits, UseOK, TypeFrame, TreeTypes
    <2>2. f # NoIno => dinode'[f].type # "free"
      BY <1>1, <1>9 DEF Fits, UseOK, TypeFrame, TreeTypes
    <2> QED BY <1>2, <2>1, <2>2 DEF Fits, InUse
  <1>11. Spared(t)
    <2>1. ASSUME NEW u \in Thread, put[u] = "trunc" PROVE PutLock(u) # c /\ PutLock(u) # f
      <3>1. PutLock(u) \notin {cwd[t], file[t], NoIno}
        BY <2>1, PutLockIn DEF TreeInv, UseOK
      <3>2. ASSUME NEW x \in Ino, Mine(t, x) PROVE PutLock(u) # x
        BY <2>1, <3>2, FreeLock DEF Mine
      <3> QED BY <3>1, <3>2 DEF Fits
    <2> QED BY <1>2, <2>1 DEF Spared
  <1>12. RefChange(t)
    <2>1. Refs(t, cwd[t], file[t], Pointer(t, "ip"), Pointer(t, "dp"), NoIno, NoIno)
      BY PointerIs, SeqSlots DEF Refs
    <2>2. RefsNext(t, c, f, IF IpHeld(k, l) THEN i ELSE NoIno, IF DpHeld(l) THEN d ELSE NoIno,
                   FirstOf(s), LastOf(s))
      BY <1>1, StepHeld
    <2>3. PICK x, y, a, b, v, w :
             /\ x = (IF IpHeld(k, l) THEN i ELSE NoIno) /\ y = (IF DpHeld(l) THEN d ELSE NoIno)
             /\ a = FirstOf(s) /\ b = LastOf(s) /\ v = Pointer(t, "ip") /\ w = Pointer(t, "dp")
      OBVIOUS
    <2>4. Refs(t, cwd[t], file[t], v, w, NoIno, NoIno) /\ RefsNext(t, c, f, x, y, a, b)
      BY <2>1, <2>2, <2>3
    <2>5. \A j \in Ino : Tot(c, f, x, y, a, b, j) = Tot(cwd[t], file[t], v, w, NoIno, NoIno, j) + One(n, j)
      BY <2>3 DEF RefTo
    <2>6. CASE n = NoIno
      <3>1. SameTot(cwd[t], file[t], v, w, NoIno, NoIno, c, f, x, y, a, b)
        BY <2>5, <2>6, OneNone, OneType DEF Tot, SameTot
      <3>2. ref' = ref
        BY <2>6 DEF RefTo
      <3> QED BY <1>1, <2>4, <3>1, <3>2, RefsMove
    <2>7. CASE n # NoIno
      <3>1. n \in Ino /\ ref' = [ref EXCEPT ![n] = @ + 1]
        BY <2>7 DEF RefTo
      <3>2. MoreTot(cwd[t], file[t], v, w, NoIno, NoIno, c, f, x, y, a, b, n)
        BY <2>5 DEF MoreTot
      <3> QED BY <1>1, <2>4, <3>1, <3>2, RefsGain
    <2> QED BY <2>6, <2>7
  <1> QED BY <1>2, <1>3, <1>5, <1>8, <1>9, <1>10, <1>11, <1>12, Quiet

-----------------------------------------------------------------------------
(* What each action does.                                                  *)

LoadOnly(i) ==
    /\ CanLock(i) /\ inode' = [inode EXCEPT ![i] = Loaded(i)]
    /\ dinode' = dinode /\ ents' = ents /\ panicked' = panicked
NoDisk == inode' = inode /\ dinode' = dinode /\ ents' = ents /\ panicked' = panicked
RefUp(n) == ref' = IF n = NoIno THEN ref ELSE [ref EXCEPT ![n] = @ + 1]
Ready(t, l) == pc[t] = l /\ todo[t] = <<>>

\* StepTo for a step that keeps the call, the directory and the file.
Moves(t, p, i, d, l, s) == StepTo(t, call[t], cwd[t], file[t], p, i, d, l, s)

LEMMA SameExcept ==
    ASSUME TreeTypes, NEW t \in Thread
    PROVE  /\ call = [call EXCEPT ![t] = call[t]] /\ cwd = [cwd EXCEPT ![t] = cwd[t]]
           /\ file = [file EXCEPT ![t] = file[t]] /\ path = [path EXCEPT ![t] = path[t]]
           /\ ip = [ip EXCEPT ![t] = ip[t]] /\ dp = [dp EXCEPT ![t] = dp[t]]
           /\ pc = [pc EXCEPT ![t] = pc[t]] /\ todo = [todo EXCEPT ![t] = todo[t]]
  <1>1. call = [call EXCEPT ![t] = call[t]]
    BY DEF TreeTypes
  <1>2. cwd = [cwd EXCEPT ![t] = cwd[t]] /\ file = [file EXCEPT ![t] = file[t]]
    BY DEF TreeTypes
  <1>3. path = [path EXCEPT ![t] = path[t]]
    BY DEF TreeTypes
  <1>4. ip = [ip EXCEPT ![t] = ip[t]] /\ dp = [dp EXCEPT ![t] = dp[t]]
    BY DEF TreeTypes
  <1>5. pc = [pc EXCEPT ![t] = pc[t]] /\ todo = [todo EXCEPT ![t] = todo[t]]
    BY DEF TreeTypes
  <1> QED BY <1>1, <1>2, <1>3, <1>4, <1>5

\* The path of a process that follows one.
LEMMA PathIs ==
    ASSUME TreeInv, NEW t \in Thread,
           pc[t] \in {"namei", "nameiparent", "parent", "new", "child"}
    PROVE  /\ path[t] # <<>> /\ path[t] \in Seq(Entry) /\ Head(path[t]) \in Entry
           /\ Tail(path[t]) \in Seq(Entry) /\ Len(path[t]) \in Nat /\ Len(path[t]) >= 1
           /\ Len(path[t]) # 1 => Tail(path[t]) # <<>>
  <1>1. path[t] # <<>> /\ path[t] \in Seq(Entry)
    BY DEF TreeInv, ThreadOK, TreeTypes
  <1>2. Len(path[t]) \in Nat /\ Len(path[t]) >= 1
    BY <1>1, EmptySeq, LenProperties
  <1>3. Head(path[t]) \in Entry /\ Tail(path[t]) \in Seq(Entry)
    BY <1>1, HeadTailProperties
  <1>4. Len(Tail(path[t])) = Len(path[t]) - 1
    BY <1>1, HeadTailProperties
  <1>5. Len(path[t]) # 1 => Tail(path[t]) # <<>>
    <2>1. ASSUME NEW n \in Nat, n # 1, NEW q, Len(q) = n - 1 PROVE q # <<>>
      BY <2>1
    <2> QED BY <1>2, <1>4, <2>1
  <1> QED BY <1>1, <1>2, <1>3, <1>5

LEMMA CallIs ==
    ASSUME TreeInv, NEW t \in Thread, NEW c \in Calls[t], Call(t, c)
    PROVE  \E s \in Ino :
             /\ Ready(t, "idle") /\ NoDisk /\ lock' = lock /\ RefUp(s)
             /\ s \in {Root, cwd[t]} /\ Rest(c.path) \in Seq(Entry)
             /\ \/ /\ c.name \in ByParent
                   /\ StepTo(t, c, cwd[t], file[t], Rest(c.path), ip[t], s, "end", <<s>>)
                \/ /\ c.name \in ByParent /\ Rest(c.path) # <<>>
                   /\ StepTo(t, c, cwd[t], file[t], Rest(c.path), ip[t], s, "nameiparent", <<>>)
                \/ /\ c.name \notin ByParent
                   /\ StepTo(t, c, cwd[t], file[t], Rest(c.path), s, dp[t], "found", <<>>)
                \/ /\ c.name \notin ByParent /\ Rest(c.path) # <<>>
                   /\ StepTo(t, c, cwd[t], file[t], Rest(c.path), s, dp[t], "namei", <<>>)
  <1>1. TreeTypes
    BY DEF TreeInv
  <1>2. PICK s \in Ino : s = Start(t, c.path) /\ s \in {Root, cwd[t]}
    BY <1>1, FileTreeAssumption DEF Start, TreeTypes, Ino, Root
  <1>3. s # NoIno
    BY <1>2 DEF Ino, NoIno
  <1>4. /\ Ready(t, "idle") /\ NoDisk /\ lock' = lock /\ RefUp(s)
        /\ cwd' = cwd /\ file' = file /\ put' = put
        /\ call' = [call EXCEPT ![t] = c] /\ path' = [path EXCEPT ![t] = Rest(c.path)]
    BY <1>2, <1>3 DEF Call, At, Ready, NoDisk, diskvars, RefUp
  <1>5. Rest(c.path) \in Seq(Entry)
    BY FileTreeAssumption
  <1>6. CASE c.name \in ByParent /\ Rest(c.path) = <<>>
    <2>1. StepTo(t, c, cwd[t], file[t], Rest(c.path), ip[t], s, "end", <<s>>)
      BY <1>1, <1>2, <1>4, <1>6, SameExcept DEF Call, PutThen, Goto, StepTo
    <2> QED BY <1>2, <1>4, <1>5, <1>6, <2>1
  <1>7. CASE c.name \in ByParent /\ Rest(c.path) # <<>>
    <2>1. StepTo(t, c, cwd[t], file[t], Rest(c.path), ip[t], s, "nameiparent", <<>>)
      BY <1>1, <1>2, <1>4, <1>7, SameExcept DEF Call, Goto, Stays, StepTo, Ready
    <2> QED BY <1>2, <1>4, <1>5, <1>7, <2>1
  <1>8. CASE c.name \notin ByParent /\ Rest(c.path) = <<>>
    <2>1. StepTo(t, c, cwd[t], file[t], Rest(c.path), s, dp[t], "found", <<>>)
      BY <1>1, <1>2, <1>4, <1>8, SameExcept DEF Call, Goto, Stays, StepTo, Ready
    <2> QED BY <1>2, <1>4, <1>5, <1>8, <2>1
  <1>9. CASE c.name \notin ByParent /\ Rest(c.path) # <<>>
    <2>1. StepTo(t, c, cwd[t], file[t], Rest(c.path), s, dp[t], "namei", <<>>)
      BY <1>1, <1>2, <1>4, <1>9, SameExcept DEF Call, Goto, Stays, StepTo, Ready
    <2> QED BY <1>2, <1>4, <1>5, <1>9, <2>1
  <1> QED BY <1>6, <1>7, <1>8, <1>9

LEMMA WalkIs ==
    ASSUME TreeInv, NEW t \in Thread, Walk(t)
    PROVE  /\ Ready(t, "namei") /\ ip[t] \in Ino /\ LoadOnly(ip[t]) /\ lock' = lock
           /\ \/ RefUp(NoIno) /\ Moves(t, path[t], ip[t], dp[t], "end", <<ip[t]>>)
              \/ \E n \in Ino, l \in {"found", "namei"} :
                    /\ dinode[ip[t]].type = "dir" /\ n = ents[ip[t]][Head(path[t])] /\ RefUp(n)
                    /\ l = "namei" => Tail(path[t]) # <<>>
                    /\ Moves(t, Tail(path[t]), n, dp[t], l, <<ip[t]>>)
  <1>1. TreeTypes /\ ThreadOK(t)
    BY DEF TreeInv
  <1>2. Ready(t, "namei") /\ pc[t] = "namei"
    BY DEF Walk, At, Ready
  <1>3. PICK i \in Ino : i = ip[t]
    BY <1>1, <1>2 DEF ThreadOK, TreeTypes, HoldsIp
  <1>4. /\ LoadOnly(i) /\ lock' = lock
        /\ cwd' = cwd /\ file' = file /\ call' = call /\ dp' = dp /\ put' = put
    BY <1>3 DEF Walk, LoadOnly, diskvars
  <1>5. Loaded(i).type = dinode[i].type
    BY <1>4, LoadedIs DEF LoadOnly, CanLock
  <1>6. PICK n \in Ino \cup {NoIno} :
          n = IF Loaded(i).type = "dir" THEN Lookup(i, Head(path[t])) ELSE NoIno
    BY <1>1, <1>2, PathIs DEF TreeTypes, Lookup
  <1>7. CASE n = NoIno
    <2>1. RefUp(NoIno) /\ Moves(t, path[t], i, dp[t], "end", <<i>>)
      BY <1>1, <1>3, <1>4, <1>6, <1>7, SameExcept DEF Walk, PutThen, Goto, StepTo, Moves, RefUp
    <2> QED BY <1>2, <1>3, <1>4, <2>1
  <1>8. CASE n # NoIno
    <2>1. /\ n \in Ino /\ dinode[i].type = "dir" /\ n = ents[i][Head(path[t])] /\ RefUp(n)
      BY <1>3, <1>5, <1>6, <1>8 DEF Walk, Lookup, RefUp
    <2>2. Moves(t, Tail(path[t]), n, dp[t], IF Len(path[t]) = 1 THEN "found" ELSE "namei", <<i>>)
      BY <1>1, <1>3, <1>4, <1>6, <1>8, SameExcept DEF Walk, PutThen, Goto, StepTo, Moves
    <2>3. PICK l \in {"found", "namei"} : l = IF Len(path[t]) = 1 THEN "found" ELSE "namei"
      OBVIOUS
    <2>4. l = "namei" => Tail(path[t]) # <<>>
      BY <1>2, <2>3, PathIs
    <2> QED BY <1>2, <1>3, <1>4, <2>1, <2>2, <2>3, <2>4
  <1> QED BY <1>7, <1>8

LEMMA WalkParentIs ==
    ASSUME TreeInv, NEW t \in Thread, WalkParent(t)
    PROVE  /\ Ready(t, "nameiparent") /\ dp[t] \in Ino /\ LoadOnly(dp[t]) /\ lock' = lock
           /\ \/ /\ dinode[dp[t]].type = "dir" /\ RefUp(NoIno)
                 /\ Moves(t, path[t], ip[t], dp[t], "parent", <<>>)
              \/ \E l \in {"bad", "end"} :
                    /\ l = "bad" <=> call[t].name = "link"
                    /\ RefUp(NoIno) /\ Moves(t, path[t], ip[t], dp[t], l, <<dp[t]>>)
              \/ \E n \in Ino :
                    /\ dinode[dp[t]].type = "dir" /\ n = ents[dp[t]][Head(path[t])] /\ RefUp(n)
                    /\ Tail(path[t]) # <<>>
                    /\ Moves(t, Tail(path[t]), ip[t], n, "nameiparent", <<dp[t]>>)
  <1>1. TreeTypes /\ ThreadOK(t)
    BY DEF TreeInv
  <1>2. Ready(t, "nameiparent") /\ pc[t] = "nameiparent" /\ todo[t] = <<>>
    BY DEF WalkParent, At, Ready
  <1>3. PICK d \in Ino : d = dp[t]
    BY <1>1, <1>2 DEF ThreadOK, TreeTypes, HoldsDp
  <1>4. /\ LoadOnly(d) /\ lock' = lock
        /\ cwd' = cwd /\ file' = file /\ call' = call /\ ip' = ip /\ put' = put
    BY <1>3 DEF WalkParent, LoadOnly, diskvars
  <1>5. Loaded(d).type = dinode[d].type
    BY <1>4, LoadedIs DEF LoadOnly, CanLock
  <1>6. PICK n \in Ino \cup {NoIno} :
          n = IF Loaded(d).type = "dir" THEN Lookup(d, Head(path[t])) ELSE NoIno
    BY <1>1, <1>2, PathIs DEF TreeTypes, Lookup
  <1>7. \/ /\ Loaded(d).type = "dir" /\ Len(path[t]) = 1
           /\ pc' = [pc EXCEPT ![t] = "parent"] /\ todo' = todo
           /\ ref' = ref /\ dp' = dp /\ path' = path
        \/ /\ Len(path[t]) > 1 /\ n # NoIno
           /\ ref' = [ref EXCEPT ![n] = @ + 1] /\ dp' = [dp EXCEPT ![t] = n]
           /\ path' = [path EXCEPT ![t] = Tail(@)]
           /\ pc' = [pc EXCEPT ![t] = "nameiparent"] /\ todo' = [todo EXCEPT ![t] = <<d>>]
        \/ /\ pc' = [pc EXCEPT ![t] = IF call[t].name = "link" THEN "bad" ELSE "end"]
           /\ todo' = [todo EXCEPT ![t] = <<d>>]
           /\ ref' = ref /\ dp' = dp /\ path' = path
    BY <1>3, <1>6 DEF WalkParent, PutThen, Goto, Stays
  <1>8. CASE /\ Loaded(d).type = "dir" /\ Len(path[t]) = 1
             /\ pc' = [pc EXCEPT ![t] = "parent"] /\ todo' = todo
             /\ ref' = ref /\ dp' = dp /\ path' = path
    <2>1. RefUp(NoIno) /\ Moves(t, path[t], ip[t], d, "parent", <<>>)
      BY <1>1, <1>2, <1>3, <1>4, <1>8, SameExcept DEF StepTo, Moves, RefUp
    <2> QED BY <1>2, <1>3, <1>4, <1>5, <1>8, <2>1
  <1>9. CASE /\ Len(path[t]) > 1 /\ n # NoIno
             /\ ref' = [ref EXCEPT ![n] = @ + 1] /\ dp' = [dp EXCEPT ![t] = n]
             /\ path' = [path EXCEPT ![t] = Tail(@)]
             /\ pc' = [pc EXCEPT ![t] = "nameiparent"] /\ todo' = [todo EXCEPT ![t] = <<d>>]
    <2>1. RefUp(n) /\ Moves(t, Tail(path[t]), ip[t], n, "nameiparent", <<d>>)
      BY <1>1, <1>2, <1>3, <1>4, <1>9, SameExcept DEF StepTo, Moves, RefUp
    <2>2. n \in Ino /\ dinode[d].type = "dir" /\ n = ents[d][Head(path[t])]
      BY <1>5, <1>6, <1>9 DEF Lookup
    <2>3. Tail(path[t]) # <<>>
      <3>1. Len(path[t]) > 1
        BY <1>9
      <3>2. Len(path[t]) \in Nat /\ (Len(path[t]) # 1 => Tail(path[t]) # <<>>)
        BY <1>2, PathIs
      <3>3. \A m \in Nat : m > 1 => m # 1
        OBVIOUS
      <3> QED BY <3>1, <3>2, <3>3, Zenon
    <2> QED BY <1>2, <1>3, <1>4, <2>1, <2>2, <2>3
  <1>10. CASE /\ pc' = [pc EXCEPT ![t] = IF call[t].name = "link" THEN "bad" ELSE "end"]
              /\ todo' = [todo EXCEPT ![t] = <<d>>]
              /\ ref' = ref /\ dp' = dp /\ path' = path
    <2>1. PICK l \in {"bad", "end"} : l = IF call[t].name = "link" THEN "bad" ELSE "end"
      OBVIOUS
    <2>2. RefUp(NoIno) /\ Moves(t, path[t], ip[t], d, l, <<d>>)
      BY <1>1, <1>2, <1>3, <1>4, <1>10, <2>1, SameExcept DEF StepTo, Moves, RefUp
    <2> QED BY <1>2, <1>3, <1>4, <2>1, <2>2
  <1> QED BY <1>7, <1>8, <1>9, <1>10

-----------------------------------------------------------------------------
(* The steps of namex().                                                   *)

LEMMA LoadDisk ==
    ASSUME TreeInv, NEW i \in Ino, LoadOnly(i)
    PROVE  DiskStep
  <1>1. TreeTypes
    BY DEF TreeInv
  <1>2. /\ TypeFrame /\ \A j \in Ino : CacheStep(j)
        /\ inode' \in [Ino -> [valid : BOOLEAN, type : Type, nlink : Int]]
    BY LoadCache DEF LoadOnly
  <1> QED BY <1>1, <1>2 DEF DiskStep, TreeTypes, LoadOnly

LEMMA SameDisk ==
    ASSUME TreeTypes, NoDisk
    PROVE  DiskStep
  <1>1. TypeFrame /\ \A i \in Ino : CacheStep(i)
    BY DEF TypeFrame, CacheStep, NoDisk
  <1> QED BY <1>1 DEF DiskStep, TreeTypes, NoDisk

LEMMA SameLock ==
    ASSUME TreeTypes, NEW t, NEW l, NEW i, NEW d, lock' = lock,
           l \notin {"new", "child", "notempty", "taken", "made", "unlinked"}
    PROVE  LockStep(t, l, i, d)
  <1>1. LockAt(l, i, d) = NoIno
    BY DEF LockAt
  <1> QED BY <1>1 DEF LockStep, LockFrame, TreeTypes

LEMMA TodoIs == <<>> \in Todo /\ \A a, b \in Ino : <<a>> \in Todo /\ <<a, b>> \in Todo
  BY DEF Todo

\* Which variables are references.
LEMMA HeldIs ==
    ASSUME NEW t
    PROVE  /\ Pointer(t, "ip") = IF IpHeld(call[t], pc[t]) THEN ip[t] ELSE NoIno
           /\ Pointer(t, "dp") = IF DpHeld(pc[t]) THEN dp[t] ELSE NoIno
  BY PointerIs DEF HoldsIp, HoldsDp, IpHeld, DpHeld

LEMMA CallKeeps ==
    ASSUME TreeInv, NEW t \in Thread, NEW k \in Calls[t], Call(t, k)
    PROVE  TreeInv'
  <1>1. TreeTypes /\ ThreadOK(t)
    BY DEF TreeInv
  <1>2. PICK r \in Ino :
             /\ Ready(t, "idle") /\ NoDisk /\ lock' = lock /\ RefUp(r)
             /\ r \in {Root, cwd[t]} /\ Rest(k.path) \in Seq(Entry)
             /\ \/ /\ k.name \in ByParent
                   /\ StepTo(t, k, cwd[t], file[t], Rest(k.path), ip[t], r, "end", <<r>>)
                \/ /\ k.name \in ByParent /\ Rest(k.path) # <<>>
                   /\ StepTo(t, k, cwd[t], file[t], Rest(k.path), ip[t], r, "nameiparent", <<>>)
                \/ /\ k.name \notin ByParent
                   /\ StepTo(t, k, cwd[t], file[t], Rest(k.path), r, dp[t], "found", <<>>)
                \/ /\ k.name \notin ByParent /\ Rest(k.path) # <<>>
                   /\ StepTo(t, k, cwd[t], file[t], Rest(k.path), r, dp[t], "namei", <<>>)
    BY CallIs
  <1>3. DiskStep /\ todo[t] = <<>> /\ r # NoIno
    BY <1>1, <1>2, SameDisk DEF Ready, Ino, NoIno
  <1>4. Pointer(t, "ip") = NoIno /\ Pointer(t, "dp") = NoIno
    BY <1>2, HeldIs DEF Ready, IpHeld, DpHeld
  <1>5. /\ cwd[t] \in Ino /\ file[t] \in Ino \cup {NoIno} /\ ip[t] \in Ino \cup {NoIno}
        /\ dp[t] \in Ino \cup {NoIno}
    BY <1>1 DEF TreeTypes
  <1>6. CASE /\ k.name \in ByParent
             /\ StepTo(t, k, cwd[t], file[t], Rest(k.path), ip[t], r, "end", <<r>>)
    <2>1. LockStep(t, "end", ip[t], r)
      BY <1>1, <1>2, SameLock
    <2>2. Fits(t, k, cwd[t], file[t], Rest(k.path), ip[t], r, "end", <<r>>)
      BY <1>2, <1>5, TodoIs DEF Fits, IpHeld, DpHeld, PC
    <2>3. RefTo(t, k, cwd[t], file[t], ip[t], r, "end", <<r>>, r)
      BY <1>2, <1>3, <1>4, SeqSlots, OneNone, OneType, SMTT(20) DEF RefTo, Tot, IpHeld, DpHeld, RefUp
    <2> QED BY <1>3, <1>6, <2>1, <2>2, <2>3, CallStep
  <1>7. CASE /\ k.name \in ByParent /\ Rest(k.path) # <<>>
             /\ StepTo(t, k, cwd[t], file[t], Rest(k.path), ip[t], r, "nameiparent", <<>>)
    <2>1. LockStep(t, "nameiparent", ip[t], r)
      BY <1>1, <1>2, SameLock
    <2>2. k.name # "link"
      BY <1>7 DEF ByParent
    <2>3. Fits(t, k, cwd[t], file[t], Rest(k.path), ip[t], r, "nameiparent", <<>>)
      BY <1>2, <1>3, <1>5, <1>7, <2>2, TodoIs DEF Fits, IpHeld, DpHeld, PC
    <2>4. RefTo(t, k, cwd[t], file[t], ip[t], r, "nameiparent", <<>>, r)
      BY <1>2, <1>3, <1>4, <2>2, SeqSlots, OneNone, OneType, SMTT(20) DEF RefTo, Tot, IpHeld, DpHeld, RefUp
    <2> QED BY <1>3, <1>7, <2>1, <2>3, <2>4, CallStep
  <1>8. ASSUME NEW l \in {"found", "namei"},
               StepTo(t, k, cwd[t], file[t], Rest(k.path), r, dp[t], l, <<>>),
               l = "namei" => Rest(k.path) # <<>>
        PROVE  TreeInv'
    <2>1. LockStep(t, l, r, dp[t])
      BY <1>1, <1>2, <1>8, SameLock
    <2>2. Fits(t, k, cwd[t], file[t], Rest(k.path), r, dp[t], l, <<>>)
      BY <1>2, <1>3, <1>5, <1>8, TodoIs DEF Fits, IpHeld, DpHeld, PC
    <2>3. RefTo(t, k, cwd[t], file[t], r, dp[t], l, <<>>, r)
      BY <1>2, <1>3, <1>4, <1>8, SeqSlots, OneNone, OneType, SMTT(20) DEF RefTo, Tot, IpHeld, DpHeld, RefUp
    <2> QED BY <1>3, <1>8, <2>1, <2>2, <2>3, CallStep
  <1> QED BY <1>2, <1>6, <1>7, <1>8

LEMMA WalkKeeps ==
    ASSUME TreeInv, NEW t \in Thread, Walk(t)
    PROVE  TreeInv'
  <1>1. TreeTypes /\ ThreadOK(t)
    BY DEF TreeInv
  <1>2. PICK i \in Ino : i = ip[t]
    BY WalkIs
  <1>3. /\ Ready(t, "namei") /\ LoadOnly(i) /\ lock' = lock
        /\ \/ RefUp(NoIno) /\ Moves(t, path[t], i, dp[t], "end", <<i>>)
           \/ \E n \in Ino, l \in {"found", "namei"} :
                 /\ RefUp(n) /\ (l = "namei" => Tail(path[t]) # <<>>)
                 /\ Moves(t, Tail(path[t]), n, dp[t], l, <<i>>)
    BY <1>2, WalkIs
  <1>4. DiskStep /\ todo[t] = <<>> /\ pc[t] = "namei"
    BY <1>3, LoadDisk DEF Ready
  <1>5. Pointer(t, "ip") = i /\ Pointer(t, "dp") = NoIno
    BY <1>2, <1>4, HeldIs DEF IpHeld, DpHeld
  <1>6. /\ cwd[t] \in Ino /\ file[t] \in Ino \cup {NoIno} /\ dp[t] \in Ino \cup {NoIno}
        /\ call[t] \in Calls[t] \cup {NoCall} /\ path[t] \in Seq(Entry) /\ Tail(path[t]) \in Seq(Entry)
    BY <1>1, <1>4, PathIs DEF TreeTypes, ThreadOK
  <1>7. CASE RefUp(NoIno) /\ Moves(t, path[t], i, dp[t], "end", <<i>>)
    <2>1. LockStep(t, "end", i, dp[t])
      BY <1>1, <1>3, SameLock
    <2>2. Fits(t, call[t], cwd[t], file[t], path[t], i, dp[t], "end", <<i>>)
      BY <1>6, TodoIs DEF Fits, IpHeld, DpHeld, PC
    <2>3. RefTo(t, call[t], cwd[t], file[t], i, dp[t], "end", <<i>>, NoIno)
      BY <1>5, <1>7, SeqSlots, OneNone, OneType, SMTT(20) DEF RefTo, Tot, IpHeld, DpHeld, RefUp
    <2> QED BY <1>4, <1>7, <2>1, <2>2, <2>3, CallStep DEF Moves
  <1>8. ASSUME NEW n \in Ino, NEW l \in {"found", "namei"}, RefUp(n),
               l = "namei" => Tail(path[t]) # <<>>, Moves(t, Tail(path[t]), n, dp[t], l, <<i>>)
        PROVE  TreeInv'
    <2>1. LockStep(t, l, n, dp[t])
      BY <1>1, <1>3, <1>8, SameLock
    <2>2. n # NoIno
      BY DEF Ino, NoIno
    <2>3. Fits(t, call[t], cwd[t], file[t], Tail(path[t]), n, dp[t], l, <<i>>)
      BY <1>6, <1>8, <2>2, TodoIs DEF Fits, IpHeld, DpHeld, PC
    <2>4. RefTo(t, call[t], cwd[t], file[t], n, dp[t], l, <<i>>, n)
      BY <1>5, <1>8, <2>2, SeqSlots, OneNone, OneType, SMTT(20) DEF RefTo, Tot, IpHeld, DpHeld, RefUp
    <2> QED BY <1>4, <1>8, <2>1, <2>3, <2>4, CallStep DEF Moves
  <1> QED BY <1>3, <1>7, <1>8

LEMMA WalkParentKeeps ==
    ASSUME TreeInv, NEW t \in Thread, WalkParent(t)
    PROVE  TreeInv'
  <1>1. TreeTypes /\ ThreadOK(t)
    BY DEF TreeInv
  <1>2. PICK d \in Ino : d = dp[t]
    BY WalkParentIs
  <1>3. /\ Ready(t, "nameiparent") /\ LoadOnly(d) /\ lock' = lock
        /\ \/ RefUp(NoIno) /\ Moves(t, path[t], ip[t], d, "parent", <<>>)
           \/ \E l \in {"bad", "end"} :
                 /\ l = "bad" <=> call[t].name = "link"
                 /\ RefUp(NoIno) /\ Moves(t, path[t], ip[t], d, l, <<d>>)
           \/ \E n \in Ino :
                 /\ RefUp(n) /\ Tail(path[t]) # <<>>
                 /\ Moves(t, Tail(path[t]), ip[t], n, "nameiparent", <<d>>)
    BY <1>2, WalkParentIs
  <1>4. DiskStep /\ todo[t] = <<>> /\ pc[t] = "nameiparent" /\ d # NoIno
    BY <1>3, LoadDisk DEF Ready, Ino, NoIno
  <1>5. /\ Pointer(t, "ip") = IF call[t].name = "link" THEN ip[t] ELSE NoIno
        /\ Pointer(t, "dp") = d
    BY <1>2, <1>4, HeldIs DEF IpHeld, DpHeld
  <1>6. /\ cwd[t] \in Ino /\ file[t] \in Ino \cup {NoIno} /\ ip[t] \in Ino \cup {NoIno}
        /\ call[t] \in Calls[t] \cup {NoCall} /\ path[t] \in Seq(Entry)
        /\ Tail(path[t]) \in Seq(Entry) /\ path[t] # <<>>
        /\ call[t].name = "link" => ip[t] # NoIno
    BY <1>1, <1>4, PathIs DEF TreeTypes, ThreadOK, HoldsIp
  <1>7. CASE RefUp(NoIno) /\ Moves(t, path[t], ip[t], d, "parent", <<>>)
    <2>1. LockStep(t, "parent", ip[t], d)
      BY <1>1, <1>3, SameLock
    <2>2. Fits(t, call[t], cwd[t], file[t], path[t], ip[t], d, "parent", <<>>)
      BY <1>4, <1>6, TodoIs DEF Fits, IpHeld, DpHeld, PC
    <2>3. RefTo(t, call[t], cwd[t], file[t], ip[t], d, "parent", <<>>, NoIno)
      BY <1>5, <1>7, SeqSlots, OneNone, OneType, SMTT(20) DEF RefTo, Tot, IpHeld, DpHeld, RefUp
    <2> QED BY <1>4, <1>7, <2>1, <2>2, <2>3, CallStep DEF Moves
  <1>8. ASSUME NEW l \in {"bad", "end"}, l = "bad" <=> call[t].name = "link", RefUp(NoIno),
               Moves(t, path[t], ip[t], d, l, <<d>>)
        PROVE  TreeInv'
    <2>1. LockStep(t, l, ip[t], d)
      BY <1>1, <1>3, <1>8, SameLock
    <2>2. Fits(t, call[t], cwd[t], file[t], path[t], ip[t], d, l, <<d>>)
      BY <1>6, <1>8, TodoIs DEF Fits, IpHeld, DpHeld, PC
    <2>3. RefTo(t, call[t], cwd[t], file[t], ip[t], d, l, <<d>>, NoIno)
      BY <1>5, <1>8, SeqSlots, OneNone, OneType, SMTT(20) DEF RefTo, Tot, IpHeld, DpHeld, RefUp
    <2> QED BY <1>4, <1>8, <2>1, <2>2, <2>3, CallStep DEF Moves
  <1>9. ASSUME NEW n \in Ino, RefUp(n), Tail(path[t]) # <<>>,
               Moves(t, Tail(path[t]), ip[t], n, "nameiparent", <<d>>)
        PROVE  TreeInv'
    <2>1. LockStep(t, "nameiparent", ip[t], n)
      BY <1>1, <1>3, SameLock
    <2>2. n # NoIno
      BY DEF Ino, NoIno
    <2>3. Fits(t, call[t], cwd[t], file[t], Tail(path[t]), ip[t], n, "nameiparent", <<d>>)
      BY <1>6, <1>9, <2>2, TodoIs DEF Fits, IpHeld, DpHeld, PC
    <2>4. RefTo(t, call[t], cwd[t], file[t], ip[t], n, "nameiparent", <<d>>, n)
      BY <1>5, <1>9, <2>2, SeqSlots, OneNone, OneType, SMTT(20) DEF RefTo, Tot, IpHeld, DpHeld, RefUp
    <2> QED BY <1>4, <1>9, <2>1, <2>3, <2>4, CallStep DEF Moves
  <1> QED BY <1>3, <1>7, <1>8, <1>9
-----------------------------------------------------------------------------
(* The steps of open, close and chdir.                                     *)

\* What t may go on with: its own values.
LEMMA OwnTypes ==
    ASSUME TreeInv, NEW t \in Thread
    PROVE  /\ cwd[t] \in Ino /\ file[t] \in Ino \cup {NoIno} /\ ip[t] \in Ino \cup {NoIno}
           /\ dp[t] \in Ino \cup {NoIno} /\ call[t] \in Calls[t] \cup {NoCall}
           /\ path[t] \in Seq(Entry)
           /\ IpHeld(call[t], pc[t]) => ip[t] \in Ino
           /\ DpHeld(pc[t]) => dp[t] \in Ino
  <1>1. TreeTypes /\ ThreadOK(t)
    BY DEF TreeInv
  <1>2. HoldsIp(t) = IpHeld(call[t], pc[t]) /\ HoldsDp(t) = DpHeld(pc[t])
    BY DEF HoldsIp, HoldsDp, IpHeld, DpHeld
  <1> QED BY <1>1, <1>2 DEF TreeTypes, ThreadOK

LEMMA OpenKeeps ==
    ASSUME TreeInv, NEW t \in Thread, Open(t)
    PROVE  TreeInv'
  <1>1. TreeTypes
    BY DEF TreeInv
  <1>2. Ready(t, "found") /\ pc[t] = "found" /\ todo[t] = <<>> /\ call[t].name \in {"open", "openw"}
    BY DEF Open, At, Ready
  <1>3. IpHeld(call[t], "found") /\ ~DpHeld("found")
    BY DEF IpHeld, DpHeld
  <1>4. PICK i \in Ino : i = ip[t]
    BY <1>2, <1>3, OwnTypes
  <1>5. LoadOnly(i) /\ lock' = lock /\ RefUp(NoIno)
    BY <1>4 DEF Open, LoadOnly, diskvars, RefUp
  <1>6. Pointer(t, "ip") = i /\ Pointer(t, "dp") = NoIno
    BY <1>2, <1>3, <1>4, HeldIs
  <1>7. DiskStep
    BY <1>5, LoadDisk
  <1>8. LockStep(t, "end", i, dp[t])
    BY <1>1, <1>5, SameLock
  <1>9. CASE file[t] # NoIno \/ (Loaded(ip[t]).type = "dir" /\ call[t].name = "openw")
    <2>1. StepTo(t, call[t], cwd[t], file[t], path[t], i, dp[t], "end", <<i>>)
      BY <1>1, <1>4, <1>9, SameExcept DEF Open, PutThen, Goto, StepTo
    <2>2. Fits(t, call[t], cwd[t], file[t], path[t], i, dp[t], "end", <<i>>)
      BY TodoIs, OwnTypes DEF Fits, IpHeld, DpHeld, PC
    <2>3. RefTo(t, call[t], cwd[t], file[t], i, dp[t], "end", <<i>>, NoIno)
      BY <1>5, <1>6, SeqSlots, OneNone, OneType DEF RefTo, Tot, IpHeld, DpHeld, RefUp
    <2> QED BY <1>2, <1>7, <1>8, <2>1, <2>2, <2>3, CallStep
  <1>10. CASE ~(file[t] # NoIno \/ (Loaded(ip[t]).type = "dir" /\ call[t].name = "openw"))
    <2>1. file[t] = NoIno
      BY <1>10
    <2>2. file' = [file EXCEPT ![t] = i] /\ Goto(t, "end") /\ todo' = todo
      BY <1>4, <1>10 DEF Open, Stays
    <2>3. StepTo(t, call[t], cwd[t], i, path[t], i, dp[t], "end", <<>>)
      BY <1>1, <1>2, <1>4, <2>2, SameExcept DEF Open, Goto, StepTo
    <2>4. dinode'[i].type # "free" /\ Mine(t, i)
      BY <1>5, LoadedIs DEF LoadOnly, CanLock, Mine
    <2>5. Fits(t, call[t], cwd[t], i, path[t], i, dp[t], "end", <<>>)
      BY <2>4, TodoIs, OwnTypes DEF Fits, IpHeld, DpHeld, PC
    <2>6. RefTo(t, call[t], cwd[t], i, i, dp[t], "end", <<>>, NoIno)
      BY <1>5, <1>6, <2>1, SeqSlots, OneNone, OneType DEF RefTo, Tot, IpHeld, DpHeld, RefUp
    <2> QED BY <1>2, <1>7, <1>8, <2>3, <2>5, <2>6, CallStep
  <1> QED BY <1>9, <1>10

LEMMA CloseKeeps ==
    ASSUME TreeInv, NEW t \in Thread, Close(t)
    PROVE  TreeInv'
  <1>1. TreeTypes
    BY DEF TreeInv
  <1>2. pc[t] = "idle" /\ todo[t] = <<>>
    BY DEF Close, At
  <1>3. PICK f \in Ino : f = file[t]
    BY OwnTypes DEF Close
  <1>4. NoDisk /\ lock' = lock /\ RefUp(NoIno)
    BY DEF Close, NoDisk, cachevars, diskvars, RefUp
  <1>5. Pointer(t, "ip") = NoIno /\ Pointer(t, "dp") = NoIno
    BY <1>2, HeldIs DEF IpHeld, DpHeld
  <1>6. DiskStep /\ LockStep(t, "end", ip[t], dp[t])
    BY <1>1, <1>4, SameDisk, SameLock
  <1>7. StepTo(t, call[t], cwd[t], NoIno, path[t], ip[t], dp[t], "end", <<f>>)
    BY <1>1, <1>3, SameExcept DEF Close, PutThen, Goto, StepTo
  <1>8. Fits(t, call[t], cwd[t], NoIno, path[t], ip[t], dp[t], "end", <<f>>)
    BY TodoIs, OwnTypes DEF Fits, IpHeld, DpHeld, PC
  <1>9. RefTo(t, call[t], cwd[t], NoIno, ip[t], dp[t], "end", <<f>>, NoIno)
    BY <1>3, <1>4, <1>5, SeqSlots, OneNone, OneType DEF RefTo, Tot, IpHeld, DpHeld, RefUp
  <1> QED BY <1>2, <1>6, <1>7, <1>8, <1>9, CallStep

LEMMA ChdirKeeps ==
    ASSUME TreeInv, NEW t \in Thread, Chdir(t)
    PROVE  TreeInv'
  <1>1. TreeTypes
    BY DEF TreeInv
  <1>2. pc[t] = "found" /\ todo[t] = <<>>
    BY DEF Chdir, At
  <1>3. IpHeld(call[t], "found") /\ ~DpHeld("found")
    BY DEF IpHeld, DpHeld
  <1>4. PICK i \in Ino : i = ip[t]
    BY <1>2, <1>3, OwnTypes
  <1>5. LoadOnly(i) /\ lock' = lock /\ RefUp(NoIno)
    BY <1>4 DEF Chdir, LoadOnly, diskvars, RefUp
  <1>6. Pointer(t, "ip") = i /\ Pointer(t, "dp") = NoIno
    BY <1>2, <1>3, <1>4, HeldIs
  <1>7. DiskStep /\ LockStep(t, "end", i, dp[t])
    BY <1>1, <1>5, LoadDisk, SameLock
  <1>8. CASE Loaded(ip[t]).type # "dir"
    <2>1. StepTo(t, call[t], cwd[t], file[t], path[t], i, dp[t], "end", <<i>>)
      BY <1>1, <1>4, <1>8, SameExcept DEF Chdir, PutThen, Goto, StepTo
    <2>2. Fits(t, call[t], cwd[t], file[t], path[t], i, dp[t], "end", <<i>>)
      BY TodoIs, OwnTypes DEF Fits, IpHeld, DpHeld, PC
    <2>3. RefTo(t, call[t], cwd[t], file[t], i, dp[t], "end", <<i>>, NoIno)
      BY <1>5, <1>6, SeqSlots, OneNone, OneType DEF RefTo, Tot, IpHeld, DpHeld, RefUp
    <2> QED BY <1>2, <1>7, <2>1, <2>2, <2>3, CallStep
  <1>9. CASE Loaded(ip[t]).type = "dir"
    <2>1. StepTo(t, call[t], i, file[t], path[t], i, dp[t], "end", <<cwd[t]>>)
      BY <1>1, <1>4, <1>9, SameExcept DEF Chdir, PutThen, Goto, StepTo
    <2>2. dinode'[i].type = "dir" /\ Mine(t, i)
      BY <1>4, <1>5, <1>9, LoadedIs DEF LoadOnly, CanLock, Mine
    <2>3. Fits(t, call[t], i, file[t], path[t], i, dp[t], "end", <<cwd[t]>>)
      BY <2>2, TodoIs, OwnTypes DEF Fits, IpHeld, DpHeld, PC
    <2>4. RefTo(t, call[t], i, file[t], i, dp[t], "end", <<cwd[t]>>, NoIno)
      BY <1>5, <1>6, SeqSlots, OneNone, OneType DEF RefTo, Tot, IpHeld, DpHeld, RefUp
    <2> QED BY <1>2, <1>7, <2>1, <2>3, <2>4, CallStep
  <1> QED BY <1>8, <1>9

LEMMA ReturnKeeps ==
    ASSUME TreeInv, NEW t \in Thread, Return(t)
    PROVE  TreeInv'
  <1>1. TreeTypes
    BY DEF TreeInv
  <1>2. pc[t] = "end" /\ todo[t] = <<>>
    BY DEF Return, At
  <1>3. NoDisk /\ lock' = lock /\ RefUp(NoIno)
    BY DEF Return, NoDisk, cachevars, diskvars, RefUp
  <1>4. Pointer(t, "ip") = NoIno /\ Pointer(t, "dp") = NoIno
    BY <1>2, HeldIs DEF IpHeld, DpHeld
  <1>5. DiskStep /\ LockStep(t, "idle", NoIno, NoIno)
    BY <1>1, <1>3, SameDisk, SameLock
  <1>6. StepTo(t, NoCall, cwd[t], file[t], <<>>, NoIno, NoIno, "idle", <<>>)
    BY <1>1, <1>2, SameExcept DEF Return, Goto, StepTo
  <1>7. Fits(t, NoCall, cwd[t], file[t], <<>>, NoIno, NoIno, "idle", <<>>)
    <2>1. <<>> \in Seq(Entry)
      OBVIOUS
    <2> QED BY <2>1, TodoIs, OwnTypes DEF Fits, IpHeld, DpHeld, PC
  <1>8. RefTo(t, NoCall, cwd[t], file[t], NoIno, NoIno, "idle", <<>>, NoIno)
    BY <1>3, <1>4, SeqSlots, OneNone, OneType DEF RefTo, Tot, IpHeld, DpHeld, RefUp
  <1> QED BY <1>2, <1>5, <1>6, <1>7, <1>8, CallStep
-----------------------------------------------------------------------------
(* The steps of create().                                                  *)

\* t takes a lock that is free, or gives up its own.
LEMMA TakeLock ==
    ASSUME TreeTypes, NEW t \in Thread, NEW x \in Ino, NEW l, NEW i, NEW d,
           lock[x] = NoThread, lock' = [lock EXCEPT ![x] = t], LockAt(l, i, d) \in {x, NoIno}
    PROVE  LockStep(t, l, i, d)
  <1>1. \A j \in Ino : lock'[j] = IF j = x THEN t ELSE lock[j]
    BY DEF TreeTypes
  <1>2. lock' \in [Ino -> Thread \cup {NoThread}]
    BY DEF TreeTypes
  <1>3. LockFrame(t)
    BY <1>1 DEF LockFrame
  <1> QED BY <1>1, <1>2, <1>3 DEF LockStep

LEMMA DropLock ==
    ASSUME TreeTypes, NEW t \in Thread, NEW x \in Ino, NEW l, NEW i, NEW d,
           lock[x] = t, lock' = [lock EXCEPT ![x] = NoThread], LockAt(l, i, d) = NoIno
    PROVE  LockStep(t, l, i, d)
  <1>1. \A j \in Ino : lock'[j] = IF j = x THEN NoThread ELSE lock[j]
    BY DEF TreeTypes
  <1>2. lock' \in [Ino -> Thread \cup {NoThread}]
    BY DEF TreeTypes
  <1>3. LockFrame(t)
    BY <1>1 DEF LockFrame
  <1> QED BY <1>2, <1>3 DEF LockStep

LEMMA SwapLocks ==
    ASSUME TreeTypes, NEW t \in Thread, NEW x \in Ino, NEW y \in Ino, x # y, NEW l, NEW i, NEW d,
           lock[x] = NoThread, lock[y] = t,
           lock' = [lock EXCEPT ![x] = t, ![y] = NoThread] \/ lock' = [lock EXCEPT ![y] = NoThread, ![x] = t],
           LockAt(l, i, d) = x
    PROVE  LockStep(t, l, i, d)
  <1>1. \A j \in Ino : lock'[j] = IF j = x THEN t ELSE IF j = y THEN NoThread ELSE lock[j]
    BY DEF TreeTypes
  <1>2. lock' \in [Ino -> Thread \cup {NoThread}]
    BY DEF TreeTypes
  <1>3. LockFrame(t)
    BY <1>1 DEF LockFrame
  <1> QED BY <1>1, <1>2, <1>3 DEF LockStep

LEMMA CreateExistsKeeps ==
    ASSUME TreeInv, NEW t \in Thread, CreateExists(t)
    PROVE  TreeInv'
  <1>1. TreeTypes
    BY DEF TreeInv
  <1>2. pc[t] = "parent" /\ todo[t] = <<>> /\ call[t].name \in Creates
    BY DEF CreateExists, At
  <1>3. ~IpHeld(call[t], "parent") /\ DpHeld("parent")
    BY <1>2 DEF IpHeld, DpHeld, Creates
  <1>4. PICK d \in Ino : d = dp[t]
    BY <1>2, <1>3, OwnTypes
  <1>5. PICK n \in Ino : n = Lookup(d, Head(path[t]))
    <2>1. Head(path[t]) \in Entry
      BY <1>2, PathIs
    <2>2. Lookup(d, Head(path[t])) # NoIno
      BY <1>4 DEF CreateExists
    <2> QED BY <1>1, <2>1, <2>2 DEF Lookup, TreeTypes
  <1>6. n # NoIno
    BY DEF Ino, NoIno
  <1>7. LoadOnly(d) /\ lock' = lock /\ RefUp(n)
    BY <1>4, <1>5, <1>6 DEF CreateExists, LoadOnly, diskvars, RefUp
  <1>8. Pointer(t, "ip") = NoIno /\ Pointer(t, "dp") = d
    BY <1>2, <1>3, <1>4, HeldIs
  <1>9. DiskStep /\ LockStep(t, "exists", n, d)
    BY <1>1, <1>7, LoadDisk, SameLock
  <1>10. StepTo(t, call[t], cwd[t], file[t], path[t], n, d, "exists", <<d>>)
    BY <1>1, <1>4, <1>5, SameExcept DEF CreateExists, PutThen, Goto, StepTo
  <1>11. Fits(t, call[t], cwd[t], file[t], path[t], n, d, "exists", <<d>>)
    BY <1>6, TodoIs, OwnTypes DEF Fits, IpHeld, DpHeld, PC
  <1>12. RefTo(t, call[t], cwd[t], file[t], n, d, "exists", <<d>>, n)
    BY <1>6, <1>7, <1>8, SeqSlots, OneNone, OneType DEF RefTo, Tot, IpHeld, DpHeld, RefUp
  <1> QED BY <1>2, <1>9, <1>10, <1>11, <1>12, CallStep

LEMMA ExistsKeeps ==
    ASSUME TreeInv, NEW t \in Thread, Exists(t)
    PROVE  TreeInv'
  <1>1. TreeTypes
    BY DEF TreeInv
  <1>2. pc[t] = "exists" /\ todo[t] = <<>>
    BY DEF Exists, At
  <1>3. IpHeld(call[t], "exists") /\ ~DpHeld("exists")
    BY DEF IpHeld, DpHeld
  <1>4. PICK i \in Ino : i = ip[t]
    BY <1>2, <1>3, OwnTypes
  <1>5. LoadOnly(i) /\ RefUp(NoIno)
    BY <1>4 DEF Exists, LoadOnly, diskvars, RefUp
  <1>6. Pointer(t, "ip") = i /\ Pointer(t, "dp") = NoIno
    BY <1>2, <1>3, <1>4, HeldIs
  <1>7. DiskStep
    BY <1>5, LoadDisk
  <1>8. CASE ~(TypeOf(t) = "file" /\ Loaded(ip[t]).type = "file")
    <2>1. StepTo(t, call[t], cwd[t], file[t], path[t], i, dp[t], "end", <<i>>) /\ lock' = lock
      BY <1>1, <1>4, <1>8, SameExcept DEF Exists, PutThen, Goto, StepTo
    <2>2. LockStep(t, "end", i, dp[t])
      BY <1>1, <2>1, SameLock
    <2>3. Fits(t, call[t], cwd[t], file[t], path[t], i, dp[t], "end", <<i>>)
      BY TodoIs, OwnTypes DEF Fits, IpHeld, DpHeld, PC
    <2>4. RefTo(t, call[t], cwd[t], file[t], i, dp[t], "end", <<i>>, NoIno)
      BY <1>5, <1>6, SeqSlots, OneNone, OneType DEF RefTo, Tot, IpHeld, DpHeld, RefUp
    <2> QED BY <1>2, <1>7, <2>1, <2>2, <2>3, <2>4, CallStep
  <1>9. CASE TypeOf(t) = "file" /\ Loaded(ip[t]).type = "file"
    <2>1. lock' = [lock EXCEPT ![i] = t] /\ Goto(t, "made") /\ todo' = todo
      BY <1>4, <1>9 DEF Exists, Stays
    <2>2. StepTo(t, call[t], cwd[t], file[t], path[t], i, dp[t], "made", <<>>)
      BY <1>1, <1>2, <1>4, <2>1, SameExcept DEF Exists, Goto, StepTo
    <2>3. LockStep(t, "made", i, dp[t])
      <3>1. LockAt("made", i, dp[t]) = i
        BY DEF LockAt
      <3>2. lock[i] = NoThread
        BY <1>5 DEF LoadOnly, CanLock
      <3> QED BY <1>1, <2>1, <3>1, <3>2, TakeLock
    <2>4. dinode'[i].type # "free" /\ i # NoIno
      BY <1>5, LoadedIs DEF LoadOnly, CanLock, Ino, NoIno
    <2>5. Fits(t, call[t], cwd[t], file[t], path[t], i, dp[t], "made", <<>>)
      BY <2>4, TodoIs, OwnTypes DEF Fits, IpHeld, DpHeld, PC
    <2>6. RefTo(t, call[t], cwd[t], file[t], i, dp[t], "made", <<>>, NoIno)
      BY <1>5, <1>6, SeqSlots, OneNone, OneType DEF RefTo, Tot, IpHeld, DpHeld, RefUp
    <2> QED BY <1>2, <1>7, <2>2, <2>3, <2>5, <2>6, CallStep
  <1> QED BY <1>8, <1>9

LEMMA MadeKeeps ==
    ASSUME TreeInv, NEW t \in Thread, Made(t)
    PROVE  TreeInv'
  <1>1. TreeTypes /\ ThreadOK(t) /\ UseOK(t)
    BY DEF TreeInv
  <1>2. pc[t] = "made" /\ todo[t] = <<>>
    BY DEF Made, At
  <1>3. IpHeld(call[t], "made") /\ ~DpHeld("made")
    BY DEF IpHeld, DpHeld
  <1>4. PICK i \in Ino : i = ip[t]
    BY <1>2, <1>3, OwnTypes
  <1>5. i # NoIno /\ PcLock(t) = i /\ lock[i] = t
    BY <1>1, <1>2, <1>4 DEF PcLock, ThreadOK, Ino, NoIno
  <1>6. NoDisk /\ RefUp(NoIno)
    BY DEF Made, NoDisk, diskvars, RefUp
  <1>7. Pointer(t, "ip") = i /\ Pointer(t, "dp") = NoIno
    BY <1>2, <1>3, <1>4, HeldIs
  <1>8. LockStep(t, "end", i, dp[t])
    <2>1. LockAt("end", i, dp[t]) = NoIno
      BY DEF LockAt
    <2>2. lock' = [lock EXCEPT ![i] = NoThread]
      BY <1>4 DEF Made
    <2> QED BY <1>1, <1>5, <2>1, <2>2, DropLock
  <1>9. DiskStep
    BY <1>1, <1>6, SameDisk
  <1>10. CASE ~(call[t].name = "create" /\ file[t] = NoIno)
    <2>1. StepTo(t, call[t], cwd[t], file[t], path[t], i, dp[t], "end", <<i>>)
      BY <1>1, <1>4, <1>10, SameExcept DEF Made, PutThen, Goto, StepTo
    <2>2. Fits(t, call[t], cwd[t], file[t], path[t], i, dp[t], "end", <<i>>)
      BY TodoIs, OwnTypes DEF Fits, IpHeld, DpHeld, PC
    <2>3. RefTo(t, call[t], cwd[t], file[t], i, dp[t], "end", <<i>>, NoIno)
      BY <1>6, <1>7, SeqSlots, OneNone, OneType DEF RefTo, Tot, IpHeld, DpHeld, RefUp
    <2> QED BY <1>2, <1>8, <1>9, <2>1, <2>2, <2>3, CallStep
  <1>11. CASE call[t].name = "create" /\ file[t] = NoIno
    <2>1. file' = [file EXCEPT ![t] = i] /\ Goto(t, "end") /\ todo' = todo
      BY <1>4, <1>11 DEF Made, Stays
    <2>2. StepTo(t, call[t], cwd[t], i, path[t], i, dp[t], "end", <<>>)
      BY <1>1, <1>2, <1>4, <2>1, SameExcept DEF Made, Goto, StepTo
    <2>3. dinode'[i].type # "free" /\ Mine(t, i)
      BY <1>1, <1>2, <1>4, <1>5, <1>6 DEF UseOK, NoDisk, Mine
    <2>4. Fits(t, call[t], cwd[t], i, path[t], i, dp[t], "end", <<>>)
      BY <2>3, TodoIs, OwnTypes DEF Fits, IpHeld, DpHeld, PC
    <2>5. RefTo(t, call[t], cwd[t], i, i, dp[t], "end", <<>>, NoIno)
      BY <1>6, <1>7, <1>11, SeqSlots, OneNone, OneType DEF RefTo, Tot, IpHeld, DpHeld, RefUp
    <2> QED BY <1>2, <1>8, <1>9, <2>2, <2>4, <2>5, CallStep
  <1> QED BY <1>10, <1>11

DNode == [type : Type, nlink : Int]
INode == [valid : BOOLEAN, type : Type, nlink : Int]

\* nlink of one inode changes, on the disk or in the cache.
LEMMA LinksOnDisk ==
    ASSUME NEW f \in [Ino -> DNode], NEW i \in Ino, NEW n \in Int
    PROVE  /\ WithLinks(f, i, n) \in [Ino -> DNode]
           /\ \A j \in Ino : j # i => WithLinks(f, i, n)[j] = f[j]
           /\ WithLinks(f, i, n)[i].type = f[i].type /\ WithLinks(f, i, n)[i].nlink = n
  BY DEF WithLinks, DNode

LEMMA LinksInCache ==
    ASSUME NEW f \in [Ino -> INode], NEW i \in Ino, NEW n \in Int
    PROVE  /\ WithLinks(f, i, n) \in [Ino -> INode]
           /\ \A j \in Ino : j # i => WithLinks(f, i, n)[j] = f[j]
           /\ WithLinks(f, i, n)[i].type = f[i].type /\ WithLinks(f, i, n)[i].nlink = n
           /\ WithLinks(f, i, n)[i].valid = f[i].valid
  BY DEF WithLinks, INode

LEMMA EntsType ==
    ASSUME NEW f \in [Ino -> [Entry -> Ino \cup {NoIno}]], NEW d \in Ino, NEW n \in Entry,
           NEW v \in Ino \cup {NoIno}
    PROVE  [f EXCEPT ![d][n] = v] \in [Ino -> [Entry -> Ino \cup {NoIno}]]
  <1>1. [f[d] EXCEPT ![n] = v] \in [Entry -> Ino \cup {NoIno}]
    OBVIOUS
  <1>2. [f EXCEPT ![d] = [f[d] EXCEPT ![n] = v]] \in [Ino -> [Entry -> Ino \cup {NoIno}]]
    BY <1>1
  <1> QED BY <1>2

\* The cache after ilock(i).
LEMMA LoadedMap ==
    ASSUME TreeInv, NEW i \in Ino, CanLock(i)
    PROVE  /\ [inode EXCEPT ![i] = Loaded(i)] \in [Ino -> INode]
           /\ \A j \in Ino : j # i => [inode EXCEPT ![i] = Loaded(i)][j] = inode[j]
           /\ [inode EXCEPT ![i] = Loaded(i)][i] = Loaded(i)
           /\ Loaded(i).valid = TRUE /\ Loaded(i).type = dinode[i].type
           /\ Loaded(i).nlink = dinode[i].nlink /\ dinode[i].type # "free"
           /\ Loaded(i).nlink \in Int
  <1>1. TreeTypes
    BY DEF TreeInv
  <1>2. Loaded(i) = [valid |-> TRUE, type |-> dinode[i].type, nlink |-> dinode[i].nlink]
    BY LoadedIs DEF CanLock
  <1>3. dinode[i] \in DNode
    BY <1>1 DEF TreeTypes, DNode
  <1>4. Loaded(i) \in INode
    BY <1>2, <1>3 DEF DNode, INode
  <1>5. inode \in [Ino -> INode]
    BY <1>1 DEF TreeTypes, INode
  <1>6. Loaded(i).type # "free"
    BY DEF CanLock
  <1> QED BY <1>2, <1>3, <1>4, <1>5, <1>6 DEF DNode

\* An inode that t has locked is on the disk what it is in the cache.
LEMMA LockedCache ==
    ASSUME TreeInv, NEW t \in Thread, todo[t] = <<>>, NEW d \in Ino, PcLock(t) = d
    PROVE  /\ lock[d] = t /\ inode[d] \in INode /\ dinode[d] \in DNode /\ inode[d].nlink \in Int
           /\ inode[d].valid => /\ inode[d].type = dinode[d].type /\ inode[d].nlink = dinode[d].nlink
                                /\ inode[d].type # "free"
  <1>1. TreeTypes /\ ThreadOK(t) /\ CacheOK(d)
    BY DEF TreeInv
  <1>2. d # NoIno
    BY DEF Ino, NoIno
  <1>3. lock[d] = t
    BY <1>1, <1>2 DEF ThreadOK
  <1>4. inode[d] \in INode /\ dinode[d] \in DNode
    BY <1>1 DEF TreeTypes, INode, DNode
  <1>5. \A u \in Thread : put[u] = "clear" => PutLock(u) # d
    BY FreeLock
  <1>6. inode[d].nlink \in Int
    BY <1>4 DEF INode
  <1> QED BY <1>1, <1>3, <1>4, <1>5, <1>6 DEF CacheOK

LEMMA CreateAllocKeeps ==
    ASSUME TreeInv, NEW t \in Thread, CreateAlloc(t)
    PROVE  TreeInv'
  <1>1. TreeTypes
    BY DEF TreeInv
  <1>2. pc[t] = "parent" /\ todo[t] = <<>> /\ call[t].name \in Creates
    BY DEF CreateAlloc, At
  <1>3. ~IpHeld(call[t], "parent") /\ DpHeld("parent")
    BY <1>2 DEF IpHeld, DpHeld, Creates
  <1>4. PICK d \in Ino : d = dp[t]
    BY <1>2, <1>3, OwnTypes
  <1>5. PICK n \in FreeInodes :
           /\ dinode' = [dinode EXCEPT ![n] = [type |-> TypeOf(t), nlink |-> 0]]
           /\ ref' = [ref EXCEPT ![n] = @ + 1]
           /\ ip' = [ip EXCEPT ![t] = n]
    BY DEF CreateAlloc
  <1>6. n \in Ino /\ n # NoIno /\ dinode[n].type = "free"
    BY DEF Ino, NoIno, FreeInodes
  <1>7. CanLock(d) /\ inode' = [inode EXCEPT ![d] = Loaded(d)] /\ lock' = [lock EXCEPT ![d] = t]
    BY <1>4 DEF CreateAlloc
  <1>8. d # n
    BY <1>6, <1>7, LoadedMap
  <1>9. TypeOf(t) \in Type
    BY DEF TypeOf, Type
  <1>10. dinode \in [Ino -> DNode] /\ inode' \in [Ino -> INode]
    BY <1>1, <1>7, LoadedMap DEF TreeTypes, DNode
  <1>11. [type |-> TypeOf(t), nlink |-> 0] \in DNode
    BY <1>9 DEF DNode
  <1>12. dinode' \in [Ino -> DNode] /\ \A j \in Ino : j # n => dinode'[j] = dinode[j]
    BY <1>5, <1>10, <1>11
  <1>13. DiskStep
    <2>1. TypeFrame
      BY <1>6, <1>12 DEF TypeFrame
    <2>2. ASSUME NEW j \in Ino PROVE CacheStep(j)
      <3>1. CASE j = d
        BY <1>7, <1>8, <1>12, <3>1, LoadedMap DEF CacheStep
      <3>2. CASE j # d
        BY <1>6, <1>7, <1>12, <3>2, LoadedMap DEF CacheStep
      <3> QED BY <3>1, <3>2
    <2>3. ents' = ents /\ panicked' = panicked
      BY DEF CreateAlloc
    <2> QED BY <1>1, <1>10, <1>12, <2>1, <2>2, <2>3 DEF DiskStep, TreeTypes, DNode, INode
  <1>14. LockStep(t, "new", n, d)
    <2>1. LockAt("new", n, d) = d
      BY DEF LockAt
    <2> QED BY <1>1, <1>7, <2>1, TakeLock DEF CanLock
  <1>15. StepTo(t, call[t], cwd[t], file[t], path[t], n, d, "new", <<>>)
    BY <1>1, <1>2, <1>4, <1>5, SameExcept DEF CreateAlloc, Goto, Stays, StepTo
  <1>16. Pointer(t, "ip") = NoIno /\ Pointer(t, "dp") = d /\ d # NoIno
    BY <1>2, <1>3, <1>4, HeldIs DEF Ino, NoIno
  <1>17. path[t] # <<>>
    BY <1>2, PathIs
  <1>18. Fits(t, call[t], cwd[t], file[t], path[t], n, d, "new", <<>>)
    BY <1>6, <1>16, <1>17, TodoIs, OwnTypes DEF Fits, IpHeld, DpHeld, PC
  <1>19. RefTo(t, call[t], cwd[t], file[t], n, d, "new", <<>>, n)
    BY <1>5, <1>6, <1>16, SeqSlots, OneNone, OneType DEF RefTo, Tot, IpHeld, DpHeld
  <1> QED BY <1>2, <1>13, <1>14, <1>15, <1>18, <1>19, CallStep

LEMMA CreateLinkKeeps ==
    ASSUME TreeInv, NEW t \in Thread, CreateLink(t)
    PROVE  TreeInv'
  <1>1. TreeTypes
    BY DEF TreeInv
  <1>2. pc[t] = "new" /\ todo[t] = <<>>
    BY DEF CreateLink, At
  <1>3. IpHeld(call[t], "new") /\ DpHeld("new")
    BY DEF IpHeld, DpHeld
  <1>4. PICK i \in Ino, d \in Ino : i = ip[t] /\ d = dp[t]
    BY <1>2, <1>3, OwnTypes
  <1>5. i # NoIno /\ d # NoIno /\ PcLock(t) = d
    BY <1>2, <1>4 DEF PcLock, Ino, NoIno
  <1>6. CanLock(i)
    BY <1>4 DEF CreateLink
  <1>7. /\ lock[d] = t /\ inode[d] \in INode /\ dinode[d] \in DNode /\ inode[d].nlink \in Int
        /\ inode[d].valid => /\ inode[d].type = dinode[d].type /\ inode[d].nlink = dinode[d].nlink
                             /\ inode[d].type # "free"
    BY <1>2, <1>5, LockedCache
  <1>8. lock[i] = NoThread /\ i # d
    BY <1>6, <1>7, FileTreeAssumption DEF CanLock
  <1>9. PICK up \in Int : up = IF TypeOf(t) = "dir" THEN inode[d].nlink + 1 ELSE inode[d].nlink
    BY <1>7
  <1>10. PICK f, g, h : /\ f = [inode EXCEPT ![i] = Loaded(i)] /\ g = WithLinks(f, i, 1)
                        /\ h = WithLinks(dinode, i, 1)
    OBVIOUS
  <1>11. inode' = WithLinks(g, d, up) /\ dinode' = WithLinks(h, d, up)
    BY <1>4, <1>9, <1>10 DEF CreateLink
  <1>12. /\ f \in [Ino -> INode] /\ (\A j \in Ino : j # i => f[j] = inode[j]) /\ f[i].valid = TRUE
         /\ f[i].type = dinode[i].type /\ dinode[i].type # "free"
    BY <1>6, <1>10, LoadedMap
  <1>13. /\ g \in [Ino -> INode] /\ (\A j \in Ino : j # i => g[j] = f[j])
         /\ g[i].type = f[i].type /\ g[i].nlink = 1 /\ g[i].valid = f[i].valid
    <2>1. PICK one \in Int : one = 1
      OBVIOUS
    <2>2. g = WithLinks(f, i, one)
      BY <1>10, <2>1
    <2>3. f \in [Ino -> INode]
      BY <1>12
    <2>4. /\ g \in [Ino -> INode] /\ (\A j \in Ino : j # i => g[j] = f[j])
          /\ g[i].type = f[i].type /\ g[i].nlink = one /\ g[i].valid = f[i].valid
      BY <2>2, <2>3, LinksInCache
    <2> QED BY <2>1, <2>4
  <1>14. /\ h \in [Ino -> DNode] /\ (\A j \in Ino : j # i => h[j] = dinode[j])
         /\ h[i].type = dinode[i].type /\ h[i].nlink = 1
    <2>1. dinode \in [Ino -> DNode]
      BY <1>1 DEF TreeTypes, DNode
    <2> QED BY <1>10, <2>1, LinksOnDisk
  <1>15. /\ inode' \in [Ino -> INode] /\ (\A j \in Ino : j # d => inode'[j] = g[j])
         /\ inode'[d].type = g[d].type /\ inode'[d].nlink = up /\ inode'[d].valid = g[d].valid
    BY <1>9, <1>11, <1>13, LinksInCache
  <1>16. /\ dinode' \in [Ino -> DNode] /\ (\A j \in Ino : j # d => dinode'[j] = h[j])
         /\ dinode'[d].type = h[d].type /\ dinode'[d].nlink = up
    BY <1>9, <1>11, <1>14, LinksOnDisk
  <1>17. TypeFrame
    BY <1>14, <1>16 DEF TypeFrame
  <1>18. ASSUME NEW j \in Ino PROVE CacheStep(j)
    <2>1. CASE j = i
      BY <1>8, <1>12, <1>13, <1>14, <1>15, <1>16, <2>1 DEF CacheStep
    <2>2. CASE j = d
      BY <1>7, <1>8, <1>12, <1>13, <1>14, <1>15, <1>16, <2>2 DEF CacheStep
    <2>3. CASE j # i /\ j # d
      BY <1>12, <1>13, <1>14, <1>15, <1>16, <2>3 DEF CacheStep
    <2> QED BY <2>1, <2>2, <2>3
  <1>19. ents' \in [Ino -> [Entry -> Ino \cup {NoIno}]]
    <2>1. PICK n \in Entry : n = Head(path[t])
      BY <1>2, PathIs
    <2>2. PICK v \in Ino \cup {NoIno}, w \in Ino \cup {NoIno} :
             /\ v = IF TypeOf(t) = "dir" THEN i ELSE NoIno
             /\ w = IF TypeOf(t) = "dir" THEN d ELSE NoIno
      OBVIOUS
    <2>3. PICK e : e = [ents EXCEPT ![d][n] = i]
      OBVIOUS
    <2>4. PICK e2 : e2 = [e EXCEPT ![i]["."] = v]
      OBVIOUS
    <2>5. ents' = [e2 EXCEPT ![i][".."] = w]
      BY <1>4, <2>1, <2>2, <2>3, <2>4 DEF CreateLink
    <2>6. "." \in Entry /\ ".." \in Entry
      BY DEF Entry
    <2>7. e \in [Ino -> [Entry -> Ino \cup {NoIno}]]
      BY <1>1, <2>3, EntsType DEF TreeTypes
    <2>8. e2 \in [Ino -> [Entry -> Ino \cup {NoIno}]]
      BY <2>2, <2>4, <2>6, <2>7, EntsType
    <2> QED BY <2>2, <2>5, <2>6, <2>8, EntsType
  <1>20. DiskStep
    <2>1. panicked' = panicked
      BY DEF CreateLink
    <2> QED BY <1>1, <1>15, <1>16, <1>17, <1>18, <1>19, <2>1 DEF DiskStep, TreeTypes, INode, DNode
  <1>21. LockStep(t, "made", i, d)
    <2>1. LockAt("made", i, d) = i
      BY DEF LockAt
    <2>2. lock' = [lock EXCEPT ![i] = t, ![d] = NoThread]
      BY <1>4 DEF CreateLink
    <2> QED BY <1>1, <1>7, <1>8, <2>1, <2>2, SwapLocks
  <1>22. StepTo(t, call[t], cwd[t], file[t], path[t], i, d, "made", <<d>>)
    BY <1>1, <1>4, SameExcept DEF CreateLink, PutThen, Goto, StepTo
  <1>23. Pointer(t, "ip") = i /\ Pointer(t, "dp") = d
    BY <1>2, <1>3, <1>4, HeldIs
  <1>24. dinode'[i].type # "free"
    BY <1>8, <1>12, <1>14, <1>16
  <1>25. Fits(t, call[t], cwd[t], file[t], path[t], i, d, "made", <<d>>)
    BY <1>5, <1>24, TodoIs, OwnTypes DEF Fits, IpHeld, DpHeld, PC
  <1>26. RefTo(t, call[t], cwd[t], file[t], i, d, "made", <<d>>, NoIno)
    <2>1. ref' = ref
      BY DEF CreateLink
    <2> QED BY <1>23, <2>1, SeqSlots, OneNone, OneType DEF RefTo, Tot, IpHeld, DpHeld
  <1> QED BY <1>2, <1>20, <1>21, <1>22, <1>25, <1>26, CallStep

-----------------------------------------------------------------------------
(* The steps of sys_link().                                                *)

\* nlink of an inode that t has just locked changes.
LEMMA OneLink ==
    ASSUME TreeInv, NEW i \in Ino, CanLock(i), NEW n \in Int,
           inode' = WithLinks([inode EXCEPT ![i] = Loaded(i)], i, n),
           dinode' = WithLinks(dinode, i, n), ents' = ents, panicked' = panicked
    PROVE  DiskStep
  <1>1. TreeTypes
    BY DEF TreeInv
  <1>2. PICK f : f = [inode EXCEPT ![i] = Loaded(i)]
    OBVIOUS
  <1>3. /\ f \in [Ino -> INode] /\ (\A j \in Ino : j # i => f[j] = inode[j]) /\ f[i].valid = TRUE
        /\ f[i].type = dinode[i].type /\ dinode[i].type # "free"
    BY <1>2, LoadedMap
  <1>4. /\ inode' \in [Ino -> INode] /\ (\A j \in Ino : j # i => inode'[j] = f[j])
        /\ inode'[i].type = f[i].type /\ inode'[i].nlink = n
    <2>1. inode' = WithLinks(f, i, n) /\ f \in [Ino -> INode]
      BY <1>2, <1>3
    <2>2. /\ WithLinks(f, i, n) \in [Ino -> INode]
          /\ \A j \in Ino : j # i => WithLinks(f, i, n)[j] = f[j]
          /\ WithLinks(f, i, n)[i].type = f[i].type /\ WithLinks(f, i, n)[i].nlink = n
      BY <2>1, LinksInCache
    <2> QED BY <2>1, <2>2
  <1>5. /\ dinode' \in [Ino -> DNode] /\ (\A j \in Ino : j # i => dinode'[j] = dinode[j])
        /\ dinode'[i].type = dinode[i].type /\ dinode'[i].nlink = n
    <2>1. dinode \in [Ino -> DNode]
      BY <1>1 DEF TreeTypes, DNode
    <2> QED BY <2>1, LinksOnDisk
  <1>6. TypeFrame
    BY <1>5 DEF TypeFrame
  <1>7. ASSUME NEW j \in Ino PROVE CacheStep(j)
    <2>1. CASE j = i
      BY <1>3, <1>4, <1>5, <2>1 DEF CacheStep
    <2>2. CASE j # i
      BY <1>3, <1>4, <1>5, <2>2 DEF CacheStep
    <2> QED BY <2>1, <2>2
  <1> QED BY <1>1, <1>4, <1>5, <1>6, <1>7 DEF DiskStep, TreeTypes, INode, DNode

LEMMA LinkOldKeeps ==
    ASSUME TreeInv, NEW t \in Thread, LinkOld(t)
    PROVE  TreeInv'
  <1>1. TreeTypes
    BY DEF TreeInv
  <1>2. pc[t] = "found" /\ todo[t] = <<>> /\ call[t].name = "link"
    BY DEF LinkOld, At
  <1>3. IpHeld(call[t], "found") /\ ~DpHeld("found")
    BY DEF IpHeld, DpHeld
  <1>4. PICK i \in Ino : i = ip[t]
    BY <1>2, <1>3, OwnTypes
  <1>5. CanLock(i) /\ i # NoIno
    BY <1>4 DEF LinkOld, Ino, NoIno
  <1>6. Pointer(t, "ip") = i /\ Pointer(t, "dp") = NoIno
    BY <1>2, <1>3, <1>4, HeldIs
  <1>7. lock' = lock /\ ents' = ents /\ panicked' = panicked
    BY DEF LinkOld
  <1>8. CASE /\ inode' = [inode EXCEPT ![i] = Loaded(i)] /\ PutThen(t, <<i>>, "end")
             /\ UNCHANGED <<dinode, ref, dp, path>>
    <2>1. DiskStep
      BY <1>5, <1>7, <1>8, LoadDisk DEF LoadOnly
    <2>2. StepTo(t, call[t], cwd[t], file[t], path[t], i, dp[t], "end", <<i>>)
      BY <1>1, <1>4, <1>8, SameExcept DEF LinkOld, PutThen, Goto, StepTo
    <2>3. LockStep(t, "end", i, dp[t])
      BY <1>1, <1>7, SameLock
    <2>4. Fits(t, call[t], cwd[t], file[t], path[t], i, dp[t], "end", <<i>>)
      BY TodoIs, OwnTypes DEF Fits, IpHeld, DpHeld, PC
    <2>5. RefTo(t, call[t], cwd[t], file[t], i, dp[t], "end", <<i>>, NoIno)
      BY <1>6, <1>8, SeqSlots, OneNone, OneType DEF RefTo, Tot, IpHeld, DpHeld
    <2> QED BY <1>2, <2>1, <2>2, <2>3, <2>4, <2>5, CallStep
  <1>9. PICK s \in Ino : s = Start(t, call[t].new)
    BY <1>1, FileTreeAssumption DEF Start, TreeTypes, Ino, Root
  <1>10. PICK n \in Int : n = Loaded(i).nlink + 1
    <2>1. Loaded(i).nlink \in Int
      BY <1>5, LoadedMap
    <2> QED BY <2>1
  <1>11. PICK p \in Seq(Entry) : p = Rest(call[t].new)
    <2>1. call[t] \in Calls[t]
      BY <1>2, OwnTypes DEF NoCall
    <2> QED BY <2>1, FileTreeAssumption
  <1>12. CASE /\ inode' = WithLinks([inode EXCEPT ![i] = Loaded(i)], i, n)
              /\ dinode' = WithLinks(dinode, i, n)
              /\ ref' = [ref EXCEPT ![s] = @ + 1] /\ dp' = [dp EXCEPT ![t] = s]
              /\ path' = [path EXCEPT ![t] = p]
              /\ IF p = <<>> THEN PutThen(t, <<s>>, "bad") ELSE Goto(t, "nameiparent") /\ Stays
    <2>1. DiskStep
      BY <1>5, <1>7, <1>10, <1>12, OneLink
    <2>2. s # NoIno
      BY DEF Ino, NoIno
    <2>3. CASE p = <<>>
      <3>1. StepTo(t, call[t], cwd[t], file[t], p, i, s, "bad", <<s>>)
        BY <1>1, <1>4, <1>12, <2>3, SameExcept DEF LinkOld, PutThen, Goto, StepTo
      <3>2. LockStep(t, "bad", i, s)
        BY <1>1, <1>7, SameLock
      <3>3. Fits(t, call[t], cwd[t], file[t], p, i, s, "bad", <<s>>)
        BY <1>5, <1>11, TodoIs, OwnTypes DEF Fits, IpHeld, DpHeld, PC
      <3>4. RefTo(t, call[t], cwd[t], file[t], i, s, "bad", <<s>>, s)
        BY <1>6, <1>12, <2>2, SeqSlots, OneNone, OneType DEF RefTo, Tot, IpHeld, DpHeld
      <3> QED BY <1>2, <2>1, <3>1, <3>2, <3>3, <3>4, CallStep
    <2>4. CASE p # <<>>
      <3>1. todo' = todo /\ Goto(t, "nameiparent")
        BY <1>12, <2>4 DEF Stays
      <3>2. StepTo(t, call[t], cwd[t], file[t], p, i, s, "nameiparent", <<>>)
        BY <1>1, <1>2, <1>4, <1>12, <3>1, SameExcept DEF LinkOld, Goto, StepTo
      <3>3. LockStep(t, "nameiparent", i, s)
        BY <1>1, <1>7, SameLock
      <3>4. Fits(t, call[t], cwd[t], file[t], p, i, s, "nameiparent", <<>>)
        BY <1>5, <1>11, <2>2, <2>4, TodoIs, OwnTypes DEF Fits, IpHeld, DpHeld, PC
      <3>5. RefTo(t, call[t], cwd[t], file[t], i, s, "nameiparent", <<>>, s)
        BY <1>2, <1>6, <1>12, <2>2, SeqSlots, OneNone, OneType DEF RefTo, Tot, IpHeld, DpHeld
      <3> QED BY <1>2, <2>1, <3>2, <3>3, <3>4, <3>5, CallStep
    <2> QED BY <2>3, <2>4
  <1> QED BY <1>4, <1>8, <1>9, <1>10, <1>11, <1>12 DEF LinkOld

LEMMA LinkNewKeeps ==
    ASSUME TreeInv, NEW t \in Thread, LinkNew(t)
    PROVE  TreeInv'
  <1>1. TreeTypes
    BY DEF TreeInv
  <1>2. pc[t] = "parent" /\ todo[t] = <<>> /\ call[t].name = "link"
    BY DEF LinkNew, At
  <1>3. IpHeld(call[t], "parent") /\ DpHeld("parent")
    BY <1>2 DEF IpHeld, DpHeld
  <1>4. PICK i \in Ino, d \in Ino : i = ip[t] /\ d = dp[t]
    BY <1>2, <1>3, OwnTypes
  <1>5. i # NoIno /\ d # NoIno
    BY DEF Ino, NoIno
  <1>6. Pointer(t, "ip") = i /\ Pointer(t, "dp") = d
    BY <1>2, <1>3, <1>4, HeldIs
  <1>7. CanLock(d) /\ inode' = [inode EXCEPT ![d] = Loaded(d)] /\ dinode' = dinode /\ panicked' = panicked
    BY <1>4 DEF LinkNew
  <1>8. PICK n \in Entry : n = Head(path[t])
    BY <1>2, PathIs
  <1>9. ents \in [Ino -> [Entry -> Ino \cup {NoIno}]]
    BY <1>1 DEF TreeTypes
  <1>10. /\ TypeFrame /\ \A j \in Ino : CacheStep(j)
         /\ inode' \in [Ino -> [valid : BOOLEAN, type : Type, nlink : Int]]
    BY <1>7, LoadCache
  <1>11. CASE /\ ents' = [ents EXCEPT ![d][n] = i] /\ PutThen(t, <<d, i>>, "end")
              /\ UNCHANGED <<ref, lock>>
    <2>1. ents' \in [Ino -> [Entry -> Ino \cup {NoIno}]]
      BY <1>9, <1>11, EntsType
    <2>2. DiskStep
      BY <1>1, <1>7, <1>10, <2>1 DEF DiskStep, TreeTypes
    <2>3. StepTo(t, call[t], cwd[t], file[t], path[t], i, d, "end", <<d, i>>)
      BY <1>1, <1>4, <1>11, SameExcept DEF LinkNew, PutThen, Goto, StepTo
    <2>4. LockStep(t, "end", i, d)
      BY <1>1, <1>11, SameLock
    <2>5. Fits(t, call[t], cwd[t], file[t], path[t], i, d, "end", <<d, i>>)
      BY TodoIs, OwnTypes DEF Fits, IpHeld, DpHeld, PC
    <2>6. RefTo(t, call[t], cwd[t], file[t], i, d, "end", <<d, i>>, NoIno)
      BY <1>6, <1>11, SeqSlots, OneNone, OneType DEF RefTo, Tot, IpHeld, DpHeld
    <2> QED BY <1>2, <2>2, <2>3, <2>4, <2>5, <2>6, CallStep
  <1>12. ASSUME NEW e \in Ino, ref' = [ref EXCEPT ![e] = @ + 1], lock' = [lock EXCEPT ![d] = t],
                PutThen(t, <<e>>, "taken"), ents' = ents
         PROVE  TreeInv'
    <2>1. DiskStep
      BY <1>1, <1>7, <1>10, <1>12 DEF DiskStep, TreeTypes
    <2>2. StepTo(t, call[t], cwd[t], file[t], path[t], i, d, "taken", <<e>>)
      BY <1>1, <1>4, <1>12, SameExcept DEF LinkNew, PutThen, Goto, StepTo
    <2>3. LockStep(t, "taken", i, d)
      <3>1. LockAt("taken", i, d) = d
        BY DEF LockAt
      <3> QED BY <1>1, <1>7, <1>12, <3>1, TakeLock DEF CanLock
    <2>4. Fits(t, call[t], cwd[t], file[t], path[t], i, d, "taken", <<e>>)
      BY <1>2, <1>5, TodoIs, OwnTypes DEF Fits, IpHeld, DpHeld, PC
    <2>5. e # NoIno
      BY DEF Ino, NoIno
    <2>6. RefTo(t, call[t], cwd[t], file[t], i, d, "taken", <<e>>, e)
      BY <1>2, <1>6, <1>12, <2>5, SeqSlots, OneNone, OneType DEF RefTo, Tot, IpHeld, DpHeld
    <2> QED BY <1>2, <2>1, <2>2, <2>3, <2>4, <2>6, CallStep
  <1>13. PICK e \in Ino \cup {NoIno} : e = Lookup(d, n)
    BY <1>9 DEF Lookup
  <1>14. CASE e = NoIno
    BY <1>4, <1>8, <1>11, <1>13, <1>14 DEF LinkNew
  <1>15. CASE e # NoIno
    <2>1. /\ ref' = [ref EXCEPT ![e] = @ + 1] /\ lock' = [lock EXCEPT ![d] = t]
          /\ PutThen(t, <<e>>, "taken") /\ ents' = ents
      BY <1>4, <1>8, <1>13, <1>15 DEF LinkNew
    <2> QED BY <1>12, <1>15, <2>1
  <1> QED BY <1>14, <1>15

\* What t has locked for the system call, and gives up.
LEMMA LinkTakenKeeps ==
    ASSUME TreeInv, NEW t \in Thread, LinkTaken(t)
    PROVE  TreeInv'
  <1>1. TreeTypes
    BY DEF TreeInv
  <1>2. pc[t] = "taken" /\ todo[t] = <<>>
    BY DEF LinkTaken, At
  <1>3. DpHeld("taken") /\ (call[t].name = "link" <=> IpHeld(call[t], "taken"))
    BY DEF IpHeld, DpHeld
  <1>4. PICK d \in Ino : d = dp[t]
    BY <1>2, <1>3, OwnTypes
  <1>5. PcLock(t) = d /\ d # NoIno
    BY <1>2, <1>4 DEF PcLock, Ino, NoIno
  <1>6. call[t].name = "link" /\ ip[t] \in Ino
    BY <1>2, <1>3, OwnTypes DEF TreeInv, ThreadOK
  <1>7. Pointer(t, "ip") = ip[t] /\ Pointer(t, "dp") = d
    BY <1>2, <1>3, <1>4, <1>6, HeldIs
  <1>8. NoDisk /\ ref' = ref
    BY DEF LinkTaken, NoDisk, diskvars
  <1>9. DiskStep
    BY <1>1, <1>8, SameDisk
  <1>10. LockStep(t, "bad", ip[t], d)
    <2>1. LockAt("bad", ip[t], d) = NoIno
      BY DEF LockAt
    <2>2. lock[d] = t
      BY <1>2, <1>5, LockedCache
    <2>3. lock' = [lock EXCEPT ![d] = NoThread]
      BY <1>4 DEF LinkTaken
    <2> QED BY <1>1, <2>1, <2>2, <2>3, DropLock
  <1>11. StepTo(t, call[t], cwd[t], file[t], path[t], ip[t], d, "bad", <<d>>)
    BY <1>1, <1>4, SameExcept DEF LinkTaken, PutThen, Goto, StepTo
  <1>12. ip[t] # NoIno
    BY <1>6 DEF Ino, NoIno
  <1>13. Fits(t, call[t], cwd[t], file[t], path[t], ip[t], d, "bad", <<d>>)
    BY <1>12, TodoIs, OwnTypes DEF Fits, IpHeld, DpHeld, PC
  <1>14. RefTo(t, call[t], cwd[t], file[t], ip[t], d, "bad", <<d>>, NoIno)
    BY <1>7, <1>8, SeqSlots, OneNone, OneType DEF RefTo, Tot, IpHeld, DpHeld
  <1> QED BY <1>2, <1>9, <1>10, <1>11, <1>13, <1>14, CallStep

LEMMA LinkBadKeeps ==
    ASSUME TreeInv, NEW t \in Thread, LinkBad(t)
    PROVE  TreeInv'
  <1>1. TreeTypes
    BY DEF TreeInv
  <1>2. pc[t] = "bad" /\ todo[t] = <<>>
    BY DEF LinkBad, At
  <1>3. ~DpHeld("bad") /\ IpHeld(call[t], "bad")
    BY DEF IpHeld, DpHeld
  <1>4. PICK i \in Ino : i = ip[t]
    BY <1>2, <1>3, OwnTypes
  <1>5. CanLock(i) /\ ents' = ents /\ panicked' = panicked /\ lock' = lock /\ ref' = ref
    BY <1>4 DEF LinkBad
  <1>6. PICK n \in Int : n = Loaded(i).nlink - 1
    <2>1. Loaded(i).nlink \in Int
      BY <1>5, LoadedMap
    <2> QED BY <2>1
  <1>7. inode' = WithLinks([inode EXCEPT ![i] = Loaded(i)], i, n) /\ dinode' = WithLinks(dinode, i, n)
    BY <1>4, <1>6 DEF LinkBad
  <1>8. Pointer(t, "ip") = i /\ Pointer(t, "dp") = NoIno
    BY <1>2, <1>3, <1>4, HeldIs
  <1>9. DiskStep
    BY <1>5, <1>7, OneLink
  <1>10. LockStep(t, "end", i, dp[t])
    BY <1>1, <1>5, SameLock
  <1>11. StepTo(t, call[t], cwd[t], file[t], path[t], i, dp[t], "end", <<i>>)
    BY <1>1, <1>4, SameExcept DEF LinkBad, PutThen, Goto, StepTo
  <1>12. Fits(t, call[t], cwd[t], file[t], path[t], i, dp[t], "end", <<i>>)
    BY TodoIs, OwnTypes DEF Fits, IpHeld, DpHeld, PC
  <1>13. RefTo(t, call[t], cwd[t], file[t], i, dp[t], "end", <<i>>, NoIno)
    BY <1>5, <1>8, SeqSlots, OneNone, OneType DEF RefTo, Tot, IpHeld, DpHeld
  <1> QED BY <1>2, <1>9, <1>10, <1>11, <1>12, <1>13, CallStep
-----------------------------------------------------------------------------
(* The steps of sys_unlink().                                              *)

LEMMA UnlinkFindKeeps ==
    ASSUME TreeInv, NEW t \in Thread, UnlinkFind(t)
    PROVE  TreeInv'
  <1>1. TreeTypes
    BY DEF TreeInv
  <1>2. pc[t] = "parent" /\ todo[t] = <<>> /\ call[t].name = "unlink"
    BY DEF UnlinkFind, At
  <1>3. ~IpHeld(call[t], "parent") /\ DpHeld("parent")
    BY <1>2 DEF IpHeld, DpHeld
  <1>4. PICK d \in Ino : d = dp[t]
    BY <1>2, <1>3, OwnTypes
  <1>5. d # NoIno /\ path[t] # <<>>
    BY <1>2, PathIs DEF Ino, NoIno
  <1>6. Pointer(t, "ip") = NoIno /\ Pointer(t, "dp") = d
    BY <1>2, <1>3, <1>4, HeldIs
  <1>7. LoadOnly(d)
    BY <1>4 DEF UnlinkFind, LoadOnly, diskvars
  <1>8. DiskStep
    BY <1>7, LoadDisk
  <1>9. PICK n \in Entry : n = Head(path[t])
    BY <1>2, PathIs
  <1>10. CASE PutThen(t, <<d>>, "end") /\ UNCHANGED <<ref, ip, lock>>
    <2>1. StepTo(t, call[t], cwd[t], file[t], path[t], ip[t], d, "end", <<d>>)
      BY <1>1, <1>4, <1>10, SameExcept DEF UnlinkFind, PutThen, Goto, StepTo
    <2>2. LockStep(t, "end", ip[t], d)
      BY <1>1, <1>10, SameLock
    <2>3. Fits(t, call[t], cwd[t], file[t], path[t], ip[t], d, "end", <<d>>)
      BY TodoIs, OwnTypes DEF Fits, IpHeld, DpHeld, PC
    <2>4. RefTo(t, call[t], cwd[t], file[t], ip[t], d, "end", <<d>>, NoIno)
      BY <1>6, <1>10, SeqSlots, OneNone, OneType DEF RefTo, Tot, IpHeld, DpHeld
    <2> QED BY <1>2, <1>8, <2>1, <2>2, <2>3, <2>4, CallStep
  <1>11. ASSUME NEW e \in Ino, ref' = [ref EXCEPT ![e] = @ + 1], lock' = [lock EXCEPT ![d] = t],
                ip' = [ip EXCEPT ![t] = e], Goto(t, "child"), Stays
         PROVE  TreeInv'
    <2>1. StepTo(t, call[t], cwd[t], file[t], path[t], e, d, "child", <<>>)
      BY <1>1, <1>2, <1>4, <1>11, SameExcept DEF UnlinkFind, Stays, Goto, StepTo
    <2>2. LockStep(t, "child", e, d)
      <3>1. LockAt("child", e, d) = d
        BY DEF LockAt
      <3> QED BY <1>1, <1>7, <1>11, <3>1, TakeLock DEF CanLock, LoadOnly
    <2>3. e # NoIno
      BY DEF Ino, NoIno
    <2>4. Fits(t, call[t], cwd[t], file[t], path[t], e, d, "child", <<>>)
      BY <1>5, <2>3, TodoIs, OwnTypes DEF Fits, IpHeld, DpHeld, PC
    <2>5. RefTo(t, call[t], cwd[t], file[t], e, d, "child", <<>>, e)
      BY <1>6, <1>11, <2>3, SeqSlots, OneNone, OneType DEF RefTo, Tot, IpHeld, DpHeld
    <2> QED BY <1>2, <1>8, <2>1, <2>2, <2>4, <2>5, CallStep
  <1>12. PICK e \in Ino \cup {NoIno} : e = Lookup(d, n)
    BY <1>1 DEF Lookup, TreeTypes
  <1>13. CASE n \in {".", ".."} \/ e = NoIno
    BY <1>4, <1>9, <1>10, <1>12, <1>13 DEF UnlinkFind
  <1>14. CASE n \notin {".", ".."} /\ e # NoIno
    <2>1. /\ ref' = [ref EXCEPT ![e] = @ + 1] /\ lock' = [lock EXCEPT ![d] = t]
          /\ ip' = [ip EXCEPT ![t] = e] /\ Goto(t, "child") /\ Stays
      BY <1>4, <1>9, <1>12, <1>14 DEF UnlinkFind
    <2> QED BY <1>11, <1>14, <2>1
  <1> QED BY <1>13, <1>14

\* The state is the same, but the kernel may have panicked.
LEMMA StopKeeps ==
    ASSUME TreeInv, UNCHANGED <<dinode, ents, inode, ref, lock>>,
           UNCHANGED <<cwd, file, call, path, ip, dp, pc, todo, put>>, panicked' \in BOOLEAN
    PROVE  TreeInv'
  <1>1. TreeTypes'
    BY DEF TreeInv, TreeTypes
  <1>2. RefExact'
    <2>1. \A u : HoldsIp(u)' = HoldsIp(u) /\ HoldsDp(u)' = HoldsDp(u)
      BY DEF HoldsIp, HoldsDp
    <2>2. \A u, s : Pointer(u, s)' = Pointer(u, s)
      BY <2>1 DEF Pointer
    <2> QED BY <2>2 DEF TreeInv, RefExact
  <1>3. ASSUME NEW u \in Thread PROVE ThreadOK(u)' /\ UseOK(u)'
    BY DEF TreeInv, ThreadOK, UseOK, HoldsIp, HoldsDp, PcLock, PutLock
  <1>4. ASSUME NEW i \in Ino PROVE CacheOK(i)'
    BY DEF TreeInv, CacheOK, PutLock
  <1> QED BY <1>1, <1>2, <1>3, <1>4 DEF TreeInv

LEMMA PanicKeeps ==
    ASSUME TreeInv, NEW t \in Thread, IlockPanic(t) \/ IallocPanic(t)
    PROVE  TreeInv'
  <1>1. UNCHANGED <<dinode, ents, inode, ref, lock>>
    BY DEF IlockPanic, IallocPanic, diskvars, cachevars
  <1>2. UNCHANGED <<cwd, file, call, path, ip, dp, pc, todo, put>>
    BY DEF IlockPanic, IallocPanic, procvars
  <1>3. panicked' \in BOOLEAN
    BY DEF IlockPanic, IallocPanic
  <1> QED BY <1>1, <1>2, <1>3, StopKeeps

LEMMA UnlinkEraseKeeps ==
    ASSUME TreeInv, NEW t \in Thread, UnlinkErase(t)
    PROVE  TreeInv'
  <1>1. TreeTypes
    BY DEF TreeInv
  <1>2. pc[t] = "child" /\ todo[t] = <<>>
    BY DEF UnlinkErase, At
  <1>3. IpHeld(call[t], "child") /\ DpHeld("child")
    BY DEF IpHeld, DpHeld
  <1>4. PICK i \in Ino, d \in Ino : i = ip[t] /\ d = dp[t]
    BY <1>2, <1>3, OwnTypes
  <1>5. i # NoIno /\ d # NoIno /\ PcLock(t) = d
    BY <1>2, <1>4 DEF PcLock, Ino, NoIno
  <1>6. CanLock(i) /\ ref' = ref
    BY <1>4 DEF UnlinkErase
  <1>7. /\ lock[d] = t /\ inode[d] \in INode /\ dinode[d] \in DNode /\ inode[d].nlink \in Int
        /\ inode[d].valid => /\ inode[d].type = dinode[d].type /\ inode[d].nlink = dinode[d].nlink
                             /\ inode[d].type # "free"
    BY <1>2, <1>5, LockedCache
  <1>8. lock[i] = NoThread /\ i # d
    BY <1>6, <1>7, FileTreeAssumption DEF CanLock
  <1>9. Pointer(t, "ip") = i /\ Pointer(t, "dp") = d
    BY <1>2, <1>3, <1>4, HeldIs
  <1>10. PICK f : f = [inode EXCEPT ![i] = Loaded(i)]
    OBVIOUS
  <1>11. PICK up \in Int : up = IF Loaded(i).type = "dir" THEN inode[d].nlink - 1 ELSE inode[d].nlink
    BY <1>7
  <1>12. CASE panicked' = TRUE /\ UNCHANGED <<diskvars, inode, lock, pc, todo>>
    <2>1. UNCHANGED <<dinode, ents, inode, ref, lock>>
      BY <1>6, <1>12 DEF diskvars
    <2>2. UNCHANGED <<cwd, file, call, path, ip, dp, pc, todo, put>>
      BY <1>12 DEF UnlinkErase
    <2> QED BY <1>12, <2>1, <2>2, StopKeeps
  <1>13. CASE inode' = f /\ PutThen(t, <<i>>, "notempty") /\ UNCHANGED <<diskvars, lock, panicked>>
    <2>1. DiskStep
      BY <1>6, <1>10, <1>13, LoadDisk DEF LoadOnly, diskvars
    <2>2. StepTo(t, call[t], cwd[t], file[t], path[t], i, d, "notempty", <<i>>)
      BY <1>1, <1>4, <1>13, SameExcept DEF UnlinkErase, PutThen, Goto, StepTo
    <2>3. LockStep(t, "notempty", i, d)
      <3>1. LockAt("notempty", i, d) = d
        BY DEF LockAt
      <3>2. lock' = lock
        BY <1>13
      <3> QED BY <1>1, <1>7, <3>1, <3>2 DEF LockStep, LockFrame, TreeTypes
    <2>4. Fits(t, call[t], cwd[t], file[t], path[t], i, d, "notempty", <<i>>)
      BY <1>5, TodoIs, OwnTypes DEF Fits, IpHeld, DpHeld, PC
    <2>5. RefTo(t, call[t], cwd[t], file[t], i, d, "notempty", <<i>>, NoIno)
      BY <1>6, <1>9, SeqSlots, OneNone, OneType DEF RefTo, Tot, IpHeld, DpHeld
    <2> QED BY <1>2, <2>1, <2>2, <2>3, <2>4, <2>5, CallStep
  <1>14. CASE /\ ents' = [ents EXCEPT ![d][Head(path[t])] = NoIno]
              /\ inode' = WithLinks(f, d, up) /\ dinode' = WithLinks(dinode, d, up)
              /\ lock' = [lock EXCEPT ![d] = NoThread, ![i] = t]
              /\ PutThen(t, <<d>>, "unlinked") /\ panicked' = panicked
    <2>1. /\ f \in [Ino -> INode] /\ (\A j \in Ino : j # i => f[j] = inode[j]) /\ f[i].valid = TRUE
          /\ f[i].type = dinode[i].type /\ f[i].nlink = dinode[i].nlink /\ dinode[i].type # "free"
      BY <1>6, <1>10, LoadedMap
    <2>2. /\ inode' \in [Ino -> INode] /\ (\A j \in Ino : j # d => inode'[j] = f[j])
          /\ inode'[d].type = f[d].type /\ inode'[d].nlink = up /\ inode'[d].valid = f[d].valid
      BY <1>14, <2>1, LinksInCache
    <2>3. /\ dinode' \in [Ino -> DNode] /\ (\A j \in Ino : j # d => dinode'[j] = dinode[j])
          /\ dinode'[d].type = dinode[d].type /\ dinode'[d].nlink = up
      <3>1. dinode \in [Ino -> DNode]
        BY <1>1 DEF TreeTypes, DNode
      <3> QED BY <1>14, <3>1, LinksOnDisk
    <2>4. TypeFrame
      BY <2>3 DEF TypeFrame
    <2>5. ASSUME NEW j \in Ino PROVE CacheStep(j)
      <3>1. CASE j = i
        BY <1>8, <2>1, <2>2, <2>3, <3>1 DEF CacheStep
      <3>2. CASE j = d
        BY <1>7, <1>8, <2>1, <2>2, <2>3, <3>2 DEF CacheStep
      <3>3. CASE j # i /\ j # d
        BY <2>1, <2>2, <2>3, <3>3 DEF CacheStep
      <3> QED BY <3>1, <3>2, <3>3
    <2>6. ents' \in [Ino -> [Entry -> Ino \cup {NoIno}]]
      <3>1. PICK n \in Entry : n = Head(path[t])
        BY <1>2, PathIs
      <3> QED BY <1>1, <1>14, <3>1, EntsType DEF TreeTypes
    <2>7. DiskStep
      BY <1>1, <1>14, <2>2, <2>3, <2>4, <2>5, <2>6 DEF DiskStep, TreeTypes, INode, DNode
    <2>8. StepTo(t, call[t], cwd[t], file[t], path[t], i, d, "unlinked", <<d>>)
      BY <1>1, <1>4, <1>14, SameExcept DEF UnlinkErase, PutThen, Goto, StepTo
    <2>9. LockStep(t, "unlinked", i, d)
      <3>1. LockAt("unlinked", i, d) = i
        BY DEF LockAt
      <3> QED BY <1>1, <1>7, <1>8, <1>14, <3>1, SwapLocks
    <2>10. Fits(t, call[t], cwd[t], file[t], path[t], i, d, "unlinked", <<d>>)
      BY <1>5, TodoIs, OwnTypes DEF Fits, IpHeld, DpHeld, PC
    <2>11. RefTo(t, call[t], cwd[t], file[t], i, d, "unlinked", <<d>>, NoIno)
      BY <1>6, <1>9, SeqSlots, OneNone, OneType DEF RefTo, Tot, IpHeld, DpHeld
    <2> QED BY <1>2, <2>7, <2>8, <2>9, <2>10, <2>11, CallStep
  <1> QED BY <1>4, <1>10, <1>11, <1>12, <1>13, <1>14 DEF UnlinkErase

LEMMA UnlinkNotEmptyKeeps ==
    ASSUME TreeInv, NEW t \in Thread, UnlinkNotEmpty(t)
    PROVE  TreeInv'
  <1>1. TreeTypes
    BY DEF TreeInv
  <1>2. pc[t] = "notempty" /\ todo[t] = <<>>
    BY DEF UnlinkNotEmpty, At
  <1>3. DpHeld("notempty") /\ ~IpHeld(call[t], "notempty")
    BY DEF IpHeld, DpHeld
  <1>4. PICK d \in Ino : d = dp[t]
    BY <1>2, <1>3, OwnTypes
  <1>5. PcLock(t) = d
    BY <1>2, <1>4 DEF PcLock
  <1>6. Pointer(t, "ip") = NoIno /\ Pointer(t, "dp") = d
    BY <1>2, <1>3, <1>4, HeldIs
  <1>7. NoDisk /\ ref' = ref
    BY DEF UnlinkNotEmpty, NoDisk, diskvars
  <1>8. DiskStep
    BY <1>1, <1>7, SameDisk
  <1>9. LockStep(t, "end", ip[t], d)
    <2>1. LockAt("end", ip[t], d) = NoIno
      BY DEF LockAt
    <2>2. lock[d] = t
      BY <1>2, <1>5, LockedCache
    <2>3. lock' = [lock EXCEPT ![d] = NoThread]
      BY <1>4 DEF UnlinkNotEmpty
    <2> QED BY <1>1, <2>1, <2>2, <2>3, DropLock
  <1>10. StepTo(t, call[t], cwd[t], file[t], path[t], ip[t], d, "end", <<d>>)
    BY <1>1, <1>4, SameExcept DEF UnlinkNotEmpty, PutThen, Goto, StepTo
  <1>11. Fits(t, call[t], cwd[t], file[t], path[t], ip[t], d, "end", <<d>>)
    BY TodoIs, OwnTypes DEF Fits, IpHeld, DpHeld, PC
  <1>12. RefTo(t, call[t], cwd[t], file[t], ip[t], d, "end", <<d>>, NoIno)
    BY <1>6, <1>7, SeqSlots, OneNone, OneType DEF RefTo, Tot, IpHeld, DpHeld
  <1> QED BY <1>2, <1>8, <1>9, <1>10, <1>11, <1>12, CallStep

LEMMA UnlinkCountKeeps ==
    ASSUME TreeInv, NEW t \in Thread, UnlinkCount(t)
    PROVE  TreeInv'
  <1>1. TreeTypes
    BY DEF TreeInv
  <1>2. pc[t] = "unlinked" /\ todo[t] = <<>>
    BY DEF UnlinkCount, At
  <1>3. ~DpHeld("unlinked") /\ IpHeld(call[t], "unlinked")
    BY DEF IpHeld, DpHeld
  <1>4. PICK i \in Ino : i = ip[t]
    BY <1>2, <1>3, OwnTypes
  <1>5. PcLock(t) = i
    BY <1>2, <1>4 DEF PcLock
  <1>6. /\ lock[i] = t /\ inode[i].nlink \in Int
        /\ inode[i].valid => /\ inode[i].type = dinode[i].type /\ inode[i].nlink = dinode[i].nlink
                             /\ inode[i].type # "free"
    BY <1>2, <1>5, LockedCache
  <1>7. PICK n \in Int : n = inode[i].nlink - 1
    BY <1>6
  <1>8. /\ inode' = WithLinks(inode, i, n) /\ dinode' = WithLinks(dinode, i, n)
        /\ lock' = [lock EXCEPT ![i] = NoThread] /\ ref' = ref /\ ents' = ents /\ panicked' = panicked
    BY <1>4, <1>7 DEF UnlinkCount
  <1>9. inode \in [Ino -> INode] /\ dinode \in [Ino -> DNode]
    BY <1>1 DEF TreeTypes, INode, DNode
  <1>10. /\ inode' \in [Ino -> INode] /\ (\A j \in Ino : j # i => inode'[j] = inode[j])
         /\ inode'[i].type = inode[i].type /\ inode'[i].nlink = n /\ inode'[i].valid = inode[i].valid
    BY <1>8, <1>9, LinksInCache
  <1>11. /\ dinode' \in [Ino -> DNode] /\ (\A j \in Ino : j # i => dinode'[j] = dinode[j])
         /\ dinode'[i].type = dinode[i].type /\ dinode'[i].nlink = n
    BY <1>8, <1>9, LinksOnDisk
  <1>12. TypeFrame
    BY <1>11 DEF TypeFrame
  <1>13. ASSUME NEW j \in Ino PROVE CacheStep(j)
    <2>1. CASE j = i
      BY <1>6, <1>10, <1>11, <2>1 DEF CacheStep
    <2>2. CASE j # i
      BY <1>10, <1>11, <2>2 DEF CacheStep
    <2> QED BY <2>1, <2>2
  <1>14. DiskStep
    BY <1>1, <1>8, <1>10, <1>11, <1>12, <1>13 DEF DiskStep, TreeTypes, INode, DNode
  <1>15. LockStep(t, "end", i, dp[t])
    <2>1. LockAt("end", i, dp[t]) = NoIno
      BY DEF LockAt
    <2> QED BY <1>1, <1>6, <1>8, <2>1, DropLock
  <1>16. Pointer(t, "ip") = i /\ Pointer(t, "dp") = NoIno
    BY <1>2, <1>3, <1>4, HeldIs
  <1>17. StepTo(t, call[t], cwd[t], file[t], path[t], i, dp[t], "end", <<i>>)
    BY <1>1, <1>4, SameExcept DEF UnlinkCount, PutThen, Goto, StepTo
  <1>18. Fits(t, call[t], cwd[t], file[t], path[t], i, dp[t], "end", <<i>>)
    BY TodoIs, OwnTypes DEF Fits, IpHeld, DpHeld, PC
  <1>19. RefTo(t, call[t], cwd[t], file[t], i, dp[t], "end", <<i>>, NoIno)
    BY <1>8, <1>16, SeqSlots, OneNone, OneType DEF RefTo, Tot, IpHeld, DpHeld
  <1> QED BY <1>2, <1>14, <1>15, <1>17, <1>18, <1>19, CallStep
-----------------------------------------------------------------------------
(* The steps of iput().                                                    *)

\* What the first inode to drop is, and where it counts.
LEMMA HeadIs ==
    ASSUME TreeInv, NEW t \in Thread, todo[t] # <<>>
    PROVE  /\ Head(todo[t]) \in Ino /\ Head(todo[t]) # NoIno /\ Tail(todo[t]) \in Todo
           /\ \E s \in {"first", "last"} : Pointer(t, s) = Head(todo[t])
           /\ \A j \in Ino : One(FirstOf(todo[t]), j) + One(LastOf(todo[t]), j)
                             = (One(FirstOf(Tail(todo[t])), j) + One(LastOf(Tail(todo[t])), j))
                               + One(Head(todo[t]), j)
  <1>1. todo[t] \in Todo
    BY DEF TreeInv, TreeTypes
  <1>2. PICK q : q = todo[t]
    OBVIOUS
  <1>3. Pointer(t, "first") = FirstOf(q) /\ Pointer(t, "last") = LastOf(q)
    BY <1>2, PointerIs
  <1>4. ASSUME NEW a \in Ino, q = <<a>>
        PROVE  /\ Head(q) = a /\ Tail(q) = <<>> /\ FirstOf(q) = NoIno /\ LastOf(q) = a
    BY <1>4, SeqSlots
  <1>5. ASSUME NEW a \in Ino, NEW b \in Ino, q = <<a, b>>
        PROVE  /\ Head(q) = a /\ Tail(q) = <<b>> /\ FirstOf(q) = a /\ LastOf(q) = b
    BY <1>5, SeqSlots
  <1>6. CASE \E a \in Ino : q = <<a>>
    <2>1. PICK a \in Ino : q = <<a>>
      BY <1>6
    <2>2. a # NoIno
      BY DEF Ino, NoIno
    <2>3. Head(q) = a /\ Tail(q) = <<>> /\ FirstOf(q) = NoIno /\ LastOf(q) = a
      BY <1>4, <2>1
    <2>4. FirstOf(Tail(q)) = NoIno /\ LastOf(Tail(q)) = NoIno
      BY <2>3, SeqSlots
    <2>5. \A j \in Ino : One(FirstOf(q), j) + One(LastOf(q), j)
             = (One(FirstOf(Tail(q)), j) + One(LastOf(Tail(q)), j)) + One(Head(q), j)
      <3>1. \A j \in Ino : One(NoIno, j) + One(a, j) = (One(NoIno, j) + One(NoIno, j)) + One(a, j)
        BY OneNone, OneType
      <3> QED BY <2>3, <2>4, <3>1, Zenon
    <2> QED BY <1>2, <1>3, <2>2, <2>3, <2>5, TodoIs
  <1>7. CASE \E a, b \in Ino : q = <<a, b>>
    <2>1. PICK a \in Ino, b \in Ino : q = <<a, b>>
      BY <1>7
    <2>2. a # NoIno
      BY DEF Ino, NoIno
    <2>3. Head(q) = a /\ Tail(q) = <<b>> /\ FirstOf(q) = a /\ LastOf(q) = b
      BY <1>5, <2>1
    <2>4. FirstOf(Tail(q)) = NoIno /\ LastOf(Tail(q)) = b
      BY <2>3, SeqSlots
    <2>5. \A j \in Ino : One(FirstOf(q), j) + One(LastOf(q), j)
             = (One(FirstOf(Tail(q)), j) + One(LastOf(Tail(q)), j)) + One(Head(q), j)
      BY <2>3, <2>4, OneNone, OneType
    <2> QED BY <1>2, <1>3, <2>2, <2>3, <2>5, TodoIs
  <1> QED BY <1>1, <1>2, <1>6, <1>7 DEF Todo

\* iput() leaves the variables of the system call alone.
PutStep(t) ==
    /\ UNCHANGED <<cwd, file, call, path, ip, dp, pc, panicked>>
    /\ \A u \in Thread : u # t => todo'[u] = todo[u] /\ put'[u] = put[u]

LEMMA PutFrame ==
    ASSUME NEW t \in Thread, PutStep(t)
    PROVE  /\ Others(t)
           /\ \A u \in Thread : /\ PcLock(u)' = PcLock(u) /\ HoldsIp(u)' = HoldsIp(u)
                                /\ HoldsDp(u)' = HoldsDp(u)
                                /\ InUse(u) /\ (\A i \in Ino : dinode'[i] = dinode[i]) /\ dinode' = dinode
                                   => InUse(u)'
  <1>1. Others(t)
    BY DEF PutStep, Others
  <1>2. ASSUME NEW u \in Thread
        PROVE  PcLock(u)' = PcLock(u) /\ HoldsIp(u)' = HoldsIp(u) /\ HoldsDp(u)' = HoldsDp(u)
    BY DEF PutStep, PcLock, HoldsIp, HoldsDp
  <1>3. ASSUME NEW u \in Thread, InUse(u), dinode' = dinode PROVE InUse(u)'
    BY <1>3 DEF PutStep, InUse
  <1> QED BY <1>1, <1>2, <1>3

\* Without a change of todo the references are the same.
LEMMA PutRefs ==
    ASSUME TreeInv, NEW t \in Thread, PutStep(t), todo' = todo, ref' = ref
    PROVE  RefExact'
  <1>1. \A u \in Thread : HoldsIp(u)' = HoldsIp(u) /\ HoldsDp(u)' = HoldsDp(u)
    BY PutFrame
  <1>2. ASSUME NEW u \in Thread, NEW s \in Slot PROVE Pointer(u, s)' = Pointer(u, s)
    BY <1>1, PointerIs, PointerNext DEF Slot, PutStep
  <1>3. ASSUME NEW i \in Ino PROVE ref'[i] = (ref[i] + Here(t, i)') - Here(t, i)
    <2>1. Here(t, i)' = Here(t, i)
      BY <1>2 DEF Here, Slot
    <2>2. Here(t, i) \in Int /\ ref[i] \in Int
      <3>1. ref[i] \in Int
        BY DEF TreeInv, TreeTypes
      <3>2. Here(t, i) \in Int
        BY OneType DEF Here
      <3> QED BY <3>1, <3>2
    <2> QED BY <2>1, <2>2
  <1> QED BY <1>2, <1>3, RefStep DEF TreeInv

LEMMA PutTestKeeps ==
    ASSUME TreeInv, NEW t \in Thread, PutTest(t)
    PROVE  TreeInv'
  <1>1. TreeTypes /\ ThreadOK(t)
    BY DEF TreeInv
  <1>2. todo[t] # <<>> /\ put[t] = "test"
    BY DEF PutTest
  <1>3. PICK i \in Ino : i = Head(todo[t]) /\ i # NoIno
    BY <1>2, HeadIs
  <1>4. /\ lock[i] = NoThread /\ dinode' = dinode /\ ents' = ents /\ inode' = inode /\ ref' = ref
        /\ todo' = todo
    BY <1>3 DEF PutTest, diskvars
  <1>5. \/ ref[i] = 1 /\ lock' = [lock EXCEPT ![i] = t] /\ put' = [put EXCEPT ![t] = "trunc"]
        \/ lock' = lock /\ put' = [put EXCEPT ![t] = "drop"]
    BY <1>3 DEF PutTest
  <1>6. PutStep(t)
    BY <1>1, <1>4, <1>5 DEF PutStep, PutTest, procvars, TreeTypes
  <1>7. TreeTypes'
    <2>1. lock' \in [Ino -> Thread \cup {NoThread}]
      BY <1>1, <1>5 DEF TreeTypes
    <2>2. put' \in [Thread -> {"test", "trunc", "clear", "drop"}]
      BY <1>1, <1>5 DEF TreeTypes
    <2> QED BY <1>1, <1>4, <1>6, <2>1, <2>2 DEF TreeTypes, PutStep
  <1>8. LockFrame(t)
    BY <1>1, <1>4, <1>5 DEF LockFrame, TreeTypes
  <1>9. RefExact'
    BY <1>4, <1>6, PutRefs
  <1>10. put'[t] \in {"trunc", "drop"} /\ (put'[t] = "trunc" => lock'[i] = t /\ ref[i] = 1)
    BY <1>1, <1>5 DEF TreeTypes
  <1>11. PutLock(t)' = IF put'[t] = "trunc" THEN i ELSE NoIno
    BY <1>3, <1>4, <1>10 DEF PutLock
  <1>12. ThreadOK(t)'
    <2>1. PcLock(t)' = PcLock(t) /\ HoldsIp(t)' = HoldsIp(t) /\ HoldsDp(t)' = HoldsDp(t)
      BY <1>6, PutFrame
    <2>2. PcLock(t) \in Ino \cup {NoIno}
      BY <1>1 DEF TreeTypes, PcLock
    <2>3. PcLock(t) # NoIno => lock[PcLock(t)] = t /\ PcLock(t) # i
      BY <1>1, <1>4, FileTreeAssumption DEF ThreadOK
    <2>4. PcLock(t) # NoIno => lock'[PcLock(t)] = t /\ PcLock(t) # PutLock(t)'
      BY <1>1, <1>5, <1>11, <2>2, <2>3 DEF TreeTypes
    <2>5. PutLock(t)' # NoIno => lock'[PutLock(t)'] = t
      BY <1>10, <1>11
    <2> QED BY <1>1, <1>2, <1>4, <1>6, <2>1, <2>4, <2>5 DEF ThreadOK, PutStep
  <1>13. ASSUME NEW u \in Thread PROVE ThreadOK(u)'
    BY <1>6, <1>8, <1>12, PutFrame, OthersOK
  <1>14. ASSUME NEW u \in Thread PROVE UseOK(u)'
    <2>1. UseOK(u)
      BY DEF TreeInv
    <2>2. InUse(u)'
      <3>1. InUse(u)
        BY <2>1 DEF UseOK, InUse
      <3> QED BY <1>4, <1>6, <3>1, PutFrame
    <2>3. ASSUME put'[u] = "trunc", NEW w \in Thread PROVE PutLock(u)' \notin {cwd'[w], file'[w]}
      <3>1. cwd' = cwd /\ file' = file
        BY <1>6 DEF PutStep
      <3>2. CASE u # t
        <4>1. put[u] = "trunc" /\ PutLock(u)' = PutLock(u)
          BY <1>6, <2>3, <3>2, PutFrame, OthersSame DEF PutStep
        <4> QED BY <2>1, <3>1, <4>1 DEF UseOK
      <3>3. CASE u = t
        <4>1. PutLock(t)' = i /\ ref[i] = 1
          BY <1>10, <1>11, <2>3, <3>3
        <4>2. PICK s \in {"first", "last"} : Pointer(t, s) = i
          BY <1>2, <1>3, HeadIs
        <4>3. s \in Slot /\ "cwd" \in Slot /\ "file" \in Slot /\ s # "cwd" /\ s # "file"
          BY DEF Slot
        <4>4. Pointer(w, "cwd") # i /\ Pointer(w, "file") # i
          BY <4>1, <4>2, <4>3, RefAtLeast DEF TreeInv
        <4> QED BY <3>1, <3>3, <4>1, <4>4, PointerIs
      <3> QED BY <3>2, <3>3
    <2> QED BY <2>2, <2>3 DEF UseOK, InUse
  <1>15. ASSUME NEW j \in Ino PROVE CacheOK(j)'
    <2>1. CacheOK(j)
      BY DEF TreeInv
    <2>2. ASSUME NEW u \in Thread, put[u] = "clear", PutLock(u) = j
          PROVE  put'[u] = "clear" /\ PutLock(u)' = j
      <3>1. u # t
        BY <1>2, <2>2
      <3> QED BY <1>6, <2>2, <3>1, PutFrame, OthersSame DEF PutStep
    <2> QED BY <1>4, <2>1, <2>2 DEF CacheOK
  <1> QED BY <1>7, <1>9, <1>13, <1>14, <1>15 DEF TreeInv

\* A thread that frees an inode goes on freeing it while t does another step.
LEMMA ClearStays ==
    ASSUME NEW t \in Thread, PutStep(t), NEW u \in Thread, u # t
    PROVE  put'[u] = put[u] /\ PutLock(u)' = PutLock(u)
  <1>1. put'[u] = put[u] /\ todo'[u] = todo[u]
    BY DEF PutStep
  <1> QED BY <1>1 DEF PutLock

LEMMA PutTruncKeeps ==
    ASSUME TreeInv, NEW t \in Thread, PutTrunc(t)
    PROVE  TreeInv'
  <1>1. TreeTypes /\ ThreadOK(t) /\ UseOK(t)
    BY DEF TreeInv
  <1>2. put[t] = "trunc" /\ todo[t] # <<>>
    BY <1>1 DEF PutTrunc, ThreadOK
  <1>3. PICK i \in Ino : i = PutLock(t) /\ i = Head(todo[t]) /\ lock[i] = t /\ i # NoIno
    BY <1>2, PutLockIn DEF PutLock
  <1>4. /\ dinode' = [dinode EXCEPT ![i].type = "free"] /\ inode' = [inode EXCEPT ![i].type = "free"]
        /\ ents' = [ents EXCEPT ![i] = [n \in Entry |-> NoIno]]
        /\ put' = [put EXCEPT ![t] = "clear"] /\ ref' = ref /\ lock' = lock /\ todo' = todo
    BY <1>3 DEF PutTrunc
  <1>5. PutStep(t)
    BY <1>1, <1>4 DEF PutStep, PutTrunc, procvars, TreeTypes
  <1>6. /\ dinode' \in [Ino -> DNode] /\ \A j \in Ino : j # i => dinode'[j] = dinode[j]
    <2>1. dinode \in [Ino -> DNode] /\ "free" \in Type
      BY <1>1 DEF TreeTypes, DNode, Type
    <2>2. [dinode[i] EXCEPT !.type = "free"] \in DNode
      BY <2>1 DEF DNode
    <2> QED BY <1>4, <2>1, <2>2
  <1>7. /\ inode' \in [Ino -> INode] /\ \A j \in Ino : j # i => inode'[j] = inode[j]
    <2>1. inode \in [Ino -> INode] /\ "free" \in Type
      BY <1>1 DEF TreeTypes, INode, Type
    <2>2. [inode[i] EXCEPT !.type = "free"] \in INode
      BY <2>1 DEF INode
    <2> QED BY <1>4, <2>1, <2>2
  <1>8. ents' \in [Ino -> [Entry -> Ino \cup {NoIno}]]
    BY <1>1, <1>4 DEF TreeTypes
  <1>9. TreeTypes'
    <2>1. put' \in [Thread -> {"test", "trunc", "clear", "drop"}]
      BY <1>1, <1>4 DEF TreeTypes
    <2> QED BY <1>1, <1>4, <1>5, <1>6, <1>7, <1>8, <2>1 DEF TreeTypes, PutStep, INode, DNode
  <1>10. RefExact'
    BY <1>4, <1>5, PutRefs
  <1>11. put'[t] = "clear" /\ PutLock(t)' = i
    <2>1. put'[t] = "clear"
      BY <1>1, <1>4 DEF TreeTypes
    <2> QED BY <1>3, <1>4, <2>1 DEF PutLock
  <1>12. ThreadOK(t)'
    <2>1. PcLock(t)' = PcLock(t) /\ HoldsIp(t)' = HoldsIp(t) /\ HoldsDp(t)' = HoldsDp(t)
      BY <1>5, PutFrame
    <2>2. PcLock(t) # NoIno => lock[PcLock(t)] = t /\ PcLock(t) # i
      BY <1>1, <1>3 DEF ThreadOK
    <2> QED BY <1>1, <1>2, <1>3, <1>4, <1>5, <1>11, <2>1, <2>2 DEF ThreadOK, PutStep
  <1>13. ASSUME NEW u \in Thread PROVE ThreadOK(u)'
    <2>1. LockFrame(t)
      BY <1>4 DEF LockFrame
    <2> QED BY <1>5, <1>12, <2>1, PutFrame, OthersOK
  <1>14. ASSUME NEW u \in Thread PROVE UseOK(u)'
    <2>1. UseOK(u) /\ ThreadOK(u)
      BY DEF TreeInv
    <2>2. cwd' = cwd /\ file' = file /\ pc' = pc /\ ip' = ip
      BY <1>5 DEF PutStep
    <2>3. cwd[u] # i /\ file[u] # i /\ cwd[u] \in Ino /\ file[u] \in Ino \cup {NoIno}
      BY <1>1, <1>2, <1>3 DEF UseOK, TreeTypes
    <2>4. pc[u] = "made" => ip[u] \in Ino /\ ip[u] # i
      <3>1. SUFFICES ASSUME pc[u] = "made" PROVE ip[u] \in Ino /\ ip[u] # i
        OBVIOUS
      <3>2. PcLock(u) = ip[u]
        BY <3>1 DEF PcLock
      <3>3. ip[u] \in Ino /\ ip[u] # NoIno
        BY <3>1, OwnTypes DEF IpHeld, Ino, NoIno
      <3>4. lock[ip[u]] = u /\ ip[u] # PutLock(u)
        BY <2>1, <3>2, <3>3 DEF ThreadOK
      <3>5. u # t => ip[u] # i
        BY <1>3, <3>4
      <3>6. u = t => ip[u] # i
        BY <1>3, <3>4
      <3> QED BY <3>3, <3>5, <3>6
    <2>5. InUse(u)'
      BY <1>6, <2>1, <2>2, <2>3, <2>4 DEF UseOK, InUse
    <2>6. ASSUME put'[u] = "trunc", NEW w \in Thread PROVE PutLock(u)' \notin {cwd'[w], file'[w]}
      <3>1. u # t
        BY <1>11, <2>6
      <3>2. put[u] = "trunc" /\ PutLock(u)' = PutLock(u)
        BY <1>5, <2>6, <3>1, ClearStays
      <3> QED BY <2>1, <2>2, <3>2 DEF UseOK
    <2> QED BY <2>5, <2>6 DEF UseOK, InUse
  <1>15. ASSUME NEW j \in Ino PROVE CacheOK(j)'
    <2>1. CacheOK(j)
      BY DEF TreeInv
    <2>2. CASE j = i
      BY <1>11, <2>2 DEF CacheOK
    <2>3. CASE j # i
      <3>1. ASSUME NEW u \in Thread, put[u] = "clear", PutLock(u) = j
            PROVE  put'[u] = "clear" /\ PutLock(u)' = j
        <4>1. u # t
          BY <1>2, <3>1
        <4> QED BY <1>5, <3>1, <4>1, ClearStays
      <3> QED BY <1>6, <1>7, <2>1, <2>3, <3>1 DEF CacheOK
    <2> QED BY <2>2, <2>3
  <1> QED BY <1>9, <1>10, <1>13, <1>14, <1>15 DEF TreeInv

\* Nothing changes for the processes if the types on the disk do not.
LEMMA PutUses ==
    ASSUME TreeInv, NEW t \in Thread, PutStep(t), dinode' = dinode, put'[t] # "trunc",
           NEW u \in Thread
    PROVE  UseOK(u)'
  <1>1. UseOK(u)
    BY DEF TreeInv
  <1>2. InUse(u)'
    <2>1. InUse(u)
      BY <1>1 DEF UseOK, InUse
    <2> QED BY <2>1, PutFrame
  <1>3. ASSUME put'[u] = "trunc", NEW w \in Thread PROVE PutLock(u)' \notin {cwd'[w], file'[w]}
    <2>1. put[u] = "trunc" /\ PutLock(u)' = PutLock(u)
      BY <1>3, ClearStays
    <2> QED BY <1>1, <2>1 DEF UseOK, PutStep
  <1> QED BY <1>2, <1>3 DEF UseOK, InUse

LEMMA PutClearKeeps ==
    ASSUME TreeInv, NEW t \in Thread, PutClear(t)
    PROVE  TreeInv'
  <1>1. TreeTypes /\ ThreadOK(t)
    BY DEF TreeInv
  <1>2. put[t] = "clear" /\ todo[t] # <<>>
    BY <1>1 DEF PutClear, ThreadOK
  <1>3. PICK i \in Ino : i = PutLock(t) /\ i = Head(todo[t]) /\ lock[i] = t /\ i # NoIno
    BY <1>2, PutLockIn DEF PutLock
  <1>4. /\ inode' = [inode EXCEPT ![i].valid = FALSE] /\ lock' = [lock EXCEPT ![i] = NoThread]
        /\ put' = [put EXCEPT ![t] = "drop"] /\ ref' = ref /\ todo' = todo
        /\ dinode' = dinode /\ ents' = ents
    BY <1>3 DEF PutClear, diskvars
  <1>5. PutStep(t)
    BY <1>1, <1>4 DEF PutStep, PutClear, procvars, TreeTypes
  <1>6. /\ inode' \in [Ino -> INode] /\ ~inode'[i].valid /\ \A j \in Ino : j # i => inode'[j] = inode[j]
    <2>1. inode \in [Ino -> INode]
      BY <1>1 DEF TreeTypes, INode
    <2>2. [inode[i] EXCEPT !.valid = FALSE] \in INode
      BY <2>1 DEF INode
    <2>3. inode'[i] = [inode[i] EXCEPT !.valid = FALSE]
      BY <1>4, <2>1
    <2>4. ~inode'[i].valid
      BY <2>1, <2>3 DEF INode
    <2> QED BY <1>4, <2>1, <2>2, <2>4
  <1>7. \A j \in Ino : lock'[j] = IF j = i THEN NoThread ELSE lock[j]
    BY <1>1, <1>4 DEF TreeTypes
  <1>8. TreeTypes'
    <2>1. lock' \in [Ino -> Thread \cup {NoThread}]
      BY <1>1, <1>4 DEF TreeTypes
    <2>2. put' \in [Thread -> {"test", "trunc", "clear", "drop"}]
      BY <1>1, <1>4 DEF TreeTypes
    <2> QED BY <1>1, <1>4, <1>5, <1>6, <2>1, <2>2 DEF TreeTypes, PutStep, INode
  <1>9. RefExact'
    BY <1>4, <1>5, PutRefs
  <1>10. put'[t] = "drop" /\ PutLock(t)' = NoIno
    <2>1. put'[t] = "drop"
      BY <1>1, <1>4 DEF TreeTypes
    <2> QED BY <2>1 DEF PutLock
  <1>11. ThreadOK(t)'
    <2>1. PcLock(t)' = PcLock(t) /\ HoldsIp(t)' = HoldsIp(t) /\ HoldsDp(t)' = HoldsDp(t)
      BY <1>5, PutFrame
    <2>2. PcLock(t) \in Ino \cup {NoIno}
      BY <1>1 DEF TreeTypes, PcLock
    <2>3. PcLock(t) # NoIno => lock'[PcLock(t)] = t
      BY <1>1, <1>3, <1>7, <2>2 DEF ThreadOK
    <2> QED BY <1>1, <1>2, <1>4, <1>5, <1>10, <2>1, <2>3 DEF ThreadOK, PutStep
  <1>12. ASSUME NEW u \in Thread PROVE ThreadOK(u)'
    <2>1. LockFrame(t)
      BY <1>3, <1>7 DEF LockFrame
    <2> QED BY <1>5, <1>11, <2>1, PutFrame, OthersOK
  <1>13. ASSUME NEW u \in Thread PROVE UseOK(u)'
    BY <1>4, <1>5, <1>10, PutUses
  <1>14. ASSUME NEW j \in Ino PROVE CacheOK(j)'
    <2>1. CacheOK(j)
      BY DEF TreeInv
    <2>2. CASE j = i
      BY <1>6, <2>2 DEF CacheOK
    <2>3. CASE j # i
      <3>1. ASSUME NEW u \in Thread, put[u] = "clear", PutLock(u) = j
            PROVE  put'[u] = "clear" /\ PutLock(u)' = j
        <4>1. u # t
          BY <1>3, <2>3, <3>1
        <4> QED BY <1>5, <3>1, <4>1, ClearStays
      <3> QED BY <1>4, <1>6, <2>1, <2>3, <3>1 DEF CacheOK
    <2> QED BY <2>2, <2>3
  <1> QED BY <1>8, <1>9, <1>12, <1>13, <1>14 DEF TreeInv

LEMMA PutDropKeeps ==
    ASSUME TreeInv, NEW t \in Thread, PutDrop(t)
    PROVE  TreeInv'
  <1>1. TreeTypes /\ ThreadOK(t)
    BY DEF TreeInv
  <1>2. put[t] = "drop" /\ todo[t] # <<>>
    BY <1>1 DEF PutDrop, ThreadOK
  <1>3. PICK i \in Ino : i = Head(todo[t]) /\ i # NoIno
    BY <1>2, HeadIs
  <1>4. /\ inode' = [inode EXCEPT ![i] = IF ref[i] = 1 THEN Blank ELSE @]
        /\ ref' = [ref EXCEPT ![i] = @ - 1] /\ todo' = [todo EXCEPT ![t] = Tail(@)]
        /\ put' = [put EXCEPT ![t] = "test"] /\ lock' = lock /\ dinode' = dinode /\ ents' = ents
    BY <1>3 DEF PutDrop, diskvars
  <1>5. PutStep(t)
    BY <1>1, <1>4 DEF PutStep, PutDrop, procvars, TreeTypes
  <1>6. /\ inode' \in [Ino -> INode] /\ \A j \in Ino : inode'[j] = inode[j] \/ ~inode'[j].valid
    <2>1. inode \in [Ino -> INode]
      BY <1>1 DEF TreeTypes, INode
    <2>2. Blank \in INode /\ ~Blank.valid
      BY DEF Blank, INode, Type
    <2> QED BY <1>4, <2>1, <2>2
  <1>7. todo'[t] = Tail(todo[t]) /\ put'[t] = "test" /\ Tail(todo[t]) \in Todo
    BY <1>1, <1>2, <1>4, HeadIs DEF TreeTypes
  <1>8. TreeTypes'
    <2>1. ref' \in [Ino -> Int]
      BY <1>1, <1>4 DEF TreeTypes
    <2>2. put' \in [Thread -> {"test", "trunc", "clear", "drop"}] /\ todo' \in [Thread -> Todo]
      BY <1>1, <1>4, <1>7 DEF TreeTypes
    <2> QED BY <1>1, <1>4, <1>5, <1>6, <2>1, <2>2 DEF TreeTypes, PutStep, INode
  <1>9. RefExact'
    <2>1. \A u \in Thread, s \in Slot : u # t => Pointer(u, s)' = Pointer(u, s)
      BY <1>5, PutFrame, OthersSame
    <2>2. ASSUME NEW j \in Ino PROVE ref'[j] = (ref[j] + Here(t, j)') - Here(t, j)
      <3>1. /\ Pointer(t, "cwd")' = Pointer(t, "cwd") /\ Pointer(t, "file")' = Pointer(t, "file")
            /\ Pointer(t, "ip")' = Pointer(t, "ip") /\ Pointer(t, "dp")' = Pointer(t, "dp")
        BY <1>5, PutFrame, PointerIs, PointerNext DEF PutStep
      <3>2. PICK a, b, c, d, x, y :
               /\ a = One(Pointer(t, "first"), j) /\ b = One(Pointer(t, "last"), j)
               /\ c = One(Pointer(t, "first")', j) /\ d = One(Pointer(t, "last")', j)
               /\ x = One(i, j)
               /\ y = ((One(Pointer(t, "cwd"), j) + One(Pointer(t, "file"), j))
                       + One(Pointer(t, "ip"), j)) + One(Pointer(t, "dp"), j)
        OBVIOUS
      <3>3. a + b = (c + d) + x
        BY <1>2, <1>3, <1>7, <3>2, HeadIs, PointerIs, PointerNext
      <3>4. Here(t, j) = (y + a) + b /\ Here(t, j)' = (y + c) + d
        BY <3>1, <3>2 DEF Here
      <3>5. a \in Int /\ b \in Int /\ c \in Int /\ d \in Int /\ x \in Int /\ y \in Int
        BY <3>2, OneType
      <3>6. ref[j] \in Int /\ ref'[j] = ref[j] - x
        BY <1>1, <1>4, <3>2 DEF TreeTypes, One
      <3> QED BY <3>3, <3>4, <3>5, <3>6
    <2> QED BY <2>1, <2>2, RefStep DEF TreeInv
  <1>10. PutLock(t)' = NoIno
    BY <1>7 DEF PutLock
  <1>11. ThreadOK(t)'
    <2>1. PcLock(t)' = PcLock(t) /\ HoldsIp(t)' = HoldsIp(t) /\ HoldsDp(t)' = HoldsDp(t)
      BY <1>5, PutFrame
    <2> QED BY <1>1, <1>4, <1>5, <1>7, <1>10, <2>1 DEF ThreadOK, PutStep
  <1>12. ASSUME NEW u \in Thread PROVE ThreadOK(u)'
    <2>1. LockFrame(t)
      BY <1>4 DEF LockFrame
    <2> QED BY <1>5, <1>11, <2>1, PutFrame, OthersOK
  <1>13. ASSUME NEW u \in Thread PROVE UseOK(u)'
    BY <1>4, <1>5, <1>7, PutUses
  <1>14. ASSUME NEW j \in Ino PROVE CacheOK(j)'
    <2>1. CacheOK(j)
      BY DEF TreeInv
    <2>2. ASSUME NEW u \in Thread, put[u] = "clear", PutLock(u) = j
          PROVE  put'[u] = "clear" /\ PutLock(u)' = j
      <3>1. u # t
        BY <1>2, <2>2
      <3> QED BY <1>5, <2>2, <3>1, ClearStays
    <2> QED BY <1>4, <1>6, <2>1, <2>2 DEF CacheOK
  <1> QED BY <1>8, <1>9, <1>12, <1>13, <1>14 DEF TreeInv

-----------------------------------------------------------------------------
LEMMA InitHolds == Init => TreeInv
  <1> SUFFICES ASSUME Init PROVE TreeInv
    OBVIOUS
  <1>1. Root \in Ino /\ Root # NoIno
    BY FileTreeAssumption DEF Root, Ino, NoIno
  <1>2. TreeTypes
    <2>1. Cardinality(Thread) \in Int
      BY FS_CardinalityType, FileTreeAssumption
    <2>2. dinode \in [Ino -> [type : Type, nlink : Int]] /\ ents \in [Ino -> [Entry -> Ino \cup {NoIno}]]
      BY <1>1 DEF Init, Type
    <2>3. inode \in [Ino -> [valid : BOOLEAN, type : Type, nlink : Int]] /\ ref \in [Ino -> Int]
      BY <2>1 DEF Init, Type, Blank
    <2>4. lock \in [Ino -> Thread \cup {NoThread}] /\ cwd \in [Thread -> Ino]
      BY <1>1 DEF Init
    <2>5. /\ file \in [Thread -> Ino \cup {NoIno}] /\ call = [t \in Thread |-> call[t]]
          /\ path \in [Thread -> Seq(Entry)]
      BY DEF Init
    <2>6. /\ ip \in [Thread -> Ino \cup {NoIno}] /\ dp \in [Thread -> Ino \cup {NoIno}]
          /\ pc \in [Thread -> PC]
      BY DEF Init, PC
    <2>7. /\ todo \in [Thread -> Todo] /\ put \in [Thread -> {"test", "trunc", "clear", "drop"}]
          /\ panicked \in BOOLEAN
      BY TodoIs DEF Init
    <2> QED BY <2>2, <2>3, <2>4, <2>5, <2>6, <2>7 DEF TreeTypes
  <1>3. ASSUME NEW t \in Thread PROVE ThreadOK(t) /\ UseOK(t)
    <2>1. /\ cwd[t] = Root /\ file[t] = NoIno /\ call[t] = NoCall /\ pc[t] = "idle"
          /\ todo[t] = <<>> /\ put[t] = "test"
      BY DEF Init
    <2>2. PcLock(t) = NoIno /\ PutLock(t) = NoIno /\ ~HoldsIp(t) /\ ~HoldsDp(t)
      BY <2>1 DEF PcLock, PutLock, HoldsIp, HoldsDp
    <2>3. dinode[Root].type = "dir"
      BY <1>1 DEF Init
    <2> QED BY <2>1, <2>2, <2>3 DEF ThreadOK, UseOK
  <1>4. ASSUME NEW i \in Ino PROVE CacheOK(i)
    BY DEF Init, CacheOK, Blank
  <1>5. RefExact
    <2>1. SUFFICES ASSUME NEW i \in Ino
                   PROVE  ref[i] = Cardinality({x \in Thread \X Slot : Pointer(x[1], x[2]) = i})
      BY DEF RefExact
    <2>2. ASSUME NEW t \in Thread, NEW s \in Slot
          PROVE  Pointer(t, s) = IF s = "cwd" THEN Root ELSE NoIno
      <3>1. /\ cwd[t] = Root /\ file[t] = NoIno /\ todo[t] = <<>> /\ pc[t] = "idle"
        BY DEF Init
      <3>2. ~HoldsIp(t) /\ ~HoldsDp(t)
        BY <3>1 DEF HoldsIp, HoldsDp
      <3> QED BY <3>1, <3>2, PointerIs, SeqSlots DEF Slot
    <2>3. PICK A : A = {x \in Thread \X Slot : Pointer(x[1], x[2]) = i}
      OBVIOUS
    <2>4. i # NoIno
      BY DEF Ino, NoIno
    <2>5. CASE i # Root
      <3>1. A = {}
        BY <2>2, <2>3, <2>4, <2>5
      <3>2. ref[i] = 0
        BY <2>5 DEF Init
      <3> QED BY <2>3, <3>1, <3>2, FS_EmptySet
    <2>6. CASE i = Root
      <3>1. \A x \in A : x[1] \in Thread /\ x[2] = "cwd" /\ x = <<x[1], "cwd">>
        BY <2>2, <2>3, <2>4
      <3>2. \A t \in Thread : <<t, "cwd">> \in A
        BY <2>2, <2>3, <2>6 DEF Slot
      <3>3. PICK f : f = [t \in Thread |-> <<t, "cwd">>]
        OBVIOUS
      <3>4. f \in Bijection(Thread, A)
        <4>1. f \in Injection(Thread, A)
          BY <3>2, <3>3 DEF Injection, IsInjective
        <4>2. \A x \in A : \E t \in Thread : f[t] = x
          BY <3>1, <3>3
        <4> QED BY <4>1, <4>2 DEF Bijection, Surjection, Injection
      <3>5. Cardinality(A) = Cardinality(Thread)
        BY <3>4, FS_Bijection, FileTreeAssumption DEF ExistsBijection
      <3>6. ref[i] = Cardinality(Thread)
        BY <2>6 DEF Init
      <3> QED BY <2>3, <3>5, <3>6
    <2> QED BY <2>5, <2>6
  <1> QED BY <1>2, <1>3, <1>4, <1>5 DEF TreeInv

LEMMA StepHolds == TreeInv /\ [Next]_vars => TreeInv'
  <1> SUFFICES ASSUME TreeInv, [Next]_vars PROVE TreeInv'
    OBVIOUS
  <1>1. CASE UNCHANGED vars
    <2>1. UNCHANGED <<dinode, ents, inode, ref, lock>>
      BY <1>1 DEF vars, diskvars, cachevars
    <2>2. UNCHANGED <<cwd, file, call, path, ip, dp, pc, todo, put>> /\ panicked' = panicked
      BY <1>1 DEF vars, procvars
    <2>3. panicked' \in BOOLEAN
      BY <2>2 DEF TreeInv, TreeTypes
    <2> QED BY <2>1, <2>2, <2>3, StopKeeps
  <1>2. ASSUME NEW t \in Thread, NEW c \in Calls[t], Call(t, c) PROVE TreeInv'
    BY <1>2, CallKeeps
  <1>3. ASSUME NEW t \in Thread, Namex(t) PROVE TreeInv'
    BY <1>3, WalkKeeps, WalkParentKeeps, PanicKeeps DEF Namex
  <1>4. ASSUME NEW t \in Thread, Iput(t) PROVE TreeInv'
    BY <1>4, PutTestKeeps, PutTruncKeeps, PutClearKeeps, PutDropKeeps DEF Iput
  <1>5. ASSUME NEW t \in Thread, Opening(t) PROVE TreeInv'
    BY <1>5, OpenKeeps, ChdirKeeps, CloseKeeps DEF Opening
  <1>6. ASSUME NEW t \in Thread, Create(t) PROVE TreeInv'
    BY <1>6, CreateExistsKeeps, ExistsKeeps, CreateAllocKeeps, PanicKeeps, CreateLinkKeeps, MadeKeeps
       DEF Create
  <1>7. ASSUME NEW t \in Thread, Link(t) PROVE TreeInv'
    BY <1>7, LinkOldKeeps, LinkNewKeeps, LinkTakenKeeps, LinkBadKeeps DEF Link
  <1>8. ASSUME NEW t \in Thread, Unlink(t) PROVE TreeInv'
    BY <1>8, UnlinkFindKeeps, UnlinkEraseKeeps, UnlinkNotEmptyKeeps, UnlinkCountKeeps DEF Unlink
  <1>9. ASSUME NEW t \in Thread, Return(t) PROVE TreeInv'
    BY <1>9, ReturnKeeps
  <1> QED BY <1>1, <1>2, <1>3, <1>4, <1>5, <1>6, <1>7, <1>8, <1>9 DEF Next

\* The invariant holds in every reachable state, whatever calls are made.
THEOREM TreeInvariance == Spec => []TreeInv
  BY InitHolds, StepHolds, PTL DEF Spec

\* ip->ref "tracks the number of in-memory pointers to the entry" (fs.c) on every
\* path through namex(), create(), sys_link(), sys_unlink(), open, chdir and close.
THEOREM RefCountIsExact == Spec => []RefExact
  <1>1. TreeInv => RefExact
    BY DEF TreeInv
  <1> QED BY <1>1, TreeInvariance, PTL

\* iput() never frees the current directory or the open file of a process, even
\* though it gives up icache.lock after it has read the count, and frees the
\* inode and drops the reference in later critical sections.
THEOREM UsedIsNotFreed == Spec => []NotFreedInUse
  <1>1. TreeInv => NotFreedInUse
    BY DEF TreeInv, UseOK, NotFreedInUse
  <1> QED BY <1>1, TreeInvariance, PTL
-----------------------------------------------------------------------------
(* Links, for programs that do not use "..".                               *)

\* No path of a system call leads upwards.
NoDotDot ==
    \A t \in Thread : \A c \in Calls[t] :
       Rest(c.path) \in Seq(Entry \ {".."}) /\ Rest(c.new) \in Seq(Entry \ {".."})

\* The first inode that t drops, and whether iput() has let go of it already:
\* the inode may be free, or another one by now.
HeadSlot(t) == IF Len(todo[t]) > 1 THEN "first" ELSE "last"
Dying(t, s) == put[t] \in {"clear", "drop"} /\ s = HeadSlot(t)

\* What nlink must count: the entries that name the inode, those of a directory
\* that name directories, the links that sys_link() has counted and not entered
\* and sys_unlink() has erased and still counts, and the root.
Places == Ino \X Name
NameMap == [e \in Places |-> ents[e[1]][e[2]]]
SubMap ==
    [e \in Places |-> IF ents[e[1]][e[2]] # NoIno /\ dinode[ents[e[1]][e[2]]].type = "dir"
                      THEN e[1] ELSE NoIno]
LinkPending(t) ==
    pc[t] = "bad" \/ (pc[t] \in {"nameiparent", "parent", "taken"} /\ call[t].name = "link")
Extra(t) == IF LinkPending(t) \/ pc[t] = "unlinked" THEN ip[t] ELSE NoIno
ExtraMap == [t \in Thread |-> Extra(t)]
LinkCount(i) ==
    ((Num(NameMap, Places, i) + Num(SubMap, Places, i)) + Num(ExtraMap, Thread, i)) + One(Root, i)
Covered(i) == LinkCount(i) <= dinode[i].nlink

PathOK(t) == path[t] \in Seq(Entry \ {".."})

\* A locked inode is valid.
ValidOK(t) == PcLock(t) # NoIno => inode[PcLock(t)].valid

\* iput() frees an inode without links to which nobody else refers.
TruncOK(t) ==
    put[t] = "trunc" =>
       /\ dinode[PutLock(t)].nlink = 0
       /\ \A u \in Thread, s \in Slot : Pointer(u, s) = PutLock(t) => u = t /\ s = HeadSlot(t)

\* Nobody refers to a free inode, except in an iput() which is past the test.
LiveOK(t) ==
    \A s \in Slot : Pointer(t, s) # NoIno /\ ~Dying(t, s) => dinode[Pointer(t, s)].type # "free"

\* Where create(), sys_link() and sys_unlink() are.
DirOK(t) ==
    /\ pc[t] \in {"parent", "new", "child"} => dinode[dp[t]].type = "dir"
    /\ pc[t] \in {"new", "child"} => Head(path[t]) \in Name
    /\ pc[t] = "new" => ents[dp[t]][Head(path[t])] = NoIno
    /\ pc[t] = "child" => ents[dp[t]][Head(path[t])] = ip[t]
    /\ LinkPending(t) => dinode[ip[t]].type # "dir"

\* The inode that ialloc() has given to create() is empty and no one else's.
NewOK(t) ==
    pc[t] = "new" =>
       /\ dinode[ip[t]].nlink = 0 /\ dinode[ip[t]].type = TypeOf(t)
       /\ \A n \in Entry : ents[ip[t]][n] = NoIno
       /\ \A u \in Thread, s \in Slot : Pointer(u, s) = ip[t] => Dying(u, s) \/ (u = t /\ s = "ip")

LinkOK(t) == PathOK(t) /\ ValidOK(t) /\ TruncOK(t) /\ LiveOK(t) /\ DirOK(t) /\ NewOK(t)

\* The contents of an inode.
DotOK(d) ==
    /\ dinode[d].type # "dir" => \A n \in Entry : ents[d][n] = NoIno
    /\ ents[d]["."] \in {d, NoIno}
    /\ dinode[d].type = "dir" =>
          ents[d]["."] = d \/ \E t \in Thread : pc[t] = "new" /\ ip[t] = d
    /\ dinode[d].type = "free" => dinode[d].nlink = 0
TreeOK(d) ==
    dinode[d].type = "dir" =>
       \A e \in Places : NameMap[e] = d =>
          ents[d][".."] = e[1] /\ \A f \in Places : NameMap[f] = d => e = f

LinkInv ==
    /\ TreeInv
    /\ \A t \in Thread : LinkOK(t)
    /\ \A d \in Ino : DotOK(d) /\ TreeOK(d) /\ Covered(d)

LEMMA PlacesAreFinite == IsFiniteSet(Places) /\ IsFiniteSet(Thread)
  <1>1. IsFiniteSet(Ino)
    BY FS_Interval, FileTreeAssumption DEF Ino
  <1> QED BY <1>1, FS_Product, FileTreeAssumption DEF Places

LEMMA NumNat ==
    ASSUME NEW X, IsFiniteSet(X), NEW P, NEW i
    PROVE  Num(P, X, i) \in Nat
  <1>1. IsFiniteSet(Fiber(P, X, i))
    BY FS_Subset DEF Fiber
  <1> QED BY <1>1, FS_CardinalityType DEF Num

LEMMA CountTypes ==
    ASSUME NEW i
    PROVE  /\ Num(NameMap, Places, i) \in Nat /\ Num(SubMap, Places, i) \in Nat
           /\ Num(ExtraMap, Thread, i) \in Nat /\ One(Root, i) \in Nat
  BY NumNat, PlacesAreFinite DEF One

\* An inode that has a name, holds a directory or is the root has a link.
LEMMA Linked ==
    ASSUME LinkInv, NEW i \in Ino, i = Root \/ \E e \in Places : NameMap[e] = i \/ SubMap[e] = i
    PROVE  dinode[i].nlink >= 1 /\ dinode[i].type # "free"
  <1>1. PICK a, b, c, r : /\ a = Num(NameMap, Places, i) /\ b = Num(SubMap, Places, i)
                          /\ c = Num(ExtraMap, Thread, i) /\ r = One(Root, i)
    OBVIOUS
  <1>2. a \in Nat /\ b \in Nat /\ c \in Nat /\ r \in Nat
    BY <1>1, CountTypes
  <1>3. ((a + b) + c) + r <= dinode[i].nlink
    BY <1>1 DEF LinkInv, Covered, LinkCount
  <1>4. dinode[i].nlink \in Int
    BY DEF LinkInv, TreeInv, TreeTypes
  <1>5. a >= 1 \/ b >= 1 \/ r >= 1
    <2>1. CASE i = Root
      BY <1>1, <2>1 DEF One
    <2>2. ASSUME NEW e \in Places, NameMap[e] = i PROVE a >= 1
      BY <1>1, <2>2, CountTwo, PlacesAreFinite
    <2>3. ASSUME NEW e \in Places, SubMap[e] = i PROVE b >= 1
      BY <1>1, <2>3, CountTwo, PlacesAreFinite
    <2> QED BY <2>1, <2>2, <2>3
  <1>6. dinode[i].nlink >= 1
    BY <1>2, <1>3, <1>4, <1>5
  <1>7. dinode[i].type = "free" => dinode[i].nlink = 0
    BY DEF LinkInv, DotOK
  <1> QED BY <1>6, <1>7

\* What a step does to the links, if it changes one entry e at most, and the
\* pending link of t.
Change(P, Q, y, i) == One(Q[y], i) - One(P[y], i)

LEMMA CoverStep ==
    ASSUME LinkInv, NEW t \in Thread, NEW e \in Places, NEW i \in Ino, dinode'[i].nlink \in Int,
           Elsewhere(NameMap, NameMap', Places, e), Elsewhere(SubMap, SubMap', Places, e),
           Elsewhere(ExtraMap, ExtraMap', Thread, t),
           ((dinode[i].nlink + Change(NameMap, NameMap', e, i)) + Change(SubMap, SubMap', e, i))
             + Change(ExtraMap, ExtraMap', t, i) <= dinode'[i].nlink
    PROVE  Covered(i)'
  <1>1. PICK N, N2, S, S2, X, X2 :
           /\ N = NameMap /\ N2 = NameMap' /\ S = SubMap /\ S2 = SubMap'
           /\ X = ExtraMap /\ X2 = ExtraMap'
    OBVIOUS
  <1>2. Shifts(N, N2, Places, e, i)
    BY <1>1, CountOne, PlacesAreFinite
  <1>3. Shifts(S, S2, Places, e, i)
    BY <1>1, CountOne, PlacesAreFinite
  <1>4. Shifts(X, X2, Thread, t, i)
    BY <1>1, CountOne, PlacesAreFinite
  <1>5. LinkCount(i)' = ((Num(N2, Places, i) + Num(S2, Places, i)) + Num(X2, Thread, i)) + One(Root, i)
    BY <1>1 DEF LinkCount, Num, Fiber, One, Root
  <1>6. LinkCount(i) = ((Num(N, Places, i) + Num(S, Places, i)) + Num(X, Thread, i)) + One(Root, i)
    BY <1>1 DEF LinkCount
  <1>7. LinkCount(i) <= dinode[i].nlink /\ dinode[i].nlink \in Int
    BY DEF LinkInv, TreeInv, TreeTypes, Covered
  <1>8. /\ Change(NameMap, NameMap', e, i) = One(N2[e], i) - One(N[e], i)
        /\ Change(SubMap, SubMap', e, i) = One(S2[e], i) - One(S[e], i)
        /\ Change(ExtraMap, ExtraMap', t, i) = One(X2[t], i) - One(X[t], i)
    BY <1>1 DEF Change
  <1>9. \A v : One(v, i) \in Int
    BY DEF One
  <1>10. LinkCount(i)' <= dinode'[i].nlink
    BY <1>2, <1>3, <1>4, <1>5, <1>6, <1>7, <1>8, <1>9 DEF Shifts
  <1> QED BY <1>10 DEF Covered

LEMMA CoverSame ==
    ASSUME LinkInv, NEW t \in Thread, NEW i \in Ino, dinode'[i].nlink \in Int,
           NameMap' = NameMap, SubMap' = SubMap, Elsewhere(ExtraMap, ExtraMap', Thread, t),
           dinode[i].nlink + Change(ExtraMap, ExtraMap', t, i) <= dinode'[i].nlink
    PROVE  Covered(i)'
  <1>1. PICK X, X2 : X = ExtraMap /\ X2 = ExtraMap'
    OBVIOUS
  <1>2. Shifts(X, X2, Thread, t, i)
    BY <1>1, CountOne, PlacesAreFinite
  <1>3. PICK a, b, r : /\ a = Num(NameMap, Places, i) /\ b = Num(SubMap, Places, i)
                       /\ r = One(Root, i)
    OBVIOUS
  <1>4. LinkCount(i)' = ((a + b) + Num(X2, Thread, i)) + r
    BY <1>1, <1>3 DEF LinkCount, Num, Fiber, One, Root
  <1>5. LinkCount(i) = ((a + b) + Num(X, Thread, i)) + r
    BY <1>1, <1>3 DEF LinkCount
  <1>6. LinkCount(i) <= dinode[i].nlink /\ dinode[i].nlink \in Int
    BY DEF LinkInv, TreeInv, TreeTypes, Covered
  <1>7. Change(ExtraMap, ExtraMap', t, i) = One(X2[t], i) - One(X[t], i)
    BY <1>1 DEF Change
  <1>8. (\A v : One(v, i) \in Int) /\ a \in Nat /\ b \in Nat /\ r \in Nat
    BY <1>3, CountTypes DEF One
  <1>9. LinkCount(i)' <= dinode'[i].nlink
    BY <1>2, <1>4, <1>5, <1>6, <1>7, <1>8 DEF Shifts
  <1> QED BY <1>9 DEF Covered

-----------------------------------------------------------------------------
(* What a step of t leaves to the other processes.                         *)

\* t changes only what it refers to and has locked, or what is free.
Touch(t) ==
    \A i \in Ino :
       \/ dinode'[i] = dinode[i] /\ ents'[i] = ents[i]
       \/ dinode[i].type = "free"
       \/ /\ lock[i] \in {t, NoThread}
          /\ \E s \in Slot : Pointer(t, s) = i /\ ~Dying(t, s)

\* Where a reference comes from.
GainFrom(t, s, i) ==
    \/ \E r \in Slot : Pointer(t, r) = i /\ ~Dying(t, r)
    \/ Pointer(t, s) = i /\ Dying(t, s) /\ Dying(t, s)'
    \/ \E e \in Places : NameMap[e] = i
    \/ i = Root
    \/ dinode[i].type = "free" /\ dinode'[i].type # "free"
Gains(t) == \A s \in Slot, i \in Ino : Pointer(t, s)' = i => GainFrom(t, s, i)

\* The inodes to which others refer keep their types, and stay valid if locked.
Kept(t) ==
    \A u \in Thread, s \in Slot :
       u # t /\ Pointer(u, s) # NoIno /\ dinode[Pointer(u, s)].type # "free"
       => dinode'[Pointer(u, s)].type = dinode[Pointer(u, s)].type
KeptValid(t) ==
    \A u \in Thread :
       u # t /\ PcLock(u) # NoIno /\ inode[PcLock(u)].valid => inode'[PcLock(u)].valid

LEMMA OthersSame2 ==
    ASSUME NEW t \in Thread, Others(t), NEW u \in Thread, u # t
    PROVE  /\ HeadSlot(u)' = HeadSlot(u) /\ (LinkPending(u)' <=> LinkPending(u))
           /\ TypeOf(u)' = TypeOf(u) /\ Extra(u)' = Extra(u)
           /\ \A s \in Slot : Dying(u, s)' <=> Dying(u, s)
  <1>1. /\ call'[u] = call[u] /\ ip'[u] = ip[u] /\ pc'[u] = pc[u]
        /\ todo'[u] = todo[u] /\ put'[u] = put[u]
    BY DEF Others
  <1>2. HeadSlot(u)' = HeadSlot(u)
    BY <1>1 DEF HeadSlot
  <1>3. LinkPending(u)' <=> LinkPending(u)
    BY <1>1 DEF LinkPending
  <1>4. TypeOf(u)' = TypeOf(u)
    BY <1>1 DEF TypeOf
  <1>5. Extra(u)' = Extra(u)
    BY <1>1, <1>3 DEF Extra
  <1>6. \A s \in Slot : Dying(u, s)' <=> Dying(u, s)
    BY <1>1, <1>2 DEF Dying
  <1> QED BY <1>2, <1>3, <1>4, <1>5, <1>6

\* A process that is about to free an inode refers to it.
LEMMA TruncLive ==
    ASSUME LinkInv, NEW u \in Thread, put[u] = "trunc"
    PROVE  /\ PutLock(u) \in Ino /\ lock[PutLock(u)] = u /\ dinode[PutLock(u)].type # "free"
           /\ \E s \in Slot : Pointer(u, s) = PutLock(u) /\ ~Dying(u, s)
  <1>1. TreeInv /\ LiveOK(u)
    BY DEF LinkInv, LinkOK
  <1>2. PICK i \in Ino : i = PutLock(u) /\ lock[i] = u /\ i # NoIno /\ i = Head(todo[u])
    BY <1>1, PutLockIn DEF PutLock
  <1>3. todo[u] # <<>>
    BY <1>1 DEF TreeInv, ThreadOK
  <1>4. PICK s \in {"first", "last"} : Pointer(u, s) = i
    BY <1>1, <1>2, <1>3, HeadIs
  <1>5. s \in Slot /\ ~Dying(u, s)
    BY DEF Slot, Dying
  <1>6. dinode[i].type # "free"
    BY <1>1, <1>2, <1>4, <1>5 DEF LiveOK
  <1> QED BY <1>2, <1>4, <1>5, <1>6

\* The part of the invariant that is about a process u other than t.
LEMMA OtherTrunc ==
    ASSUME LinkInv, NEW t \in Thread, Others(t), NEW u \in Thread, u # t, Touch(t), Gains(t)
    PROVE  TruncOK(u)'
  <1>1. SUFFICES ASSUME put'[u] = "trunc"
                 PROVE  /\ dinode'[PutLock(u)'].nlink = 0
                        /\ \A w \in Thread, s \in Slot :
                              Pointer(w, s)' = PutLock(u)' => w = u /\ s = HeadSlot(u)'
    BY DEF TruncOK
  <1>2. put[u] = "trunc"
    BY <1>1 DEF Others
  <1>3. PICK i \in Ino : i = PutLock(u) /\ lock[i] = u /\ dinode[i].type # "free"
    BY <1>2, TruncLive
  <1>4. PutLock(u)' = i /\ HeadSlot(u)' = HeadSlot(u)
    BY <1>3, OthersSame, OthersSame2
  <1>5. dinode[i].nlink = 0 /\ \A w \in Thread, s \in Slot : Pointer(w, s) = i => w = u /\ s = HeadSlot(u)
    BY <1>2, <1>3 DEF LinkInv, LinkOK, TruncOK
  <1>6. u # NoThread
    BY FileTreeAssumption
  <1>7. dinode'[i] = dinode[i]
    BY <1>3, <1>6 DEF Touch
  <1>8. ASSUME NEW s \in Slot, Pointer(t, s)' = i PROVE FALSE
    <2>1. GainFrom(t, s, i)
      BY <1>8 DEF Gains
    <2>2. ~(i = Root \/ \E e \in Places : NameMap[e] = i)
      <3>1. i = Root \/ (\E e \in Places : NameMap[e] = i) => dinode[i].nlink >= 1
        BY Linked
      <3> QED BY <1>5, <3>1
    <2> QED BY <1>3, <1>5, <2>1, <2>2 DEF GainFrom
  <1>9. ASSUME NEW w \in Thread, NEW s \in Slot, Pointer(w, s)' = i, w # t
        PROVE  w = u /\ s = HeadSlot(u)
    BY <1>5, <1>9, OthersSame
  <1> QED BY <1>4, <1>5, <1>7, <1>8, <1>9

LEMMA OtherDir ==
    ASSUME LinkInv, NEW t \in Thread, Others(t), NEW u \in Thread, u # t, Touch(t), Kept(t)
    PROVE  DirOK(u)'
  <1>1. DirOK(u) /\ LiveOK(u) /\ TreeInv
    BY DEF LinkInv, LinkOK
  <1>2. /\ ip'[u] = ip[u] /\ dp'[u] = dp[u] /\ pc'[u] = pc[u] /\ path'[u] = path[u]
        /\ (LinkPending(u)' <=> LinkPending(u))
    BY OthersSame2 DEF Others
  <1>3. pc[u] \in {"parent", "new", "child"} => dinode'[dp[u]].type = "dir"
    <2>1. SUFFICES ASSUME pc[u] \in {"parent", "new", "child"} PROVE dinode'[dp[u]].type = "dir"
      OBVIOUS
    <2>2. Pointer(u, "dp") = dp[u] /\ dp[u] # NoIno
      BY <1>1, <2>1, PointerIs DEF HoldsDp, TreeInv, ThreadOK
    <2>3. dinode[dp[u]].type = "dir"
      BY <1>1, <2>1 DEF DirOK
    <2> QED BY <2>2, <2>3 DEF Kept, Slot
  <1>4. pc[u] \in {"new", "child"} => ents'[dp[u]] = ents[dp[u]]
    <2>1. SUFFICES ASSUME pc[u] \in {"new", "child"} PROVE ents'[dp[u]] = ents[dp[u]]
      OBVIOUS
    <2>2. PcLock(u) = dp[u] /\ HoldsDp(u)
      BY <2>1 DEF PcLock, HoldsDp
    <2>3. dp[u] # NoIno /\ lock[dp[u]] = u /\ dp[u] \in Ino
      BY <1>1, <2>2 DEF TreeInv, ThreadOK, TreeTypes
    <2>4. dinode[dp[u]].type = "dir"
      BY <1>1, <2>1 DEF DirOK
    <2>5. u # NoThread
      BY FileTreeAssumption
    <2> QED BY <2>3, <2>4, <2>5 DEF Touch
  <1>5. LinkPending(u) => dinode'[ip[u]].type # "dir"
    <2>1. SUFFICES ASSUME LinkPending(u) PROVE dinode'[ip[u]].type # "dir"
      OBVIOUS
    <2>2. HoldsIp(u)
      BY <2>1 DEF LinkPending, HoldsIp
    <2>3. Pointer(u, "ip") = ip[u] /\ ip[u] # NoIno
      BY <1>1, <2>2, PointerIs DEF TreeInv, ThreadOK
    <2>4. ~Dying(u, "ip") /\ "ip" \in Slot
      BY DEF Dying, HeadSlot, Slot
    <2>5. dinode[ip[u]].type # "free" /\ dinode[ip[u]].type # "dir"
      BY <1>1, <2>1, <2>3, <2>4 DEF LiveOK, DirOK
    <2> QED BY <2>3, <2>4, <2>5 DEF Kept
  <1> QED BY <1>1, <1>2, <1>3, <1>4, <1>5 DEF DirOK

LEMMA TypeOfIs == \A t : TypeOf(t) \in {"dir", "dev", "file"}
  BY DEF TypeOf

LEMMA OtherNew ==
    ASSUME LinkInv, NEW t \in Thread, Others(t), NEW u \in Thread, u # t, Touch(t), Gains(t)
    PROVE  NewOK(u)'
  <1>1. SUFFICES ASSUME pc'[u] = "new"
                 PROVE  /\ dinode'[ip'[u]].nlink = 0 /\ dinode'[ip'[u]].type = TypeOf(u)'
                        /\ \A n \in Entry : ents'[ip'[u]][n] = NoIno
                        /\ \A w \in Thread, s \in Slot :
                              Pointer(w, s)' = ip'[u] => Dying(w, s)' \/ (w = u /\ s = "ip")
    BY DEF NewOK
  <1>2. pc[u] = "new" /\ ip'[u] = ip[u] /\ TypeOf(u)' = TypeOf(u)
    BY <1>1, OthersSame2 DEF Others
  <1>3. PICK i \in Ino : i = ip[u]
    <2>1. HoldsIp(u) /\ ThreadOK(u) /\ TreeTypes
      BY <1>2 DEF HoldsIp, LinkInv, TreeInv
    <2> QED BY <2>1 DEF ThreadOK, TreeTypes
  <1>4. /\ dinode[i].nlink = 0 /\ dinode[i].type = TypeOf(u)
        /\ \A n \in Entry : ents[i][n] = NoIno
        /\ \A w \in Thread, s \in Slot : Pointer(w, s) = i => Dying(w, s) \/ (w = u /\ s = "ip")
    BY <1>2, <1>3 DEF LinkInv, LinkOK, NewOK
  <1>5. dinode[i].type # "free"
    BY <1>4, TypeOfIs
  <1>6. dinode'[i] = dinode[i] /\ ents'[i] = ents[i]
    BY <1>4, <1>5 DEF Touch
  <1>7. ASSUME NEW s \in Slot, Pointer(t, s)' = i PROVE Dying(t, s)'
    <2>1. GainFrom(t, s, i)
      BY <1>7 DEF Gains
    <2>2. ~(i = Root \/ \E e \in Places : NameMap[e] = i)
      <3>1. i = Root \/ (\E e \in Places : NameMap[e] = i) => dinode[i].nlink >= 1
        BY Linked
      <3> QED BY <1>4, <3>1
    <2> QED BY <1>4, <1>5, <2>1, <2>2 DEF GainFrom
  <1>8. ASSUME NEW w \in Thread, NEW s \in Slot, Pointer(w, s)' = i, w # t
        PROVE  Dying(w, s)' \/ (w = u /\ s = "ip")
    <2>1. Pointer(w, s) = i /\ (Dying(w, s)' <=> Dying(w, s))
      BY <1>8, OthersSame, OthersSame2
    <2> QED BY <1>4, <2>1
  <1> QED BY <1>2, <1>3, <1>4, <1>6, <1>7, <1>8

LEMMA OtherLinks ==
    ASSUME LinkInv, NEW t \in Thread, Others(t), NEW u \in Thread, u # t,
           Touch(t), Gains(t), Kept(t), KeptValid(t)
    PROVE  LinkOK(u)'
  <1>1. LinkOK(u)
    BY DEF LinkInv
  <1>2. PathOK(u)'
    BY <1>1 DEF Others, LinkOK, PathOK
  <1>3. ValidOK(u)'
    BY <1>1, OthersSame DEF LinkOK, ValidOK, KeptValid
  <1>4. LiveOK(u)'
    <2>1. ASSUME NEW s \in Slot, Pointer(u, s)' # NoIno, ~Dying(u, s)'
          PROVE  dinode'[Pointer(u, s)'].type # "free"
      <3>1. Pointer(u, s)' = Pointer(u, s) /\ ~Dying(u, s)
        BY <2>1, OthersSame, OthersSame2
      <3>2. dinode[Pointer(u, s)].type # "free"
        BY <1>1, <2>1, <3>1 DEF LinkOK, LiveOK
      <3> QED BY <2>1, <3>1, <3>2 DEF Kept
    <2> QED BY <2>1 DEF LiveOK
  <1> QED BY <1>2, <1>3, <1>4, OtherTrunc, OtherDir, OtherNew DEF LinkOK

-----------------------------------------------------------------------------
(* The steps of the system calls.                                          *)

\* What t may refer to: what it refers to already, what has a name, the root,
\* and an inode that it has just allocated.
Source(t, v) ==
    \/ v \in {NoIno, Root}
    \/ \E r \in Slot : Pointer(t, r) = v
    \/ \E e \in Places : NameMap[e] = v
    \/ dinode[v].type = "free" /\ dinode'[v].type # "free"
Sources(t, k, c, f, i, d, l, s) ==
    /\ Source(t, c) /\ Source(t, f)
    /\ IpHeld(k, l) => Source(t, i)
    /\ DpHeld(l) => Source(t, d)
    /\ Source(t, FirstOf(s)) /\ Source(t, LastOf(s))

LEMMA NotDying ==
    ASSUME TreeInv, NEW t \in Thread, todo[t] = <<>>
    PROVE  put[t] = "test" /\ \A s \in Slot : ~Dying(t, s)
  <1>1. put[t] = "test"
    BY DEF TreeInv, ThreadOK
  <1> QED BY <1>1 DEF Dying

\* A reference is to an inode.
LEMMA PointerInNext ==
    ASSUME TreeTypes', NEW t \in Thread, NEW s \in Slot
    PROVE  Pointer(t, s)' \in Ino \cup {NoIno}
  <1>1. /\ cwd'[t] \in Ino /\ file'[t] \in Ino \cup {NoIno} /\ ip'[t] \in Ino \cup {NoIno}
        /\ dp'[t] \in Ino \cup {NoIno} /\ todo'[t] \in Todo
    BY DEF TreeTypes
  <1>2. FirstOf(todo'[t]) \in Ino \cup {NoIno} /\ LastOf(todo'[t]) \in Ino \cup {NoIno}
    BY <1>1, SeqSlots DEF Todo
  <1> QED BY <1>1, <1>2, PointerNext DEF Slot

LEMMA PointerIn ==
    ASSUME TreeTypes, NEW t \in Thread, NEW s \in Slot
    PROVE  Pointer(t, s) \in Ino \cup {NoIno}
  <1>1. /\ cwd[t] \in Ino /\ file[t] \in Ino \cup {NoIno} /\ ip[t] \in Ino \cup {NoIno}
        /\ dp[t] \in Ino \cup {NoIno} /\ todo[t] \in Todo
    BY DEF TreeTypes
  <1>2. FirstOf(todo[t]) \in Ino \cup {NoIno} /\ LastOf(todo[t]) \in Ino \cup {NoIno}
    BY <1>1, SeqSlots DEF Todo
  <1> QED BY <1>1, <1>2, PointerIs DEF Slot

LEMMA StepGains ==
    ASSUME LinkInv, NEW t \in Thread, todo[t] = <<>>,
           NEW k, NEW c, NEW f, NEW p, NEW i, NEW d, NEW l, NEW s,
           StepTo(t, k, c, f, p, i, d, l, s), Sources(t, k, c, f, i, d, l, s)
    PROVE  Gains(t)
  <1>1. TreeInv /\ TreeTypes
    BY DEF LinkInv, TreeInv
  <1>2. RefsNext(t, c, f, IF IpHeld(k, l) THEN i ELSE NoIno, IF DpHeld(l) THEN d ELSE NoIno,
                 FirstOf(s), LastOf(s))
    BY <1>1, StepHeld
  <1>3. ASSUME NEW r \in Slot, NEW j \in Ino, Pointer(t, r)' = j PROVE Source(t, j)
    <2>1. j # NoIno
      BY DEF Ino, NoIno
    <2>2. j \in {c, f, IF IpHeld(k, l) THEN i ELSE NoIno, IF DpHeld(l) THEN d ELSE NoIno,
                 FirstOf(s), LastOf(s)}
      BY <1>2, <1>3 DEF RefsNext, Slot
    <2> QED BY <2>1, <2>2 DEF Sources
  <1>4. ASSUME NEW r \in Slot, NEW j \in Ino, Source(t, j) PROVE GainFrom(t, r, j)
    <2>1. j # NoIno
      BY DEF Ino, NoIno
    <2> QED BY <1>1, <1>4, <2>1, NotDying DEF Source, GainFrom
  <1> QED BY <1>3, <1>4 DEF Gains

\* The next element of a path without "..".
LEMMA LookupSource ==
    ASSUME LinkInv, NEW t \in Thread, NEW r \in Slot, NEW x \in Ino, Pointer(t, r) = x,
           NEW n \in Entry \ {".."}, NEW v, v = ents[x][n]
    PROVE  Source(t, v)
  <1>1. CASE n \in Name
    <2>1. <<x, n>> \in Places /\ NameMap[<<x, n>>] = v
      BY <1>1 DEF Places, NameMap
    <2> QED BY <2>1 DEF Source
  <1>2. CASE n = "."
    <2>1. v \in {x, NoIno}
      BY <1>2 DEF LinkInv, DotOK
    <2> QED BY <2>1 DEF Source
  <1> QED BY <1>1, <1>2 DEF Entry

\* The parts of LinkOK(t)' for a step to l.
Pending(k, l) ==
    l = "bad" \/ (l \in {"nameiparent", "parent", "taken"} /\ k.name = "link")
ExtraAt(k, l, i) == IF Pending(k, l) \/ l = "unlinked" THEN i ELSE NoIno
OwnDir(k, p, i, d, l) ==
    /\ l \in {"parent", "new", "child"} => dinode'[d].type = "dir"
    /\ l \in {"new", "child"} => Head(p) \in Name
    /\ l = "new" => ents'[d][Head(p)] = NoIno
    /\ l = "child" => ents'[d][Head(p)] = i
    /\ Pending(k, l) => dinode'[i].type # "dir"
OwnPath(p, i, d, l) ==
    /\ p \in Seq(Entry \ {".."})
    /\ LockAt(l, i, d) # NoIno => inode'[LockAt(l, i, d)].valid

LEMMA StepExtra ==
    ASSUME TreeTypes, NEW t \in Thread,
           NEW k, NEW c, NEW f, NEW p, NEW i, NEW d, NEW l, NEW s, StepTo(t, k, c, f, p, i, d, l, s)
    PROVE  /\ Extra(t)' = ExtraAt(k, l, i) /\ (LinkPending(t)' <=> Pending(k, l))
           /\ Elsewhere(ExtraMap, ExtraMap', Thread, t)
  <1>1. /\ Others(t) /\ call'[t] = k /\ ip'[t] = i /\ pc'[t] = l
    BY StepToIs
  <1>2. LinkPending(t)' <=> Pending(k, l)
    BY <1>1 DEF LinkPending, Pending
  <1>3. Extra(t)' = ExtraAt(k, l, i)
    BY <1>1, <1>2 DEF Extra, ExtraAt
  <1>4. \A u \in Thread : u # t => Extra(u)' = Extra(u)
    BY <1>1, OthersSame2
  <1> QED BY <1>2, <1>3, <1>4 DEF Elsewhere, ExtraMap

LEMMA OwnLinks ==
    ASSUME LinkInv, TreeTypes', NEW t \in Thread, todo[t] = <<>>,
           NEW k, NEW c, NEW f, NEW p, NEW i, NEW d, NEW l, NEW s,
           StepTo(t, k, c, f, p, i, d, l, s), TypeFrame, Gains(t),
           OwnPath(p, i, d, l), OwnDir(k, p, i, d, l), l = "new" => NewOK(t)'
    PROVE  LinkOK(t)'
  <1>1. TreeInv /\ TreeTypes /\ LiveOK(t)
    BY DEF LinkInv, TreeInv, LinkOK
  <1>2. /\ path'[t] = p /\ ip'[t] = i /\ dp'[t] = d /\ pc'[t] = l /\ put'[t] = put[t]
        /\ PcLock(t)' = LockAt(l, i, d)
    BY <1>1, StepToIs, StepHeld
  <1>3. PathOK(t)'
    BY <1>2 DEF PathOK, OwnPath
  <1>4. ValidOK(t)'
    BY <1>2 DEF ValidOK, OwnPath
  <1>5. TruncOK(t)'
    BY <1>1, <1>2, NotDying DEF TruncOK
  <1>6. DirOK(t)'
    BY <1>1, <1>2, StepExtra DEF DirOK, OwnDir
  <1>7. NewOK(t)'
    BY <1>2 DEF NewOK
  <1>8. LiveOK(t)'
    <2>1. ASSUME NEW r \in Slot, Pointer(t, r)' # NoIno, ~Dying(t, r)'
          PROVE  dinode'[Pointer(t, r)'].type # "free"
      <3>1. PICK j \in Ino : j = Pointer(t, r)'
        BY <2>1, PointerInNext
      <3>2. GainFrom(t, r, j)
        BY <3>1 DEF Gains
      <3>3. j = Root \/ (\E e \in Places : NameMap[e] = j) => dinode[j].type # "free"
        BY Linked
      <3>4. j # NoIno
        BY DEF Ino, NoIno
      <3>5. dinode'[j].type # "free"
        BY <1>1, <2>1, <3>2, <3>3, <3>4 DEF GainFrom, LiveOK, TypeFrame
      <3> QED BY <3>1, <3>5
    <2> QED BY <2>1 DEF LiveOK
  <1> QED BY <1>3, <1>4, <1>5, <1>6, <1>7, <1>8 DEF LinkOK

ValidFrame == \A j \in Ino : inode[j].valid => inode'[j].valid

LEMMA CallLinks ==
    ASSUME LinkInv, TreeTypes', NEW t \in Thread, todo[t] = <<>>,
           NEW k, NEW c, NEW f, NEW p, NEW i, NEW d, NEW l, NEW s,
           StepTo(t, k, c, f, p, i, d, l, s), TypeFrame, ValidFrame, Touch(t),
           Sources(t, k, c, f, i, d, l, s),
           OwnPath(p, i, d, l), OwnDir(k, p, i, d, l), l = "new" => NewOK(t)',
           NEW u \in Thread
    PROVE  LinkOK(u)'
  <1>1. TreeTypes /\ Others(t)
    BY StepToIs DEF LinkInv, TreeInv
  <1>2. Gains(t)
    BY StepGains
  <1>3. Kept(t)
    <2>1. \A w \in Thread, r \in Slot : Pointer(w, r) \in Ino \cup {NoIno}
      BY <1>1, PointerIn
    <2> QED BY <2>1 DEF Kept, TypeFrame
  <1>4. KeptValid(t)
    <2>1. \A w \in Thread : PcLock(w) \in Ino \cup {NoIno}
      BY <1>1 DEF PcLock, TreeTypes
    <2> QED BY <2>1 DEF KeptValid, ValidFrame
  <1>5. CASE u = t
    BY <1>2, <1>5, OwnLinks
  <1>6. CASE u # t
    BY <1>1, <1>2, <1>3, <1>4, <1>6, OtherLinks
  <1> QED BY <1>5, <1>6

\* The contents of the disk, if no entry and no type changes.
SameTypes == \A j \in Ino : dinode'[j].type = dinode[j].type

LEMMA SameMaps ==
    ASSUME TreeTypes, ents' = ents, SameTypes
    PROVE  NameMap' = NameMap /\ SubMap' = SubMap
  <1>1. \A e \in Places : ents[e[1]][e[2]] \in Ino \cup {NoIno}
    BY DEF Places, TreeTypes, Entry
  <1>2. NameMap' = NameMap
    BY DEF NameMap
  <1>3. \A e \in Places : (ents[e[1]][e[2]] # NoIno /\ dinode[ents[e[1]][e[2]]].type = "dir")
                          <=> (ents'[e[1]][e[2]] # NoIno /\ dinode'[ents'[e[1]][e[2]]].type = "dir")
    BY <1>1 DEF SameTypes
  <1>4. SubMap' = SubMap
    BY <1>3 DEF SubMap
  <1> QED BY <1>2, <1>4

LEMMA SameTree ==
    ASSUME LinkInv, NEW t \in Thread, Others(t), pc[t] # "new", ents' = ents, SameTypes,
           NEW d \in Ino, dinode'[d].type = "free" => dinode'[d].nlink = 0
    PROVE  DotOK(d)' /\ TreeOK(d)'
  <1>1. TreeTypes /\ DotOK(d) /\ TreeOK(d)
    BY DEF LinkInv, TreeInv
  <1>2. dinode'[d].type = dinode[d].type
    BY DEF SameTypes
  <1>3. \A u \in Thread : pc[u] = "new" => pc'[u] = "new" /\ ip'[u] = ip[u]
    BY DEF Others
  <1>4. DotOK(d)'
    BY <1>1, <1>2, <1>3 DEF DotOK
  <1>5. NameMap' = NameMap
    BY <1>1, SameMaps
  <1>6. TreeOK(d)'
    BY <1>1, <1>2, <1>5 DEF TreeOK, Places
  <1> QED BY <1>4, <1>6

\* A step of a system call that changes nothing on the disk.
LEMMA QuietLinks ==
    ASSUME LinkInv, TreeInv', NEW t \in Thread, todo[t] = <<>>,
           NEW k, NEW c, NEW f, NEW p, NEW i, NEW d, NEW l, NEW s,
           StepTo(t, k, c, f, p, i, d, l, s), ValidFrame, dinode' = dinode, ents' = ents,
           pc[t] # "new", l # "new", ExtraAt(k, l, i) = Extra(t),
           Sources(t, k, c, f, i, d, l, s), OwnPath(p, i, d, l), OwnDir(k, p, i, d, l)
    PROVE  LinkInv'
  <1>1. TreeTypes /\ TreeTypes' /\ Others(t) /\ SameTypes
    BY StepToIs DEF LinkInv, TreeInv, SameTypes
  <1>2. Touch(t) /\ TypeFrame
    BY DEF Touch, TypeFrame
  <1>3. ASSUME NEW u \in Thread PROVE LinkOK(u)'
    BY <1>1, <1>2, CallLinks
  <1>4. ASSUME NEW j \in Ino PROVE DotOK(j)' /\ TreeOK(j)'
    <2>1. dinode'[j].type = "free" => dinode'[j].nlink = 0
      BY DEF LinkInv, DotOK
    <2> QED BY <1>1, <2>1, SameTree
  <1>5. ASSUME NEW j \in Ino PROVE Covered(j)'
    <2>1. NameMap' = NameMap /\ SubMap' = SubMap
      BY <1>1, SameMaps
    <2>2. Elsewhere(ExtraMap, ExtraMap', Thread, t) /\ Extra(t)' = Extra(t)
      BY <1>1, StepExtra
    <2>3. ExtraMap'[t] = ExtraMap[t]
      BY <2>2 DEF ExtraMap
    <2>4. Change(ExtraMap, ExtraMap', t, j) = 0
      BY <2>3 DEF Change, One
    <2>5. dinode'[j].nlink = dinode[j].nlink /\ dinode[j].nlink \in Int
      BY <1>1 DEF TreeTypes
    <2>6. dinode[j].nlink + Change(ExtraMap, ExtraMap', t, j) <= dinode'[j].nlink
      BY <2>4, <2>5
    <2> QED BY <2>1, <2>2, <2>5, <2>6, CoverSame
  <1> QED BY <1>3, <1>4, <1>5 DEF LinkInv

\* Nothing on the disk changes, and what is in the cache stays there.
DiskSame == dinode' = dinode /\ ents' = ents /\ ValidFrame

LEMMA LoadSame ==
    ASSUME TreeInv, NEW i \in Ino, LoadOnly(i)
    PROVE  DiskSame /\ inode'[i].valid /\ dinode[i].type # "free"
  <1>1. TreeTypes /\ CanLock(i)
    BY DEF TreeInv, LoadOnly
  <1>2. Loaded(i).valid = TRUE /\ dinode[i].type # "free"
    BY <1>1, LoadedMap
  <1>3. inode'[i] = Loaded(i) /\ \A j \in Ino : j # i => inode'[j] = inode[j]
    BY <1>1 DEF LoadOnly, TreeTypes
  <1>4. ValidFrame
    BY <1>2, <1>3 DEF ValidFrame
  <1>5. inode'[i].valid
    BY <1>2, <1>3
  <1> QED BY <1>2, <1>4, <1>5 DEF DiskSame, LoadOnly

LEMMA NoDiskSame ==
    ASSUME NoDisk
    PROVE  DiskSame
  BY DEF NoDisk, DiskSame, ValidFrame

\* What t refers to already.
LEMMA OldSource ==
    ASSUME NEW t \in Thread
    PROVE  /\ Source(t, cwd[t]) /\ Source(t, file[t]) /\ Source(t, NoIno) /\ Source(t, Root)
           /\ IpHeld(call[t], pc[t]) => Source(t, ip[t])
           /\ DpHeld(pc[t]) => Source(t, dp[t])
  <1>1. \A s \in Slot : Source(t, Pointer(t, s))
    BY DEF Source
  <1>2. "cwd" \in Slot /\ "file" \in Slot /\ "ip" \in Slot /\ "dp" \in Slot
    BY DEF Slot
  <1>3. Source(t, cwd[t]) /\ Source(t, file[t])
    BY <1>1, <1>2, PointerIs
  <1>4. IpHeld(call[t], pc[t]) => Source(t, ip[t])
    BY <1>1, <1>2, HeldIs
  <1>5. DpHeld(pc[t]) => Source(t, dp[t])
    BY <1>1, <1>2, HeldIs
  <1> QED BY <1>3, <1>4, <1>5 DEF Source

LEMMA PathNoUp ==
    ASSUME LinkInv, NEW t \in Thread
    PROVE  /\ path[t] \in Seq(Entry \ {".."})
           /\ path[t] # <<>> => /\ Head(path[t]) \in Entry \ {".."}
                                /\ Tail(path[t]) \in Seq(Entry \ {".."})
  <1>1. path[t] \in Seq(Entry \ {".."})
    BY DEF LinkInv, LinkOK, PathOK
  <1> QED BY <1>1

\* Where t has no link pending.
LEMMA NoExtra ==
    ASSUME NEW t \in Thread,
           \/ pc[t] \in {"idle", "namei", "found", "exists", "new", "made", "child", "notempty", "end"}
           \/ pc[t] # "bad" /\ pc[t] # "unlinked" /\ call[t].name # "link"
    PROVE  Extra(t) = NoIno
  BY DEF Extra, LinkPending

\* A step to the end of the call: what is left is in s.
LEMMA EndLinks ==
    ASSUME LinkInv, TreeInv', NEW t \in Thread, todo[t] = <<>>, DiskSame, pc[t] # "new", Extra(t) = NoIno,
           NEW k, NEW c, NEW f, NEW p, NEW i, NEW d, NEW l \in {"end", "idle"}, NEW s,
           StepTo(t, k, c, f, p, i, d, l, s),
           p \in Seq(Entry \ {".."}), Source(t, c), Source(t, f),
           s = <<>> \/ \E a : s = <<a>> /\ Source(t, a)
    PROVE  LinkInv'
  <1>1. ~IpHeld(k, l) /\ ~DpHeld(l) /\ LockAt(l, i, d) = NoIno /\ ExtraAt(k, l, i) = NoIno
    BY DEF IpHeld, DpHeld, LockAt, ExtraAt, Pending
  <1>2. Source(t, FirstOf(s)) /\ Source(t, LastOf(s))
    BY SeqSlots DEF Source
  <1>3. Sources(t, k, c, f, i, d, l, s)
    BY <1>1, <1>2 DEF Sources
  <1>4. OwnPath(p, i, d, l) /\ OwnDir(k, p, i, d, l)
    BY <1>1 DEF OwnPath, OwnDir, Pending
  <1> QED BY <1>1, <1>3, <1>4, QuietLinks DEF DiskSame

-----------------------------------------------------------------------------
(* namex().                                                                *)

LEMMA CallLinked ==
    ASSUME LinkInv, NoDotDot, NEW t \in Thread, NEW k \in Calls[t], Call(t, k)
    PROVE  LinkInv'
  <1>1. TreeInv /\ TreeInv'
    BY CallKeeps DEF LinkInv
  <1>2. PICK r \in Ino :
             /\ Ready(t, "idle") /\ NoDisk /\ r \in {Root, cwd[t]}
             /\ \/ /\ k.name \in ByParent
                   /\ StepTo(t, k, cwd[t], file[t], Rest(k.path), ip[t], r, "end", <<r>>)
                \/ /\ k.name \in ByParent
                   /\ StepTo(t, k, cwd[t], file[t], Rest(k.path), ip[t], r, "nameiparent", <<>>)
                \/ /\ k.name \notin ByParent
                   /\ StepTo(t, k, cwd[t], file[t], Rest(k.path), r, dp[t], "found", <<>>)
                \/ /\ k.name \notin ByParent
                   /\ StepTo(t, k, cwd[t], file[t], Rest(k.path), r, dp[t], "namei", <<>>)
    BY <1>1, CallIs
  <1>3. pc[t] = "idle" /\ todo[t] = <<>> /\ DiskSame
    BY <1>2, NoDiskSame DEF Ready
  <1>4. Rest(k.path) \in Seq(Entry \ {".."})
    BY DEF NoDotDot
  <1>5. Source(t, cwd[t]) /\ Source(t, file[t]) /\ Source(t, r) /\ Source(t, NoIno)
    BY <1>2, OldSource
  <1>6. Extra(t) = NoIno
    BY <1>3, NoExtra
  <1>7. CASE StepTo(t, k, cwd[t], file[t], Rest(k.path), ip[t], r, "end", <<r>>)
    BY <1>1, <1>3, <1>4, <1>5, <1>6, <1>7, EndLinks
  <1>8. CASE k.name \in ByParent /\ StepTo(t, k, cwd[t], file[t], Rest(k.path), ip[t], r, "nameiparent", <<>>)
    <2>1. ~IpHeld(k, "nameiparent") /\ ~Pending(k, "nameiparent")
      BY <1>8 DEF IpHeld, Pending, ByParent
    <2>2. Sources(t, k, cwd[t], file[t], ip[t], r, "nameiparent", <<>>)
      BY <1>5, <2>1, SeqSlots DEF Sources
    <2>3. /\ OwnPath(Rest(k.path), ip[t], r, "nameiparent") /\ OwnDir(k, Rest(k.path), ip[t], r, "nameiparent")
          /\ ExtraAt(k, "nameiparent", ip[t]) = NoIno
      BY <1>4, <2>1 DEF OwnPath, OwnDir, LockAt, ExtraAt
    <2> QED BY <1>1, <1>3, <1>6, <1>8, <2>2, <2>3, QuietLinks DEF DiskSame
  <1>9. ASSUME NEW l \in {"found", "namei"},
               StepTo(t, k, cwd[t], file[t], Rest(k.path), r, dp[t], l, <<>>)
        PROVE  LinkInv'
    <2>1. ~DpHeld(l) /\ ~Pending(k, l)
      BY <1>9 DEF DpHeld, Pending
    <2>2. Sources(t, k, cwd[t], file[t], r, dp[t], l, <<>>)
      BY <1>5, <2>1, SeqSlots DEF Sources
    <2>3. /\ OwnPath(Rest(k.path), r, dp[t], l) /\ OwnDir(k, Rest(k.path), r, dp[t], l)
          /\ ExtraAt(k, l, r) = NoIno
      BY <1>4, <2>1 DEF OwnPath, OwnDir, LockAt, ExtraAt
    <2> QED BY <1>1, <1>3, <1>6, <1>9, <2>2, <2>3, QuietLinks DEF DiskSame
  <1> QED BY <1>2, <1>7, <1>8, <1>9

LEMMA WalkLinked ==
    ASSUME LinkInv, NEW t \in Thread, Walk(t)
    PROVE  LinkInv'
  <1>1. TreeInv /\ TreeInv'
    BY WalkKeeps DEF LinkInv
  <1>2. PICK i \in Ino : i = ip[t] /\ Ready(t, "namei") /\ LoadOnly(i)
    BY <1>1, WalkIs
  <1>3. pc[t] = "namei" /\ todo[t] = <<>> /\ DiskSame
    BY <1>1, <1>2, LoadSame DEF Ready
  <1>4. Source(t, cwd[t]) /\ Source(t, file[t]) /\ Source(t, i) /\ Source(t, NoIno)
    BY <1>2, <1>3, OldSource DEF IpHeld
  <1>5. path[t] \in Seq(Entry \ {".."}) /\ Head(path[t]) \in Entry \ {".."} /\ Tail(path[t]) \in Seq(Entry \ {".."})
    BY <1>1, <1>3, PathNoUp, PathIs
  <1>6. Extra(t) = NoIno
    BY <1>3, NoExtra
  <1>7. CASE Moves(t, path[t], ip[t], dp[t], "end", <<ip[t]>>)
    BY <1>1, <1>2, <1>3, <1>4, <1>5, <1>6, <1>7, EndLinks DEF Moves
  <1>8. ASSUME NEW n \in Ino, NEW l \in {"found", "namei"}, n = ents[i][Head(path[t])],
               Moves(t, Tail(path[t]), n, dp[t], l, <<i>>)
        PROVE  LinkInv'
    <2>1. Source(t, n)
      <3>1. Pointer(t, "ip") = i /\ "ip" \in Slot
        BY <1>2, <1>3, HeldIs DEF IpHeld, Slot
      <3> QED BY <1>5, <1>8, <3>1, LookupSource
    <2>2. ~DpHeld(l) /\ ~Pending(call[t], l)
      BY <1>8 DEF DpHeld, Pending
    <2>3. Sources(t, call[t], cwd[t], file[t], n, dp[t], l, <<i>>)
      BY <1>4, <2>1, <2>2, SeqSlots DEF Sources
    <2>4. /\ OwnPath(Tail(path[t]), n, dp[t], l) /\ OwnDir(call[t], Tail(path[t]), n, dp[t], l)
          /\ ExtraAt(call[t], l, n) = NoIno
      BY <1>5, <2>2 DEF OwnPath, OwnDir, LockAt, ExtraAt
    <2> QED BY <1>1, <1>3, <1>6, <1>8, <2>3, <2>4, QuietLinks DEF DiskSame, Moves
  <1> QED BY <1>1, <1>2, <1>7, <1>8, WalkIs

LEMMA WalkParentLinked ==
    ASSUME LinkInv, NEW t \in Thread, WalkParent(t)
    PROVE  LinkInv'
  <1>1. TreeInv /\ TreeInv'
    BY WalkParentKeeps DEF LinkInv
  <1>2. PICK d \in Ino : d = dp[t] /\ Ready(t, "nameiparent") /\ LoadOnly(d)
    BY <1>1, WalkParentIs
  <1>3. pc[t] = "nameiparent" /\ todo[t] = <<>> /\ DiskSame
    BY <1>1, <1>2, LoadSame DEF Ready
  <1>4. /\ Source(t, cwd[t]) /\ Source(t, file[t]) /\ Source(t, d) /\ Source(t, NoIno)
        /\ IpHeld(call[t], "nameiparent") => Source(t, ip[t])
    BY <1>2, <1>3, OldSource DEF DpHeld
  <1>5. path[t] \in Seq(Entry \ {".."}) /\ Head(path[t]) \in Entry \ {".."} /\ Tail(path[t]) \in Seq(Entry \ {".."})
    BY <1>1, <1>3, PathNoUp, PathIs
  <1>6. /\ Extra(t) = IF call[t].name = "link" THEN ip[t] ELSE NoIno
        /\ call[t].name = "link" => dinode[ip[t]].type # "dir"
    <2>1. LinkPending(t) <=> call[t].name = "link"
      BY <1>3 DEF LinkPending
    <2> QED BY <1>3, <2>1 DEF Extra, LinkInv, LinkOK, DirOK
  <1>7. CASE Moves(t, path[t], ip[t], dp[t], "parent", <<>>) /\ dinode[d].type = "dir"
    <2>1. IpHeld(call[t], "parent") => Source(t, ip[t])
      BY <1>4 DEF IpHeld
    <2>2. Sources(t, call[t], cwd[t], file[t], ip[t], dp[t], "parent", <<>>)
      BY <1>2, <1>4, <2>1, SeqSlots DEF Sources
    <2>3. /\ OwnPath(path[t], ip[t], dp[t], "parent") /\ OwnDir(call[t], path[t], ip[t], dp[t], "parent")
          /\ ExtraAt(call[t], "parent", ip[t]) = Extra(t)
      BY <1>2, <1>3, <1>5, <1>6, <1>7 DEF OwnPath, OwnDir, LockAt, ExtraAt, Pending, DiskSame
    <2> QED BY <1>1, <1>3, <1>7, <2>2, <2>3, QuietLinks DEF DiskSame, Moves
  <1>8. ASSUME NEW l \in {"bad", "end"}, l = "bad" <=> call[t].name = "link",
               Moves(t, path[t], ip[t], dp[t], l, <<d>>)
        PROVE  LinkInv'
    <2>1. IpHeld(call[t], l) => Source(t, ip[t])
      BY <1>4, <1>8 DEF IpHeld
    <2>2. Sources(t, call[t], cwd[t], file[t], ip[t], dp[t], l, <<d>>)
      BY <1>4, <2>1, SeqSlots DEF Sources, DpHeld
    <2>3. /\ OwnPath(path[t], ip[t], dp[t], l) /\ OwnDir(call[t], path[t], ip[t], dp[t], l)
          /\ ExtraAt(call[t], l, ip[t]) = Extra(t)
      BY <1>3, <1>5, <1>6, <1>8 DEF OwnPath, OwnDir, LockAt, ExtraAt, Pending, DiskSame
    <2> QED BY <1>1, <1>3, <1>8, <2>2, <2>3, QuietLinks DEF DiskSame, Moves
  <1>9. ASSUME NEW n \in Ino, n = ents[d][Head(path[t])],
               Moves(t, Tail(path[t]), ip[t], n, "nameiparent", <<d>>)
        PROVE  LinkInv'
    <2>1. Source(t, n)
      <3>1. Pointer(t, "dp") = d /\ "dp" \in Slot
        BY <1>2, <1>3, HeldIs DEF DpHeld, Slot
      <3> QED BY <1>5, <1>9, <3>1, LookupSource
    <2>2. Sources(t, call[t], cwd[t], file[t], ip[t], n, "nameiparent", <<d>>)
      BY <1>4, <2>1, SeqSlots DEF Sources
    <2>3. /\ OwnPath(Tail(path[t]), ip[t], n, "nameiparent")
          /\ OwnDir(call[t], Tail(path[t]), ip[t], n, "nameiparent")
          /\ ExtraAt(call[t], "nameiparent", ip[t]) = Extra(t)
      BY <1>3, <1>5, <1>6 DEF OwnPath, OwnDir, LockAt, ExtraAt, Pending, DiskSame
    <2> QED BY <1>1, <1>3, <1>9, <2>2, <2>3, QuietLinks DEF DiskSame, Moves
  <1> QED BY <1>1, <1>2, <1>7, <1>8, <1>9, WalkParentIs

-----------------------------------------------------------------------------
(* open, close and chdir.                                                  *)

LEMMA OpenLinked ==
    ASSUME LinkInv, NEW t \in Thread, Open(t)
    PROVE  LinkInv'
  <1>1. TreeInv /\ TreeInv' /\ TreeTypes
    BY OpenKeeps DEF LinkInv, TreeInv
  <1>2. pc[t] = "found" /\ todo[t] = <<>>
    BY DEF Open, At
  <1>3. IpHeld(call[t], pc[t])
    BY <1>2 DEF IpHeld
  <1>4. PICK i \in Ino : i = ip[t]
    BY <1>1, <1>3, OwnTypes
  <1>5. DiskSame
    <2>1. LoadOnly(i)
      BY <1>4 DEF Open, LoadOnly, diskvars
    <2> QED BY <1>1, <2>1, LoadSame
  <1>6. /\ Source(t, cwd[t]) /\ Source(t, file[t]) /\ Source(t, i)
        /\ path[t] \in Seq(Entry \ {".."}) /\ Extra(t) = NoIno
    BY <1>2, <1>3, <1>4, OldSource, PathNoUp, NoExtra
  <1>7. CASE file[t] # NoIno \/ (Loaded(ip[t]).type = "dir" /\ call[t].name = "openw")
    <2>1. StepTo(t, call[t], cwd[t], file[t], path[t], i, dp[t], "end", <<i>>)
      BY <1>1, <1>4, <1>7, SameExcept DEF Open, PutThen, Goto, StepTo
    <2> QED BY <1>1, <1>2, <1>5, <1>6, <2>1, EndLinks
  <1>8. CASE ~(file[t] # NoIno \/ (Loaded(ip[t]).type = "dir" /\ call[t].name = "openw"))
    <2>1. file' = [file EXCEPT ![t] = i] /\ Goto(t, "end") /\ todo' = todo
      BY <1>4, <1>8 DEF Open, Stays
    <2>2. StepTo(t, call[t], cwd[t], i, path[t], i, dp[t], "end", <<>>)
      BY <1>1, <1>2, <1>4, <2>1, SameExcept DEF Open, Goto, StepTo
    <2> QED BY <1>1, <1>2, <1>5, <1>6, <2>2, EndLinks
  <1> QED BY <1>7, <1>8

LEMMA CloseLinked ==
    ASSUME LinkInv, NEW t \in Thread, Close(t)
    PROVE  LinkInv'
  <1>1. TreeInv /\ TreeInv' /\ TreeTypes
    BY CloseKeeps DEF LinkInv, TreeInv
  <1>2. pc[t] = "idle" /\ todo[t] = <<>>
    BY DEF Close, At
  <1>3. DiskSame
    <2>1. NoDisk
      BY DEF Close, NoDisk, cachevars, diskvars
    <2> QED BY <2>1, NoDiskSame
  <1>4. /\ Source(t, cwd[t]) /\ Source(t, file[t]) /\ Source(t, NoIno)
        /\ path[t] \in Seq(Entry \ {".."}) /\ Extra(t) = NoIno
    BY <1>2, OldSource, PathNoUp, NoExtra
  <1>5. StepTo(t, call[t], cwd[t], NoIno, path[t], ip[t], dp[t], "end", <<file[t]>>)
    BY <1>1, SameExcept DEF Close, PutThen, Goto, StepTo
  <1> QED BY <1>1, <1>2, <1>3, <1>4, <1>5, EndLinks

LEMMA ChdirLinked ==
    ASSUME LinkInv, NEW t \in Thread, Chdir(t)
    PROVE  LinkInv'
  <1>1. TreeInv /\ TreeInv' /\ TreeTypes
    BY ChdirKeeps DEF LinkInv, TreeInv
  <1>2. pc[t] = "found" /\ todo[t] = <<>>
    BY DEF Chdir, At
  <1>3. IpHeld(call[t], pc[t])
    BY <1>2 DEF IpHeld
  <1>4. PICK i \in Ino : i = ip[t]
    BY <1>1, <1>3, OwnTypes
  <1>5. DiskSame
    <2>1. LoadOnly(i)
      BY <1>4 DEF Chdir, LoadOnly, diskvars
    <2> QED BY <1>1, <2>1, LoadSame
  <1>6. /\ Source(t, cwd[t]) /\ Source(t, file[t]) /\ Source(t, i)
        /\ path[t] \in Seq(Entry \ {".."}) /\ Extra(t) = NoIno
    BY <1>2, <1>3, <1>4, OldSource, PathNoUp, NoExtra
  <1>7. CASE Loaded(ip[t]).type # "dir"
    <2>1. StepTo(t, call[t], cwd[t], file[t], path[t], i, dp[t], "end", <<i>>)
      BY <1>1, <1>4, <1>7, SameExcept DEF Chdir, PutThen, Goto, StepTo
    <2> QED BY <1>1, <1>2, <1>5, <1>6, <2>1, EndLinks
  <1>8. CASE Loaded(ip[t]).type = "dir"
    <2>1. StepTo(t, call[t], i, file[t], path[t], i, dp[t], "end", <<cwd[t]>>)
      BY <1>1, <1>4, <1>8, SameExcept DEF Chdir, PutThen, Goto, StepTo
    <2> QED BY <1>1, <1>2, <1>5, <1>6, <2>1, EndLinks
  <1> QED BY <1>7, <1>8

LEMMA ReturnLinked ==
    ASSUME LinkInv, NEW t \in Thread, Return(t)
    PROVE  LinkInv'
  <1>1. TreeInv /\ TreeInv' /\ TreeTypes
    BY ReturnKeeps DEF LinkInv, TreeInv
  <1>2. pc[t] = "end" /\ todo[t] = <<>>
    BY DEF Return, At
  <1>3. DiskSame
    <2>1. NoDisk
      BY DEF Return, NoDisk, cachevars, diskvars
    <2> QED BY <2>1, NoDiskSame
  <1>4. Source(t, cwd[t]) /\ Source(t, file[t]) /\ Extra(t) = NoIno
    BY <1>2, OldSource, NoExtra
  <1>5. StepTo(t, NoCall, cwd[t], file[t], <<>>, NoIno, NoIno, "idle", <<>>)
    BY <1>1, <1>2, SameExcept DEF Return, Goto, StepTo
  <1>6. <<>> \in Seq(Entry \ {".."})
    OBVIOUS
  <1> QED BY <1>1, <1>2, <1>3, <1>4, <1>5, <1>6, EndLinks

-----------------------------------------------------------------------------
(* create().                                                               *)

LEMMA CreateExistsLinked ==
    ASSUME LinkInv, NEW t \in Thread, CreateExists(t)
    PROVE  LinkInv'
  <1>1. TreeInv /\ TreeInv' /\ TreeTypes
    BY CreateExistsKeeps DEF LinkInv, TreeInv
  <1>2. pc[t] = "parent" /\ todo[t] = <<>> /\ call[t].name # "link"
    BY DEF CreateExists, At, Creates
  <1>3. DpHeld(pc[t])
    BY <1>2 DEF DpHeld
  <1>4. PICK d \in Ino : d = dp[t]
    BY <1>1, <1>3, OwnTypes
  <1>5. DiskSame
    <2>1. LoadOnly(d)
      BY <1>4 DEF CreateExists, LoadOnly, diskvars
    <2> QED BY <1>1, <2>1, LoadSame
  <1>6. /\ Source(t, cwd[t]) /\ Source(t, file[t]) /\ Source(t, d) /\ Source(t, NoIno)
        /\ path[t] \in Seq(Entry \ {".."}) /\ Head(path[t]) \in Entry \ {".."} /\ Extra(t) = NoIno
    BY <1>1, <1>2, <1>3, <1>4, OldSource, PathNoUp, PathIs, NoExtra
  <1>7. PICK n : n = ents[d][Head(path[t])]
    OBVIOUS
  <1>8. Source(t, n)
    <2>1. Pointer(t, "dp") = d /\ "dp" \in Slot
      BY <1>3, <1>4, HeldIs DEF Slot
    <2> QED BY <1>6, <1>7, <2>1, LookupSource
  <1>9. StepTo(t, call[t], cwd[t], file[t], path[t], n, d, "exists", <<d>>)
    BY <1>1, <1>4, <1>7, SameExcept DEF CreateExists, Lookup, PutThen, Goto, StepTo
  <1>10. Sources(t, call[t], cwd[t], file[t], n, d, "exists", <<d>>)
    BY <1>6, <1>8, SeqSlots DEF Sources
  <1>11. /\ OwnPath(path[t], n, d, "exists") /\ OwnDir(call[t], path[t], n, d, "exists")
         /\ ExtraAt(call[t], "exists", n) = NoIno
    BY <1>6 DEF OwnPath, OwnDir, LockAt, ExtraAt, Pending
  <1> QED BY <1>1, <1>2, <1>5, <1>6, <1>9, <1>10, <1>11, QuietLinks DEF DiskSame

LEMMA ExistsLinked ==
    ASSUME LinkInv, NEW t \in Thread, Exists(t)
    PROVE  LinkInv'
  <1>1. TreeInv /\ TreeInv' /\ TreeTypes
    BY ExistsKeeps DEF LinkInv, TreeInv
  <1>2. pc[t] = "exists" /\ todo[t] = <<>>
    BY DEF Exists, At
  <1>3. IpHeld(call[t], pc[t])
    BY <1>2 DEF IpHeld
  <1>4. PICK i \in Ino : i = ip[t]
    BY <1>1, <1>3, OwnTypes
  <1>5. DiskSame /\ inode'[i].valid
    <2>1. LoadOnly(i)
      BY <1>4 DEF Exists, LoadOnly, diskvars
    <2> QED BY <1>1, <2>1, LoadSame
  <1>6. /\ Source(t, cwd[t]) /\ Source(t, file[t]) /\ Source(t, i) /\ Source(t, NoIno)
        /\ path[t] \in Seq(Entry \ {".."}) /\ Extra(t) = NoIno
    BY <1>2, <1>3, <1>4, OldSource, PathNoUp, NoExtra
  <1>7. CASE ~(TypeOf(t) = "file" /\ Loaded(ip[t]).type = "file")
    <2>1. StepTo(t, call[t], cwd[t], file[t], path[t], i, dp[t], "end", <<i>>)
      BY <1>1, <1>4, <1>7, SameExcept DEF Exists, PutThen, Goto, StepTo
    <2> QED BY <1>1, <1>2, <1>5, <1>6, <2>1, EndLinks
  <1>8. CASE TypeOf(t) = "file" /\ Loaded(ip[t]).type = "file"
    <2>1. Goto(t, "made") /\ todo' = todo
      BY <1>4, <1>8 DEF Exists, Stays
    <2>2. StepTo(t, call[t], cwd[t], file[t], path[t], i, dp[t], "made", <<>>)
      BY <1>1, <1>2, <1>4, <2>1, SameExcept DEF Exists, Goto, StepTo
    <2>3. Sources(t, call[t], cwd[t], file[t], i, dp[t], "made", <<>>)
      BY <1>6, SeqSlots DEF Sources, DpHeld
    <2>4. /\ OwnPath(path[t], i, dp[t], "made") /\ OwnDir(call[t], path[t], i, dp[t], "made")
          /\ ExtraAt(call[t], "made", i) = NoIno
      BY <1>5, <1>6 DEF OwnPath, OwnDir, LockAt, ExtraAt, Pending
    <2> QED BY <1>1, <1>2, <1>5, <1>6, <2>2, <2>3, <2>4, QuietLinks DEF DiskSame
  <1> QED BY <1>7, <1>8

LEMMA MadeLinked ==
    ASSUME LinkInv, NEW t \in Thread, Made(t)
    PROVE  LinkInv'
  <1>1. TreeInv /\ TreeInv' /\ TreeTypes
    BY MadeKeeps DEF LinkInv, TreeInv
  <1>2. pc[t] = "made" /\ todo[t] = <<>>
    BY DEF Made, At
  <1>3. IpHeld(call[t], pc[t])
    BY <1>2 DEF IpHeld
  <1>4. PICK i \in Ino : i = ip[t]
    BY <1>1, <1>3, OwnTypes
  <1>5. DiskSame
    <2>1. NoDisk
      BY DEF Made, NoDisk, diskvars
    <2> QED BY <2>1, NoDiskSame
  <1>6. /\ Source(t, cwd[t]) /\ Source(t, file[t]) /\ Source(t, i)
        /\ path[t] \in Seq(Entry \ {".."}) /\ Extra(t) = NoIno
    BY <1>2, <1>3, <1>4, OldSource, PathNoUp, NoExtra
  <1>7. CASE ~(call[t].name = "create" /\ file[t] = NoIno)
    <2>1. StepTo(t, call[t], cwd[t], file[t], path[t], i, dp[t], "end", <<i>>)
      BY <1>1, <1>4, <1>7, SameExcept DEF Made, PutThen, Goto, StepTo
    <2> QED BY <1>1, <1>2, <1>5, <1>6, <2>1, EndLinks
  <1>8. CASE call[t].name = "create" /\ file[t] = NoIno
    <2>1. file' = [file EXCEPT ![t] = i] /\ Goto(t, "end") /\ todo' = todo
      BY <1>4, <1>8 DEF Made, Stays
    <2>2. StepTo(t, call[t], cwd[t], i, path[t], i, dp[t], "end", <<>>)
      BY <1>1, <1>2, <1>4, <2>1, SameExcept DEF Made, Goto, StepTo
    <2> QED BY <1>1, <1>2, <1>5, <1>6, <2>2, EndLinks
  <1> QED BY <1>7, <1>8

-----------------------------------------------------------------------------
(* sys_link() and sys_unlink(), the steps that leave the disk alone.       *)

LEMMA LinkTakenLinked ==
    ASSUME LinkInv, NEW t \in Thread, LinkTaken(t)
    PROVE  LinkInv'
  <1>1. TreeInv /\ TreeInv' /\ TreeTypes
    BY LinkTakenKeeps DEF LinkInv, TreeInv
  <1>2. pc[t] = "taken" /\ todo[t] = <<>> /\ call[t].name = "link"
    BY DEF LinkTaken, At, LinkInv, TreeInv, ThreadOK
  <1>3. IpHeld(call[t], pc[t]) /\ DpHeld(pc[t])
    BY <1>2 DEF IpHeld, DpHeld
  <1>4. PICK d \in Ino, i \in Ino : d = dp[t] /\ i = ip[t]
    BY <1>1, <1>3, OwnTypes
  <1>5. DiskSame
    <2>1. NoDisk
      BY DEF LinkTaken, NoDisk, diskvars
    <2> QED BY <2>1, NoDiskSame
  <1>6. /\ Source(t, cwd[t]) /\ Source(t, file[t]) /\ Source(t, i) /\ Source(t, d) /\ Source(t, NoIno)
        /\ path[t] \in Seq(Entry \ {".."})
    BY <1>3, <1>4, OldSource, PathNoUp
  <1>7. LinkPending(t) /\ Extra(t) = i /\ dinode[i].type # "dir"
    <2>1. LinkPending(t)
      BY <1>2 DEF LinkPending
    <2> QED BY <1>4, <2>1 DEF Extra, LinkInv, LinkOK, DirOK
  <1>8. StepTo(t, call[t], cwd[t], file[t], path[t], i, d, "bad", <<d>>)
    BY <1>1, <1>4, SameExcept DEF LinkTaken, PutThen, Goto, StepTo
  <1>9. Sources(t, call[t], cwd[t], file[t], i, d, "bad", <<d>>)
    BY <1>6, SeqSlots DEF Sources
  <1>10. /\ OwnPath(path[t], i, d, "bad") /\ OwnDir(call[t], path[t], i, d, "bad")
         /\ ExtraAt(call[t], "bad", i) = Extra(t)
    BY <1>5, <1>6, <1>7 DEF OwnPath, OwnDir, LockAt, ExtraAt, Pending, DiskSame
  <1> QED BY <1>1, <1>2, <1>5, <1>8, <1>9, <1>10, QuietLinks DEF DiskSame

\* dirlink() finds the name in use.
LEMMA NameTakenLinked ==
    ASSUME LinkInv, NEW t \in Thread, LinkNew(t), Lookup(dp[t], Head(path[t])) # NoIno
    PROVE  LinkInv'
  <1>1. TreeInv /\ TreeInv' /\ TreeTypes
    BY LinkNewKeeps DEF LinkInv, TreeInv
  <1>2. pc[t] = "parent" /\ todo[t] = <<>> /\ call[t].name = "link"
    BY DEF LinkNew, At
  <1>3. IpHeld(call[t], pc[t]) /\ DpHeld(pc[t])
    BY <1>2 DEF IpHeld, DpHeld
  <1>4. PICK d \in Ino, i \in Ino : d = dp[t] /\ i = ip[t]
    BY <1>1, <1>3, OwnTypes
  <1>5. PICK e : e = ents[d][Head(path[t])]
    OBVIOUS
  <1>6. PutThen(t, <<e>>, "taken") /\ ents' = ents
    BY <1>4, <1>5 DEF LinkNew, Lookup
  <1>7. DiskSame /\ inode'[d].valid
    <2>1. LoadOnly(d)
      BY <1>4, <1>6 DEF LinkNew, LoadOnly
    <2> QED BY <1>1, <2>1, LoadSame
  <1>8. /\ Source(t, cwd[t]) /\ Source(t, file[t]) /\ Source(t, i) /\ Source(t, d) /\ Source(t, NoIno)
        /\ path[t] \in Seq(Entry \ {".."}) /\ Head(path[t]) \in Entry \ {".."}
    BY <1>1, <1>2, <1>3, <1>4, OldSource, PathNoUp, PathIs
  <1>9. Source(t, e)
    <2>1. Pointer(t, "dp") = d /\ "dp" \in Slot
      BY <1>3, <1>4, HeldIs DEF Slot
    <2> QED BY <1>5, <1>8, <2>1, LookupSource
  <1>10. LinkPending(t) /\ Extra(t) = i /\ dinode[i].type # "dir"
    <2>1. LinkPending(t)
      BY <1>2 DEF LinkPending
    <2> QED BY <1>4, <2>1 DEF Extra, LinkInv, LinkOK, DirOK
  <1>11. StepTo(t, call[t], cwd[t], file[t], path[t], i, d, "taken", <<e>>)
    BY <1>1, <1>4, <1>6, SameExcept DEF LinkNew, PutThen, Goto, StepTo
  <1>12. Sources(t, call[t], cwd[t], file[t], i, d, "taken", <<e>>)
    BY <1>8, <1>9, SeqSlots DEF Sources
  <1>13. /\ OwnPath(path[t], i, d, "taken") /\ OwnDir(call[t], path[t], i, d, "taken")
         /\ ExtraAt(call[t], "taken", i) = Extra(t)
    BY <1>2, <1>7, <1>8, <1>10 DEF OwnPath, OwnDir, LockAt, ExtraAt, Pending, DiskSame
  <1> QED BY <1>1, <1>2, <1>7, <1>11, <1>12, <1>13, QuietLinks DEF DiskSame

LEMMA UnlinkFindLinked ==
    ASSUME LinkInv, NEW t \in Thread, UnlinkFind(t)
    PROVE  LinkInv'
  <1>1. TreeInv /\ TreeInv' /\ TreeTypes
    BY UnlinkFindKeeps DEF LinkInv, TreeInv
  <1>2. pc[t] = "parent" /\ todo[t] = <<>> /\ call[t].name = "unlink"
    BY DEF UnlinkFind, At
  <1>3. DpHeld(pc[t])
    BY <1>2 DEF DpHeld
  <1>4. PICK d \in Ino : d = dp[t]
    BY <1>1, <1>3, OwnTypes
  <1>5. DiskSame /\ inode'[d].valid
    <2>1. LoadOnly(d)
      BY <1>4 DEF UnlinkFind, LoadOnly, diskvars
    <2> QED BY <1>1, <2>1, LoadSame
  <1>6. /\ Source(t, cwd[t]) /\ Source(t, file[t]) /\ Source(t, d) /\ Source(t, NoIno)
        /\ path[t] \in Seq(Entry \ {".."}) /\ Head(path[t]) \in Entry \ {".."}
        /\ Extra(t) = NoIno
    BY <1>1, <1>2, <1>3, <1>4, OldSource, PathNoUp, PathIs, NoExtra
  <1>7. PICK e : e = ents[d][Head(path[t])]
    OBVIOUS
  <1>8. CASE PutThen(t, <<d>>, "end") /\ ip' = ip
    <2>1. StepTo(t, call[t], cwd[t], file[t], path[t], ip[t], d, "end", <<d>>)
      BY <1>1, <1>4, <1>8, SameExcept DEF UnlinkFind, PutThen, Goto, StepTo
    <2> QED BY <1>1, <1>2, <1>5, <1>6, <2>1, EndLinks
  <1>9. CASE Head(path[t]) \notin {".", ".."} /\ ip' = [ip EXCEPT ![t] = e] /\ Goto(t, "child") /\ todo' = todo
    <2>1. StepTo(t, call[t], cwd[t], file[t], path[t], e, d, "child", <<>>)
      BY <1>1, <1>2, <1>4, <1>9, SameExcept DEF UnlinkFind, Goto, StepTo
    <2>2. Source(t, e)
      <3>1. Pointer(t, "dp") = d /\ "dp" \in Slot
        BY <1>3, <1>4, HeldIs DEF Slot
      <3> QED BY <1>6, <1>7, <3>1, LookupSource
    <2>3. Sources(t, call[t], cwd[t], file[t], e, d, "child", <<>>)
      BY <1>6, <2>2, SeqSlots DEF Sources
    <2>4. Head(path[t]) \in Name
      BY <1>6, <1>9 DEF Entry
    <2>5. dinode[d].type = "dir"
      BY <1>2, <1>4 DEF LinkInv, LinkOK, DirOK
    <2>6. /\ OwnPath(path[t], e, d, "child") /\ OwnDir(call[t], path[t], e, d, "child")
          /\ ExtraAt(call[t], "child", e) = Extra(t)
      BY <1>5, <1>6, <1>7, <2>4, <2>5 DEF OwnPath, OwnDir, LockAt, ExtraAt, Pending, DiskSame
    <2> QED BY <1>1, <1>2, <1>5, <2>1, <2>3, <2>6, QuietLinks DEF DiskSame
  <1> QED BY <1>4, <1>7, <1>8, <1>9 DEF UnlinkFind, Lookup, Stays

LEMMA UnlinkNotEmptyLinked ==
    ASSUME LinkInv, NEW t \in Thread, UnlinkNotEmpty(t)
    PROVE  LinkInv'
  <1>1. TreeInv /\ TreeInv' /\ TreeTypes
    BY UnlinkNotEmptyKeeps DEF LinkInv, TreeInv
  <1>2. pc[t] = "notempty" /\ todo[t] = <<>>
    BY DEF UnlinkNotEmpty, At
  <1>3. DpHeld(pc[t])
    BY <1>2 DEF DpHeld
  <1>4. DiskSame
    <2>1. NoDisk
      BY DEF UnlinkNotEmpty, NoDisk, diskvars
    <2> QED BY <2>1, NoDiskSame
  <1>5. /\ Source(t, cwd[t]) /\ Source(t, file[t]) /\ Source(t, dp[t])
        /\ path[t] \in Seq(Entry \ {".."}) /\ Extra(t) = NoIno
    BY <1>2, <1>3, OldSource, PathNoUp, NoExtra
  <1>6. StepTo(t, call[t], cwd[t], file[t], path[t], ip[t], dp[t], "end", <<dp[t]>>)
    BY <1>1, SameExcept DEF UnlinkNotEmpty, PutThen, Goto, StepTo
  <1> QED BY <1>1, <1>2, <1>4, <1>5, <1>6, EndLinks

\* The state is the same, but the kernel may have panicked.
LEMMA StopLinked ==
    ASSUME LinkInv, UNCHANGED <<dinode, ents, inode, ref, lock>>,
           UNCHANGED <<cwd, file, call, path, ip, dp, pc, todo, put>>, panicked' \in BOOLEAN
    PROVE  LinkInv'
  <1>1. TreeInv'
    BY StopKeeps DEF LinkInv
  <1>2. \A u, s : Pointer(u, s)' = Pointer(u, s)
    <2>1. \A u : HoldsIp(u)' = HoldsIp(u) /\ HoldsDp(u)' = HoldsDp(u)
      BY DEF HoldsIp, HoldsDp
    <2> QED BY <2>1 DEF Pointer
  <1>3. \A u : /\ (LinkPending(u)' <=> LinkPending(u)) /\ HeadSlot(u)' = HeadSlot(u)
               /\ PcLock(u)' = PcLock(u) /\ PutLock(u)' = PutLock(u) /\ TypeOf(u)' = TypeOf(u)
    BY DEF LinkPending, HeadSlot, PcLock, PutLock, TypeOf
  <1>4. \A u, s : Dying(u, s)' <=> Dying(u, s)
    BY <1>3 DEF Dying
  <1>5. ASSUME NEW u \in Thread PROVE LinkOK(u)'
    <2>1. PathOK(u)' /\ ValidOK(u)' /\ DirOK(u)'
      BY <1>3 DEF LinkInv, LinkOK, PathOK, ValidOK, DirOK
    <2>2. TruncOK(u)' /\ LiveOK(u)' /\ NewOK(u)'
      BY <1>2, <1>3, <1>4 DEF LinkInv, LinkOK, TruncOK, LiveOK, NewOK
    <2> QED BY <2>1, <2>2 DEF LinkOK
  <1>6. NameMap' = NameMap /\ SubMap' = SubMap
    BY DEF NameMap, SubMap
  <1>7. ExtraMap' = ExtraMap
    <2>1. \A u : Extra(u)' = Extra(u)
      BY <1>3 DEF Extra
    <2> QED BY <2>1 DEF ExtraMap
  <1>8. ASSUME NEW j \in Ino PROVE DotOK(j)' /\ TreeOK(j)' /\ Covered(j)'
    <2>1. DotOK(j)' /\ TreeOK(j)'
      BY <1>6 DEF LinkInv, DotOK, TreeOK, Places
    <2>2. LinkCount(j)' = LinkCount(j)
      BY <1>6, <1>7 DEF LinkCount, Num, Fiber, One, Root, Places
    <2> QED BY <2>1, <2>2 DEF LinkInv, Covered
  <1> QED BY <1>1, <1>5, <1>8 DEF LinkInv

LEMMA PanicLinked ==
    ASSUME LinkInv, NEW t \in Thread, IlockPanic(t) \/ IallocPanic(t)
    PROVE  LinkInv'
  <1>1. UNCHANGED <<dinode, ents, inode, ref, lock>>
    BY DEF IlockPanic, IallocPanic, diskvars, cachevars
  <1>2. UNCHANGED <<cwd, file, call, path, ip, dp, pc, todo, put>>
    BY DEF IlockPanic, IallocPanic, procvars
  <1>3. panicked' \in BOOLEAN
    BY DEF IlockPanic, IallocPanic
  <1> QED BY <1>1, <1>2, <1>3, StopLinked

-----------------------------------------------------------------------------
(* The steps that change the link count of one inode.                      *)

CountTo(i, n) ==
    /\ dinode'[i].type = dinode[i].type /\ dinode'[i].nlink = n
    /\ \A j \in Ino : j # i => dinode'[j] = dinode[j]

LEMMA CountLinks ==
    ASSUME LinkInv, TreeInv', NEW t \in Thread, todo[t] = <<>>,
           NEW k, NEW c, NEW f, NEW p, NEW x, NEW d, NEW l, NEW s,
           StepTo(t, k, c, f, p, x, d, l, s), ValidFrame, ents' = ents, pc[t] # "new", l # "new",
           NEW i \in Ino, NEW n \in Int, CountTo(i, n), dinode[i].type # "free",
           lock[i] \in {t, NoThread}, Pointer(t, "ip") = i,
           Extra(t) \in {i, NoIno}, ExtraAt(k, l, x) \in {i, NoIno},
           (dinode[i].nlink + One(ExtraAt(k, l, x), i)) - One(Extra(t), i) = n,
           Sources(t, k, c, f, x, d, l, s), OwnPath(p, x, d, l), OwnDir(k, p, x, d, l)
    PROVE  LinkInv'
  <1>1. TreeInv /\ TreeTypes /\ TreeTypes' /\ Others(t)
    BY StepToIs DEF LinkInv, TreeInv
  <1>2. SameTypes /\ TypeFrame
    BY DEF SameTypes, TypeFrame, CountTo
  <1>3. Touch(t)
    <2>1. ~Dying(t, "ip") /\ "ip" \in Slot
      BY <1>1, NotDying DEF Slot
    <2> QED BY <2>1 DEF Touch, CountTo
  <1>4. ASSUME NEW u \in Thread PROVE LinkOK(u)'
    BY <1>1, <1>2, <1>3, CallLinks
  <1>5. ASSUME NEW j \in Ino PROVE DotOK(j)' /\ TreeOK(j)'
    <2>1. dinode[j].type = "free" => dinode[j].nlink = 0
      BY DEF LinkInv, DotOK
    <2>2. dinode'[j].type = "free" => dinode'[j].nlink = 0
      BY <2>1 DEF CountTo
    <2> QED BY <1>1, <1>2, <2>2, SameTree
  <1>6. ASSUME NEW j \in Ino PROVE Covered(j)'
    <2>1. NameMap' = NameMap /\ SubMap' = SubMap
      BY <1>1, <1>2, SameMaps
    <2>2. Elsewhere(ExtraMap, ExtraMap', Thread, t) /\ Extra(t)' = ExtraAt(k, l, x)
      BY <1>1, StepExtra
    <2>3. ExtraMap'[t] = ExtraAt(k, l, x) /\ ExtraMap[t] = Extra(t)
      BY <2>2 DEF ExtraMap
    <2>4. Change(ExtraMap, ExtraMap', t, j) = One(ExtraAt(k, l, x), j) - One(Extra(t), j)
      BY <2>3 DEF Change
    <2>5. dinode'[j].nlink \in Int /\ dinode[j].nlink \in Int
      BY <1>1 DEF TreeTypes
    <2>6. PICK a \in Int, b \in Int : a = One(ExtraAt(k, l, x), j) /\ b = One(Extra(t), j)
      BY OneType
    <2>7. dinode[j].nlink + (a - b) <= dinode'[j].nlink
      <3>1. CASE j = i
        <4>1. PICK m \in Int : m = dinode[j].nlink
          BY <2>5
        <4>2. (m + a) - b = n
          BY <2>6, <3>1, <4>1
        <4>3. dinode'[j].nlink = n
          BY <3>1 DEF CountTo
        <4>4. m + (a - b) <= n
          BY <4>2
        <4> QED BY <4>1, <4>3, <4>4
      <3>2. CASE j # i
        <4>1. a = 0 /\ b = 0
          BY <2>6, <3>2, OneNone DEF One
        <4> QED BY <2>5, <3>2, <4>1 DEF CountTo
      <3> QED BY <3>1, <3>2
    <2>8. dinode[j].nlink + Change(ExtraMap, ExtraMap', t, j) <= dinode'[j].nlink
      BY <2>4, <2>6, <2>7
    <2> QED BY <2>1, <2>2, <2>5, <2>8, CoverSame
  <1> QED BY <1>4, <1>5, <1>6 DEF LinkInv

\* The disk and the cache, if t has just locked i and sets its link count.
LEMMA LoadCount ==
    ASSUME TreeInv, NEW i \in Ino, CanLock(i), NEW n \in Int,
           inode' = WithLinks([inode EXCEPT ![i] = Loaded(i)], i, n), dinode' = WithLinks(dinode, i, n)
    PROVE  /\ CountTo(i, n) /\ ValidFrame /\ inode'[i].valid /\ dinode[i].type # "free"
           /\ lock[i] = NoThread
  <1>1. TreeTypes
    BY DEF TreeInv
  <1>2. PICK f : f = [inode EXCEPT ![i] = Loaded(i)]
    OBVIOUS
  <1>3. /\ f \in [Ino -> INode] /\ (\A j \in Ino : j # i => f[j] = inode[j]) /\ f[i].valid = TRUE
        /\ dinode[i].type # "free"
    BY <1>2, LoadedMap
  <1>4. /\ (\A j \in Ino : j # i => inode'[j] = f[j]) /\ inode'[i].valid = f[i].valid
    <2>1. inode' = WithLinks(f, i, n) /\ f \in [Ino -> INode]
      BY <1>2, <1>3
    <2>2. /\ \A j \in Ino : j # i => WithLinks(f, i, n)[j] = f[j]
          /\ WithLinks(f, i, n)[i].valid = f[i].valid
      BY <2>1, LinksInCache
    <2> QED BY <2>1, <2>2
  <1>5. CountTo(i, n)
    <2>1. dinode \in [Ino -> DNode]
      BY <1>1 DEF TreeTypes, DNode
    <2>2. /\ (\A j \in Ino : j # i => dinode'[j] = dinode[j])
          /\ dinode'[i].type = dinode[i].type /\ dinode'[i].nlink = n
      BY <2>1, LinksOnDisk
    <2> QED BY <2>2 DEF CountTo
  <1>6. inode'[i].valid
    BY <1>3, <1>4
  <1>7. ValidFrame
    BY <1>3, <1>4, <1>6 DEF ValidFrame
  <1> QED BY <1>3, <1>5, <1>6, <1>7 DEF CanLock

LEMMA LinkBadLinked ==
    ASSUME LinkInv, NEW t \in Thread, LinkBad(t)
    PROVE  LinkInv'
  <1>1. TreeInv /\ TreeInv' /\ TreeTypes
    BY LinkBadKeeps DEF LinkInv, TreeInv
  <1>2. pc[t] = "bad" /\ todo[t] = <<>>
    BY DEF LinkBad, At
  <1>3. IpHeld(call[t], pc[t])
    BY <1>2 DEF IpHeld
  <1>4. PICK i \in Ino : i = ip[t]
    BY <1>1, <1>3, OwnTypes
  <1>5. CanLock(i) /\ Loaded(i).nlink = dinode[i].nlink /\ dinode[i].nlink \in Int
    <2>1. CanLock(i)
      BY <1>4 DEF LinkBad
    <2> QED BY <1>1, <2>1, LoadedMap DEF TreeTypes
  <1>6. PICK n \in Int : n = dinode[i].nlink - 1
    BY <1>5
  <1>7. /\ inode' = WithLinks([inode EXCEPT ![i] = Loaded(i)], i, n) /\ dinode' = WithLinks(dinode, i, n)
        /\ ents' = ents
    BY <1>4, <1>5, <1>6 DEF LinkBad
  <1>8. CountTo(i, n) /\ ValidFrame /\ dinode[i].type # "free" /\ lock[i] = NoThread
    BY <1>1, <1>5, <1>7, LoadCount
  <1>9. /\ Source(t, cwd[t]) /\ Source(t, file[t]) /\ Source(t, i) /\ Source(t, NoIno)
        /\ path[t] \in Seq(Entry \ {".."}) /\ Pointer(t, "ip") = i
    BY <1>2, <1>3, <1>4, OldSource, PathNoUp, HeldIs
  <1>10. Extra(t) = i /\ ExtraAt(call[t], "end", i) = NoIno
    BY <1>2, <1>4 DEF Extra, LinkPending, ExtraAt, Pending
  <1>11. (dinode[i].nlink + One(ExtraAt(call[t], "end", i), i)) - One(Extra(t), i) = n
    BY <1>5, <1>6, <1>10, OneNone DEF One
  <1>12. StepTo(t, call[t], cwd[t], file[t], path[t], i, dp[t], "end", <<i>>)
    BY <1>1, <1>4, SameExcept DEF LinkBad, PutThen, Goto, StepTo
  <1>13. Sources(t, call[t], cwd[t], file[t], i, dp[t], "end", <<i>>)
    BY <1>9, SeqSlots DEF Sources, DpHeld
  <1>14. OwnPath(path[t], i, dp[t], "end") /\ OwnDir(call[t], path[t], i, dp[t], "end")
    BY <1>9 DEF OwnPath, OwnDir, LockAt, Pending
  <1> QED BY <1>1, <1>2, <1>7, <1>8, <1>9, <1>10, <1>11, <1>12, <1>13, <1>14, CountLinks

LEMMA UnlinkCountLinked ==
    ASSUME LinkInv, NEW t \in Thread, UnlinkCount(t)
    PROVE  LinkInv'
  <1>1. TreeInv /\ TreeInv' /\ TreeTypes
    BY UnlinkCountKeeps DEF LinkInv, TreeInv
  <1>2. pc[t] = "unlinked" /\ todo[t] = <<>>
    BY DEF UnlinkCount, At
  <1>3. IpHeld(call[t], pc[t])
    BY <1>2 DEF IpHeld
  <1>4. PICK i \in Ino : i = ip[t]
    BY <1>1, <1>3, OwnTypes
  <1>5. PcLock(t) = i /\ i # NoIno
    BY <1>2, <1>4 DEF PcLock, Ino, NoIno
  <1>6. lock[i] = t /\ inode[i].nlink = dinode[i].nlink /\ dinode[i].nlink \in Int /\ dinode[i].type # "free"
    <2>1. inode[i].valid
      BY <1>5 DEF LinkInv, LinkOK, ValidOK
    <2> QED BY <1>1, <1>2, <1>5, <2>1, LockedCache
  <1>7. PICK n \in Int : n = dinode[i].nlink - 1
    BY <1>6
  <1>8. inode' = WithLinks(inode, i, n) /\ dinode' = WithLinks(dinode, i, n) /\ ents' = ents
    BY <1>4, <1>6, <1>7 DEF UnlinkCount
  <1>9. inode \in [Ino -> INode] /\ dinode \in [Ino -> DNode]
    BY <1>1 DEF TreeTypes, INode, DNode
  <1>10. /\ (\A j \in Ino : j # i => inode'[j] = inode[j]) /\ inode'[i].valid = inode[i].valid
    BY <1>8, <1>9, LinksInCache
  <1>11. CountTo(i, n)
    BY <1>8, <1>9, LinksOnDisk DEF CountTo
  <1>12. ValidFrame
    BY <1>10 DEF ValidFrame
  <1>13. /\ Source(t, cwd[t]) /\ Source(t, file[t]) /\ Source(t, i) /\ Source(t, NoIno)
         /\ path[t] \in Seq(Entry \ {".."}) /\ Pointer(t, "ip") = i
    BY <1>2, <1>3, <1>4, OldSource, PathNoUp, HeldIs
  <1>14. Extra(t) = i /\ ExtraAt(call[t], "end", i) = NoIno
    BY <1>2, <1>4 DEF Extra, LinkPending, ExtraAt, Pending
  <1>15. (dinode[i].nlink + One(ExtraAt(call[t], "end", i), i)) - One(Extra(t), i) = n
    BY <1>6, <1>7, <1>14, OneNone DEF One
  <1>16. StepTo(t, call[t], cwd[t], file[t], path[t], i, dp[t], "end", <<i>>)
    BY <1>1, <1>4, SameExcept DEF UnlinkCount, PutThen, Goto, StepTo
  <1>17. Sources(t, call[t], cwd[t], file[t], i, dp[t], "end", <<i>>)
    BY <1>13, SeqSlots DEF Sources, DpHeld
  <1>18. OwnPath(path[t], i, dp[t], "end") /\ OwnDir(call[t], path[t], i, dp[t], "end")
    BY <1>13 DEF OwnPath, OwnDir, LockAt, Pending
  <1> QED BY <1>1, <1>2, <1>6, <1>8, <1>11, <1>12, <1>13, <1>14, <1>15, <1>16, <1>17, <1>18, CountLinks

LEMMA LinkOldLinked ==
    ASSUME LinkInv, NoDotDot, NEW t \in Thread, LinkOld(t)
    PROVE  LinkInv'
  <1>1. TreeInv /\ TreeInv' /\ TreeTypes
    BY LinkOldKeeps DEF LinkInv, TreeInv
  <1>2. pc[t] = "found" /\ todo[t] = <<>> /\ call[t].name = "link"
    BY DEF LinkOld, At
  <1>3. IpHeld(call[t], pc[t])
    BY <1>2 DEF IpHeld
  <1>4. PICK i \in Ino : i = ip[t]
    BY <1>1, <1>3, OwnTypes
  <1>5. /\ CanLock(i) /\ Loaded(i).nlink = dinode[i].nlink /\ dinode[i].nlink \in Int
        /\ Loaded(i).type = dinode[i].type /\ ents' = ents
    <2>1. CanLock(i)
      BY <1>4 DEF LinkOld
    <2> QED BY <1>1, <2>1, LoadedMap DEF TreeTypes, LinkOld
  <1>6. /\ Source(t, cwd[t]) /\ Source(t, file[t]) /\ Source(t, i) /\ Source(t, NoIno) /\ Source(t, Root)
        /\ path[t] \in Seq(Entry \ {".."}) /\ Pointer(t, "ip") = i /\ Extra(t) = NoIno
    BY <1>2, <1>3, <1>4, OldSource, PathNoUp, HeldIs, NoExtra
  <1>7. CASE /\ inode' = [inode EXCEPT ![i] = Loaded(i)] /\ PutThen(t, <<i>>, "end")
             /\ UNCHANGED <<dinode, ref, dp, path>>
    <2>1. DiskSame
      <3>1. LoadOnly(i)
        BY <1>5, <1>7 DEF LoadOnly, LinkOld
      <3> QED BY <1>1, <3>1, LoadSame
    <2>2. StepTo(t, call[t], cwd[t], file[t], path[t], i, dp[t], "end", <<i>>)
      BY <1>1, <1>4, <1>7, SameExcept DEF LinkOld, PutThen, Goto, StepTo
    <2> QED BY <1>1, <1>2, <1>6, <2>1, <2>2, EndLinks
  <1>8. PICK s : s = Start(t, call[t].new) /\ Source(t, s)
    BY <1>6 DEF Start
  <1>9. PICK n \in Int : n = dinode[i].nlink + 1
    BY <1>5
  <1>10. PICK p \in Seq(Entry \ {".."}) : p = Rest(call[t].new)
    <2>1. call[t] \in Calls[t]
      BY <1>1, <1>2, OwnTypes DEF NoCall
    <2> QED BY <2>1 DEF NoDotDot
  <1>11. ASSUME dinode[i].type # "dir", inode' = WithLinks([inode EXCEPT ![i] = Loaded(i)], i, n),
                dinode' = WithLinks(dinode, i, n), NEW l \in {"bad", "nameiparent"}, NEW q,
                q = <<>> \/ q = <<s>>, StepTo(t, call[t], cwd[t], file[t], p, i, s, l, q)
         PROVE  LinkInv'
    <2>1. CountTo(i, n) /\ ValidFrame /\ dinode[i].type # "free" /\ lock[i] = NoThread
      BY <1>1, <1>5, <1>11, LoadCount
    <2>2. ExtraAt(call[t], l, i) = i
      BY <1>2, <1>11 DEF ExtraAt, Pending
    <2>3. (dinode[i].nlink + One(ExtraAt(call[t], l, i), i)) - One(Extra(t), i) = n
      BY <1>5, <1>6, <1>9, <2>2, OneNone DEF One
    <2>4. Sources(t, call[t], cwd[t], file[t], i, s, l, q)
      BY <1>6, <1>8, <1>11, SeqSlots DEF Sources
    <2>5. OwnPath(p, i, s, l) /\ OwnDir(call[t], p, i, s, l)
      BY <1>10, <1>11, <2>1 DEF OwnPath, OwnDir, LockAt, CountTo
    <2> QED BY <1>1, <1>2, <1>5, <1>6, <1>11, <2>1, <2>2, <2>3, <2>4, <2>5, CountLinks
  <1>12. CASE /\ dinode[i].type # "dir"
              /\ inode' = WithLinks([inode EXCEPT ![i] = Loaded(i)], i, n)
              /\ dinode' = WithLinks(dinode, i, n)
              /\ dp' = [dp EXCEPT ![t] = s] /\ path' = [path EXCEPT ![t] = p]
              /\ IF p = <<>> THEN PutThen(t, <<s>>, "bad") ELSE Goto(t, "nameiparent") /\ Stays
    <2>1. CASE p = <<>>
      <3>1. StepTo(t, call[t], cwd[t], file[t], p, i, s, "bad", <<s>>)
        BY <1>1, <1>4, <1>12, <2>1, SameExcept DEF LinkOld, PutThen, Goto, StepTo
      <3> QED BY <1>11, <1>12, <3>1
    <2>2. CASE p # <<>>
      <3>1. todo' = todo /\ Goto(t, "nameiparent")
        BY <1>12, <2>2 DEF Stays
      <3>2. StepTo(t, call[t], cwd[t], file[t], p, i, s, "nameiparent", <<>>)
        BY <1>1, <1>2, <1>4, <1>12, <3>1, SameExcept DEF LinkOld, Goto, StepTo
      <3> QED BY <1>11, <1>12, <3>2
    <2> QED BY <2>1, <2>2
  <1> QED BY <1>4, <1>5, <1>7, <1>8, <1>9, <1>10, <1>12 DEF LinkOld

-----------------------------------------------------------------------------
(* The steps that change an entry.                                         *)

\* Entry n of directory d becomes v, no other name changes.
EntryTo(d, n, v) ==
    /\ ents'[d][n] = v
    /\ \A a \in Ino, m \in Name : a # d \/ m # n => ents'[a][m] = ents[a][m]
SubOf(d, v) == IF v # NoIno /\ dinode[v].type = "dir" THEN d ELSE NoIno
CoverTo(d, w, v, x, y, j) ==
    ((dinode[j].nlink + (One(v, j) - One(w, j))) + (One(SubOf(d, v), j) - One(SubOf(d, w), j)))
      + (One(y, j) - One(x, j)) <= dinode'[j].nlink

LEMMA EntryMaps ==
    ASSUME TreeTypes, TreeTypes', SameTypes, NEW d \in Ino, NEW n \in Name, NEW v, EntryTo(d, n, v)
    PROVE  /\ <<d, n>> \in Places
           /\ Elsewhere(NameMap, NameMap', Places, <<d, n>>) /\ Elsewhere(SubMap, SubMap', Places, <<d, n>>)
           /\ NameMap'[<<d, n>>] = v /\ NameMap[<<d, n>>] = ents[d][n]
           /\ SubMap'[<<d, n>>] = SubOf(d, v) /\ SubMap[<<d, n>>] = SubOf(d, ents[d][n])
  <1>0. PICK e : e = <<d, n>>
    OBVIOUS
  <1>1. e \in Places /\ e = <<d, n>> /\ e[1] = d /\ e[2] = n
    BY <1>0 DEF Places
  <1>2. \A f \in Places : /\ ents'[f[1]][f[2]] \in Ino \cup {NoIno}
                          /\ f[1] \in Ino /\ f[2] \in Name /\ f = <<f[1], f[2]>>
    BY DEF Places, TreeTypes, Entry
  <1>3. \A f \in Places : f # e => ents'[f[1]][f[2]] = ents[f[1]][f[2]]
    BY <1>1, <1>2 DEF EntryTo
  <1>4. Elsewhere(NameMap, NameMap', Places, e)
    BY <1>3 DEF Elsewhere, NameMap
  <1>5. \A f \in Places : f # e => SubMap'[f] = SubMap[f]
    BY <1>2, <1>3 DEF SubMap, SameTypes
  <1>6. NameMap'[e] = v /\ NameMap[e] = ents[d][n]
    BY <1>1 DEF NameMap, EntryTo
  <1>7. SubMap[e] = SubOf(d, ents[d][n])
    BY <1>1 DEF SubMap, SubOf
  <1>8. v \in Ino \cup {NoIno}
    BY <1>1, <1>2 DEF EntryTo
  <1>9. SubMap'[e] = SubOf(d, v)
    BY <1>1, <1>8 DEF SubMap, SubOf, EntryTo, SameTypes
  <1> QED BY <1>1, <1>4, <1>5, <1>6, <1>7, <1>9 DEF Elsewhere

LEMMA EntryLinks ==
    ASSUME LinkInv, TreeInv', NEW t \in Thread, todo[t] = <<>>,
           NEW k, NEW c, NEW f, NEW p, NEW x, NEW y, NEW l, NEW s,
           StepTo(t, k, c, f, p, x, y, l, s), SameTypes, ValidFrame, Touch(t), l # "new",
           NEW d \in Ino, NEW n \in Name, NEW v, EntryTo(d, n, v),
           \A j \in Ino : DotOK(j)' /\ TreeOK(j)',
           \A j \in Ino : CoverTo(d, ents[d][n], v, Extra(t), ExtraAt(k, l, x), j),
           Sources(t, k, c, f, x, y, l, s), OwnPath(p, x, y, l), OwnDir(k, p, x, y, l)
    PROVE  LinkInv'
  <1>1. TreeInv /\ TreeTypes /\ TreeTypes' /\ TypeFrame
    BY DEF LinkInv, TreeInv, SameTypes, TypeFrame
  <1>2. ASSUME NEW u \in Thread PROVE LinkOK(u)'
    BY <1>1, CallLinks
  <1>3. ASSUME NEW j \in Ino PROVE Covered(j)'
    <2>0. PICK e : e = <<d, n>>
      OBVIOUS
    <2>1. /\ e \in Places
          /\ Elsewhere(NameMap, NameMap', Places, e) /\ Elsewhere(SubMap, SubMap', Places, e)
          /\ NameMap'[e] = v /\ NameMap[e] = ents[d][n]
          /\ SubMap'[e] = SubOf(d, v) /\ SubMap[e] = SubOf(d, ents[d][n])
      BY <1>1, <2>0, EntryMaps
    <2>2. Elsewhere(ExtraMap, ExtraMap', Thread, t) /\ Extra(t)' = ExtraAt(k, l, x)
      BY <1>1, StepExtra
    <2>3. ExtraMap'[t] = ExtraAt(k, l, x) /\ ExtraMap[t] = Extra(t)
      BY <2>2 DEF ExtraMap
    <2>4. /\ Change(ExtraMap, ExtraMap', t, j) = One(ExtraAt(k, l, x), j) - One(Extra(t), j)
          /\ Change(NameMap, NameMap', e, j) = One(v, j) - One(ents[d][n], j)
          /\ Change(SubMap, SubMap', e, j) = One(SubOf(d, v), j) - One(SubOf(d, ents[d][n]), j)
      BY <2>1, <2>3 DEF Change
    <2>5. dinode'[j].nlink \in Int
      BY <1>1 DEF TreeTypes
    <2>6. ((dinode[j].nlink + Change(NameMap, NameMap', e, j)) + Change(SubMap, SubMap', e, j))
             + Change(ExtraMap, ExtraMap', t, j) <= dinode'[j].nlink
      BY <2>4 DEF CoverTo
    <2> QED BY <2>1, <2>2, <2>5, <2>6, CoverStep
  <1> QED BY <1>2, <1>3 DEF LinkInv

\* The tree, if d gets or loses a name for what is not a directory, or loses
\* the name of one.
LEMMA EntryTree ==
    ASSUME LinkInv, TreeTypes', NEW t \in Thread, Others(t), pc[t] # "new", SameTypes,
           NEW d \in Ino, NEW n \in Name, NEW v, EntryTo(d, n, v), dinode[d].type = "dir",
           v = NoIno \/ dinode[v].type # "dir",
           \A a \in Ino : ents'[a]["."] = ents[a]["."] /\ ents'[a][".."] = ents[a][".."],
           NEW j \in Ino, dinode'[j].type = "free" => dinode'[j].nlink = 0
    PROVE  DotOK(j)' /\ TreeOK(j)'
  <1>1. TreeTypes /\ DotOK(j) /\ TreeOK(j)
    BY DEF LinkInv, TreeInv
  <1>2. dinode'[j].type = dinode[j].type
    BY DEF SameTypes
  <1>3. \A u \in Thread : pc[u] = "new" => pc'[u] = "new" /\ ip'[u] = ip[u]
    BY DEF Others
  <1>4. ASSUME j # d, NEW m \in Entry PROVE ents'[j][m] = ents[j][m]
    BY <1>4 DEF Entry, EntryTo
  <1>5. dinode'[j].type # "dir" => \A m \in Entry : ents'[j][m] = NoIno
    BY <1>1, <1>2, <1>4 DEF DotOK
  <1>6. ents'[j]["."] \in {j, NoIno}
    BY <1>1 DEF DotOK
  <1>7. dinode'[j].type = "dir" => ents'[j]["."] = j \/ \E u \in Thread : pc'[u] = "new" /\ ip'[u] = j
    BY <1>1, <1>2, <1>3 DEF DotOK
  <1>8. DotOK(j)'
    BY <1>5, <1>6, <1>7 DEF DotOK
  <1>9. ASSUME dinode'[j].type = "dir", NEW e \in Places, NameMap'[e] = j PROVE NameMap[e] = j
    <2>0. PICK g : g = <<d, n>>
      OBVIOUS
    <2>1. g \in Places /\ Elsewhere(NameMap, NameMap', Places, g) /\ NameMap'[g] = v
      BY <1>1, <2>0, EntryMaps
    <2>2. e # g
      <3>1. j # NoIno /\ dinode[j].type = "dir"
        BY <1>2, <1>9 DEF Ino, NoIno
      <3> QED BY <1>9, <2>1, <3>1
    <2> QED BY <1>9, <2>1, <2>2 DEF Elsewhere
  <1>10. ASSUME dinode'[j].type = "dir", NEW e \in Places, NameMap'[e] = j
         PROVE  ents'[j][".."] = e[1] /\ \A g \in Places : NameMap'[g] = j => e = g
    <2>1. NameMap[e] = j /\ dinode[j].type = "dir"
      BY <1>2, <1>9, <1>10
    <2>2. ents[j][".."] = e[1] /\ \A g \in Places : NameMap[g] = j => e = g
      BY <1>1, <1>10, <2>1 DEF TreeOK
    <2> QED BY <1>9, <1>10, <2>2
  <1>11. TreeOK(j)'
    BY <1>10 DEF TreeOK, Places
  <1> QED BY <1>8, <1>11

LEMMA EntsAt ==
    ASSUME TreeTypes, NEW d \in Ino, NEW n \in Name, NEW v, ents' = [ents EXCEPT ![d][n] = v]
    PROVE  /\ EntryTo(d, n, v) /\ \A a \in Ino : a # d => ents'[a] = ents[a]
           /\ \A a \in Ino : ents'[a]["."] = ents[a]["."] /\ ents'[a][".."] = ents[a][".."]
  <1>1. ents \in [Ino -> [Entry -> Ino \cup {NoIno}]] /\ n \in Entry
    BY DEF TreeTypes, Entry
  <1>2. n # "." /\ n # ".."
    BY FileTreeAssumption
  <1>3. \A a \in Ino : a # d => ents'[a] = ents[a]
    BY <1>1
  <1>4. ents'[d] = [ents[d] EXCEPT ![n] = v] /\ ents[d] \in [Entry -> Ino \cup {NoIno}]
    BY <1>1
  <1>5. ents'[d][n] = v /\ \A m \in Entry : m # n => ents'[d][m] = ents[d][m]
    BY <1>1, <1>4
  <1>6. EntryTo(d, n, v)
    BY <1>3, <1>5 DEF EntryTo, Entry
  <1>7. ents'[d]["."] = ents[d]["."] /\ ents'[d][".."] = ents[d][".."]
    BY <1>2, <1>5 DEF Entry
  <1> QED BY <1>3, <1>6, <1>7

\* What is not in a directory is a name: "." is there, unless create() has not
\* made it yet, and then nobody else refers to the directory.
LEMMA FreeName ==
    ASSUME LinkInv, NEW t \in Thread, todo[t] = <<>>, NEW d \in Ino, Pointer(t, "dp") = d,
           dinode[d].type = "dir", NEW n \in Entry \ {".."}, ents[d][n] = NoIno
    PROVE  n \in Name
  <1>1. SUFFICES ASSUME n = "." PROVE FALSE
    BY DEF Entry
  <1>2. d # NoIno
    BY DEF Ino, NoIno
  <1>3. PICK u \in Thread : pc[u] = "new" /\ ip[u] = d
    BY <1>1, <1>2 DEF LinkInv, DotOK
  <1>4. ~Dying(t, "dp") /\ "dp" \in Slot
    BY NotDying DEF LinkInv, Slot
  <1> QED BY <1>3, <1>4 DEF LinkInv, LinkOK, NewOK

\* dirlink() adds the entry.
LEMMA NameAddedLinked ==
    ASSUME LinkInv, NEW t \in Thread, LinkNew(t), Lookup(dp[t], Head(path[t])) = NoIno
    PROVE  LinkInv'
  <1>1. TreeInv /\ TreeInv' /\ TreeTypes /\ TreeTypes'
    BY LinkNewKeeps DEF LinkInv, TreeInv
  <1>2. pc[t] = "parent" /\ todo[t] = <<>> /\ call[t].name = "link"
    BY DEF LinkNew, At
  <1>3. IpHeld(call[t], pc[t]) /\ DpHeld(pc[t])
    BY <1>2 DEF IpHeld, DpHeld
  <1>4. PICK d \in Ino, i \in Ino : d = dp[t] /\ i = ip[t]
    BY <1>1, <1>3, OwnTypes
  <1>5. /\ Source(t, cwd[t]) /\ Source(t, file[t]) /\ Source(t, i) /\ Source(t, d)
        /\ path[t] \in Seq(Entry \ {".."}) /\ Head(path[t]) \in Entry \ {".."}
        /\ Pointer(t, "dp") = d
    BY <1>1, <1>2, <1>3, <1>4, OldSource, PathNoUp, PathIs, HeldIs
  <1>6. dinode[d].type = "dir" /\ Extra(t) = i /\ dinode[i].type # "dir"
    <2>1. LinkPending(t)
      BY <1>2 DEF LinkPending
    <2> QED BY <1>2, <1>4, <2>1 DEF Extra, LinkInv, LinkOK, DirOK
  <1>7. PICK n \in Name : n = Head(path[t]) /\ ents[d][n] = NoIno
    <2>1. ents[d][Head(path[t])] = NoIno
      BY <1>4 DEF Lookup
    <2> QED BY <1>2, <1>5, <1>6, <2>1, FreeName
  <1>8. ents' = [ents EXCEPT ![d][n] = i] /\ PutThen(t, <<d, i>>, "end") /\ dinode' = dinode
    BY <1>4, <1>7 DEF LinkNew, Lookup
  <1>9. /\ EntryTo(d, n, i) /\ (\A a \in Ino : a # d => ents'[a] = ents[a])
        /\ \A a \in Ino : ents'[a]["."] = ents[a]["."] /\ ents'[a][".."] = ents[a][".."]
    BY <1>1, <1>8, EntsAt
  <1>10. CanLock(d) /\ inode' = [inode EXCEPT ![d] = Loaded(d)]
    BY <1>4 DEF LinkNew
  <1>11. ValidFrame
    BY <1>1, <1>10, LoadedMap DEF ValidFrame
  <1>12. SameTypes
    BY <1>8 DEF SameTypes
  <1>13. Touch(t)
    <2>1. ~Dying(t, "dp") /\ "dp" \in Slot
      BY <1>1, <1>2, NotDying DEF Slot
    <2>2. lock[d] = NoThread
      BY <1>10 DEF CanLock
    <2> QED BY <1>5, <1>8, <1>9, <2>1, <2>2 DEF Touch
  <1>14. StepTo(t, call[t], cwd[t], file[t], path[t], i, d, "end", <<d, i>>)
    BY <1>1, <1>4, <1>8, SameExcept DEF LinkNew, PutThen, Goto, StepTo
  <1>15. Sources(t, call[t], cwd[t], file[t], i, d, "end", <<d, i>>)
    BY <1>5, SeqSlots DEF Sources, DpHeld, IpHeld
  <1>16. /\ OwnPath(path[t], i, d, "end") /\ OwnDir(call[t], path[t], i, d, "end")
         /\ ExtraAt(call[t], "end", i) = NoIno
    BY <1>5 DEF OwnPath, OwnDir, LockAt, Pending, ExtraAt
  <1>17. ASSUME NEW j \in Ino PROVE DotOK(j)' /\ TreeOK(j)'
    <2>1. dinode'[j].type = "free" => dinode'[j].nlink = 0
      BY <1>8 DEF LinkInv, DotOK
    <2>2. Others(t)
      BY <1>1, <1>14, StepToIs
    <2> QED BY <1>1, <1>2, <1>6, <1>9, <1>12, <2>1, <2>2, EntryTree
  <1>18. ASSUME NEW j \in Ino PROVE CoverTo(d, NoIno, i, i, NoIno, j)
    <2>1. SubOf(d, i) = NoIno /\ SubOf(d, NoIno) = NoIno
      BY <1>6 DEF SubOf
    <2>2. One(NoIno, j) = 0
      BY OneNone
    <2>3. PICK m \in Int, a \in Int : m = dinode[j].nlink /\ a = One(i, j)
      BY <1>1, OneType DEF TreeTypes
    <2>4. ((m + (a - 0)) + (0 - 0)) + (0 - a) <= m
      OBVIOUS
    <2> QED BY <1>8, <2>1, <2>2, <2>3, <2>4 DEF CoverTo
  <1>19. \A j \in Ino : CoverTo(d, ents[d][n], i, Extra(t), ExtraAt(call[t], "end", i), j)
    BY <1>6, <1>7, <1>16, <1>18
  <1> QED BY <1>1, <1>2, <1>9, <1>11, <1>12, <1>13, <1>14, <1>15, <1>16, <1>17, <1>19, EntryLinks

LEMMA LinkNewLinked ==
    ASSUME LinkInv, NEW t \in Thread, LinkNew(t)
    PROVE  LinkInv'
  BY NameTakenLinked, NameAddedLinked

\* sys_unlink() erases the entry.
LEMMA ErasedLinked ==
    ASSUME LinkInv, TreeInv', NEW t \in Thread, UnlinkErase(t), NEW i \in Ino, NEW d \in Ino,
           i = ip[t], d = dp[t], NEW up, NEW isdir,
           isdir = (Loaded(i).type = "dir"),
           up = IF isdir THEN inode[d].nlink - 1 ELSE inode[d].nlink,
           ents' = [ents EXCEPT ![d][Head(path[t])] = NoIno],
           inode' = WithLinks([inode EXCEPT ![i] = Loaded(i)], d, up), dinode' = WithLinks(dinode, d, up),
           PutThen(t, <<d>>, "unlinked")
    PROVE  LinkInv'
  <1>1. TreeInv /\ TreeTypes /\ TreeTypes'
    BY DEF LinkInv, TreeInv
  <1>2. pc[t] = "child" /\ todo[t] = <<>> /\ CanLock(i)
    BY DEF UnlinkErase, At
  <1>3. IpHeld(call[t], pc[t]) /\ DpHeld(pc[t]) /\ PcLock(t) = d /\ d # NoIno /\ i # NoIno
    BY <1>2 DEF IpHeld, DpHeld, PcLock, Ino, NoIno
  <1>4. /\ Source(t, cwd[t]) /\ Source(t, file[t]) /\ Source(t, i) /\ Source(t, d) /\ Source(t, NoIno)
        /\ path[t] \in Seq(Entry \ {".."}) /\ Pointer(t, "dp") = d /\ Extra(t) = NoIno
    BY <1>2, <1>3, OldSource, PathNoUp, HeldIs, NoExtra
  <1>5. /\ lock[d] = t /\ inode[d].valid /\ inode[d].nlink = dinode[d].nlink /\ dinode[d].nlink \in Int
        /\ dinode[d].type # "free"
    <2>1. inode[d].valid
      BY <1>3 DEF LinkInv, LinkOK, ValidOK
    <2> QED BY <1>1, <1>2, <1>3, <2>1, LockedCache
  <1>6. lock[i] = NoThread /\ i # d
    BY <1>2, <1>5, FileTreeAssumption DEF CanLock
  <1>7. PICK n \in Name : n = Head(path[t]) /\ ents[d][n] = i /\ dinode[d].type = "dir"
    BY <1>2 DEF LinkInv, LinkOK, DirOK
  <1>8. PICK f : f = [inode EXCEPT ![i] = Loaded(i)]
    OBVIOUS
  <1>9. /\ f \in [Ino -> INode] /\ (\A j \in Ino : j # i => f[j] = inode[j]) /\ f[i].valid = TRUE
        /\ isdir = (dinode[i].type = "dir")
    BY <1>1, <1>2, <1>8, LoadedMap
  <1>10. up \in Int /\ up = IF isdir THEN dinode[d].nlink - 1 ELSE dinode[d].nlink
    BY <1>5
  <1>11. /\ (\A j \in Ino : j # d => inode'[j] = f[j]) /\ inode'[d].valid = f[d].valid
    <2>1. inode' = WithLinks(f, d, up)
      BY <1>8
    <2> QED BY <1>9, <1>10, <2>1, LinksInCache
  <1>12. CountTo(d, up)
    <2>1. dinode \in [Ino -> DNode]
      BY <1>1 DEF TreeTypes, DNode
    <2> QED BY <1>10, <2>1, LinksOnDisk DEF CountTo
  <1>13. inode'[i].valid
    BY <1>6, <1>9, <1>11
  <1>14. ValidFrame
    <2>1. ASSUME NEW j \in Ino, inode[j].valid PROVE inode'[j].valid
      <3>1. CASE j = i
        BY <1>13, <3>1
      <3>2. CASE j = d
        BY <1>5, <1>6, <1>9, <1>11, <3>2
      <3>3. CASE j # i /\ j # d
        BY <1>9, <1>11, <2>1, <3>3
      <3> QED BY <3>1, <3>2, <3>3
    <2> QED BY <2>1 DEF ValidFrame
  <1>15. SameTypes
    BY <1>12 DEF SameTypes, CountTo
  <1>16. /\ EntryTo(d, n, NoIno) /\ (\A a \in Ino : a # d => ents'[a] = ents[a])
         /\ \A a \in Ino : ents'[a]["."] = ents[a]["."] /\ ents'[a][".."] = ents[a][".."]
    BY <1>1, <1>7, EntsAt
  <1>17. Touch(t)
    <2>1. ~Dying(t, "dp") /\ "dp" \in Slot
      BY <1>1, <1>2, NotDying DEF Slot
    <2>2. \A a \in Ino : a # d => dinode'[a] = dinode[a] /\ ents'[a] = ents[a]
      BY <1>12, <1>16 DEF CountTo
    <2>3. \E s \in Slot : Pointer(t, s) = d /\ ~Dying(t, s)
      BY <1>4, <2>1
    <2> QED BY <1>5, <2>2, <2>3 DEF Touch
  <1>18. StepTo(t, call[t], cwd[t], file[t], path[t], i, d, "unlinked", <<d>>)
    BY <1>1, SameExcept DEF UnlinkErase, PutThen, Goto, StepTo
  <1>19. Sources(t, call[t], cwd[t], file[t], i, d, "unlinked", <<d>>)
    BY <1>4, SeqSlots DEF Sources, DpHeld
  <1>20. /\ OwnPath(path[t], i, d, "unlinked") /\ OwnDir(call[t], path[t], i, d, "unlinked")
         /\ ExtraAt(call[t], "unlinked", i) = i
    BY <1>4, <1>13 DEF OwnPath, OwnDir, LockAt, Pending, ExtraAt
  <1>21. ASSUME NEW j \in Ino PROVE DotOK(j)' /\ TreeOK(j)'
    <2>1. dinode[j].type = "free" => dinode[j].nlink = 0
      BY DEF LinkInv, DotOK
    <2>2. dinode'[j].type = "free" => dinode'[j].nlink = 0
      <3>1. CASE j = d
        BY <1>5, <1>12, <3>1 DEF CountTo
      <3>2. CASE j # d
        <4>1. dinode'[j] = dinode[j]
          BY <1>12, <3>2 DEF CountTo
        <4> QED BY <2>1, <4>1
      <3> QED BY <3>1, <3>2
    <2>3. Others(t)
      BY <1>1, <1>18, StepToIs
    <2> QED BY <1>1, <1>2, <1>7, <1>15, <1>16, <2>2, <2>3, EntryTree
  <1>22. ASSUME NEW j \in Ino PROVE CoverTo(d, i, NoIno, NoIno, i, j)
    <2>1. SubOf(d, NoIno) = NoIno /\ SubOf(d, i) = IF isdir THEN d ELSE NoIno
      BY <1>3, <1>9 DEF SubOf
    <2>2. One(NoIno, j) = 0
      BY OneNone
    <2>3. PICK m \in Int, a \in Int : m = dinode[j].nlink /\ a = One(i, j)
      BY <1>1, OneType DEF TreeTypes
    <2>4. PICK b \in Int : b = One(SubOf(d, i), j)
      BY OneType
    <2>5. dinode'[j].nlink = m - b
      <3>1. CASE j # d
        <4>1. b = 0
          BY <2>1, <2>2, <2>4, <3>1 DEF One
        <4>2. dinode'[j] = dinode[j]
          BY <1>12, <3>1 DEF CountTo
        <4> QED BY <2>3, <4>1, <4>2
      <3>2. CASE j = d /\ isdir
        <4>1. b = 1
          BY <2>1, <2>4, <3>2 DEF One
        <4>2. dinode'[j].nlink = up /\ up = dinode[d].nlink - 1
          BY <1>10, <1>12, <3>2 DEF CountTo
        <4> QED BY <2>3, <3>2, <4>1, <4>2
      <3>3. CASE j = d /\ ~isdir
        <4>1. b = 0
          BY <2>1, <2>2, <2>4, <3>3 DEF One
        <4> QED BY <1>10, <1>12, <2>3, <3>3, <4>1 DEF CountTo
      <3> QED BY <3>1, <3>2, <3>3
    <2>6. ((m + (0 - a)) + (0 - b)) + (a - 0) <= m - b
      OBVIOUS
    <2> QED BY <2>1, <2>2, <2>3, <2>4, <2>5, <2>6 DEF CoverTo
  <1>23. \A j \in Ino : CoverTo(d, ents[d][n], NoIno, Extra(t), ExtraAt(call[t], "unlinked", i), j)
    BY <1>4, <1>7, <1>20, <1>22
  <1> QED BY <1>1, <1>2, <1>14, <1>15, <1>16, <1>17, <1>18, <1>19, <1>20, <1>21, <1>23, EntryLinks

LEMMA UnlinkEraseLinked ==
    ASSUME LinkInv, NEW t \in Thread, UnlinkErase(t)
    PROVE  LinkInv'
  <1>1. TreeInv /\ TreeInv' /\ TreeTypes
    BY UnlinkEraseKeeps DEF LinkInv, TreeInv
  <1>2. pc[t] = "child" /\ todo[t] = <<>>
    BY DEF UnlinkErase, At
  <1>3. IpHeld(call[t], pc[t]) /\ DpHeld(pc[t])
    BY <1>2 DEF IpHeld, DpHeld
  <1>4. PICK i \in Ino, d \in Ino : i = ip[t] /\ d = dp[t]
    BY <1>1, <1>3, OwnTypes
  <1>5. PICK isdir, up : /\ isdir = (Loaded(i).type = "dir")
                         /\ up = IF isdir THEN inode[d].nlink - 1 ELSE inode[d].nlink
    OBVIOUS
  <1>6. CASE panicked' = TRUE /\ UNCHANGED <<diskvars, inode, lock, pc, todo>>
    <2>1. UNCHANGED <<dinode, ents, inode, ref, lock>>
      BY <1>6 DEF diskvars, UnlinkErase
    <2>2. UNCHANGED <<cwd, file, call, path, ip, dp, pc, todo, put>>
      BY <1>6 DEF UnlinkErase
    <2> QED BY <1>6, <2>1, <2>2, StopLinked
  <1>7. CASE /\ inode' = [inode EXCEPT ![i] = Loaded(i)] /\ PutThen(t, <<i>>, "notempty")
             /\ UNCHANGED <<diskvars, lock, panicked>>
    <2>1. DiskSame
      <3>1. LoadOnly(i)
        BY <1>4, <1>7 DEF LoadOnly, UnlinkErase, diskvars
      <3> QED BY <1>1, <3>1, LoadSame
    <2>2. /\ Source(t, cwd[t]) /\ Source(t, file[t]) /\ Source(t, i) /\ Source(t, d) /\ Source(t, NoIno)
          /\ path[t] \in Seq(Entry \ {".."}) /\ Extra(t) = NoIno
      BY <1>2, <1>3, <1>4, OldSource, PathNoUp, NoExtra
    <2>3. StepTo(t, call[t], cwd[t], file[t], path[t], i, d, "notempty", <<i>>)
      BY <1>1, <1>4, <1>7, SameExcept DEF UnlinkErase, PutThen, Goto, StepTo
    <2>4. Sources(t, call[t], cwd[t], file[t], i, d, "notempty", <<i>>)
      BY <2>2, SeqSlots DEF Sources
    <2>5. inode'[d].valid
      <3>1. PcLock(t) = d /\ d # NoIno
        BY <1>2, <1>4 DEF PcLock, Ino, NoIno
      <3>2. inode[d].valid
        BY <3>1 DEF LinkInv, LinkOK, ValidOK
      <3> QED BY <2>1, <3>2 DEF DiskSame, ValidFrame
    <2>6. /\ OwnPath(path[t], i, d, "notempty") /\ OwnDir(call[t], path[t], i, d, "notempty")
          /\ ExtraAt(call[t], "notempty", i) = NoIno
      BY <2>2, <2>5 DEF OwnPath, OwnDir, LockAt, Pending, ExtraAt
    <2> QED BY <1>1, <1>2, <2>1, <2>2, <2>3, <2>4, <2>6, QuietLinks DEF DiskSame
  <1>8. CASE /\ ents' = [ents EXCEPT ![d][Head(path[t])] = NoIno]
             /\ inode' = WithLinks([inode EXCEPT ![i] = Loaded(i)], d, up)
             /\ dinode' = WithLinks(dinode, d, up) /\ PutThen(t, <<d>>, "unlinked")
    BY <1>1, <1>4, <1>5, <1>8, ErasedLinked
  <1> QED BY <1>4, <1>5, <1>6, <1>7, <1>8 DEF UnlinkErase

-----------------------------------------------------------------------------
(* create(), the steps that make the inode.                                *)

\* The entries that create() writes, in the directory d and in the new inode i.
NewEnts(d, n, i, v, w) == ents' = [ents EXCEPT ![d][n] = i, ![i]["."] = v, ![i][".."] = w]

LEMMA NewEntries ==
    ASSUME TreeTypes, NEW d \in Ino, NEW i \in Ino, i # d, NEW n \in Name, NEW v, NEW w,
           NewEnts(d, n, i, v, w)
    PROVE  /\ EntryTo(d, n, i) /\ (\A a \in Ino : a # d /\ a # i => ents'[a] = ents[a])
           /\ ents'[d]["."] = ents[d]["."] /\ ents'[d][".."] = ents[d][".."]
           /\ ents'[i]["."] = v /\ ents'[i][".."] = w
  <1>1. ents \in [Ino -> [Entry -> Ino \cup {NoIno}]]
    BY DEF TreeTypes
  <1>2. n # "." /\ n # ".." /\ n \in Entry /\ "." \in Entry /\ ".." \in Entry
    BY FileTreeAssumption DEF Entry
  <1>3. PICK e : e = [ents EXCEPT ![d] = [ents[d] EXCEPT ![n] = i]]
    OBVIOUS
  <1>4. PICK g : g = [e EXCEPT ![i] = [e[i] EXCEPT !["."] = v]]
    OBVIOUS
  <1>5. ents' = [g EXCEPT ![i] = [g[i] EXCEPT ![".."] = w]]
    BY <1>3, <1>4 DEF NewEnts
  <1>6. DOMAIN e = Ino /\ DOMAIN g = Ino
    BY <1>1, <1>3, <1>4
  <1>7. \A a \in Ino : a # d => e[a] = ents[a]
    BY <1>1, <1>3
  <1>8. e[d] = [ents[d] EXCEPT ![n] = i]
    BY <1>1, <1>3
  <1>9. \A a \in Ino : a # i => g[a] = e[a]
    BY <1>4, <1>6
  <1>10. g[i] = [ents[i] EXCEPT !["."] = v]
    BY <1>4, <1>6, <1>7
  <1>11. \A a \in Ino : a # i => ents'[a] = g[a]
    BY <1>5, <1>6
  <1>12. ents'[i] = [g[i] EXCEPT ![".."] = w]
    BY <1>5, <1>6
  <1>13. ents[d] \in [Entry -> Ino \cup {NoIno}] /\ ents[i] \in [Entry -> Ino \cup {NoIno}]
    BY <1>1
  <1>14. ents'[d] = [ents[d] EXCEPT ![n] = i]
    BY <1>8, <1>9, <1>11
  <1>15. ents'[d][n] = i /\ \A m \in Entry : m # n => ents'[d][m] = ents[d][m]
    BY <1>2, <1>13, <1>14
  <1>16. /\ ents'[i]["."] = v /\ ents'[i][".."] = w
         /\ \A m \in Entry : m # "." /\ m # ".." => ents'[i][m] = ents[i][m]
    BY <1>2, <1>10, <1>12, <1>13
  <1>17. \A a \in Ino : a # d /\ a # i => ents'[a] = ents[a]
    BY <1>7, <1>9, <1>11
  <1>18. \A m \in Name : m \in Entry /\ m # "." /\ m # ".."
    BY FileTreeAssumption DEF Entry
  <1>19. EntryTo(d, n, i)
    BY <1>15, <1>16, <1>17, <1>18 DEF EntryTo
  <1> QED BY <1>2, <1>15, <1>16, <1>17, <1>19

\* What create() does to the counts of d and i.
LEMMA NewCounts ==
    ASSUME TreeInv, NEW d \in Ino, NEW i \in Ino, i # d, CanLock(i), NEW up \in Int,
           inode' = WithLinks(WithLinks([inode EXCEPT ![i] = Loaded(i)], i, 1), d, up),
           dinode' = WithLinks(WithLinks(dinode, i, 1), d, up)
    PROVE  /\ SameTypes /\ dinode'[i].nlink = 1 /\ dinode'[d].nlink = up
           /\ \A j \in Ino : j # i /\ j # d => dinode'[j] = dinode[j]
           /\ inode'[i].valid /\ ValidFrame
  <1>1. TreeTypes
    BY DEF TreeInv
  <1>2. PICK one \in Int : one = 1
    OBVIOUS
  <1>3. PICK f, g, h : /\ f = [inode EXCEPT ![i] = Loaded(i)] /\ g = WithLinks(f, i, one)
                       /\ h = WithLinks(dinode, i, one)
    OBVIOUS
  <1>4. inode' = WithLinks(g, d, up) /\ dinode' = WithLinks(h, d, up)
    BY <1>2, <1>3
  <1>5. /\ f \in [Ino -> INode] /\ (\A j \in Ino : j # i => f[j] = inode[j]) /\ f[i].valid = TRUE
    BY <1>3, LoadedMap
  <1>6. /\ g \in [Ino -> INode] /\ (\A j \in Ino : j # i => g[j] = f[j]) /\ g[i].valid = f[i].valid
    <2>1. g = WithLinks(f, i, one) /\ f \in [Ino -> INode]
      BY <1>3, <1>5
    <2>2. /\ WithLinks(f, i, one) \in [Ino -> INode]
          /\ \A j \in Ino : j # i => WithLinks(f, i, one)[j] = f[j]
          /\ WithLinks(f, i, one)[i].valid = f[i].valid
      BY <2>1, LinksInCache
    <2> QED BY <2>1, <2>2
  <1>7. /\ (\A j \in Ino : j # d => inode'[j] = g[j]) /\ inode'[d].valid = g[d].valid
    <2>1. inode' = WithLinks(g, d, up) /\ g \in [Ino -> INode]
      BY <1>4, <1>6
    <2>2. /\ \A j \in Ino : j # d => WithLinks(g, d, up)[j] = g[j]
          /\ WithLinks(g, d, up)[d].valid = g[d].valid
      BY <2>1, LinksInCache
    <2> QED BY <2>1, <2>2
  <1>8. /\ h \in [Ino -> DNode] /\ (\A j \in Ino : j # i => h[j] = dinode[j])
        /\ h[i].type = dinode[i].type /\ h[i].nlink = one
    <2>1. dinode \in [Ino -> DNode]
      BY <1>1 DEF TreeTypes, DNode
    <2> QED BY <1>3, <2>1, LinksOnDisk
  <1>9. /\ (\A j \in Ino : j # d => dinode'[j] = h[j])
        /\ dinode'[d].type = h[d].type /\ dinode'[d].nlink = up
    BY <1>4, <1>8, LinksOnDisk
  <1>10. inode'[i].valid
    BY <1>5, <1>6, <1>7
  <1>11. ASSUME NEW j \in Ino, inode[j].valid PROVE inode'[j].valid
    <2>1. CASE j = i
      BY <1>10, <2>1
    <2>2. CASE j = d
      BY <1>5, <1>6, <1>7, <1>11, <2>2
    <2>3. CASE j # i /\ j # d
      BY <1>5, <1>6, <1>7, <1>11, <2>3
    <2> QED BY <2>1, <2>2, <2>3
  <1>12. SameTypes
    BY <1>8, <1>9 DEF SameTypes
  <1> QED BY <1>2, <1>8, <1>9, <1>10, <1>11, <1>12 DEF ValidFrame

\* The tree with the new inode i in d.
LEMMA NewTree ==
    ASSUME LinkInv, TreeTypes', NEW t \in Thread, Others(t), pc[t] = "new", SameTypes,
           NEW d \in Ino, NEW i \in Ino, i # d, ip[t] = i, NEW n \in Name, dinode[d].type = "dir",
           EntryTo(d, n, i), \A a \in Ino : a # d /\ a # i => ents'[a] = ents[a],
           ents'[d]["."] = ents[d]["."], ents'[d][".."] = ents[d][".."],
           ents'[i]["."] = IF TypeOf(t) = "dir" THEN i ELSE NoIno,
           ents'[i][".."] = IF TypeOf(t) = "dir" THEN d ELSE NoIno,
           NEW j \in Ino, dinode'[j].type = "free" => dinode'[j].nlink = 0
    PROVE  DotOK(j)' /\ TreeOK(j)'
  <1>1. TreeTypes /\ DotOK(j) /\ TreeOK(j)
    BY DEF LinkInv, TreeInv
  <1>2. dinode'[j].type = dinode[j].type
    BY DEF SameTypes
  <1>3. \A u \in Thread : pc[u] = "new" /\ ip[u] # i => pc'[u] = "new" /\ ip'[u] = ip[u]
    BY DEF Others
  <1>4. /\ dinode[i].nlink = 0 /\ dinode[i].type = TypeOf(t) /\ \A m \in Entry : ents[i][m] = NoIno
    BY DEF LinkInv, LinkOK, NewOK
  <1>5. ASSUME j = i, TypeOf(t) # "dir", NEW m \in Entry PROVE ents'[j][m] = NoIno
    BY <1>4, <1>5 DEF Entry, EntryTo
  <1>6. dinode'[j].type # "dir" => \A m \in Entry : ents'[j][m] = NoIno
    <2>1. CASE j = i
      BY <1>2, <1>4, <1>5, <2>1
    <2>2. CASE j = d
      BY <1>2, <2>2
    <2>3. CASE j # i /\ j # d
      BY <1>1, <1>2, <2>3 DEF DotOK
    <2> QED BY <2>1, <2>2, <2>3
  <1>7. ents'[j]["."] \in {j, NoIno}
    BY <1>1 DEF DotOK
  <1>8. dinode'[j].type = "dir" => ents'[j]["."] = j \/ \E u \in Thread : pc'[u] = "new" /\ ip'[u] = j
    <2>1. CASE j = i
      BY <1>2, <1>4, <2>1
    <2>2. CASE j # i
      BY <1>1, <1>2, <1>3, <2>2 DEF DotOK
    <2> QED BY <2>1, <2>2
  <1>9. DotOK(j)'
    BY <1>6, <1>7, <1>8 DEF DotOK
  <1>10. PICK g : g = <<d, n>>
    OBVIOUS
  <1>11. g \in Places /\ Elsewhere(NameMap, NameMap', Places, g) /\ NameMap'[g] = i /\ g[1] = d
    BY <1>1, <1>10, EntryMaps
  <1>12. \A e \in Places : NameMap[e] # i
    <2>1. (\E e \in Places : NameMap[e] = i) => dinode[i].nlink >= 1
      BY Linked
    <2> QED BY <1>4, <2>1
  <1>13. ASSUME dinode'[j].type = "dir", NEW e \in Places, NameMap'[e] = j
         PROVE  ents'[j][".."] = e[1] /\ \A h \in Places : NameMap'[h] = j => e = h
    <2>1. CASE j = i
      <3>1. \A h \in Places : NameMap'[h] = i => h = g
        BY <1>11, <1>12 DEF Elsewhere
      <3>2. e = g
        BY <1>13, <2>1, <3>1
      <3>3. TypeOf(t) = "dir"
        BY <1>2, <1>4, <1>13, <2>1
      <3> QED BY <1>11, <2>1, <3>1, <3>2, <3>3
    <2>2. CASE j # i
      <3>1. \A h \in Places : NameMap'[h] = j => NameMap[h] = j
        BY <1>11, <2>2 DEF Elsewhere
      <3>2. NameMap[e] = j /\ dinode[j].type = "dir"
        BY <1>2, <1>13, <3>1
      <3>3. ents[j][".."] = e[1] /\ \A h \in Places : NameMap[h] = j => e = h
        BY <1>1, <1>13, <3>2 DEF TreeOK
      <3>4. ents'[j][".."] = ents[j][".."]
        BY <2>2
      <3> QED BY <3>1, <3>3, <3>4
    <2> QED BY <2>1, <2>2
  <1>14. TreeOK(j)'
    BY <1>13 DEF TreeOK, Places
  <1> QED BY <1>9, <1>14

LEMMA CreateLinkLinked ==
    ASSUME LinkInv, NEW t \in Thread, CreateLink(t)
    PROVE  LinkInv'
  <1>1. TreeInv /\ TreeInv' /\ TreeTypes /\ TreeTypes'
    BY CreateLinkKeeps DEF LinkInv, TreeInv
  <1>2. pc[t] = "new" /\ todo[t] = <<>>
    BY DEF CreateLink, At
  <1>3. IpHeld(call[t], pc[t]) /\ DpHeld(pc[t])
    BY <1>2 DEF IpHeld, DpHeld
  <1>4. PICK i \in Ino, d \in Ino : i = ip[t] /\ d = dp[t]
    BY <1>1, <1>3, OwnTypes
  <1>5. PcLock(t) = d /\ d # NoIno /\ i # NoIno /\ CanLock(i)
    BY <1>2, <1>4 DEF PcLock, Ino, NoIno, CreateLink
  <1>6. /\ Source(t, cwd[t]) /\ Source(t, file[t]) /\ Source(t, i) /\ Source(t, d) /\ Source(t, NoIno)
        /\ path[t] \in Seq(Entry \ {".."}) /\ Pointer(t, "dp") = d /\ Pointer(t, "ip") = i
        /\ Extra(t) = NoIno
    BY <1>2, <1>3, <1>4, OldSource, PathNoUp, HeldIs, NoExtra
  <1>7. /\ lock[d] = t /\ inode[d].nlink = dinode[d].nlink /\ dinode[d].nlink \in Int
        /\ dinode[d].type # "free"
    <2>1. inode[d].valid
      BY <1>5 DEF LinkInv, LinkOK, ValidOK
    <2> QED BY <1>1, <1>2, <1>5, <2>1, LockedCache
  <1>8. lock[i] = NoThread /\ i # d
    BY <1>5, <1>7, FileTreeAssumption DEF CanLock
  <1>9. PICK n \in Name : n = Head(path[t]) /\ ents[d][n] = NoIno /\ dinode[d].type = "dir"
    BY <1>2, <1>4 DEF LinkInv, LinkOK, DirOK
  <1>10. dinode[i].nlink = 0 /\ dinode[i].type = TypeOf(t)
    BY <1>2, <1>4 DEF LinkInv, LinkOK, NewOK
  <1>11. PICK up \in Int : up = IF TypeOf(t) = "dir" THEN dinode[d].nlink + 1 ELSE dinode[d].nlink
    BY <1>7
  <1>12. /\ inode' = WithLinks(WithLinks([inode EXCEPT ![i] = Loaded(i)], i, 1), d, up)
         /\ dinode' = WithLinks(WithLinks(dinode, i, 1), d, up)
    BY <1>4, <1>7, <1>11 DEF CreateLink
  <1>13. /\ SameTypes /\ dinode'[i].nlink = 1 /\ dinode'[d].nlink = up
         /\ \A j \in Ino : j # i /\ j # d => dinode'[j] = dinode[j]
         /\ inode'[i].valid /\ ValidFrame
    BY <1>1, <1>5, <1>8, <1>12, NewCounts
  <1>14. PICK v, w : v = (IF TypeOf(t) = "dir" THEN i ELSE NoIno) /\ w = (IF TypeOf(t) = "dir" THEN d ELSE NoIno)
    OBVIOUS
  <1>15. NewEnts(d, n, i, v, w)
    BY <1>4, <1>9, <1>14 DEF CreateLink, NewEnts
  <1>16. /\ EntryTo(d, n, i) /\ (\A a \in Ino : a # d /\ a # i => ents'[a] = ents[a])
         /\ ents'[d]["."] = ents[d]["."] /\ ents'[d][".."] = ents[d][".."]
         /\ ents'[i]["."] = v /\ ents'[i][".."] = w
    BY <1>1, <1>8, <1>15, NewEntries
  <1>17. Touch(t)
    <2>1. ~Dying(t, "dp") /\ "dp" \in Slot /\ ~Dying(t, "ip") /\ "ip" \in Slot
      BY <1>1, <1>2, NotDying DEF Slot
    <2> QED BY <1>6, <1>7, <1>8, <1>13, <1>16, <2>1 DEF Touch
  <1>18. StepTo(t, call[t], cwd[t], file[t], path[t], i, d, "made", <<d>>)
    BY <1>1, <1>4, SameExcept DEF CreateLink, PutThen, Goto, StepTo
  <1>19. Sources(t, call[t], cwd[t], file[t], i, d, "made", <<d>>)
    BY <1>6, SeqSlots DEF Sources, DpHeld
  <1>20. /\ OwnPath(path[t], i, d, "made") /\ OwnDir(call[t], path[t], i, d, "made")
         /\ ExtraAt(call[t], "made", i) = NoIno
    BY <1>6, <1>13 DEF OwnPath, OwnDir, LockAt, Pending, ExtraAt
  <1>21. ASSUME NEW j \in Ino PROVE DotOK(j)' /\ TreeOK(j)'
    <2>1. dinode'[j].type = "free" => dinode'[j].nlink = 0
      <3>1. dinode[j].type = "free" => dinode[j].nlink = 0
        BY DEF LinkInv, DotOK
      <3>2. dinode'[j].type = "free" => j # i /\ j # d
        BY <1>7, <1>10, <1>13, TypeOfIs DEF SameTypes
      <3> QED BY <1>13, <3>1, <3>2
    <2>2. Others(t)
      BY <1>1, <1>18, StepToIs
    <2> QED BY <1>1, <1>2, <1>4, <1>8, <1>9, <1>13, <1>14, <1>16, <2>1, <2>2, NewTree
  <1>22. ASSUME NEW j \in Ino PROVE CoverTo(d, NoIno, i, NoIno, NoIno, j)
    <2>1. SubOf(d, NoIno) = NoIno /\ SubOf(d, i) = IF TypeOf(t) = "dir" THEN d ELSE NoIno
      BY <1>5, <1>10 DEF SubOf
    <2>2. One(NoIno, j) = 0
      BY OneNone
    <2>3. PICK m \in Int, a \in Int, b \in Int : m = dinode[j].nlink /\ a = One(i, j) /\ b = One(SubOf(d, i), j)
      BY <1>1, OneType DEF TreeTypes
    <2>4. dinode'[j].nlink = (m + a) + b
      <3>1. CASE j = i
        <4>1. a = 1 /\ b = 0 /\ m = 0
          BY <1>8, <1>10, <2>1, <2>2, <2>3, <3>1 DEF One
        <4> QED BY <1>13, <3>1, <4>1
      <3>2. CASE j = d
        <4>1. a = 0 /\ m = dinode[d].nlink /\ (b = IF TypeOf(t) = "dir" THEN 1 ELSE 0)
          BY <1>8, <2>1, <2>2, <2>3, <3>2 DEF One
        <4> QED BY <1>11, <1>13, <3>2, <4>1
      <3>3. CASE j # i /\ j # d
        <4>1. a = 0 /\ b = 0
          BY <2>1, <2>2, <2>3, <3>3 DEF One
        <4>2. dinode'[j].nlink = m
          BY <1>13, <2>3, <3>3
        <4> QED BY <4>1, <4>2
      <3> QED BY <3>1, <3>2, <3>3
    <2>5. ((m + (a - 0)) + (b - 0)) + (0 - 0) <= (m + a) + b
      OBVIOUS
    <2> QED BY <2>1, <2>2, <2>3, <2>4, <2>5 DEF CoverTo
  <1>23. \A j \in Ino : CoverTo(d, ents[d][n], i, Extra(t), ExtraAt(call[t], "made", i), j)
    BY <1>6, <1>9, <1>20, <1>22
  <1> QED BY <1>1, <1>2, <1>13, <1>16, <1>17, <1>18, <1>19, <1>20, <1>21, <1>23, EntryLinks

LEMMA CreateAllocLinked ==
    ASSUME LinkInv, NEW t \in Thread, CreateAlloc(t)
    PROVE  LinkInv'
  <1>1. TreeInv /\ TreeInv' /\ TreeTypes /\ TreeTypes'
    BY CreateAllocKeeps DEF LinkInv, TreeInv
  <1>2. pc[t] = "parent" /\ todo[t] = <<>> /\ call[t].name # "link"
    BY DEF CreateAlloc, At, Creates
  <1>3. DpHeld(pc[t])
    BY <1>2 DEF DpHeld
  <1>4. PICK d \in Ino : d = dp[t] /\ d # NoIno
    BY <1>1, <1>3, OwnTypes DEF Ino, NoIno
  <1>5. PICK n \in FreeInodes :
           /\ dinode' = [dinode EXCEPT ![n] = [type |-> TypeOf(t), nlink |-> 0]]
           /\ ip' = [ip EXCEPT ![t] = n]
    BY DEF CreateAlloc
  <1>6. n \in Ino /\ n # NoIno /\ dinode[n].type = "free"
    BY DEF Ino, NoIno, FreeInodes
  <1>7. CanLock(d) /\ inode' = [inode EXCEPT ![d] = Loaded(d)] /\ ents' = ents /\ d # n
    <2>1. CanLock(d) /\ inode' = [inode EXCEPT ![d] = Loaded(d)] /\ ents' = ents
      BY <1>4 DEF CreateAlloc
    <2> QED BY <1>1, <1>6, <2>1, LoadedMap
  <1>8. ValidFrame /\ inode'[d].valid
    <2>1. /\ inode'[d].valid = TRUE /\ \A j \in Ino : j # d => inode'[j] = inode[j]
      BY <1>1, <1>7, LoadedMap
    <2> QED BY <2>1 DEF ValidFrame
  <1>9. /\ dinode'[n].type = TypeOf(t) /\ dinode'[n].nlink = 0 /\ dinode'[n].type # "free"
        /\ \A j \in Ino : j # n => dinode'[j] = dinode[j]
    <2>1. dinode'[n] = [type |-> TypeOf(t), nlink |-> 0] /\ \A j \in Ino : j # n => dinode'[j] = dinode[j]
      BY <1>1, <1>5, <1>6 DEF TreeTypes
    <2> QED BY <2>1, TypeOfIs
  <1>10. TypeFrame /\ Touch(t)
    BY <1>6, <1>7, <1>9 DEF TypeFrame, Touch
  <1>11. /\ Source(t, cwd[t]) /\ Source(t, file[t]) /\ Source(t, d) /\ Source(t, NoIno)
         /\ path[t] \in Seq(Entry \ {".."}) /\ Head(path[t]) \in Entry \ {".."}
         /\ Pointer(t, "dp") = d /\ Extra(t) = NoIno
    BY <1>1, <1>2, <1>3, <1>4, OldSource, PathNoUp, PathIs, HeldIs, NoExtra
  <1>12. Source(t, n)
    BY <1>6, <1>9 DEF Source
  <1>13. dinode[d].type = "dir"
    BY <1>2, <1>4 DEF LinkInv, LinkOK, DirOK
  <1>14. Head(path[t]) \in Name /\ ents[d][Head(path[t])] = NoIno
    <2>1. ents[d][Head(path[t])] = NoIno
      BY <1>4 DEF CreateAlloc, Lookup
    <2> QED BY <1>2, <1>11, <1>13, <2>1, FreeName
  <1>15. StepTo(t, call[t], cwd[t], file[t], path[t], n, d, "new", <<>>)
    BY <1>1, <1>2, <1>4, <1>5, SameExcept DEF CreateAlloc, Goto, Stays, StepTo
  <1>16. Sources(t, call[t], cwd[t], file[t], n, d, "new", <<>>)
    BY <1>11, <1>12, SeqSlots DEF Sources
  <1>17. /\ OwnPath(path[t], n, d, "new") /\ OwnDir(call[t], path[t], n, d, "new")
         /\ ExtraAt(call[t], "new", n) = NoIno
    BY <1>7, <1>8, <1>9, <1>11, <1>13, <1>14 DEF OwnPath, OwnDir, LockAt, Pending, ExtraAt
  <1>18. Others(t) /\ ip'[t] = n /\ pc'[t] = "new" /\ call'[t] = call[t]
    BY <1>1, <1>15, StepToIs
  <1>19. \A e \in Places : NameMap[e] # n
    <2>1. (\E e \in Places : NameMap[e] = n) => dinode[n].type # "free"
      BY <1>6, Linked
    <2> QED BY <1>6, <2>1
  <1>20. DotOK(n) /\ (\A m \in Entry : ents[n][m] = NoIno) /\ dinode[n].nlink = 0
    <2>1. DotOK(n)
      BY <1>6 DEF LinkInv
    <2> QED BY <1>6, <2>1 DEF DotOK
  <1>21. NewOK(t)'
    <2>1. TypeOf(t)' = TypeOf(t)
      BY <1>18 DEF TypeOf
    <2>2. ASSUME NEW u \in Thread, NEW s \in Slot, u # t, Pointer(u, s)' = n PROVE Dying(u, s)'
      <3>1. Pointer(u, s) = n /\ (Dying(u, s)' <=> Dying(u, s)) /\ LiveOK(u)
        BY <1>18, <2>2, OthersSame, OthersSame2 DEF LinkInv, LinkOK
      <3> QED BY <1>6, <3>1 DEF LiveOK
    <2>3. ASSUME NEW s \in Slot, Pointer(t, s)' = n PROVE s = "ip"
      <3>1. RefsNext(t, cwd[t], file[t], n, d, NoIno, NoIno)
        <4>1. RefsNext(t, cwd[t], file[t], IF IpHeld(call[t], "new") THEN n ELSE NoIno,
                       IF DpHeld("new") THEN d ELSE NoIno, FirstOf(<<>>), LastOf(<<>>))
          BY <1>1, <1>15, StepHeld
        <4>2. IpHeld(call[t], "new") /\ DpHeld("new")
          BY DEF IpHeld, DpHeld
        <4>3. FirstOf(<<>>) = NoIno /\ LastOf(<<>>) = NoIno
          BY SeqSlots
        <4> QED BY <4>1, <4>2, <4>3
      <3>2. cwd[t] # n /\ file[t] # n
        <4>1. UseOK(t)
          BY <1>1 DEF TreeInv
        <4> QED BY <1>6, <4>1 DEF UseOK
      <3> QED BY <1>6, <1>7, <2>3, <3>1, <3>2 DEF RefsNext, Slot
    <2> QED BY <1>7, <1>9, <1>18, <1>20, <2>1, <2>2, <2>3 DEF NewOK
  <1>22. ASSUME NEW u \in Thread PROVE LinkOK(u)'
    BY <1>1, <1>2, <1>8, <1>10, <1>15, <1>16, <1>17, <1>21, CallLinks
  <1>23. NameMap' = NameMap /\ SubMap' = SubMap
    <2>1. NameMap' = NameMap
      BY <1>7 DEF NameMap
    <2>2. ASSUME NEW e \in Places
          PROVE  (ents[e[1]][e[2]] # NoIno /\ dinode[ents[e[1]][e[2]]].type = "dir")
                 <=> (ents'[e[1]][e[2]] # NoIno /\ dinode'[ents'[e[1]][e[2]]].type = "dir")
      <3>1. ents[e[1]][e[2]] \in Ino \cup {NoIno}
        BY <1>1 DEF Places, TreeTypes, Entry
      <3>2. ents[e[1]][e[2]] # n
        BY <1>19 DEF NameMap
      <3> QED BY <1>7, <1>9, <3>1, <3>2
    <2> QED BY <2>1, <2>2 DEF SubMap
  <1>24. ASSUME NEW j \in Ino PROVE DotOK(j)' /\ TreeOK(j)'
    <2>1. DotOK(j) /\ TreeOK(j)
      BY DEF LinkInv
    <2>2. \A u \in Thread : pc[u] = "new" => pc'[u] = "new" /\ ip'[u] = ip[u]
      BY <1>2, <1>18 DEF Others
    <2>3. CASE j = n
      <3>1. DotOK(j)'
        BY <1>6, <1>7, <1>9, <1>18, <1>20, <2>3 DEF DotOK, Entry
      <3>2. TreeOK(j)'
        BY <1>19, <1>23, <2>3 DEF TreeOK, Places
      <3> QED BY <3>1, <3>2
    <2>4. CASE j # n
      <3>1. dinode'[j] = dinode[j]
        BY <1>9, <2>4
      <3>2. DotOK(j)'
        BY <1>7, <2>1, <2>2, <3>1 DEF DotOK
      <3>3. TreeOK(j)'
        BY <1>7, <1>23, <2>1, <3>1 DEF TreeOK, Places
      <3> QED BY <3>2, <3>3
    <2> QED BY <2>3, <2>4
  <1>25. ASSUME NEW j \in Ino PROVE Covered(j)'
    <2>1. Elsewhere(ExtraMap, ExtraMap', Thread, t) /\ Extra(t)' = Extra(t)
      BY <1>1, <1>11, <1>15, <1>17, StepExtra
    <2>2. ExtraMap'[t] = ExtraMap[t]
      BY <2>1 DEF ExtraMap
    <2>3. Change(ExtraMap, ExtraMap', t, j) = 0
      BY <2>2 DEF Change, One
    <2>4. dinode'[j].nlink = dinode[j].nlink /\ dinode[j].nlink \in Int
      BY <1>1, <1>9, <1>20 DEF TreeTypes
    <2>5. dinode[j].nlink + Change(ExtraMap, ExtraMap', t, j) <= dinode'[j].nlink
      BY <2>3, <2>4
    <2> QED BY <1>23, <2>1, <2>4, <2>5, CoverSame
  <1> QED BY <1>1, <1>22, <1>24, <1>25 DEF LinkInv

-----------------------------------------------------------------------------
(* iput().                                                                 *)

\* What iput() leaves alone.
LEMMA PutSame ==
    ASSUME NEW t \in Thread, PutStep(t)
    PROVE  /\ \A u \in Thread : /\ (LinkPending(u)' <=> LinkPending(u)) /\ TypeOf(u)' = TypeOf(u)
                                /\ PcLock(u)' = PcLock(u)
           /\ ExtraMap' = ExtraMap
           /\ todo' = todo => \A u \in Thread : /\ HeadSlot(u)' = HeadSlot(u)
                                                /\ \A s \in Slot : Pointer(u, s)' = Pointer(u, s)
  <1>1. ASSUME NEW u \in Thread
        PROVE  (LinkPending(u)' <=> LinkPending(u)) /\ TypeOf(u)' = TypeOf(u) /\ PcLock(u)' = PcLock(u)
    <2>1. LinkPending(u)' <=> LinkPending(u)
      BY DEF PutStep, LinkPending
    <2>2. TypeOf(u)' = TypeOf(u)
      BY DEF PutStep, TypeOf
    <2> QED BY <2>1, <2>2, PutFrame
  <1>2. \A u \in Thread : Extra(u)' = Extra(u)
    BY <1>1 DEF PutStep, Extra
  <1>3. ExtraMap' = ExtraMap
    BY <1>2 DEF ExtraMap
  <1>4. ASSUME todo' = todo, NEW u \in Thread, NEW s \in Slot PROVE Pointer(u, s)' = Pointer(u, s)
    <2>1. HoldsIp(u)' = HoldsIp(u) /\ HoldsDp(u)' = HoldsDp(u)
      BY PutFrame
    <2> QED BY <1>4, <2>1, PointerIs, PointerNext DEF Slot, PutStep
  <1>5. ASSUME todo' = todo, NEW u \in Thread PROVE HeadSlot(u)' = HeadSlot(u)
    BY <1>5 DEF HeadSlot
  <1> QED BY <1>1, <1>3, <1>4, <1>5

\* The references of t that iput() leaves, and the inodes that stay valid.
Loses(t) ==
    \A s \in Slot : /\ Pointer(t, s)' \in {NoIno, Pointer(t, s)}
                    /\ Pointer(t, s)' # NoIno /\ Dying(t, s) => Dying(t, s)'
LocksValid ==
    \A u \in Thread : PcLock(u) # NoIno /\ inode[PcLock(u)].valid => inode'[PcLock(u)].valid

\* A step of iput() that changes nothing on the disk.
LEMMA PutLinks ==
    ASSUME LinkInv, TreeInv', NEW t \in Thread, PutStep(t), dinode' = dinode, ents' = ents,
           Loses(t), LocksValid, TruncOK(t)'
    PROVE  LinkInv'
  <1>1. Others(t) /\ TreeInv
    BY PutFrame DEF LinkInv
  <1>2. Touch(t) /\ Kept(t)
    BY DEF Touch, Kept
  <1>3. KeptValid(t)
    BY DEF KeptValid, LocksValid
  <1>4. Gains(t)
    <2>1. ASSUME NEW s \in Slot, NEW j \in Ino, Pointer(t, s)' = j PROVE GainFrom(t, s, j)
      <3>1. j # NoIno
        BY DEF Ino, NoIno
      <3>2. Pointer(t, s) = j /\ (Dying(t, s) => Dying(t, s)')
        BY <2>1, <3>1 DEF Loses
      <3> QED BY <3>2 DEF GainFrom
    <2> QED BY <2>1 DEF Gains
  <1>5. LinkOK(t) /\ (LinkPending(t)' <=> LinkPending(t)) /\ TypeOf(t)' = TypeOf(t) /\ PcLock(t)' = PcLock(t)
    BY PutSame DEF LinkInv
  <1>6. PathOK(t)' /\ DirOK(t)'
    BY <1>5 DEF LinkOK, PathOK, DirOK, PutStep
  <1>7. ValidOK(t)'
    BY <1>5 DEF LinkOK, ValidOK, LocksValid
  <1>8. LiveOK(t)'
    <2>1. ASSUME NEW s \in Slot, Pointer(t, s)' # NoIno, ~Dying(t, s)'
          PROVE  dinode'[Pointer(t, s)'].type # "free"
      <3>1. Pointer(t, s)' = Pointer(t, s) /\ ~Dying(t, s)
        BY <2>1 DEF Loses
      <3> QED BY <1>5, <2>1, <3>1 DEF LinkOK, LiveOK
    <2> QED BY <2>1 DEF LiveOK
  <1>9. NewOK(t)'
    <2>1. SUFFICES ASSUME pc[t] = "new" PROVE NewOK(t)'
      BY DEF NewOK, PutStep
    <2>2. PICK i : i = ip[t] /\ i # NoIno /\ ip'[t] = i
      BY <1>1, <2>1 DEF PutStep, TreeInv, ThreadOK, HoldsIp
    <2>3. /\ dinode[i].nlink = 0 /\ dinode[i].type = TypeOf(t)
          /\ \A n \in Entry : ents[i][n] = NoIno
          /\ \A u \in Thread, s \in Slot : Pointer(u, s) = i => Dying(u, s) \/ (u = t /\ s = "ip")
      BY <1>5, <2>1, <2>2 DEF LinkOK, NewOK
    <2>4. ASSUME NEW u \in Thread, NEW s \in Slot, Pointer(u, s)' = i
          PROVE  Dying(u, s)' \/ (u = t /\ s = "ip")
      <3>1. CASE u = t
        <4>1. Pointer(t, s) = i /\ (Dying(t, s) => Dying(t, s)')
          BY <2>2, <2>4, <3>1 DEF Loses
        <4> QED BY <2>3, <3>1, <4>1
      <3>2. CASE u # t
        <4>1. Pointer(u, s) = i /\ (Dying(u, s)' <=> Dying(u, s))
          BY <1>1, <2>4, <3>2, OthersSame, OthersSame2
        <4> QED BY <2>3, <3>2, <4>1
      <3> QED BY <3>1, <3>2
    <2> QED BY <1>5, <2>2, <2>3, <2>4 DEF NewOK
  <1>10. ASSUME NEW u \in Thread PROVE LinkOK(u)'
    <2>1. CASE u = t
      BY <1>6, <1>7, <1>8, <1>9, <2>1 DEF LinkOK
    <2>2. CASE u # t
      BY <1>1, <1>2, <1>3, <1>4, <2>2, OtherLinks
    <2> QED BY <2>1, <2>2
  <1>11. NameMap' = NameMap /\ SubMap' = SubMap /\ ExtraMap' = ExtraMap
    BY PutSame DEF NameMap, SubMap
  <1>12. ASSUME NEW j \in Ino PROVE DotOK(j)' /\ TreeOK(j)' /\ Covered(j)'
    <2>1. DotOK(j)' /\ TreeOK(j)'
      BY <1>11 DEF LinkInv, DotOK, TreeOK, Places, PutStep
    <2>2. LinkCount(j)' = LinkCount(j)
      BY <1>11 DEF LinkCount, Num, Fiber, One, Root, Places
    <2> QED BY <2>1, <2>2 DEF LinkInv, Covered
  <1> QED BY <1>10, <1>12 DEF LinkInv

\* The slot that holds the inode which iput() drops, and that of a lock.
LEMMA HeadSlotIs ==
    ASSUME TreeInv, NEW t \in Thread, todo[t] # <<>>
    PROVE  /\ HeadSlot(t) \in {"first", "last"} /\ HeadSlot(t) \in Slot
           /\ Pointer(t, HeadSlot(t)) = Head(todo[t])
  <1>1. todo[t] \in Todo
    BY DEF TreeInv, TreeTypes
  <1>2. PICK q : q = todo[t] /\ q \in Todo /\ q # <<>>
    BY <1>1
  <1>3. HeadSlot(t) = IF Len(q) > 1 THEN "first" ELSE "last"
    BY <1>2 DEF HeadSlot
  <1>4. CASE \E a \in Ino : q = <<a>>
    <2>1. PICK a \in Ino : q = <<a>>
      BY <1>4
    <2>2. Len(q) = 1 /\ Head(q) = a /\ LastOf(q) = a
      BY <2>1, SeqSlots
    <2>3. HeadSlot(t) = "last"
      BY <1>3, <2>2
    <2> QED BY <1>2, <2>2, <2>3, PointerIs DEF Slot
  <1>5. CASE \E a, b \in Ino : q = <<a, b>>
    <2>1. PICK a \in Ino, b \in Ino : q = <<a, b>>
      BY <1>5
    <2>2. Len(q) = 2 /\ Head(q) = a /\ FirstOf(q) = a
      BY <2>1, SeqSlots
    <2>3. HeadSlot(t) = "first"
      BY <1>3, <2>2
    <2> QED BY <1>2, <2>2, <2>3, PointerIs DEF Slot
  <1> QED BY <1>2, <1>4, <1>5 DEF Todo

LEMMA LockSlot ==
    ASSUME TreeInv, NEW u \in Thread, PcLock(u) # NoIno
    PROVE  \E s \in {"ip", "dp"} : Pointer(u, s) = PcLock(u)
  <1>1. CASE pc[u] \in {"new", "child", "notempty", "taken"}
    <2>1. HoldsDp(u) /\ PcLock(u) = dp[u]
      BY <1>1 DEF HoldsDp, PcLock
    <2> QED BY <2>1, PointerIs
  <1>2. CASE pc[u] \in {"made", "unlinked"}
    <2>1. HoldsIp(u) /\ PcLock(u) = ip[u]
      BY <1>2 DEF HoldsIp, PcLock
    <2> QED BY <2>1, PointerIs
  <1> QED BY <1>1, <1>2 DEF PcLock

LEMMA PutTestLinked ==
    ASSUME LinkInv, NEW t \in Thread, PutTest(t)
    PROVE  LinkInv'
  <1>1. TreeInv /\ TreeInv' /\ TreeTypes
    BY PutTestKeeps DEF LinkInv, TreeInv
  <1>2. todo[t] # <<>> /\ put[t] = "test"
    BY DEF PutTest
  <1>3. PICK i \in Ino : i = Head(todo[t]) /\ i # NoIno
    BY <1>1, <1>2, HeadIs
  <1>4. /\ lock[i] = NoThread /\ dinode' = dinode /\ ents' = ents /\ inode' = inode /\ todo' = todo
    BY <1>3 DEF PutTest, diskvars
  <1>5. \/ /\ inode[i].valid /\ inode[i].nlink = 0 /\ ref[i] = 1
           /\ put' = [put EXCEPT ![t] = "trunc"]
        \/ put' = [put EXCEPT ![t] = "drop"]
    BY <1>3 DEF PutTest
  <1>6. PutStep(t)
    BY <1>1, <1>4, <1>5 DEF PutStep, PutTest, procvars, TreeTypes
  <1>7. put'[t] = "trunc" => inode[i].valid /\ inode[i].nlink = 0 /\ ref[i] = 1
    BY <1>1, <1>5 DEF TreeTypes
  <1>8. HeadSlot(t)' = HeadSlot(t) /\ \A u \in Thread, s \in Slot : Pointer(u, s)' = Pointer(u, s)
    BY <1>4, <1>6, PutSame
  <1>9. Loses(t)
    BY <1>2, <1>8 DEF Loses, Dying
  <1>10. LocksValid
    BY <1>4 DEF LocksValid
  <1>11. TruncOK(t)'
    <2>1. SUFFICES ASSUME put'[t] = "trunc"
                   PROVE  /\ dinode'[PutLock(t)'].nlink = 0
                          /\ \A u \in Thread, s \in Slot :
                                Pointer(u, s)' = PutLock(t)' => u = t /\ s = HeadSlot(t)'
      BY DEF TruncOK
    <2>2. PutLock(t)' = i
      BY <1>3, <1>4, <2>1 DEF PutLock
    <2>3. \A u \in Thread : ~(put[u] = "clear" /\ PutLock(u) = i)
      <3>1. ASSUME NEW u \in Thread, put[u] = "clear" PROVE lock[PutLock(u)] = u
        BY <1>1, <3>1, PutLockIn
      <3> QED BY <1>4, <3>1, FileTreeAssumption
    <2>4. CacheOK(i) /\ RefExact
      BY <1>1 DEF TreeInv
    <2>5. dinode[i].nlink = 0
      BY <1>7, <2>1, <2>3, <2>4 DEF CacheOK
    <2>6. PICK r \in Slot : r = HeadSlot(t) /\ Pointer(t, r) = i
      BY <1>1, <1>2, <1>3, HeadSlotIs
    <2>7. ASSUME NEW u \in Thread, NEW s \in Slot, Pointer(u, s) = i PROVE u = t /\ s = r
      BY <1>7, <2>1, <2>4, <2>6, <2>7, RefAtLeast
    <2> QED BY <1>4, <1>8, <2>2, <2>5, <2>6, <2>7
  <1> QED BY <1>1, <1>4, <1>6, <1>9, <1>10, <1>11, PutLinks

LEMMA PutClearLinked ==
    ASSUME LinkInv, NEW t \in Thread, PutClear(t)
    PROVE  LinkInv'
  <1>1. TreeInv /\ TreeInv' /\ TreeTypes
    BY PutClearKeeps DEF LinkInv, TreeInv
  <1>2. put[t] = "clear"
    BY DEF PutClear
  <1>3. PICK i \in Ino : i = PutLock(t) /\ i = Head(todo[t]) /\ lock[i] = t /\ i # NoIno
    BY <1>1, <1>2, PutLockIn DEF PutLock
  <1>4. /\ inode' = [inode EXCEPT ![i].valid = FALSE] /\ put' = [put EXCEPT ![t] = "drop"]
        /\ todo' = todo /\ dinode' = dinode /\ ents' = ents
    BY <1>3 DEF PutClear, diskvars
  <1>5. PutStep(t) /\ put'[t] = "drop"
    BY <1>1, <1>4 DEF PutStep, PutClear, procvars, TreeTypes
  <1>6. \A j \in Ino : j # i => inode'[j] = inode[j]
    BY <1>1, <1>4 DEF TreeTypes
  <1>7. HeadSlot(t)' = HeadSlot(t) /\ \A u \in Thread, s \in Slot : Pointer(u, s)' = Pointer(u, s)
    BY <1>4, <1>5, PutSame
  <1>8. Loses(t)
    BY <1>5, <1>7 DEF Loses, Dying
  <1>9. LocksValid
    <2>1. ASSUME NEW u \in Thread, PcLock(u) # NoIno PROVE PcLock(u) # i /\ PcLock(u) \in Ino
      <3>1. PcLock(u) \in Ino
        BY <1>1, <2>1 DEF PcLock, TreeTypes
      <3>2. lock[PcLock(u)] = u /\ PcLock(u) # PutLock(u)
        BY <1>1, <2>1 DEF TreeInv, ThreadOK
      <3> QED BY <1>3, <3>1, <3>2
    <2> QED BY <1>6, <2>1 DEF LocksValid
  <1>10. TruncOK(t)'
    BY <1>5 DEF TruncOK
  <1> QED BY <1>1, <1>4, <1>5, <1>8, <1>9, <1>10, PutLinks

\* The references of t without the first inode that it drops.
LEMMA DropSlots ==
    ASSUME TreeInv, NEW t \in Thread, PutStep(t), todo[t] # <<>>, todo'[t] = Tail(todo[t]),
           NEW s \in Slot
    PROVE  Pointer(t, s)' \in {NoIno, Pointer(t, s)} /\ (Pointer(t, s)' # NoIno => s # HeadSlot(t))
  <1>1. HoldsIp(t)' = HoldsIp(t) /\ HoldsDp(t)' = HoldsDp(t)
    BY PutFrame
  <1>2. s \in {"cwd", "file", "ip", "dp"} => Pointer(t, s)' = Pointer(t, s)
    BY <1>1, PointerIs, PointerNext DEF PutStep
  <1>3. HeadSlot(t) \in {"first", "last"}
    BY DEF HeadSlot
  <1>4. todo[t] \in Todo
    BY DEF TreeInv, TreeTypes
  <1>5. PICK q : q = todo[t] /\ q \in Todo /\ q # <<>>
    BY <1>4
  <1>6. CASE \E a \in Ino : q = <<a>>
    <2>1. PICK a \in Ino : q = <<a>>
      BY <1>6
    <2>2. FirstOf(Tail(q)) = NoIno /\ LastOf(Tail(q)) = NoIno
      BY <2>1, SeqSlots
    <2>3. Pointer(t, "first")' = NoIno /\ Pointer(t, "last")' = NoIno
      BY <1>5, <2>2, PointerNext
    <2> QED BY <1>2, <1>3, <2>3 DEF Slot
  <1>7. CASE \E a, b \in Ino : q = <<a, b>>
    <2>1. PICK a \in Ino, b \in Ino : q = <<a, b>>
      BY <1>7
    <2>2. FirstOf(Tail(q)) = NoIno /\ LastOf(Tail(q)) = b /\ LastOf(q) = b /\ Len(q) = 2
      BY <2>1, SeqSlots
    <2>3. Pointer(t, "first")' = NoIno /\ Pointer(t, "last")' = b /\ Pointer(t, "last") = b
      BY <1>5, <2>2, PointerNext, PointerIs
    <2>4. HeadSlot(t) = "first"
      BY <1>5, <2>2 DEF HeadSlot
    <2> QED BY <1>2, <2>3, <2>4 DEF Slot
  <1> QED BY <1>5, <1>6, <1>7 DEF Todo

LEMMA PutDropLinked ==
    ASSUME LinkInv, NEW t \in Thread, PutDrop(t)
    PROVE  LinkInv'
  <1>1. TreeInv /\ TreeInv' /\ TreeTypes
    BY PutDropKeeps DEF LinkInv, TreeInv
  <1>2. put[t] = "drop" /\ todo[t] # <<>>
    BY <1>1 DEF PutDrop, TreeInv, ThreadOK
  <1>3. PICK i \in Ino : i = Head(todo[t]) /\ i # NoIno
    BY <1>1, <1>2, HeadIs
  <1>4. /\ inode' = [inode EXCEPT ![i] = IF ref[i] = 1 THEN Blank ELSE @]
        /\ todo' = [todo EXCEPT ![t] = Tail(@)] /\ put' = [put EXCEPT ![t] = "test"]
        /\ dinode' = dinode /\ ents' = ents
    BY <1>3 DEF PutDrop, diskvars
  <1>5. PutStep(t) /\ put'[t] = "test" /\ todo'[t] = Tail(todo[t])
    BY <1>1, <1>4 DEF PutStep, PutDrop, procvars, TreeTypes
  <1>6. Loses(t)
    <2>1. ASSUME NEW s \in Slot
          PROVE  Pointer(t, s)' \in {NoIno, Pointer(t, s)} /\ (Pointer(t, s)' # NoIno => ~Dying(t, s))
      BY <1>1, <1>2, <1>5, DropSlots DEF Dying
    <2> QED BY <2>1 DEF Loses
  <1>7. \A j \in Ino : inode'[j] = IF j = i /\ ref[i] = 1 THEN Blank ELSE inode[j]
    BY <1>1, <1>4 DEF TreeTypes
  <1>8. LocksValid
    <2>1. ASSUME NEW u \in Thread, PcLock(u) # NoIno PROVE inode'[PcLock(u)] = inode[PcLock(u)]
      <3>1. PICK k \in Ino : k = PcLock(u)
        BY <1>1, <2>1 DEF PcLock, TreeTypes
      <3>2. PICK s \in {"ip", "dp"} : Pointer(u, s) = k
        BY <1>1, <2>1, <3>1, LockSlot
      <3>3. PICK r \in {"first", "last"} : Pointer(t, r) = i
        BY <1>1, <1>2, <1>3, HeadIs
      <3>4. s \in Slot /\ r \in Slot /\ s # r
        BY DEF Slot
      <3>5. RefExact
        BY <1>1 DEF TreeInv
      <3>6. ~(k = i /\ ref[i] = 1)
        BY <3>2, <3>3, <3>4, <3>5, RefAtLeast
      <3> QED BY <1>7, <3>1, <3>6
    <2> QED BY <2>1 DEF LocksValid
  <1>9. TruncOK(t)'
    BY <1>5 DEF TruncOK
  <1> QED BY <1>1, <1>4, <1>5, <1>6, <1>8, <1>9, PutLinks

\* Entries that go away and leave the others as they are.
LEMMA NumLess ==
    ASSUME NEW X, IsFiniteSet(X), NEW P, NEW Q, NEW i, \A x \in X : Q[x] = i => P[x] = i
    PROVE  Num(Q, X, i) <= Num(P, X, i)
  <1>1. Fiber(Q, X, i) \subseteq Fiber(P, X, i)
    BY DEF Fiber
  <1>2. IsFiniteSet(Fiber(P, X, i))
    BY FS_Subset DEF Fiber
  <1> QED BY <1>1, <1>2, FS_Subset DEF Num

LEMMA PutTruncLinked ==
    ASSUME LinkInv, NEW t \in Thread, PutTrunc(t)
    PROVE  LinkInv'
  <1>1. TreeInv /\ TreeInv' /\ TreeTypes
    BY PutTruncKeeps DEF LinkInv, TreeInv
  <1>2. put[t] = "trunc" /\ todo[t] # <<>>
    BY <1>1 DEF PutTrunc, TreeInv, ThreadOK
  <1>3. PICK i \in Ino : i = PutLock(t) /\ i = Head(todo[t]) /\ lock[i] = t /\ i # NoIno
    BY <1>1, <1>2, PutLockIn DEF PutLock
  <1>4. /\ dinode' = [dinode EXCEPT ![i].type = "free"] /\ inode' = [inode EXCEPT ![i].type = "free"]
        /\ ents' = [ents EXCEPT ![i] = [n \in Entry |-> NoIno]]
        /\ put' = [put EXCEPT ![t] = "clear"] /\ todo' = todo
    BY <1>3 DEF PutTrunc
  <1>5. PutStep(t) /\ put'[t] = "clear"
    BY <1>1, <1>4 DEF PutStep, PutTrunc, procvars, TreeTypes
  <1>6. /\ dinode'[i].type = "free" /\ dinode'[i].nlink = dinode[i].nlink
        /\ \A j \in Ino : j # i => dinode'[j] = dinode[j]
    <2>1. dinode \in [Ino -> DNode]
      BY <1>1 DEF TreeTypes, DNode
    <2>2. dinode'[i] = [dinode[i] EXCEPT !.type = "free"] /\ \A j \in Ino : j # i => dinode'[j] = dinode[j]
      BY <1>4, <2>1
    <2>3. dinode[i] \in DNode
      BY <2>1
    <2> QED BY <2>2, <2>3 DEF DNode
  <1>7. \A j \in Ino : inode'[j].valid = inode[j].valid
    <2>1. inode \in [Ino -> INode]
      BY <1>1 DEF TreeTypes, INode
    <2>2. inode'[i] = [inode[i] EXCEPT !.type = "free"] /\ \A j \in Ino : j # i => inode'[j] = inode[j]
      BY <1>4, <2>1
    <2>3. inode[i] \in INode
      BY <2>1
    <2>4. inode'[i].valid = inode[i].valid
      BY <2>2, <2>3 DEF INode
    <2> QED BY <2>2, <2>4
  <1>8. (\A n \in Entry : ents'[i][n] = NoIno) /\ \A j \in Ino : j # i => ents'[j] = ents[j]
    BY <1>1, <1>4 DEF TreeTypes
  <1>9. HeadSlot(t)' = HeadSlot(t) /\ \A u \in Thread, s \in Slot : Pointer(u, s)' = Pointer(u, s)
    BY <1>4, <1>5, PutSame
  <1>10. dinode[i].nlink = 0 /\ \A u \in Thread, s \in Slot : Pointer(u, s) = i => u = t /\ s = HeadSlot(t)
    BY <1>2, <1>3 DEF LinkInv, LinkOK, TruncOK
  <1>11. HeadSlot(t) \in {"first", "last"} /\ HeadSlot(t) \in Slot /\ Pointer(t, HeadSlot(t)) = i
    BY <1>1, <1>2, <1>3, HeadSlotIs
  <1>12. \A s \in Slot : ~Dying(t, s) /\ (Dying(t, s)' <=> s = HeadSlot(t))
    BY <1>2, <1>5, <1>9 DEF Dying
  <1>13. Others(t)
    BY <1>5, PutFrame
  <1>14. ASSUME NEW u \in Thread, NEW s \in Slot, Pointer(u, s) # NoIno, Pointer(u, s) # i
         PROVE  Pointer(u, s) \in Ino /\ dinode'[Pointer(u, s)] = dinode[Pointer(u, s)]
    BY <1>1, <1>6, <1>14, PointerIn
  <1>15. Touch(t)
    BY <1>3, <1>6, <1>8, <1>11, <1>12 DEF Touch
  <1>16. Gains(t)
    BY <1>9, <1>12 DEF Gains, GainFrom
  <1>17. Kept(t)
    BY <1>10, <1>14 DEF Kept
  <1>18. ASSUME NEW u \in Thread, PcLock(u) # NoIno PROVE inode'[PcLock(u)].valid = inode[PcLock(u)].valid
    <2>1. PcLock(u) \in Ino
      BY <1>1, <1>18 DEF PcLock, TreeTypes
    <2> QED BY <1>7, <2>1
  <1>19. KeptValid(t)
    BY <1>18 DEF KeptValid
  <1>20. LinkOK(t) /\ (LinkPending(t)' <=> LinkPending(t)) /\ TypeOf(t)' = TypeOf(t) /\ PcLock(t)' = PcLock(t)
    BY <1>5, PutSame DEF LinkInv
  <1>21. PathOK(t)' /\ ValidOK(t)' /\ TruncOK(t)'
    <2>1. PathOK(t)'
      BY <1>5, <1>20 DEF LinkOK, PathOK, PutStep
    <2>2. ValidOK(t)'
      BY <1>18, <1>20 DEF LinkOK, ValidOK
    <2>3. TruncOK(t)'
      BY <1>5 DEF TruncOK
    <2> QED BY <2>1, <2>2, <2>3
  <1>22. LiveOK(t)'
    <2>1. ASSUME NEW s \in Slot, Pointer(t, s)' # NoIno, ~Dying(t, s)'
          PROVE  dinode'[Pointer(t, s)'].type # "free"
      <3>1. Pointer(t, s)' = Pointer(t, s) /\ s # HeadSlot(t) /\ ~Dying(t, s) /\ Pointer(t, s) # NoIno
        BY <1>9, <1>12, <2>1
      <3>2. Pointer(t, s) # i
        BY <1>10, <3>1
      <3>3. dinode[Pointer(t, s)].type # "free"
        BY <1>20, <3>1 DEF LinkOK, LiveOK
      <3> QED BY <1>14, <3>1, <3>2, <3>3
    <2> QED BY <2>1 DEF LiveOK
  <1>23. /\ HoldsIp(t) => ip[t] \in Ino /\ ip[t] # i
         /\ HoldsDp(t) => dp[t] \in Ino /\ dp[t] # i
    <2>1. "ip" \in Slot /\ "dp" \in Slot /\ HeadSlot(t) # "ip" /\ HeadSlot(t) # "dp"
      BY <1>11 DEF Slot
    <2>2. HoldsIp(t) => ip[t] # i /\ ip[t] # NoIno
      BY <1>1, <1>10, <2>1, PointerIs DEF TreeInv, ThreadOK
    <2>3. HoldsDp(t) => dp[t] # i /\ dp[t] # NoIno
      BY <1>1, <1>10, <2>1, PointerIs DEF TreeInv, ThreadOK
    <2>4. ip[t] \in Ino \cup {NoIno} /\ dp[t] \in Ino \cup {NoIno}
      BY <1>1 DEF TreeTypes
    <2> QED BY <2>2, <2>3, <2>4
  <1>24. DirOK(t)'
    <2>1. ip' = ip /\ dp' = dp /\ pc' = pc /\ path' = path
      BY <1>5 DEF PutStep
    <2>2. pc[t] \in {"parent", "new", "child"} => dinode'[dp[t]] = dinode[dp[t]] /\ ents'[dp[t]] = ents[dp[t]]
      BY <1>6, <1>8, <1>23 DEF HoldsDp
    <2>3. LinkPending(t) => dinode'[ip[t]] = dinode[ip[t]]
      <3>1. LinkPending(t) => HoldsIp(t)
        BY DEF LinkPending, HoldsIp
      <3> QED BY <1>6, <1>23, <3>1
    <2> QED BY <1>20, <2>1, <2>2, <2>3 DEF LinkOK, DirOK
  <1>25. NewOK(t)'
    <2>1. SUFFICES ASSUME pc[t] = "new" PROVE NewOK(t)'
      BY <1>5 DEF NewOK, PutStep
    <2>2. PICK k \in Ino : k = ip[t] /\ k # i /\ ip'[t] = k
      <3>1. HoldsIp(t)
        BY <2>1 DEF HoldsIp
      <3> QED BY <1>5, <1>23, <3>1 DEF PutStep
    <2>3. /\ dinode[k].nlink = 0 /\ dinode[k].type = TypeOf(t)
          /\ \A n \in Entry : ents[k][n] = NoIno
          /\ \A u \in Thread, s \in Slot : Pointer(u, s) = k => Dying(u, s) \/ (u = t /\ s = "ip")
      BY <1>20, <2>1, <2>2 DEF LinkOK, NewOK
    <2>4. ASSUME NEW u \in Thread, NEW s \in Slot, Pointer(u, s)' = k
          PROVE  Dying(u, s)' \/ (u = t /\ s = "ip")
      <3>1. Pointer(u, s) = k
        BY <1>9, <2>4
      <3>2. CASE u = t
        BY <1>12, <2>3, <3>1, <3>2
      <3>3. CASE u # t
        BY <1>13, <2>3, <3>1, <3>3, OthersSame2
      <3> QED BY <3>2, <3>3
    <2>5. dinode'[k] = dinode[k] /\ ents'[k] = ents[k]
      BY <1>6, <1>8, <2>2
    <2> QED BY <1>20, <2>2, <2>3, <2>4, <2>5 DEF NewOK
  <1>26. ASSUME NEW u \in Thread PROVE LinkOK(u)'
    <2>1. CASE u = t
      BY <1>21, <1>22, <1>24, <1>25, <2>1 DEF LinkOK
    <2>2. CASE u # t
      BY <1>13, <1>15, <1>16, <1>17, <1>19, <2>2, OtherLinks
    <2> QED BY <2>1, <2>2
  <1>27. \A e \in Places : NameMap[e] # i /\ SubMap[e] # i
    <2>1. (\E e \in Places : NameMap[e] = i \/ SubMap[e] = i) => dinode[i].nlink >= 1
      BY Linked
    <2> QED BY <1>10, <2>1
  <1>28. ASSUME NEW e \in Places PROVE NameMap'[e] \in {NoIno, NameMap[e]} /\ SubMap'[e] \in {NoIno, SubMap[e]}
    <2>1. e[1] \in Ino /\ e[2] \in Entry
      BY DEF Places, Entry
    <2>2. PICK v : v = ents[e[1]][e[2]] /\ v \in Ino \cup {NoIno} /\ v # i
      <3>1. ents[e[1]][e[2]] # i
        BY <1>27 DEF NameMap
      <3> QED BY <1>1, <2>1, <3>1 DEF TreeTypes
    <2>3. NameMap[e] = v /\ SubMap[e] = IF v # NoIno /\ dinode[v].type = "dir" THEN e[1] ELSE NoIno
      BY <2>2 DEF NameMap, SubMap
    <2>4. CASE e[1] = i
      <3>1. ents'[e[1]][e[2]] = NoIno
        BY <1>8, <2>1, <2>4
      <3> QED BY <3>1 DEF NameMap, SubMap, Places
    <2>5. CASE e[1] # i
      <3>1. ents'[e[1]][e[2]] = v
        BY <1>8, <2>1, <2>2, <2>5
      <3>2. v # NoIno => dinode'[v] = dinode[v]
        BY <1>6, <2>2
      <3>3. NameMap'[e] = v /\ SubMap'[e] = IF v # NoIno /\ dinode'[v].type = "dir" THEN e[1] ELSE NoIno
        BY <3>1 DEF NameMap, SubMap, Places
      <3> QED BY <2>3, <3>2, <3>3
    <2> QED BY <2>4, <2>5
  <1>29. ASSUME NEW j \in Ino PROVE DotOK(j)' /\ TreeOK(j)'
    <2>1. DotOK(j) /\ TreeOK(j) /\ j # NoIno
      BY DEF LinkInv, Ino, NoIno
    <2>2. CASE j = i
      BY <1>6, <1>8, <1>10, <2>2 DEF DotOK, TreeOK, Entry
    <2>3. CASE j # i
      <3>1. dinode'[j] = dinode[j] /\ ents'[j] = ents[j]
        BY <1>6, <1>8, <2>3
      <3>2. DotOK(j)'
        BY <1>5, <2>1, <3>1 DEF DotOK, PutStep
      <3>3. \A e \in Places : NameMap'[e] = j => NameMap[e] = j
        BY <1>28, <2>1
      <3>4. TreeOK(j)'
        BY <2>1, <3>1, <3>3 DEF TreeOK, Places
      <3> QED BY <3>2, <3>4
    <2> QED BY <2>2, <2>3
  <1>30. ASSUME NEW j \in Ino PROVE Covered(j)'
    <2>1. PICK N, N2, S, S2 : N = NameMap /\ N2 = NameMap' /\ S = SubMap /\ S2 = SubMap'
      OBVIOUS
    <2>2. j # NoIno
      BY DEF Ino, NoIno
    <2>3. \A e \in Places : (N2[e] = j => N[e] = j) /\ (S2[e] = j => S[e] = j)
      BY <1>28, <2>1, <2>2
    <2>4. Num(N2, Places, j) <= Num(N, Places, j) /\ Num(S2, Places, j) <= Num(S, Places, j)
      BY <2>3, NumLess, PlacesAreFinite
    <2>5. PICK a, b, c, r, a2, b2 :
             /\ a = Num(N, Places, j) /\ b = Num(S, Places, j) /\ c = Num(ExtraMap, Thread, j)
             /\ r = One(Root, j) /\ a2 = Num(N2, Places, j) /\ b2 = Num(S2, Places, j)
      OBVIOUS
    <2>6. a \in Nat /\ b \in Nat /\ c \in Nat /\ r \in Nat /\ a2 \in Nat /\ b2 \in Nat
      BY <2>1, <2>5, CountTypes, NumNat, PlacesAreFinite
    <2>7. LinkCount(j) = ((a + b) + c) + r
      BY <2>1, <2>5 DEF LinkCount
    <2>8. LinkCount(j)' = ((a2 + b2) + c) + r
      <3>1. ExtraMap' = ExtraMap
        BY <1>5, PutSame
      <3> QED BY <2>1, <2>5, <3>1 DEF LinkCount, Num, Fiber, One, Root, Places
    <2>9. dinode'[j].nlink = dinode[j].nlink /\ dinode[j].nlink \in Int
      BY <1>1, <1>6 DEF TreeTypes
    <2>10. ((a + b) + c) + r <= dinode[j].nlink
      BY <2>7 DEF LinkInv, Covered
    <2>11. ((a2 + b2) + c) + r <= dinode[j].nlink
      BY <2>4, <2>5, <2>6, <2>9, <2>10
    <2> QED BY <2>8, <2>9, <2>11 DEF Covered
  <1> QED BY <1>1, <1>26, <1>29, <1>30 DEF LinkInv

-----------------------------------------------------------------------------
LEMMA LinkInit == Init => LinkInv
  <1> SUFFICES ASSUME Init PROVE LinkInv
    OBVIOUS
  <1>1. TreeInv /\ Root \in Ino /\ Root # NoIno
    BY InitHolds, FileTreeAssumption DEF Root, Ino, NoIno
  <1>2. ASSUME NEW t \in Thread PROVE LinkOK(t)
    <2>1. /\ cwd[t] = Root /\ file[t] = NoIno /\ path[t] = <<>> /\ todo[t] = <<>> /\ pc[t] = "idle"
          /\ put[t] = "test"
      BY DEF Init
    <2>2. ~HoldsIp(t) /\ ~HoldsDp(t) /\ PcLock(t) = NoIno /\ ~LinkPending(t)
      BY <2>1 DEF HoldsIp, HoldsDp, PcLock, LinkPending
    <2>3. \A s \in Slot : Pointer(t, s) \in {Root, NoIno}
      BY <2>1, <2>2, PointerIs, SeqSlots DEF Slot
    <2>4. dinode[Root].type = "dir"
      BY <1>1 DEF Init
    <2>5. PathOK(t) /\ ValidOK(t) /\ TruncOK(t) /\ DirOK(t) /\ NewOK(t)
      BY <2>1, <2>2 DEF PathOK, ValidOK, TruncOK, DirOK, NewOK
    <2>6. LiveOK(t)
      BY <2>3, <2>4 DEF LiveOK
    <2> QED BY <2>5, <2>6 DEF LinkOK
  <1>3. ASSUME NEW i \in Ino, NEW n \in Name PROVE ents[i][n] = NoIno
    BY DEF Init, Entry
  <1>4. \A e \in Places : NameMap[e] = NoIno /\ SubMap[e] = NoIno
    BY <1>3 DEF NameMap, SubMap, Places
  <1>5. ASSUME NEW i \in Ino PROVE DotOK(i) /\ TreeOK(i) /\ Covered(i)
    <2>1. i # NoIno
      BY DEF Ino, NoIno
    <2>2. TreeOK(i)
      BY <1>4, <2>1 DEF TreeOK
    <2>3. DotOK(i)
      <3>1. "." \in Entry /\ "." \notin Name
        BY FileTreeAssumption DEF Entry
      <3>2. ents[i]["."] = IF i = Root THEN Root ELSE NoIno
        BY <3>1 DEF Init
      <3>3. i # Root => dinode[i].type = "free" /\ dinode[i].nlink = 0 /\ \A n \in Entry : ents[i][n] = NoIno
        BY DEF Init
      <3>4. i = Root => dinode[i].type = "dir"
        BY DEF Init
      <3> QED BY <3>2, <3>3, <3>4 DEF DotOK
    <2>4. Covered(i)
      <3>1. \A t \in Thread : ExtraMap[t] = NoIno
        BY DEF Init, ExtraMap, Extra, LinkPending
      <3>2. Fiber(NameMap, Places, i) = {} /\ Fiber(SubMap, Places, i) = {} /\ Fiber(ExtraMap, Thread, i) = {}
        BY <1>4, <2>1, <3>1 DEF Fiber
      <3>3. /\ Num(NameMap, Places, i) = 0 /\ Num(SubMap, Places, i) = 0
            /\ Num(ExtraMap, Thread, i) = 0
        BY <3>2, FS_EmptySet DEF Num
      <3>4. One(Root, i) = dinode[i].nlink /\ One(Root, i) \in Int
        BY DEF Init, One
      <3> QED BY <3>3, <3>4 DEF Covered, LinkCount
    <2> QED BY <2>2, <2>3, <2>4
  <1> QED BY <1>1, <1>2, <1>5 DEF LinkInv

LEMMA LinkStep ==
    ASSUME NoDotDot
    PROVE  LinkInv /\ [Next]_vars => LinkInv'
  <1> SUFFICES ASSUME LinkInv, [Next]_vars PROVE LinkInv'
    OBVIOUS
  <1>1. CASE UNCHANGED vars
    <2>1. UNCHANGED <<dinode, ents, inode, ref, lock>>
      BY <1>1 DEF vars, diskvars, cachevars
    <2>2. UNCHANGED <<cwd, file, call, path, ip, dp, pc, todo, put>> /\ panicked' = panicked
      BY <1>1 DEF vars, procvars
    <2>3. panicked' \in BOOLEAN
      BY <2>2 DEF LinkInv, TreeInv, TreeTypes
    <2> QED BY <2>1, <2>2, <2>3, StopLinked
  <1>2. ASSUME NEW t \in Thread, NEW c \in Calls[t], Call(t, c) PROVE LinkInv'
    BY <1>2, CallLinked
  <1>3. ASSUME NEW t \in Thread, Namex(t) PROVE LinkInv'
    BY <1>3, WalkLinked, WalkParentLinked, PanicLinked DEF Namex
  <1>4. ASSUME NEW t \in Thread, Iput(t) PROVE LinkInv'
    BY <1>4, PutTestLinked, PutTruncLinked, PutClearLinked, PutDropLinked DEF Iput
  <1>5. ASSUME NEW t \in Thread, Opening(t) PROVE LinkInv'
    BY <1>5, OpenLinked, ChdirLinked, CloseLinked DEF Opening
  <1>6. ASSUME NEW t \in Thread, Create(t) PROVE LinkInv'
    BY <1>6, CreateExistsLinked, ExistsLinked, CreateAllocLinked, PanicLinked, CreateLinkLinked,
       MadeLinked DEF Create
  <1>7. ASSUME NEW t \in Thread, Link(t) PROVE LinkInv'
    BY <1>7, LinkOldLinked, LinkNewLinked, LinkTakenLinked, LinkBadLinked DEF Link
  <1>8. ASSUME NEW t \in Thread, Unlink(t) PROVE LinkInv'
    BY <1>8, UnlinkFindLinked, UnlinkEraseLinked, UnlinkNotEmptyLinked, UnlinkCountLinked DEF Unlink
  <1>9. ASSUME NEW t \in Thread, Return(t) PROVE LinkInv'
    BY <1>9, ReturnLinked
  <1> QED BY <1>1, <1>2, <1>3, <1>4, <1>5, <1>6, <1>7, <1>8, <1>9 DEF Next

\* What the maps say about the entries.
LEMMA LinksSound == LinkInv => TreeSound
  <1> SUFFICES ASSUME LinkInv PROVE TreeSound
    OBVIOUS
  <1>1. ASSUME NEW i \in Ino
        PROVE  Names(i) = Fiber(NameMap, Places, i) /\ Subdirs(i) = Fiber(SubMap, Places, i)
    <2>1. i # NoIno
      BY DEF Ino, NoIno
    <2>2. Names(i) = Fiber(NameMap, Places, i)
      BY DEF Names, Fiber, NameMap, Places
    <2>3. Subdirs(i) \subseteq Fiber(SubMap, Places, i)
      BY DEF Subdirs, Fiber, SubMap, Places
    <2>4. Fiber(SubMap, Places, i) \subseteq Subdirs(i)
      BY <2>1 DEF Subdirs, Fiber, SubMap, Places
    <2> QED BY <2>2, <2>3, <2>4
  <1>2. ASSUME NEW i \in Ino
        PROVE  /\ Cardinality(Names(i)) + Cardinality(Subdirs(i)) <= dinode[i].nlink
               /\ Names(i) # {} => dinode[i].type # "free"
    <2>1. PICK a, b, c, r : /\ a = Num(NameMap, Places, i) /\ b = Num(SubMap, Places, i)
                            /\ c = Num(ExtraMap, Thread, i) /\ r = One(Root, i)
      OBVIOUS
    <2>2. a \in Nat /\ b \in Nat /\ c \in Nat /\ r \in Nat
      BY <2>1, CountTypes
    <2>3. ((a + b) + c) + r <= dinode[i].nlink /\ dinode[i].nlink \in Int
      BY <2>1 DEF LinkInv, Covered, LinkCount, TreeInv, TreeTypes
    <2>4. a + b <= dinode[i].nlink
      BY <2>2, <2>3
    <2>5. a = Cardinality(Names(i)) /\ b = Cardinality(Subdirs(i))
      BY <1>1, <2>1 DEF Num
    <2>6. Names(i) # {} => dinode[i].type # "free"
      <3>1. Names(i) # {} => \E e \in Places : NameMap[e] = i
        BY <1>1 DEF Fiber
      <3> QED BY <3>1, Linked
    <2> QED BY <2>4, <2>5, <2>6
  <1>3. ASSUME NEW d \in Ino, dinode[d].type = "dir", NEW e \in Names(d), NEW f \in Names(d)
        PROVE  e = f /\ ents[d][".."] = e[1]
    <2>1. e \in Places /\ f \in Places /\ NameMap[e] = d /\ NameMap[f] = d
      BY <1>1, <1>3 DEF Fiber
    <2>2. TreeOK(d)
      BY DEF LinkInv
    <2> QED BY <1>3, <2>1, <2>2 DEF TreeOK
  <1> QED BY <1>2, <1>3 DEF TreeSound, LinksCovered, IsTree

\* create(), sys_link(), sys_unlink() and iput() keep the link counts above the
\* number of entries and the directories a tree, in every interleaving, as long
\* as no path goes through "..": no entry names an inode that iput() has freed.
THEOREM LinksAndTree ==
    ASSUME NoDotDot
    PROVE  Spec => []TreeSound
  <1>1. Spec => []LinkInv
    BY LinkInit, LinkStep, PTL DEF Spec
  <1> QED BY <1>1, LinksSound, PTL
=============================================================================
