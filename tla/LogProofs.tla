----------------------------- MODULE LogProofs -----------------------------
(***************************************************************************)
(* The log implements the atomic disk, for any number of threads and       *)
(* blocks and any size of the log: the reservation of begin_op() keeps     *)
(* what is logged within LOGSIZE blocks, although log_write() tests for    *)
(* room before it takes log.lock, and a crash at any write of any block,   *)
(* also during an earlier recovery, loses or keeps whole transactions.     *)
(***************************************************************************)
EXTENDS Log, FiniteSetTheorems, TLAPS

BootSteps   == {"read_head", "redo", "clear"}
CommitSteps == {"write_log", "write_head", "install", "erase", "done"}

Distinct(s) == \A i, j \in DOMAIN s : s[i] = s[j] => i = j

\* The blocks that the threads of S have logged.
LoggedBy(S) == {b \in Block : \E t \in S : b \in wrote[t]}

\* The positions of the log that belong to an open operation.
Covered == {i \in DOMAIN lh : \E t \in Open : lh[i] \in wrote[t]}

\* The operations: outstanding counts them, none is open during commit() and
\* recovery, and none has logged more than it may.
OpInv ==
    /\ IsFiniteSet(Open) /\ outstanding = Cardinality(Open)
    /\ committing => Open = {}
    /\ committing <=> step \in CommitSteps
    /\ step \in BootSteps => ~panicked /\ \A t \in Thread : pc[t] = "idle"
    /\ \A t \in Thread :
          /\ pc[t] # "op" => wrote[t] = {} /\ buf[t] = {}
          /\ buf[t] # {} => \E b \in Block : buf[t] = {b}
          /\ IsFiniteSet(wrote[t] \cup buf[t])
          /\ Cardinality(wrote[t] \cup buf[t]) <= MAXOPBLOCKS

\* The threads of a set of open operations have logged no more than
\* MAXOPBLOCKS blocks each.  The sets S take the place of an induction over
\* the open operations.
ShareInv ==
    \A S \in SUBSET Open :
       /\ IsFiniteSet(LoggedBy(S))
       /\ Cardinality(LoggedBy(S)) <= Cardinality(S) * MAXOPBLOCKS

\* The third conjunct of Reserved.
RoomInv == Len(lh) + outstanding * MAXOPBLOCKS <= LOGSIZE + Cardinality(Covered)

\* What the memory, the log and the disk agree on at every stage.
InLogCopy(n) == \A i \in DOMAIN lh : i < n => logged[i] = cache[lh[i]]
AtHome(n)    == \A i \in DOMAIN lh : i < n => home[lh[i]] = logged[i]

StageInv ==
    /\ Distinct(lh) /\ Distinct(head)
    /\ step \in {"none", "done", "write_log", "write_head"} => head = <<>>
    /\ step \in {"done", "read_head"} => lh = <<>>
    /\ step = "none" /\ Open = {} => lh = <<>>
    /\ step \in {"write_log", "write_head", "install", "erase", "redo"} => lh # <<>>
    /\ step \in {"install", "erase", "redo", "clear"} => head = lh
    /\ step \in {"write_log", "install", "redo"} => tail <= Len(lh)
    /\ step \in {"read_head", "write_head"} => tail = 1
    /\ step = "write_log" => InLogCopy(tail)
    /\ step \in {"write_head", "install", "erase"} => InLogCopy(Len(lh) + 1)
    /\ step \in {"install", "redo"} => AtHome(tail)
    /\ step \in {"erase", "clear"} => AtHome(Len(lh) + 1)

\* The cache differs from the disk only in blocks that are in the log, or on
\* the way into it.
CacheInv ==
    /\ step \in BootSteps => cache = home
    /\ \A b \in Block : cache[b] # home[b] => InLog(b) \/ \E t \in Thread : b \in buf[t]

LogInv == TypeOK /\ OpInv /\ ShareInv /\ RoomInv /\ StageInv /\ CacheInv

-----------------------------------------------------------------------------
(* Lemmas about counting.                                                  *)

LEMMA Times ==
    ASSUME NEW m \in Nat, NEW n \in Nat, NEW k \in Nat
    PROVE  /\ m * k \in Nat
           /\ (m + 1) * k = m * k + k
           /\ m <= n => m * k <= n * k
  OBVIOUS

\* A sequence without repetitions has at most as many positions with a block
\* of B as B has blocks.
LEMMA Positions ==
    ASSUME NEW s \in Seq(Block), Distinct(s), NEW B, IsFiniteSet(B)
    PROVE  LET P == {i \in DOMAIN s : s[i] \in B}
           IN  /\ IsFiniteSet(P) /\ Cardinality(P) \in Nat
               /\ Cardinality(P) <= Cardinality(B)
  <1> DEFINE P == {i \in DOMAIN s : s[i] \in B}
             f == [i \in P |-> s[i]]
  <1>1. f \in Injection(P, B)
    BY DEF Injection, IsInjective, Distinct
  <1>2. IsFiniteSet(P) /\ Cardinality(P) <= Cardinality(B)
    BY <1>1, FS_Injection
  <1> QED BY <1>2, FS_CardinalityType

\* The positions of a sequence are finitely many.
LEMMA FewPositions ==
    ASSUME NEW s \in Seq(Block), NEW P \in SUBSET DOMAIN s
    PROVE  IsFiniteSet(P) /\ Cardinality(P) \in Nat
  <1>1. DOMAIN s = 1..Len(s) /\ Len(s) \in Nat
    OBVIOUS
  <1>2. IsFiniteSet(1..Len(s))
    BY <1>1, FS_Interval
  <1> QED BY <1>1, <1>2, FS_Subset, FS_CardinalityType

\* No operation is open: nothing is reserved.
LEMMA Quiet ==
    ASSUME TypeOK', Open' = {}, outstanding' = 0
    PROVE  ShareInv' /\ RoomInv'
  <1>1. ASSUME NEW S \in SUBSET Open'
        PROVE  /\ IsFiniteSet(LoggedBy(S)')
               /\ Cardinality(LoggedBy(S)') <= Cardinality(S) * MAXOPBLOCKS
    <2>1. S = {} /\ LoggedBy(S)' = {}
      BY <1>1 DEF LoggedBy
    <2> QED BY <2>1, FS_EmptySet, LogAssumption
  <1>2. Cardinality(Covered') \in Nat
    BY FewPositions DEF Covered, TypeOK
  <1>3. RoomInv'
    BY <1>2, LogAssumption DEF RoomInv, TypeOK
  <1> QED BY <1>1, <1>3 DEF ShareInv

-----------------------------------------------------------------------------
(* begin_op(), log_write() and end_op(): what is counted and reserved.     *)

LEMMA BeginOpCount ==
    ASSUME LogInv, NEW t \in Thread, BeginOp(t)
    PROVE  OpInv' /\ ShareInv' /\ RoomInv'
  <1>1. UNCHANGED <<lh, committing, wrote, buf, step, panicked>> /\ pc[t] = "idle"
    BY DEF BeginOp
  <1>2. CASE committing \/ NoRoom
    <2>1. pc' = [pc EXCEPT ![t] = "asleep"] /\ outstanding' = outstanding
      BY <1>2 DEF BeginOp
    <2>2. Open' = Open
      BY <1>1, <2>1 DEF Open, LogInv, TypeOK
    <2>3. step \notin BootSteps
      BY DEF BeginOp, BootSteps
    <2>4. OpInv'
      BY <1>1, <2>1, <2>2, <2>3 DEF OpInv, LogInv, TypeOK
    <2>5. ShareInv' /\ RoomInv'
      BY <1>1, <2>1, <2>2 DEF ShareInv, RoomInv, LogInv, LoggedBy, Covered
    <2> QED BY <2>4, <2>5
  <1>3. CASE ~(committing \/ NoRoom)
    <2>1. pc' = [pc EXCEPT ![t] = "op"] /\ outstanding' = outstanding + 1
      BY <1>3 DEF BeginOp
    <2>2. Open' = Open \cup {t} /\ t \notin Open /\ wrote[t] = {}
      BY <1>1, <2>1 DEF Open, LogInv, TypeOK, OpInv
    <2>3. IsFiniteSet(Open') /\ outstanding' = Cardinality(Open')
      BY <2>1, <2>2, FS_AddElement DEF LogInv, OpInv
    <2>4. step \notin BootSteps
      BY DEF BeginOp, BootSteps
    <2>5. OpInv'
      BY <1>1, <1>3, <2>1, <2>2, <2>3, <2>4 DEF OpInv, LogInv, TypeOK
    <2>6. ASSUME NEW S \in SUBSET Open'
          PROVE  /\ IsFiniteSet(LoggedBy(S)')
                 /\ Cardinality(LoggedBy(S)') <= Cardinality(S) * MAXOPBLOCKS
      <3> DEFINE R == S \ {t}
      <3>1. R \in SUBSET Open /\ LoggedBy(S)' = LoggedBy(R)
        BY <1>1, <2>2 DEF LoggedBy
      <3>2. /\ IsFiniteSet(S) /\ Cardinality(S) \in Nat
            /\ IsFiniteSet(R) /\ Cardinality(R) \in Nat
            /\ Cardinality(R) <= Cardinality(S)
        BY <2>3, FS_Subset, FS_CardinalityType
      <3>3. /\ IsFiniteSet(LoggedBy(R))
            /\ Cardinality(LoggedBy(R)) <= Cardinality(R) * MAXOPBLOCKS
        BY <3>1 DEF LogInv, ShareInv
      <3>4. Cardinality(LoggedBy(R)) \in Nat
        BY <3>3, FS_CardinalityType
      <3>5. /\ Cardinality(R) * MAXOPBLOCKS <= Cardinality(S) * MAXOPBLOCKS
            /\ Cardinality(R) * MAXOPBLOCKS \in Nat
            /\ Cardinality(S) * MAXOPBLOCKS \in Nat
        BY <3>2, Times, LogAssumption
      <3> HIDE DEF R
      <3> QED BY <3>1, <3>3, <3>4, <3>5
    <2>7. Cardinality(Covered') \in Nat
      BY <1>1, FewPositions DEF Covered, LogInv, TypeOK
    <2>8. RoomInv'
      BY <1>1, <1>3, <2>1, <2>7, LogAssumption DEF RoomInv, NoRoom, LogInv, TypeOK
    <2> QED BY <2>5, <2>6, <2>8 DEF ShareInv
  <1> QED BY <1>2, <1>3

LEMMA ModifyCount ==
    ASSUME LogInv, NEW t \in Thread, NEW b \in Block, NEW v \in Val, Modify(t, b, v)
    PROVE  OpInv' /\ ShareInv' /\ RoomInv'
  <1>1. /\ pc[t] = "op" /\ buf[t] = {} /\ buf' = [buf EXCEPT ![t] = {b}]
        /\ UNCHANGED <<lh, outstanding, committing, pc, wrote, step, panicked>>
        /\ Cardinality(wrote[t] \cup {b}) <= MAXOPBLOCKS
    BY DEF Modify
  <1>2. Open' = Open
    BY <1>1 DEF Open
  <1>3. IsFiniteSet(wrote[t] \cup {b})
    <2>1. IsFiniteSet(wrote[t])
      BY <1>1, wrote[t] \cup buf[t] = wrote[t] DEF LogInv, OpInv
    <2> QED BY <2>1, FS_AddElement
  <1>4. OpInv'
    BY <1>1, <1>2, <1>3 DEF OpInv, LogInv, TypeOK
  <1>5. ShareInv' /\ RoomInv'
    BY <1>1, <1>2 DEF ShareInv, RoomInv, LogInv, LoggedBy, Covered
  <1> QED BY <1>4, <1>5

\* The block that an operation adds to the log is its own, so that the room
\* that is left for the others does not shrink.
LEMMA LogWriteCount ==
    ASSUME LogInv, NEW t \in Thread, LogWrite(t)
    PROVE  /\ OpInv' /\ ShareInv' /\ RoomInv'
           /\ lh' \in Seq(Block) /\ Distinct(lh') /\ Len(lh') <= LOGSIZE
  <1>1. PICK b \in Block : buf[t] = {b}
    BY DEF LogWrite, LogInv, OpInv
  <1>2. /\ pc[t] = "op" /\ lh' = IF InLog(b) THEN lh ELSE Append(lh, b)
        /\ wrote' = [wrote EXCEPT ![t] = @ \cup {b}]
        /\ buf' = [buf EXCEPT ![t] = {}]
        /\ UNCHANGED <<outstanding, committing, pc, step, panicked>>
    BY <1>1 DEF LogWrite, LogInv, OpInv
  <1>3. Open' = Open /\ t \in Open
    BY <1>2 DEF Open
  <1>4. OpInv'
    <2>1. \A u \in Thread : wrote'[u] \cup buf'[u] = wrote[u] \cup buf[u]
      BY <1>1, <1>2 DEF LogInv, TypeOK
    <2>2. \A u \in Thread : buf'[u] # {} => buf'[u] = buf[u]
      BY <1>2 DEF LogInv, TypeOK
    <2>3. \A u \in Thread : u # t => wrote'[u] = wrote[u] /\ buf'[u] = buf[u]
      BY <1>2 DEF LogInv, TypeOK
    <2> QED BY <1>2, <1>3, <2>1, <2>2, <2>3 DEF OpInv, LogInv
  <1>5. lh' \in Seq(Block) /\ Distinct(lh')
    BY <1>2 DEF LogInv, TypeOK, StageInv, Distinct, InLog
  <1>6. ASSUME NEW S \in SUBSET Open'
        PROVE  /\ IsFiniteSet(LoggedBy(S)')
               /\ Cardinality(LoggedBy(S)') <= Cardinality(S) * MAXOPBLOCKS
    <2>1. CASE t \notin S
      <3>1. LoggedBy(S)' = LoggedBy(S)
        BY <1>2, <1>3, <2>1 DEF LoggedBy, LogInv, TypeOK, Open
      <3> QED BY <1>3, <3>1 DEF LogInv, ShareInv
    <2>2. CASE t \in S
      <3> DEFINE R == S \ {t}
                 B == LoggedBy(R) \cup (wrote[t] \cup buf[t])
      <3>1. R \in SUBSET Open /\ LoggedBy(S)' \in SUBSET B
        BY <1>1, <1>2, <1>3 DEF LoggedBy, LogInv, TypeOK, Open
      <3>2. /\ IsFiniteSet(LoggedBy(R))
            /\ Cardinality(LoggedBy(R)) <= Cardinality(R) * MAXOPBLOCKS
        BY <3>1 DEF LogInv, ShareInv
      <3>3. /\ IsFiniteSet(wrote[t] \cup buf[t])
            /\ Cardinality(wrote[t] \cup buf[t]) <= MAXOPBLOCKS
        BY DEF LogInv, OpInv
      <3>4. /\ Cardinality(LoggedBy(R)) \in Nat /\ Cardinality(wrote[t] \cup buf[t]) \in Nat
            /\ IsFiniteSet(LoggedBy(R) \cap (wrote[t] \cup buf[t]))
        BY <3>2, <3>3, FS_CardinalityType, FS_Intersection
      <3>5. Cardinality(LoggedBy(R) \cap (wrote[t] \cup buf[t])) \in Nat
        BY <3>4, FS_CardinalityType
      <3>6. /\ IsFiniteSet(B) 
            /\ Cardinality(B) = Cardinality(LoggedBy(R)) + Cardinality(wrote[t] \cup buf[t])
                                  - Cardinality(LoggedBy(R) \cap (wrote[t] \cup buf[t]))
        BY <3>2, <3>3, FS_Union
      <3>7. /\ IsFiniteSet(LoggedBy(S)')
            /\ Cardinality(LoggedBy(S)') \in Nat
            /\ Cardinality(LoggedBy(S)') <= Cardinality(B)
        BY <3>1, <3>6, FS_Subset, FS_CardinalityType
      <3>8. /\ IsFiniteSet(S) /\ Cardinality(S) \in Nat /\ Cardinality(R) \in Nat
            /\ Cardinality(S) = Cardinality(R) + 1
        <4>1. IsFiniteSet(S)
          BY <1>3, FS_Subset DEF LogInv, OpInv
        <4>2. IsFiniteSet(R) /\ Cardinality(R) = Cardinality(S) - 1
          BY <2>2, <4>1, FS_RemoveElement
        <4> QED BY <4>1, <4>2, FS_CardinalityType
      <3> HIDE DEF R, B
      <3>9. /\ Cardinality(S) * MAXOPBLOCKS = Cardinality(R) * MAXOPBLOCKS + MAXOPBLOCKS
            /\ Cardinality(R) * MAXOPBLOCKS \in Nat
        BY <3>8, Times, LogAssumption
      <3> QED BY <3>2, <3>3, <3>4, <3>5, <3>6, <3>7, <3>9, LogAssumption
    <2> QED BY <2>1, <2>2
  <1>7. ShareInv'
    BY <1>6 DEF ShareInv
  <1>8. RoomInv'
    <2>1. Cardinality(Covered) \in Nat /\ IsFiniteSet(Covered)
      BY FewPositions DEF Covered, LogInv, TypeOK
    <2>2. Cardinality(Covered') \in Nat /\ IsFiniteSet(Covered')
      BY <1>5, FewPositions DEF Covered
    <2>3. /\ outstanding * MAXOPBLOCKS \in Nat
          /\ outstanding' * MAXOPBLOCKS = outstanding * MAXOPBLOCKS
          /\ Len(lh) + outstanding * MAXOPBLOCKS <= LOGSIZE + Cardinality(Covered)
          /\ Len(lh) \in Nat
      BY <1>2, Times, LogAssumption DEF LogInv, TypeOK, RoomInv
    <2>4. CASE InLog(b)
      <3>1. lh' = lh
        BY <1>2, <2>4
      <3>2. Covered \in SUBSET Covered'
        BY <1>2, <1>3, <3>1 DEF Covered, LogInv, TypeOK, Open
      <3>3. Cardinality(Covered) <= Cardinality(Covered')
        BY <2>2, <3>2, FS_Subset
      <3> QED BY <2>1, <2>2, <2>3, <3>1, <3>3, LogAssumption DEF RoomInv
    <2>5. CASE ~InLog(b)
      <3>1. lh' = Append(lh, b) /\ Len(lh) \in Nat /\ lh \in Seq(Block)
        BY <1>2, <2>5 DEF LogInv, TypeOK
      <3>a. /\ DOMAIN lh' = DOMAIN lh \cup {Len(lh) + 1} /\ Len(lh) + 1 \notin DOMAIN lh
            /\ lh'[Len(lh) + 1] = b /\ \A i \in DOMAIN lh : lh'[i] = lh[i]
        BY <3>1
      <3>b. b \in wrote'[t] /\ \A u \in Thread : wrote[u] \subseteq wrote'[u]
        BY <1>2 DEF LogInv, TypeOK
      <3>2. Covered \cup {Len(lh) + 1} \in SUBSET Covered' /\ Len(lh) + 1 \notin Covered
        BY <1>3, <3>a, <3>b DEF Covered, Open
      <3>3. Cardinality(Covered) + 1 <= Cardinality(Covered')
        BY <2>1, <2>2, <3>2, FS_Subset, FS_AddElement
      <3>4. Len(lh') = Len(lh) + 1
        BY <3>1
      <3> QED BY <2>1, <2>2, <2>3, <3>3, <3>4, LogAssumption DEF RoomInv
    <2> QED BY <2>4, <2>5
  <1>9. Len(lh') <= LOGSIZE
    <2> DEFINE B == LoggedBy(Open)'
    <2>1. IsFiniteSet(B) /\ Cardinality(B) <= outstanding' * MAXOPBLOCKS
      <3>1. Open' \in SUBSET Open' /\ outstanding' = Cardinality(Open')
        BY <1>4 DEF OpInv
      <3> QED BY <1>3, <1>6, <3>1
    <2>2. Covered' = {i \in DOMAIN lh' : lh'[i] \in B}
      BY <1>5 DEF Covered, LoggedBy
    <2> HIDE DEF B
    <2>3. Cardinality(Covered') <= Cardinality(B) /\ Cardinality(Covered') \in Nat
      BY <1>5, <2>1, <2>2, Positions
    <2>4. Cardinality(B) \in Nat /\ Len(lh') \in Nat
      BY <1>5, <2>1, FS_CardinalityType
    <2>5. outstanding' * MAXOPBLOCKS \in Nat
      BY <1>2, Times, LogAssumption DEF LogInv, TypeOK
    <2> QED BY <1>8, <2>1, <2>3, <2>4, <2>5, LogAssumption DEF RoomInv
  <1> QED BY <1>4, <1>5, <1>7, <1>8, <1>9

\* An operation that ends gives its reservation back; what it has logged
\* stays.
LEMMA EndOpCount ==
    ASSUME LogInv, NEW t \in Thread, EndOp(t)
    PROVE  OpInv' /\ ShareInv' /\ RoomInv'
  <1>1. /\ pc[t] = "op" /\ buf[t] = {} /\ outstanding' = outstanding - 1
        /\ wrote' = [wrote EXCEPT ![t] = {}]
        /\ UNCHANGED <<lh, buf, panicked>>
    BY DEF EndOp
  <1>2. Open' = Open \ {t} /\ t \in Open
    BY <1>1 DEF EndOp, Open, LogInv, TypeOK, Woken
  <1>3. /\ IsFiniteSet(Open') /\ outstanding' = Cardinality(Open')
        /\ outstanding' \in Nat /\ outstanding \in Nat
    <2>1. IsFiniteSet(Open) /\ outstanding = Cardinality(Open)
      BY DEF LogInv, OpInv
    <2>2. IsFiniteSet(Open') /\ Cardinality(Open') = Cardinality(Open) - 1
      BY <1>2, <2>1, FS_RemoveElement
    <2>3. Cardinality(Open) \in Nat /\ Cardinality(Open') \in Nat
      BY <2>1, <2>2, FS_CardinalityType
    <2> QED BY <1>1, <2>1, <2>2, <2>3
  <1>4. step = "none" /\ ~committing
    BY <1>1, <1>2 DEF LogInv, OpInv, TypeOK, Step, BootSteps, CommitSteps, Open
  <1>5. OpInv'
    <2>1. committing' => Open' = {}
      <3>1. committing' => outstanding' = 0
        <4>1. outstanding = 1 \/ committing' = committing
          BY DEF EndOp
        <4>2. committing' => outstanding = 1
          BY <1>4, <4>1, Zenon
        <4> QED BY <1>1, <4>2
      <3>2. Cardinality(Open') = 0 => Open' = {}
        BY <1>3, FS_EmptySet
      <3> QED BY <1>3, <3>1, <3>2
    <2>2. (committing' <=> step' \in CommitSteps) /\ step' \notin BootSteps
      BY <1>4 DEF EndOp, CommitSteps, BootSteps
    <2>3. \A u \in Thread : /\ pc'[u] = "op" <=> (pc[u] = "op" /\ u # t)
                            /\ buf'[u] = buf[u]
                            /\ wrote'[u] = IF u = t THEN {} ELSE wrote[u]
      BY <1>1 DEF EndOp, LogInv, TypeOK, Woken
    <2>4. buf[t] = {} /\ IsFiniteSet({}) /\ Cardinality({}) <= MAXOPBLOCKS
      BY <1>1, FS_EmptySet, LogAssumption
    <2>5. ASSUME NEW u \in Thread
          PROVE  /\ pc'[u] # "op" => wrote'[u] = {} /\ buf'[u] = {}
                 /\ buf'[u] # {} => \E b \in Block : buf'[u] = {b}
                 /\ IsFiniteSet(wrote'[u] \cup buf'[u])
                 /\ Cardinality(wrote'[u] \cup buf'[u]) <= MAXOPBLOCKS
      <3>1. CASE u = t
        <4>1. wrote'[u] \cup buf'[u] = {} /\ buf'[u] = {} /\ wrote'[u] = {}
          BY <2>3, <2>4, <3>1
        <4> QED BY <2>4, <4>1
      <3>2. CASE u # t
        BY <2>3, <3>2 DEF LogInv, OpInv
      <3> QED BY <3>1, <3>2
    <2> QED BY <1>3, <2>1, <2>2, <2>5 DEF OpInv
  <1>6. ShareInv'
    <2>1. ASSUME NEW S \in SUBSET Open'
          PROVE  S \in SUBSET Open /\ LoggedBy(S)' = LoggedBy(S)
      BY <1>1, <1>2 DEF LoggedBy, LogInv, TypeOK, Open
    <2> QED BY <2>1 DEF ShareInv, LogInv
  <1>7. RoomInv'
    <2> DEFINE P == {i \in DOMAIN lh : lh[i] \in wrote[t]}
    <2>1. IsFiniteSet(wrote[t]) /\ Cardinality(wrote[t]) <= MAXOPBLOCKS
      BY <1>1, wrote[t] \cup buf[t] = wrote[t] DEF LogInv, OpInv
    <2>2. /\ IsFiniteSet(P) /\ Cardinality(P) \in Nat /\ Cardinality(wrote[t]) \in Nat
          /\ Cardinality(P) <= Cardinality(wrote[t])
      BY <2>1, Positions, FS_CardinalityType DEF LogInv, TypeOK, StageInv
    <2>3. Cardinality(Covered') \in Nat /\ IsFiniteSet(Covered')
      BY <1>1, FewPositions DEF Covered, LogInv, TypeOK
    <2>4. Covered \in SUBSET (Covered' \cup P)
      BY <1>1, <1>2 DEF Covered, LogInv, TypeOK, Open
    <2>5. /\ IsFiniteSet(Covered' \cup P)
          /\ Cardinality(Covered' \cup P) =
                Cardinality(Covered') + Cardinality(P) - Cardinality(Covered' \cap P)
          /\ IsFiniteSet(Covered' \cap P)
      BY <2>2, <2>3, FS_Union, FS_Intersection
    <2>6. /\ Cardinality(Covered) <= Cardinality(Covered' \cup P)
          /\ Cardinality(Covered) \in Nat /\ Cardinality(Covered' \cap P) \in Nat
      BY <2>4, <2>5, FS_Subset, FS_CardinalityType
    <2>7. /\ outstanding * MAXOPBLOCKS = outstanding' * MAXOPBLOCKS + MAXOPBLOCKS
          /\ outstanding' * MAXOPBLOCKS \in Nat
      BY <1>1, <1>3, Times, LogAssumption
    <2> HIDE DEF P
    <2> QED BY <1>1, <2>1, <2>2, <2>3, <2>5, <2>6, <2>7, LogAssumption
            DEF LogInv, RoomInv, TypeOK
  <1> QED BY <1>5, <1>6, <1>7

-----------------------------------------------------------------------------
(* The types, and the steps at which no operation is open.                 *)

LEMMA CommitOpen ==
    ASSUME LogInv, CommitStep
    PROVE  Open = {} /\ outstanding = 0 /\ committing /\ \A t \in Thread : buf[t] = {}
  <1>1. step \in CommitSteps
    BY DEF CommitStep, WriteLog, WriteHead, Install, Erase, CommitDone, CommitSteps
  <1>2. Open = {} /\ outstanding = 0
    BY <1>1, FS_EmptySet DEF LogInv, OpInv
  <1> QED BY <1>1, <1>2 DEF LogInv, OpInv, Open

LEMMA BootOpen ==
    ASSUME LogInv, BootStep
    PROVE  /\ Open = {} /\ outstanding = 0 /\ ~committing /\ ~panicked
           /\ \A t \in Thread : pc[t] = "idle" /\ buf[t] = {}
  <1>1. step \in BootSteps
    BY DEF BootStep, ReadHead, Redo, Clear, BootSteps
  <1>2. Open = {} /\ \A t \in Thread : pc[t] = "idle" /\ buf[t] = {}
    BY <1>1 DEF LogInv, OpInv, Open
  <1>3. outstanding = 0
    BY <1>2, FS_EmptySet DEF LogInv, OpInv
  <1>4. ~committing /\ ~panicked
    BY <1>1 DEF LogInv, OpInv, BootSteps, CommitSteps
  <1> QED BY <1>2, <1>3, <1>4

LEMMA TypeStep ==
    ASSUME LogInv, [Next]_vars
    PROVE  TypeOK'
  <1> USE LogAssumption DEF Step
  <1>1. ASSUME NEW t \in Thread, BeginOp(t) PROVE TypeOK'
    <2>1. pc' \in [Thread -> {"idle", "asleep", "op", "commit"}] /\ outstanding' \in Nat
      BY <1>1 DEF LogInv, TypeOK, BeginOp
    <2> HIDE DEF Step
    <2> QED BY <1>1, <2>1 DEF LogInv, TypeOK, BeginOp, diskvars
  <1>2. ASSUME NEW t \in Thread, NEW b \in Block, NEW v \in Val, Modify(t, b, v) PROVE TypeOK'
    BY <1>2 DEF LogInv, TypeOK, Modify, diskvars
  <1>3. ASSUME NEW t \in Thread, LogWrite(t) PROVE TypeOK'
    <2>1. lh' \in Seq(Block) /\ Len(lh') <= LOGSIZE
      BY <1>3, LogWriteCount
    <2> QED BY <1>3, <2>1 DEF LogInv, TypeOK, LogWrite, diskvars
  <1>4. ASSUME NEW t \in Thread, LogPanic(t) PROVE TypeOK'
    BY <1>4 DEF LogInv, TypeOK, LogPanic, diskvars
  <1>5. ASSUME NEW t \in Thread, EndOp(t) PROVE TypeOK'
    <2>1. outstanding' \in Nat
      BY <1>5 DEF LogInv, TypeOK, EndOp
    <2>2. pc' \in [Thread -> {"idle", "asleep", "op", "commit"}]
      BY <1>5 DEF LogInv, TypeOK, EndOp, Woken
    <2>3. step' \in Step /\ tail' \in 1..LOGSIZE
      BY <1>5 DEF LogInv, TypeOK, EndOp
    <2>4. committing' \in BOOLEAN
      BY <1>5 DEF LogInv, TypeOK, EndOp
    <2>5. wrote' \in [Thread -> SUBSET Block] /\ UNCHANGED <<diskvars, cache, lh, buf, panicked>>
      BY <1>5 DEF LogInv, TypeOK, EndOp
    <2> HIDE DEF Step
    <2> QED BY <2>1, <2>2, <2>3, <2>4, <2>5 DEF LogInv, TypeOK, diskvars
  <1>6. CASE CommitStep
    <2>1. CASE WriteLog
      <3>1. step = "write_log" /\ tail \in DOMAIN lh
        BY <2>1 DEF WriteLog, LogInv, StageInv, TypeOK
      <3>2. cache[lh[tail]] \in Val
        BY <3>1 DEF LogInv, TypeOK
      <3> QED BY <2>1, <3>1, <3>2 DEF LogInv, TypeOK, WriteLog, Advance
    <2>2. CASE WriteHead
      BY <2>2 DEF LogInv, TypeOK, WriteHead
    <2>3. CASE Install
      <3>1. step = "install" /\ tail \in DOMAIN lh
        BY <2>3 DEF Install, LogInv, StageInv, TypeOK
      <3>2. logged[tail] \in Val /\ lh[tail] \in Block
        BY <3>1 DEF LogInv, TypeOK
      <3> QED BY <2>3, <3>1, <3>2 DEF LogInv, TypeOK, Install, Advance
    <2>4. CASE Erase
      BY <2>4 DEF LogInv, TypeOK, Erase
    <2>5. CASE CommitDone
      BY <2>5 DEF LogInv, TypeOK, CommitDone, diskvars, Woken
    <2> QED BY <1>6, <2>1, <2>2, <2>3, <2>4, <2>5 DEF CommitStep
  <1>7. CASE BootStep
    <2>1. CASE ReadHead
      BY <2>1 DEF LogInv, TypeOK, ReadHead, diskvars
    <2>2. CASE Redo
      <3>1. step = "redo" /\ tail \in DOMAIN lh
        BY <2>2 DEF Redo, LogInv, StageInv, TypeOK
      <3>2. logged[tail] \in Val /\ lh[tail] \in Block
        BY <3>1 DEF LogInv, TypeOK
      <3> QED BY <2>2, <3>1, <3>2 DEF LogInv, TypeOK, Redo, Advance
    <2>3. CASE Clear
      BY <2>3 DEF LogInv, TypeOK, Clear
    <2> QED BY <1>7, <2>1, <2>2, <2>3 DEF BootStep
  <1>8. CASE Crash
    <2>1. /\ pc' \in [Thread -> {"idle", "asleep", "op", "commit"}]
          /\ wrote' \in [Thread -> SUBSET Block] /\ buf' \in [Thread -> SUBSET Block]
      BY <1>8 DEF Crash
    <2>2. /\ cache' \in [Block -> Val] /\ lh' \in Seq(Block) /\ Len(lh') <= LOGSIZE
          /\ outstanding' \in Nat
      BY <1>8 DEF LogInv, TypeOK, Crash
    <2>3. step' \in Step /\ tail' \in 1..LOGSIZE
      BY <1>8 DEF Crash
    <2>4. committing' \in BOOLEAN /\ panicked' \in BOOLEAN
      BY <1>8 DEF Crash
    <2> HIDE DEF Step
    <2> QED BY <1>8, <2>1, <2>2, <2>3, <2>4 DEF LogInv, TypeOK, Crash, diskvars
  <1>9. CASE UNCHANGED vars
    BY <1>9 DEF LogInv, TypeOK, vars, diskvars, memvars
  <1> QED BY <1>1, <1>2, <1>3, <1>4, <1>5, <1>6, <1>7, <1>8, <1>9 DEF Next

LEMMA CountStep ==
    ASSUME LogInv, [Next]_vars
    PROVE  OpInv' /\ ShareInv' /\ RoomInv'
  <1>0. TypeOK'
    BY TypeStep
  <1>1. ASSUME NEW t \in Thread, BeginOp(t) \/ LogWrite(t) \/ EndOp(t)
        PROVE  OpInv' /\ ShareInv' /\ RoomInv'
    BY <1>1, BeginOpCount, LogWriteCount, EndOpCount
  <1>2. ASSUME NEW t \in Thread, NEW b \in Block, NEW v \in Val, Modify(t, b, v)
        PROVE  OpInv' /\ ShareInv' /\ RoomInv'
    BY <1>2, ModifyCount
  <1>3. ASSUME NEW t \in Thread, LogPanic(t)
        PROVE  OpInv' /\ ShareInv' /\ RoomInv'
    <2>1. UNCHANGED <<lh, outstanding, committing, pc, wrote, buf, step>> /\ Open' = Open
      BY <1>3 DEF LogPanic, Open
    <2>2. step \notin BootSteps
      BY <1>3 DEF LogPanic, LogInv, OpInv
    <2> QED BY <2>1, <2>2 DEF LogInv, OpInv, ShareInv, RoomInv, LoggedBy, Covered
  <1>4. CASE CommitStep
    <2>1. Open = {} /\ outstanding = 0 /\ committing /\ \A t \in Thread : buf[t] = {}
      BY <1>4, CommitOpen
    <2>2. Open' = {} /\ outstanding' = 0
      BY <1>4, <2>1 DEF CommitStep, WriteLog, WriteHead, Install, Erase, CommitDone, Open, Woken
    <2>3. IsFiniteSet(Open') /\ outstanding' = Cardinality(Open')
      BY <2>2, FS_EmptySet
    <2>4. step' \notin BootSteps /\ (committing' <=> step' \in CommitSteps)
      BY <1>4, <2>1 DEF CommitStep, WriteLog, WriteHead, Install, Erase, CommitDone,
            Advance, BootSteps, CommitSteps
    <2>5. UNCHANGED <<wrote, buf>>
      BY <1>4 DEF CommitStep, WriteLog, WriteHead, Install, Erase, CommitDone
    <2>6. \A t \in Thread : wrote[t] = {} /\ buf[t] = {}
      BY <2>1 DEF LogInv, OpInv, Open
    <2>7. OpInv'
      BY <2>2, <2>3, <2>4, <2>5, <2>6 DEF OpInv, LogInv
    <2> QED BY <1>0, <2>2, <2>7, Quiet
  <1>5. CASE BootStep
    <2>1. /\ Open = {} /\ outstanding = 0 /\ ~committing /\ ~panicked
          /\ \A t \in Thread : pc[t] = "idle" /\ buf[t] = {}
      BY <1>5, BootOpen
    <2>2. UNCHANGED <<pc, outstanding, committing, wrote, buf, panicked>>
      BY <1>5 DEF BootStep, ReadHead, Redo, Clear
    <2>3. Open' = {} /\ outstanding' = 0
      BY <2>1, <2>2 DEF Open
    <2>4. step' \notin CommitSteps
      BY <1>5 DEF BootStep, ReadHead, Redo, Clear, CommitSteps, Advance
    <2>5. OpInv'
      BY <2>1, <2>2, <2>3, <2>4, FS_EmptySet DEF OpInv, LogInv
    <2> QED BY <1>0, <2>3, <2>5, Quiet
  <1>6. CASE Crash
    <2>1. Open' = {} /\ outstanding' = 0
      BY <1>6 DEF Crash, Open
    <2>2. /\ committing' = FALSE /\ step' = "read_head" /\ panicked' = FALSE
          /\ \A t \in Thread : pc'[t] = "idle" /\ wrote'[t] = {} /\ buf'[t] = {}
      BY <1>6 DEF Crash
    <2>3. /\ IsFiniteSet({}) /\ Cardinality({}) = 0 /\ {} \cup {} = {}
          /\ "read_head" \notin CommitSteps
      BY FS_EmptySet DEF CommitSteps
    <2>4. OpInv'
      BY <2>1, <2>2, <2>3, LogAssumption DEF OpInv
    <2> QED BY <1>0, <2>1, <2>4, Quiet
  <1>7. CASE UNCHANGED vars
    BY <1>7 DEF LogInv, OpInv, ShareInv, RoomInv, LoggedBy, Covered, Open, vars, memvars
  <1> QED BY <1>1, <1>2, <1>3, <1>4, <1>5, <1>6, <1>7 DEF Next

-----------------------------------------------------------------------------
(* The stages of commit() and of the recovery.                             *)

LEMMA OpStage ==
    ASSUME LogInv, NEW t \in Thread, pc[t] = "op"
    PROVE  step = "none" /\ head = <<>> /\ t \in Open
  BY DEF LogInv, OpInv, StageInv, TypeOK, Step, BootSteps, CommitSteps, Open

LEMMA OpStages ==
    ASSUME LogInv, NEW t \in Thread,
           BeginOp(t) \/ LogWrite(t) \/ LogPanic(t) \/ EndOp(t)
              \/ \E b \in Block, v \in Val : Modify(t, b, v)
    PROVE  StageInv'
  <1>1. CASE BeginOp(t)
    <2>1. UNCHANGED <<home, logged, head, cache, lh, step, tail>>
      BY <1>1 DEF BeginOp, diskvars
    <2>2. Open' = {} => Open = {}
      BY <1>1 DEF BeginOp, Open, LogInv, TypeOK
    <2> QED BY <2>1, <2>2 DEF LogInv, StageInv, InLogCopy, AtHome
  <1>2. CASE \E b \in Block, v \in Val : Modify(t, b, v)
    <2>1. step = "none" /\ UNCHANGED <<head, lh, pc, step>>
      BY <1>2, OpStage DEF Modify, diskvars
    <2> QED BY <2>1 DEF LogInv, StageInv, Open
  <1>3. CASE LogWrite(t)
    <2>1. /\ step = "none" /\ UNCHANGED <<head, pc, step>> /\ Distinct(lh')
          /\ t \in Open
      BY <1>3, OpStage, LogWriteCount DEF LogWrite, diskvars, LogInv, OpInv
    <2> QED BY <2>1 DEF LogInv, StageInv, Open
  <1>4. CASE LogPanic(t)
    BY <1>4 DEF LogPanic, diskvars, LogInv, StageInv, Open, InLogCopy, AtHome
  <1>5. CASE EndOp(t)
    <2>1. step = "none" /\ head = <<>> /\ UNCHANGED <<head, lh>>
      BY <1>5, OpStage DEF EndOp, diskvars
    <2>2. CASE outstanding > 1
      <3>1. step' = "none"
        BY <1>5, <2>1, <2>2 DEF EndOp
      <3>2. Open' # {}
        <4>1. outstanding' = Cardinality(Open') /\ outstanding' # 0
          <5>1. outstanding' = Cardinality(Open')
            BY <1>5, EndOpCount DEF OpInv
          <5>2. outstanding' = outstanding - 1 /\ outstanding \in Nat
            BY <1>5 DEF EndOp, LogInv, TypeOK
          <5> QED BY <2>2, <5>1, <5>2
        <4> QED BY <4>1, FS_EmptySet
      <3> QED BY <2>1, <3>1, <3>2 DEF LogInv, StageInv
    <2>3. CASE outstanding = 1
      <3>1. /\ step' = IF lh = <<>> THEN "done" ELSE "write_log"
            /\ tail' = 1
        BY <1>5, <2>3 DEF EndOp
      <3>2. lh # <<>> => 1 <= Len(lh)
        BY DEF LogInv, TypeOK
      <3>3. \A i \in DOMAIN lh : ~(i < 1)
        BY DEF LogInv, TypeOK
      <3> QED BY <2>1, <3>1, <3>2, <3>3 DEF LogInv, StageInv, InLogCopy
    <2> QED BY <1>5, <2>2, <2>3 DEF EndOp
  <1> QED BY <1>1, <1>2, <1>3, <1>4, <1>5

LEMMA CommitStages ==
    ASSUME LogInv, CommitStep
    PROVE  StageInv'
  <1>0. Open = {} /\ Len(lh) \in Nat /\ DOMAIN lh = 1..Len(lh) /\ tail \in Nat
    BY CommitOpen DEF LogInv, TypeOK
  <1>1. CASE WriteLog
    <2>1. /\ step = "write_log" /\ UNCHANGED <<home, head, cache, lh, pc>>
          /\ logged' = [logged EXCEPT ![tail] = cache[lh[tail]]]
          /\ tail \in DOMAIN lh /\ tail \in DOMAIN logged
      BY <1>0, <1>1 DEF WriteLog, LogInv, StageInv, TypeOK
    <2>2. \A i \in DOMAIN lh : i < tail + 1 => logged'[i] = cache[lh[i]]
      <3>1. \A i \in DOMAIN lh : i < tail => logged[i] = cache[lh[i]]
        BY <2>1 DEF LogInv, StageInv, InLogCopy
      <3>2. \A i \in DOMAIN lh : i < tail + 1 => i < tail \/ i = tail
        BY <1>0
      <3>3. \A i \in DOMAIN lh : i \in DOMAIN logged
        BY <1>0, LogAssumption DEF LogInv, TypeOK
      <3> QED BY <2>1, <3>1, <3>2, <3>3
    <2>3. CASE tail < Len(lh)
      <3>1. step' = "write_log" /\ tail' = tail + 1 /\ tail' <= Len(lh)
        BY <1>0, <1>1, <2>1, <2>3 DEF WriteLog, Advance
      <3> QED BY <2>1, <2>2, <3>1 DEF LogInv, StageInv, InLogCopy
    <2>4. CASE ~(tail < Len(lh))
      <3>1. step' = "write_head" /\ tail' = 1 /\ tail = Len(lh)
        BY <1>0, <1>1, <2>1, <2>4 DEF WriteLog, Advance
      <3> QED BY <2>1, <2>2, <3>1 DEF LogInv, StageInv, InLogCopy
    <2> QED BY <2>3, <2>4
  <1>2. CASE WriteHead
    <2>1. /\ step = "write_head" /\ step' = "install" /\ head' = lh /\ tail = 1
          /\ UNCHANGED <<home, logged, cache, lh, tail>>
      BY <1>2 DEF WriteHead, LogInv, StageInv
    <2>2. lh # <<>> /\ 1 <= Len(lh) /\ \A i \in DOMAIN lh : ~(i < 1)
      BY <1>0, <2>1 DEF LogInv, StageInv, TypeOK
    <2> QED BY <2>1, <2>2 DEF LogInv, StageInv, InLogCopy, AtHome
  <1>3. CASE Install
    <2>1. /\ step = "install" /\ UNCHANGED <<logged, head, lh, pc>> /\ lh # <<>> /\ head = lh
          /\ home' = [home EXCEPT ![lh[tail]] = logged[tail]]
          /\ cache' = [cache EXCEPT ![lh[tail]] = logged[tail]]
          /\ tail \in DOMAIN lh /\ \A i \in DOMAIN lh : lh[i] \in Block
      BY <1>0, <1>3 DEF Install, LogInv, StageInv, TypeOK
    <2>2. \A i \in DOMAIN lh : i < tail + 1 => home'[lh[i]] = logged[i]
      <3>1. \A i \in DOMAIN lh : i < tail => home[lh[i]] = logged[i]
        BY <2>1 DEF LogInv, StageInv, AtHome
      <3>2. \A i \in DOMAIN lh : i < tail + 1 => i < tail \/ i = tail
        BY <1>0
      <3>3. \A i \in DOMAIN lh : lh[i] = lh[tail] => i = tail
        BY <2>1 DEF LogInv, StageInv, Distinct
      <3> QED BY <2>1, <3>1, <3>2, <3>3 DEF LogInv, TypeOK
    <2>3. \A i \in DOMAIN lh : logged[i] = cache'[lh[i]]
      <3>1. \A i \in DOMAIN lh : logged[i] = cache[lh[i]]
        BY <1>0, <2>1 DEF LogInv, StageInv, InLogCopy
      <3>2. \A i \in DOMAIN lh : lh[i] = lh[tail] => i = tail
        BY <2>1 DEF LogInv, StageInv, Distinct
      <3> QED BY <2>1, <3>1, <3>2 DEF LogInv, TypeOK
    <2>4. CASE tail < Len(lh)
      <3>1. step' = "install" /\ tail' = tail + 1 /\ tail' <= Len(lh)
        BY <1>0, <1>3, <2>1, <2>4 DEF Install, Advance
      <3> QED BY <2>1, <2>2, <2>3, <3>1 DEF LogInv, StageInv, InLogCopy, AtHome
    <2>5. CASE ~(tail < Len(lh))
      <3>1. step' = "erase" /\ tail' = 1 /\ tail = Len(lh)
        <4>1. tail = Len(lh)
          <5>1. tail \in 1..Len(lh)
            BY <1>0, <2>1
          <5>2. tail <= Len(lh) /\ tail \in Nat /\ Len(lh) \in Nat
            BY <1>0, <5>1
          <5> QED BY <2>5, <5>2
        <4> QED BY <1>3, <2>5, <4>1 DEF Install, Advance
      <3> QED BY <2>1, <2>2, <2>3, <3>1 DEF LogInv, StageInv, InLogCopy, AtHome
    <2> QED BY <2>4, <2>5
  <1>4. CASE Erase
    BY <1>4 DEF Erase, LogInv, StageInv, Distinct
  <1>5. CASE CommitDone
    BY <1>5 DEF CommitDone, LogInv, StageInv, diskvars
  <1> QED BY <1>1, <1>2, <1>3, <1>4, <1>5 DEF CommitStep

LEMMA BootStages ==
    ASSUME LogInv, BootStep \/ Crash
    PROVE  StageInv'
  <1>0. /\ Len(lh) \in Nat /\ DOMAIN lh = 1..Len(lh) /\ tail \in Nat
        /\ Len(head) \in Nat /\ DOMAIN head = 1..Len(head)
    BY DEF LogInv, TypeOK
  <1>1. CASE ReadHead
    <2>1. /\ step = "read_head" /\ tail = 1 /\ lh' = head
          /\ step' = IF head = <<>> THEN "clear" ELSE "redo"
          /\ UNCHANGED <<home, logged, head, cache, tail>>
      BY <1>1 DEF ReadHead, LogInv, StageInv, diskvars
    <2>2. (head # <<>> => 1 <= Len(head)) /\ \A i \in DOMAIN head : ~(i < 1)
      BY <1>0 DEF LogInv, TypeOK
    <2> QED BY <2>1, <2>2 DEF LogInv, StageInv, AtHome
  <1>2. CASE Redo
    <2>1. /\ step = "redo" /\ UNCHANGED <<logged, head, lh, pc>> /\ lh # <<>> /\ head = lh
          /\ home' = [home EXCEPT ![lh[tail]] = logged[tail]]
          /\ tail \in DOMAIN lh /\ \A i \in DOMAIN lh : lh[i] \in Block
      BY <1>0, <1>2 DEF Redo, LogInv, StageInv, TypeOK
    <2>2. \A i \in DOMAIN lh : i < tail + 1 => home'[lh[i]] = logged[i]
      <3>1. \A i \in DOMAIN lh : i < tail => home[lh[i]] = logged[i]
        BY <2>1 DEF LogInv, StageInv, AtHome
      <3>2. \A i \in DOMAIN lh : i < tail + 1 => i < tail \/ i = tail
        BY <1>0
      <3>3. \A i \in DOMAIN lh : lh[i] = lh[tail] => i = tail
        BY <2>1 DEF LogInv, StageInv, Distinct
      <3> QED BY <2>1, <3>1, <3>2, <3>3 DEF LogInv, TypeOK
    <2>3. CASE tail < Len(lh)
      <3>1. step' = "redo" /\ tail' = tail + 1 /\ tail' <= Len(lh)
        BY <1>0, <1>2, <2>1, <2>3 DEF Redo, Advance
      <3> QED BY <2>1, <2>2, <3>1 DEF LogInv, StageInv, AtHome
    <2>4. CASE ~(tail < Len(lh))
      <3>1. step' = "clear" /\ tail' = 1 /\ tail = Len(lh)
        <4>1. tail = Len(lh)
          <5>1. tail \in 1..Len(lh)
            BY <1>0, <2>1
          <5>2. tail <= Len(lh) /\ tail \in Nat /\ Len(lh) \in Nat
            BY <1>0, <5>1
          <5> QED BY <2>4, <5>2
        <4> QED BY <1>2, <2>4, <4>1 DEF Redo, Advance
      <3> QED BY <2>1, <2>2, <3>1 DEF LogInv, StageInv, AtHome
    <2> QED BY <2>3, <2>4
  <1>3. CASE Clear
    BY <1>3 DEF Clear, LogInv, StageInv, Distinct
  <1>4. CASE Crash
    BY <1>4 DEF Crash, LogInv, StageInv, Distinct, diskvars
  <1> QED BY <1>1, <1>2, <1>3, <1>4 DEF BootStep

LEMMA StageStep ==
    ASSUME LogInv, [Next]_vars
    PROVE  StageInv'
  <1>1. CASE UNCHANGED vars
    BY <1>1 DEF LogInv, StageInv, InLogCopy, AtHome, Open, vars, diskvars, memvars
  <1> QED BY <1>1, OpStages, CommitStages, BootStages DEF Next

LEMMA CacheStep ==
    ASSUME LogInv, [Next]_vars
    PROVE  CacheInv'
  <1>0. CacheInv /\ TypeOK
    BY DEF LogInv
  <1>1. ASSUME NEW t \in Thread, BeginOp(t) \/ LogPanic(t) PROVE CacheInv'
    BY <1>0, <1>1 DEF BeginOp, LogPanic, diskvars, CacheInv, InLog
  <1>2. ASSUME NEW t \in Thread, NEW b \in Block, NEW v \in Val, Modify(t, b, v)
        PROVE  CacheInv'
    <2>1. step' = "none" /\ UNCHANGED <<home, lh>>
      BY <1>2, OpStage DEF Modify, diskvars
    <2>2. ASSUME NEW n \in Block, cache'[n] # home[n]
          PROVE  InLog(n) \/ \E u \in Thread : n \in buf'[u]
      <3>1. CASE n = b
        BY <1>0, <1>2, <3>1 DEF Modify, TypeOK
      <3>2. CASE n # b
        <4>1. cache'[n] = cache[n] /\ \A u \in Thread : n \in buf[u] => n \in buf'[u]
          BY <1>0, <1>2, <3>2 DEF Modify, TypeOK
        <4> QED BY <1>0, <2>2, <4>1 DEF CacheInv
      <3> QED BY <3>1, <3>2
    <2> QED BY <2>1, <2>2 DEF CacheInv, InLog, BootSteps
  <1>3. ASSUME NEW t \in Thread, LogWrite(t) PROVE CacheInv'
    <2>1. PICK b \in Block : buf[t] = {b}
      BY <1>3 DEF LogWrite, LogInv, OpInv
    <2>2. /\ step' = "none" /\ UNCHANGED <<home, cache>>
          /\ lh' = IF InLog(b) THEN lh ELSE Append(lh, b)
          /\ buf' = [buf EXCEPT ![t] = {}]
      BY <1>3, <2>1, OpStage DEF LogWrite, diskvars, LogInv, OpInv
    <2>3. \A n \in Block : InLog(n) \/ n = b => \E i \in DOMAIN lh' : lh'[i] = n
      <3>1. CASE InLog(b)
        BY <2>2, <3>1 DEF InLog
      <3>2. CASE ~InLog(b)
        <4>1. /\ DOMAIN lh' = DOMAIN lh \cup {Len(lh) + 1}
              /\ lh'[Len(lh) + 1] = b /\ \A i \in DOMAIN lh : lh'[i] = lh[i]
          BY <1>0, <2>2, <3>2 DEF TypeOK
        <4> QED BY <4>1 DEF InLog
      <3> QED BY <3>1, <3>2
    <2>4. \A n \in Block, u \in Thread : n \in buf[u] => n = b \/ n \in buf'[u]
      BY <1>0, <2>1, <2>2 DEF TypeOK
    <2>5. \A n \in Block : cache'[n] # home'[n] =>
             (\E i \in DOMAIN lh' : lh'[i] = n) \/ \E u \in Thread : n \in buf'[u]
      BY <1>0, <2>2, <2>3, <2>4 DEF CacheInv
    <2> QED BY <2>2, <2>5 DEF CacheInv, InLog, BootSteps
  <1>4. ASSUME NEW t \in Thread, EndOp(t) PROVE CacheInv'
    <2>1. step' \notin BootSteps /\ UNCHANGED <<home, cache, lh, buf>>
      BY <1>4, OpStage DEF EndOp, diskvars, BootSteps
    <2> QED BY <1>0, <2>1 DEF CacheInv, InLog
  <1>5. CASE CommitStep
    <2>1. step' \notin BootSteps /\ \A u \in Thread : buf[u] = {}
      BY <1>5, CommitOpen
         DEF CommitStep, WriteLog, WriteHead, Install, Erase, CommitDone, Advance, BootSteps
    <2>2. CASE WriteLog \/ WriteHead \/ CommitDone
      BY <1>0, <2>1, <2>2 DEF WriteLog, WriteHead, CommitDone, diskvars, CacheInv, InLog
    <2>3. CASE Install
      <3>1. \A n \in Block : cache'[n] # home'[n] => cache[n] # home[n]
        BY <1>0, <2>3 DEF Install, TypeOK
      <3>2. UNCHANGED <<lh, buf>>
        BY <2>3 DEF Install
      <3> QED BY <1>0, <2>1, <3>1, <3>2 DEF CacheInv, InLog
    <2>4. CASE Erase
      <3>1. step = "erase" /\ UNCHANGED <<home, cache, buf>>
        BY <2>4 DEF Erase
      <3>2. \A i \in DOMAIN lh : cache[lh[i]] = home[lh[i]]
        <4>1. \A i \in DOMAIN lh : i < Len(lh) + 1
          BY <1>0 DEF TypeOK
        <4> QED BY <3>1, <4>1 DEF LogInv, StageInv, InLogCopy, AtHome
      <3>3. \A n \in Block : cache[n] = home[n]
        BY <1>0, <2>1, <3>2 DEF CacheInv, InLog
      <3> QED BY <2>1, <3>1, <3>3 DEF CacheInv
    <2> QED BY <1>5, <2>2, <2>3, <2>4 DEF CommitStep
  <1>6. CASE BootStep \/ Crash
    <2>1. cache' = home'
      <3>1. CASE ReadHead \/ Clear
        BY <1>0, <3>1 DEF ReadHead, Clear, diskvars, CacheInv, BootSteps
      <3>2. CASE Redo
        BY <1>0, <3>2 DEF Redo, CacheInv, BootSteps
      <3>3. CASE Crash
        BY <3>3 DEF Crash, diskvars
      <3> QED BY <1>6, <3>1, <3>2, <3>3 DEF BootStep
    <2> QED BY <2>1 DEF CacheInv
  <1>7. CASE UNCHANGED vars
    BY <1>0, <1>7 DEF CacheInv, InLog, vars, diskvars, memvars
  <1> QED BY <1>1, <1>2, <1>3, <1>4, <1>5, <1>6, <1>7 DEF Next

-----------------------------------------------------------------------------
\* The invariant of log.c: the operations stay within their reservation, and
\* the cache, the log and the disk agree at every stage of commit() and of
\* recover_from_log(), whatever the threads do and whenever the machine stops.
THEOREM Invariance == Spec => []LogInv
  <1>1. Init => LogInv
    <2> SUFFICES ASSUME Init PROVE LogInv
      OBVIOUS
    <2> USE LogAssumption
    <2>1. TypeOK
      <3>1. logged \in [1..LOGSIZE -> Val] /\ tail \in 1..LOGSIZE
        BY DEF Init
      <3>2. /\ home \in [Block -> Val] /\ cache \in [Block -> Val]
            /\ pc \in [Thread -> {"idle", "asleep", "op", "commit"}]
            /\ wrote \in [Thread -> SUBSET Block] /\ buf \in [Thread -> SUBSET Block]
        BY DEF Init
      <3>3. committing \in BOOLEAN /\ panicked \in BOOLEAN
        BY DEF Init
      <3>4. /\ head \in Seq(Block) /\ lh \in Seq(Block)
            /\ Len(head) <= LOGSIZE /\ Len(lh) <= LOGSIZE
            /\ outstanding \in Nat /\ step \in Step
        BY DEF Init, Step
      <3> QED BY <3>1, <3>2, <3>3, <3>4 DEF TypeOK
    <2>2. Open = {} /\ lh = <<>>
      BY DEF Init, Open
    <2>3. OpInv
      <3>1. IsFiniteSet({}) /\ Cardinality({}) = 0 /\ {} \cup {} = {}
        BY FS_EmptySet
      <3>2. \A t \in Thread : pc[t] = "idle" /\ wrote[t] = {} /\ buf[t] = {}
        BY DEF Init
      <3>3. /\ step = "read_head" /\ committing = FALSE /\ panicked = FALSE
            /\ outstanding = 0 /\ "read_head" \notin CommitSteps
        BY DEF Init, CommitSteps
      <3>4. 0 <= MAXOPBLOCKS
        OBVIOUS
      <3>5. ~committing /\ ~panicked
        BY <3>3
      <3>6. \A t \in Thread : IsFiniteSet(wrote[t] \cup buf[t])
                                 /\ Cardinality(wrote[t] \cup buf[t]) = 0
        BY <3>1, <3>2
      <3> QED BY <2>2, <3>1, <3>2, <3>3, <3>4, <3>5, <3>6 DEF OpInv
    <2>4. ShareInv
      <3>1. ASSUME NEW S \in SUBSET Open
            PROVE  /\ IsFiniteSet(LoggedBy(S))
                   /\ Cardinality(LoggedBy(S)) <= Cardinality(S) * MAXOPBLOCKS
        <4>1. S = {} /\ LoggedBy(S) = {}
          BY <2>2 DEF LoggedBy
        <4> QED BY <4>1, FS_EmptySet
      <3> QED BY <3>1 DEF ShareInv
    <2>5. RoomInv
      <3>1. Covered = {}
        BY <2>2 DEF Covered
      <3> QED BY <2>2, <3>1, FS_EmptySet DEF RoomInv, Init
    <2>6. StageInv /\ CacheInv
      BY DEF Init, StageInv, CacheInv, Distinct
    <2> QED BY <2>1, <2>3, <2>4, <2>5, <2>6 DEF LogInv
  <1>2. LogInv /\ [Next]_vars => LogInv'
    BY TypeStep, CountStep, StageStep, CacheStep DEF LogInv
  <1> QED BY <1>1, <1>2, PTL DEF Spec

\* begin_op() lets an operation in only when everything that the open operations
\* may still log has room in the header, LOGSIZE entries, and log.outstanding
\* counts exactly the operations that have begun and not ended.
THEOREM ReservationHolds == Spec => []Reserved
  <1>1. LogInv => Reserved
    BY DEF LogInv, OpInv, RoomInv, Covered, Reserved
  <1> QED BY <1>1, Invariance, PTL

\* The variables of the log keep their types; in particular log.lh never has
\* more than LOGSIZE entries.
THEOREM TypeCorrect == Spec => []TypeOK
  <1>1. LogInv => TypeOK
    BY DEF LogInv
  <1> QED BY <1>1, Invariance, PTL

\* Whoever sleeps in begin_op() has an operation or a commit() to wait for,
\* whose end calls wakeup(&log): the reservation never refuses the only
\* operation of the system.
THEOREM NoBeginIsLost == Spec => []NoLostWakeup
  <1>1. Init => NoLostWakeup
    BY DEF Init, NoLostWakeup
  <1>2. LogInv /\ NoLostWakeup /\ [Next]_vars => NoLostWakeup'
    <2> SUFFICES ASSUME LogInv, NoLostWakeup, [Next]_vars, NEW t \in Thread, pc'[t] = "asleep"
                 PROVE  committing' \/ outstanding' > 0
      BY DEF NoLostWakeup
    <2> USE DEF LogInv, TypeOK
    <2>1. ASSUME NEW u \in Thread, BeginOp(u) PROVE committing' \/ outstanding' > 0
      <3>1. CASE committing \/ outstanding > 0
        BY <2>1, <3>1 DEF BeginOp
      <3>2. CASE ~(committing \/ outstanding > 0)
        <4>1. outstanding = 0 /\ Open = {} /\ step = "none"
          <5>1. outstanding = 0
            BY <3>2
          <5>2. Open = {}
            BY <5>1, FS_EmptySet DEF OpInv
          <5>3. step = "none"
            BY <2>1, <3>2 DEF BeginOp, OpInv, Step, CommitSteps
          <5> QED BY <5>1, <5>2, <5>3
        <4>2. Len(lh) = 0
          BY <4>1 DEF StageInv
        <4>3. ~NoRoom
          BY <4>1, <4>2, LogAssumption DEF NoRoom
        <4>4. outstanding' = outstanding + 1
          BY <2>1, <3>2, <4>3 DEF BeginOp
        <4> QED BY <4>1, <4>4
      <3> QED BY <3>1, <3>2
    <2>2. ASSUME NEW u \in Thread, EndOp(u) PROVE committing' \/ outstanding' > 0
      BY <2>2 DEF EndOp
    <2>3. ASSUME NEW u \in Thread, LogWrite(u) \/ LogPanic(u) PROVE committing' \/ outstanding' > 0
      BY <2>3 DEF LogWrite, LogPanic, NoLostWakeup
    <2>4. ASSUME NEW u \in Thread, NEW b \in Block, NEW v \in Val, Modify(u, b, v)
          PROVE  committing' \/ outstanding' > 0
      BY <2>4 DEF Modify, NoLostWakeup
    <2>5. CASE CommitStep
      <3>1. ~CommitDone
        BY DEF CommitDone, Woken
      <3> QED BY <2>5, <3>1 DEF CommitStep, WriteLog, WriteHead, Install, Erase, NoLostWakeup
    <2>6. CASE BootStep
      BY <2>6, BootOpen DEF BootStep, ReadHead, Redo, Clear
    <2>7. CASE Crash
      BY <2>7 DEF Crash
    <2>8. CASE UNCHANGED vars
      BY <2>8 DEF vars, memvars, NoLostWakeup
    <2> QED BY <2>1, <2>2, <2>3, <2>4, <2>5, <2>6, <2>7, <2>8 DEF Next
  <1> QED BY <1>1, <1>2, Invariance, PTL DEF Spec

-----------------------------------------------------------------------------
(* The refinement of AtomicDisk.                                           *)

\* What the recovery makes of a header h, the blocks g of the log and the
\* blocks m in their places.
Redone(h, g, m) ==
    [b \in Block |-> IF \E i \in DOMAIN h : h[i] = b
                     THEN g[CHOOSE i \in DOMAIN h : h[i] = b]
                     ELSE m[b]]

LEMMA RedoneValue ==
    ASSUME NEW h \in Seq(Block), Distinct(h), NEW g, NEW m
    PROVE  /\ \A i \in DOMAIN h : Redone(h, g, m)[h[i]] = g[i]
           /\ \A b \in Block : (\A i \in DOMAIN h : h[i] # b) => Redone(h, g, m)[b] = m[b]
  <1>1. ASSUME NEW i \in DOMAIN h PROVE Redone(h, g, m)[h[i]] = g[i]
    <2>1. h[i] \in Block
      BY <1>1
    <2>2. (CHOOSE j \in DOMAIN h : h[j] = h[i]) = i
      BY <1>1 DEF Distinct
    <2> QED BY <1>1, <2>1, <2>2 DEF Redone
  <1> QED BY <1>1 DEF Redone

LEMMA DurableRedone == Durable = Redone(head, logged, home) /\ Durable' = Redone(head', logged', home')
  BY DEF Durable, Redone

\* With every block of the log in its place, the header may go.
LEMMA RedoneDone ==
    ASSUME NEW h \in Seq(Block), Distinct(h), NEW g, NEW m \in [Block -> Val],
           \A i \in DOMAIN h : m[h[i]] = g[i]
    PROVE  Redone(h, g, m) = m /\ Redone(<<>>, g, m) = m
  <1>1. \A b \in Block : Redone(h, g, m)[b] = m[b]
    BY RedoneValue
  <1>2. \A b \in Block : Redone(<<>>, g, m)[b] = m[b]
    BY DEF Redone
  <1>3. Redone(h, g, m) = [b \in Block |-> Redone(h, g, m)[b]]
    BY DEF Redone
  <1>4. Redone(<<>>, g, m) = [b \in Block |-> Redone(<<>>, g, m)[b]]
    BY DEF Redone
  <1>5. m = [b \in Block |-> m[b]]
    OBVIOUS
  <1> HIDE DEF Redone
  <1> QED BY <1>1, <1>2, <1>3, <1>4, <1>5

\* The commit: every block of the header is in the log, the others are in
\* their places.
LEMMA RedoneCommit ==
    ASSUME NEW h \in Seq(Block), Distinct(h), NEW g, NEW m, NEW c \in [Block -> Val],
           \A i \in DOMAIN h : g[i] = c[h[i]],
           \A b \in Block : (\A i \in DOMAIN h : h[i] # b) => m[b] = c[b]
    PROVE  Redone(h, g, m) = c
  <1>1. \A b \in Block : Redone(h, g, m)[b] = c[b]
    BY RedoneValue
  <1>2. Redone(h, g, m) = [b \in Block |-> Redone(h, g, m)[b]]
    BY DEF Redone
  <1>3. c = [b \in Block |-> c[b]]
    OBVIOUS
  <1> HIDE DEF Redone
  <1> QED BY <1>1, <1>2, <1>3

LEMMA SameDurable ==
    ASSUME UNCHANGED <<head, logged>>,
           \A b \in Block : (\A i \in DOMAIN head : head[i] # b) => home'[b] = home[b]
    PROVE  Durable' = Durable
  BY DEF Durable

LEMMA CommitDurable ==
    ASSUME lh \in Seq(Block), Distinct(lh), cache \in [Block -> Val],
           head' = lh, UNCHANGED <<home, logged>>,
           \A i \in DOMAIN lh : logged[i] = cache[lh[i]],
           \A b \in Block : (\A i \in DOMAIN lh : lh[i] # b) => home[b] = cache[b]
    PROVE  Durable' = cache
  <1>1. Redone(lh, logged, home) = cache
    BY RedoneCommit
  <1> QED BY <1>1, DurableRedone

LEMMA DoneDurable ==
    ASSUME LogInv, head' = <<>>, UNCHANGED <<home, logged>>,
           \A i \in DOMAIN head : home[head[i]] = logged[i]
    PROVE  Durable' = Durable /\ Durable = home
  <1>1. head \in Seq(Block) /\ home \in [Block -> Val] /\ Distinct(head)
    BY DEF LogInv, TypeOK, StageInv
  <1>2. Redone(head, logged, home) = home /\ Redone(<<>>, logged, home) = home
    BY <1>1, RedoneDone
  <1> QED BY <1>2, DurableRedone

LEMMA InstallDurable ==
    ASSUME LogInv, head = lh, tail \in DOMAIN lh, UNCHANGED <<head, logged>>,
           home' = [home EXCEPT ![lh[tail]] = logged[tail]]
    PROVE  Durable' = Durable
  <1>1. head \in Seq(Block) /\ home \in [Block -> Val] /\ Distinct(head)
    BY DEF LogInv, TypeOK, StageInv
  <1>2. \A b \in Block : (\A i \in DOMAIN head : head[i] # b) => home'[b] = home[b]
    BY <1>1
  <1> QED BY <1>2, SameDurable

LEMMA OpRefines ==
    ASSUME LogInv, NEW t \in Thread,
           BeginOp(t) \/ LogWrite(t) \/ LogPanic(t) \/ EndOp(t)
    PROVE  [AD!ANext]_AD!avars
  <1> USE DEF LogInv, TypeOK
  <1>0. step \notin BootSteps /\ step' \notin BootSteps
    BY OpStage DEF BeginOp, LogWrite, LogPanic, EndOp, BootSteps, OpInv
  <1>1. UNCHANGED <<home, logged, head, cache>>
    BY DEF BeginOp, LogWrite, LogPanic, EndOp, diskvars
  <1>2. Durable' = Durable /\ Seen' = Seen
    BY <1>0, <1>1 DEF Durable, Seen, BootSteps
  <1>3. CASE BeginOp(t)
    <2>1. CASE Open' = Open
      BY <1>2, <2>1 DEF AD!avars
    <2>2. CASE Open' # Open
      <3>1. t \notin Open /\ Open' = Open \cup {t}
        BY <1>3, <2>2 DEF BeginOp, Open
      <3> QED BY <1>2, <3>1 DEF AD!ANext, AD!Begin
    <2> QED BY <2>1, <2>2
  <1>4. CASE LogWrite(t) \/ LogPanic(t)
    <2>1. Open' = Open
      BY <1>4 DEF LogWrite, LogPanic, Open
    <2> QED BY <1>2, <2>1 DEF AD!avars
  <1>5. CASE EndOp(t)
    <2>1. t \in Open /\ Open' = Open \ {t}
      BY <1>5 DEF EndOp, Open, Woken
    <2> QED BY <1>2, <2>1 DEF AD!ANext, AD!End
  <1> QED BY <1>3, <1>4, <1>5

LEMMA ModifyRefines ==
    ASSUME LogInv, NEW t \in Thread, NEW b \in Block, NEW v \in Val, Modify(t, b, v)
    PROVE  AD!ANext
  <1>1. step = "none" /\ t \in Open
    BY OpStage DEF Modify
  <1>2. /\ UNCHANGED <<home, logged, head, step, pc>>
        /\ cache' = [cache EXCEPT ![b] = v]
    BY DEF Modify, diskvars
  <1>3. Open' = Open /\ Durable' = Durable
    BY <1>2 DEF Open, Durable
  <1>4. Seen = cache /\ Seen' = cache'
    BY <1>1, <1>2 DEF Seen
  <1>5. AD!Write(t, b, v)
    BY <1>1, <1>2, <1>3, <1>4 DEF AD!Write
  <1> QED BY <1>5 DEF AD!ANext

\* write_head() is the commit, every other write of commit() is invisible.
LEMMA CommitRefines ==
    ASSUME LogInv, CommitStep
    PROVE  [AD!ANext]_AD!avars
  <1> USE DEF LogInv, TypeOK
  <1>0. /\ step \notin BootSteps /\ step' \notin BootSteps
        /\ Seen = cache /\ Seen' = cache'
    BY DEF CommitStep, WriteLog, WriteHead, Install, Erase, CommitDone, Advance, BootSteps, Seen
  <1>1. /\ Open = {} /\ Open' = {} /\ \A t \in Thread : buf[t] = {}
    BY CommitOpen
       DEF CommitStep, WriteLog, WriteHead, Install, Erase, CommitDone, Open, Woken
  <1>2. Distinct(lh) /\ Distinct(head) /\ \A i \in DOMAIN lh : i < Len(lh) + 1
    BY DEF StageInv
  <1>3. CASE WriteLog
    <2>1. cache' = cache /\ head = <<>> /\ head' = <<>> /\ home' = home
      BY <1>3 DEF WriteLog, StageInv
    <2>2. Durable' = Durable
      BY <2>1 DEF Durable
    <2> QED BY <1>0, <1>1, <2>1, <2>2 DEF AD!avars
  <1>4. CASE WriteHead
    <2>1. /\ step = "write_head" /\ head' = lh /\ UNCHANGED <<home, logged, cache, lh>>
      BY <1>4 DEF WriteHead
    <2>2. \A i \in DOMAIN lh : logged[i] = cache[lh[i]]
      BY <1>2, <2>1 DEF StageInv, InLogCopy
    <2>4. \A b \in Block : (\A i \in DOMAIN lh : lh[i] # b) => home[b] = cache[b]
      BY <1>1 DEF CacheInv, InLog
    <2>5. lh \in Seq(Block) /\ cache \in [Block -> Val]
      OBVIOUS
    <2>7. Durable' = cache
      BY <1>2, <2>1, <2>2, <2>4, <2>5, CommitDurable
    <2>8. AD!Commit
      BY <1>0, <1>1, <2>1, <2>7 DEF AD!Commit
    <2> QED BY <2>8 DEF AD!ANext
  <1>5. CASE Install
    <2>1. /\ step = "install" /\ head = lh /\ UNCHANGED <<logged, head>>
          /\ home' = [home EXCEPT ![lh[tail]] = logged[tail]]
          /\ cache' = [cache EXCEPT ![lh[tail]] = logged[tail]]
          /\ tail \in DOMAIN lh
      BY <1>5 DEF Install, StageInv
    <2>2. logged[tail] = cache[lh[tail]]
      BY <1>2, <2>1 DEF StageInv, InLogCopy
    <2>3. cache' = cache
      BY <2>1, <2>2
    <2>4. Durable' = Durable
      BY <2>1, InstallDurable
    <2> QED BY <1>0, <1>1, <2>3, <2>4 DEF AD!avars
  <1>6. CASE Erase
    <2>1. /\ step = "erase" /\ head = lh /\ head' = <<>> /\ UNCHANGED <<home, logged, cache>>
      BY <1>6 DEF Erase, StageInv
    <2>2. \A i \in DOMAIN head : home[head[i]] = logged[i]
      BY <1>2, <2>1 DEF StageInv, AtHome
    <2>3. Durable' = Durable
      BY <2>1, <2>2, DoneDurable
    <2> QED BY <1>0, <1>1, <2>1, <2>3 DEF AD!avars
  <1>7. CASE CommitDone
    <2>1. UNCHANGED <<home, logged, head, cache>>
      BY <1>7 DEF CommitDone, diskvars
    <2>2. Durable' = Durable
      BY <2>1 DEF Durable
    <2> QED BY <1>0, <1>1, <2>1, <2>2 DEF AD!avars
  <1> QED BY <1>3, <1>4, <1>5, <1>6, <1>7 DEF CommitStep

\* The recovery, also one that a crash cuts short, changes nothing.
LEMMA BootRefines ==
    ASSUME LogInv, BootStep
    PROVE  [AD!ANext]_AD!avars
  <1> USE DEF LogInv, TypeOK
  <1>0. step \in BootSteps /\ Seen = Durable
    BY DEF BootStep, ReadHead, Redo, Clear, BootSteps, Seen
  <1>1. Open' = Open
    BY DEF BootStep, ReadHead, Redo, Clear, Open
  <1>2. Distinct(head) /\ Distinct(lh) /\ \A i \in DOMAIN lh : i < Len(lh) + 1
    BY DEF StageInv
  <1>3. CASE ReadHead
    <2>1. UNCHANGED <<home, logged, head>> /\ step' \in BootSteps
      BY <1>3 DEF ReadHead, diskvars, BootSteps
    <2>2. Durable' = Durable /\ Seen' = Durable'
      BY <2>1 DEF Durable, Seen, BootSteps
    <2> QED BY <1>0, <1>1, <2>2 DEF AD!avars
  <1>4. CASE Redo
    <2>1. /\ step = "redo" /\ head = lh /\ UNCHANGED <<logged, head>>
          /\ home' = [home EXCEPT ![lh[tail]] = logged[tail]]
          /\ tail \in DOMAIN lh /\ step' \in BootSteps
      BY <1>4 DEF Redo, StageInv, Advance, BootSteps
    <2>2. Durable' = Durable
      BY <2>1, InstallDurable
    <2>3. Seen' = Durable'
      BY <2>1 DEF Seen, BootSteps
    <2> QED BY <1>0, <1>1, <2>2, <2>3 DEF AD!avars
  <1>5. CASE Clear
    <2>1. /\ step = "clear" /\ head = lh /\ head' = <<>> /\ UNCHANGED <<home, logged, cache>>
          /\ step' = "none"
      BY <1>5 DEF Clear, StageInv
    <2>2. \A i \in DOMAIN head : home[head[i]] = logged[i]
      BY <1>2, <2>1 DEF StageInv, AtHome
    <2>3. Durable' = Durable /\ Durable = home
      BY <2>1, <2>2, DoneDurable
    <2>4. Seen' = home
      BY <1>0, <2>1 DEF Seen, CacheInv
    <2> QED BY <1>0, <1>1, <2>3, <2>4 DEF AD!avars
  <1> QED BY <1>3, <1>4, <1>5 DEF BootStep

LEMMA CrashRefines ==
    ASSUME Crash
    PROVE  AD!ANext
  <1>1. Open' = {} /\ Durable' = Durable /\ Seen' = Durable'
    BY DEF Crash, Open, Durable, Seen, diskvars
  <1>2. AD!Crash
    BY <1>1 DEF AD!Crash
  <1> QED BY <1>2 DEF AD!ANext

\* The log implements the atomic disk: the durable contents change only at
\* write_head(), to what the ended operations have written, and a crash, at
\* any write of any block, during commit() or during the recovery from an
\* earlier crash, brings back those contents.
THEOREM LogIsAtomic == Spec => CrashAtomic
  <1>1. Init => AD!AInit
    <2> SUFFICES ASSUME Init PROVE AD!AInit
      OBVIOUS
    <2>1. Durable = home
      BY DEF Init, Durable
    <2>2. Seen = Durable /\ Open = {} /\ home \in [Block -> Val]
      BY DEF Init, Seen, Open
    <2> QED BY <2>1, <2>2 DEF AD!AInit
  <1>2. LogInv /\ [Next]_vars => [AD!ANext]_AD!avars
    <2> SUFFICES ASSUME LogInv, [Next]_vars PROVE [AD!ANext]_AD!avars
      OBVIOUS
    <2>1. CASE UNCHANGED vars
      <3>1. UNCHANGED <<home, logged, head, cache, step, pc>>
        BY <2>1 DEF vars, diskvars, memvars
      <3>2. Durable' = Durable /\ Seen' = Seen /\ Open' = Open
        BY <3>1 DEF Durable, Seen, Open
      <3> QED BY <3>2 DEF AD!avars
    <2> QED BY <2>1, OpRefines, ModifyRefines, CommitRefines, BootRefines, CrashRefines DEF Next
  <1> QED BY <1>1, <1>2, Invariance, PTL DEF Spec, CrashAtomic, AD!ASpec
=============================================================================
