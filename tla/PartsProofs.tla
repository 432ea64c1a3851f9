---------------------------- MODULE PartsProofs -----------------------------
(***************************************************************************)
(* Proofs about the scheduler log, the spin locks, the streams of          *)
(* characters (a pipe, the console, the keyboard) and the message queues,  *)
(* for any number of processors, threads, containers and processes and any *)
(* size of the buffers.                                                    *)
(***************************************************************************)
EXTENDS Pipe, Console, Keyboard, SchedLog, SpinLock, MsgQueue, Integers,
        SequenceTheorems, FiniteSetTheorems, TLAPS

-----------------------------------------------------------------------------
(* The scheduler log.  One session has three parts: before the manager     *)
(* turns the log on nothing is marked and nobody tests a flag; while it is *)
(* on a container is done only if all its entries are marked; when it is   *)
(* off again all are marked, whatever the flags say by then.               *)

SlogTypes ==
    /\ scheduler_log \in {0, 1} /\ scheduler_history \in Nat
    /\ schedulerHelper \subseteq Worker /\ marked \subseteq Worker /\ contDone \subseteq Cont
    /\ cntNum \in [Core -> 0..NCONTS]
    /\ turn \in [Core -> {"pick", "dispatch", "run", "test", "check", "end", "all", "off",
                          "clear"}]
    /\ prog \in [Worker \cup {Manager} -> {"on", "history", "begun", "ended", "past"}]
    /\ \A w \in Worker : prog[w] \in {"begun", "ended", "past"}

Before ==
    /\ scheduler_log = 0 /\ scheduler_history = 0
    /\ schedulerHelper = {} /\ contDone = {}
    /\ \A c \in Core : turn[c] \notin {"check", "all", "off", "clear"}
    /\ \A w \in Worker : prog[w] = "begun"

During ==
    /\ \A p \in Worker \cup {Manager} : prog[p] # "past"
    /\ schedulerHelper \subseteq marked
    /\ \A k \in contDone : \A i \in Slots(k) : <<k, i>> \in marked
    /\ \A c \in Core : turn[c] # "clear"

SlogInv ==
    /\ SlogTypes
    /\ prog[Manager] = "on" => Before
    /\ prog[Manager] # "on" /\ scheduler_log = 1 => During
    /\ prog[Manager] # "on" /\ scheduler_log = 0 => marked = Worker
    /\ \A c \in Core : turn[c] = "off" => marked = Worker

LEMMA ManagerIsNoWorker == Manager \notin Worker
  BY SchedLogAssumption DEF Manager, Worker, Cont

\* The entry that a scheduler picks exists.
LEMMA EntryExists ==
    ASSUME NEW k \in Cont, NEW i \in Slots(k)
    PROVE  <<k, i>> \in Worker
  BY SchedLogAssumption DEF Worker, Slots, Cont

LEMMA SlogStart == SlogInit => SlogInv
  <1> SUFFICES ASSUME SlogInit PROVE SlogInv
    OBVIOUS
  <1>1. \A w \in Worker : w # Manager
    BY ManagerIsNoWorker
  <1>2. 0 \in 0..NCONTS
    BY SchedLogAssumption
  <1> QED BY <1>1, <1>2 DEF SlogInit, SlogInv, SlogTypes, Before

\* A scheduler goes on and leaves the flags and marks alone.
LEMMA GoesOn ==
    ASSUME SlogInv, NEW c \in Core, cntNum' \in [Core -> 0..NCONTS],
           NEW s \in {"pick", "dispatch", "run", "test", "check", "end", "all", "off"},
           turn' = [turn EXCEPT ![c] = s],
           s \in {"check", "all", "off"} => prog[Manager] # "on",
           s = "off" => marked = Worker,
           UNCHANGED <<logvars, prog>>
    PROVE  SlogInv'
  <1>1. /\ turn' \in [Core -> {"pick", "dispatch", "run", "test", "check", "end", "all", "off",
                               "clear"}]
        /\ \A d \in Core : turn'[d] = IF d = c THEN s ELSE turn[d]
    BY DEF SlogInv, SlogTypes
  <1>2. /\ UNCHANGED <<scheduler_log, scheduler_history, schedulerHelper, contDone, marked>>
        /\ UNCHANGED prog
    BY DEF logvars
  <1>3. SlogTypes'
    BY <1>1, <1>2 DEF SlogInv, SlogTypes
  <1>4. prog[Manager] = "on" => Before'
    BY <1>1, <1>2 DEF SlogInv, Before
  <1>5. prog[Manager] # "on" /\ scheduler_log = 1 => During'
    BY <1>1, <1>2 DEF SlogInv, During
  <1>6. \A d \in Core : turn'[d] = "off" => marked = Worker
    BY <1>1 DEF SlogInv
  <1> QED BY <1>2, <1>3, <1>4, <1>5, <1>6 DEF SlogInv

LEMMA ContainerTurnInv ==
    ASSUME SlogInv, NEW c \in Core, ContainerTurn(c)
    PROVE  SlogInv'
  <1>1. CASE PickEntry(c)
    <2> DEFINE k == cntNum[c]
               i == IF curLocation[c][k] \in Slots(k) THEN curLocation[c][k] ELSE 1
    <2>1. k \in Cont /\ i \in Slots(k)
      BY <1>1, SchedLogAssumption DEF PickEntry, Slots
    <2>2. <<k, i>> \in Worker
      BY <2>1, EntryExists
    <2>3. /\ turn[c] = "pick" /\ turn' = [turn EXCEPT ![c] = "dispatch"]
          /\ \/ scheduler_log = 1 /\ schedulerHelper' = schedulerHelper \cup {<<k, i>>}
                                  /\ marked' = marked \cup {<<k, i>>}
             \/ scheduler_log # 1 /\ schedulerHelper' = schedulerHelper /\ marked' = marked
          /\ UNCHANGED <<scheduler_log, scheduler_history, contDone, cntNum, prog>>
      BY <1>1 DEF PickEntry, GoOn
    <2> HIDE DEF k, i
    <2>4. /\ turn' \in [Core -> {"pick", "dispatch", "run", "test", "check", "end", "all", "off",
                                 "clear"}]
          /\ \A d \in Core : turn'[d] = IF d = c THEN "dispatch" ELSE turn[d]
      BY <2>3 DEF SlogInv, SlogTypes
    <2>5. /\ schedulerHelper' \subseteq Worker /\ marked' \subseteq Worker
          /\ marked \subseteq marked'
          /\ schedulerHelper \subseteq marked => schedulerHelper' \subseteq marked'
          /\ scheduler_log = 0 => schedulerHelper' = schedulerHelper /\ marked' = marked
      BY <2>2, <2>3 DEF SlogInv, SlogTypes
    <2>6. SlogTypes'
      BY <2>3, <2>4, <2>5 DEF SlogInv, SlogTypes
    <2>7. prog[Manager] = "on" => Before'
      BY <2>3, <2>4, <2>5 DEF SlogInv, Before
    <2>8. prog[Manager] # "on" /\ scheduler_log = 1 => During'
      BY <2>3, <2>4, <2>5 DEF SlogInv, During
    <2>9. marked = Worker => marked' = Worker
      BY <2>5
    <2>10. \A d \in Core : turn'[d] = "off" => marked' = Worker
      BY <2>4, <2>9 DEF SlogInv
    <2> QED BY <2>3, <2>5, <2>6, <2>7, <2>8, <2>9, <2>10 DEF SlogInv
  <1>2. CASE PickHost(c) \/ RunChosen(c) \/ RunNobody(c) \/ Preempt(c)
    <2>1. PICK s \in {"dispatch", "run", "test"} : turn' = [turn EXCEPT ![c] = s]
      BY <1>2 DEF PickHost, RunChosen, RunNobody, Preempt, GoOn
    <2>2. UNCHANGED <<logvars, cntNum, prog>>
      BY <1>2 DEF PickHost, RunChosen, RunNobody, Preempt
    <2>3. cntNum' \in [Core -> 0..NCONTS]
      BY <2>2 DEF SlogInv, SlogTypes
    <2> QED BY <2>1, <2>2, <2>3, GoesOn
  <1> QED BY <1>1, <1>2 DEF ContainerTurn

\* A remainder is less than the divisor.
LEMMA Remainder ==
    ASSUME NEW num \in Nat, NEW m \in Nat
    PROVE  num % (m + 1) \in 0..m
  OBVIOUS

LEMMA NextTurnIs ==
    ASSUME SlogTypes, NEW c \in Core, NextTurn(c)
    PROVE  /\ cntNum' \in [Core -> 0..NCONTS]
           /\ \E s \in {"end", "pick"} : turn' = [turn EXCEPT ![c] = s]
  <1>1. cntNum[c] + 1 \in Nat /\ NCONTS \in Nat
    BY SchedLogAssumption DEF SlogTypes
  <1>2. (cntNum[c] + 1) % (NCONTS + 1) \in 0..NCONTS
    BY <1>1, Remainder
  <1> QED BY <1>2 DEF NextTurn, SlogTypes, GoOn

LEMMA LogTurnInv ==
    ASSUME SlogInv, NEW c \in Core, LogTurn(c)
    PROVE  SlogInv'
  <1> USE DEF SlogInv
  <1>1. CASE TurnTest(c)
    <2>1. PICK s \in {"check", "end", "pick"} :
             turn' = [turn EXCEPT ![c] = s] /\ (s = "check" => scheduler_log = 1)
      BY <1>1, NextTurnIs DEF TurnTest, GoOn
    <2>2. cntNum' \in [Core -> 0..NCONTS]
      BY <1>1, NextTurnIs DEF TurnTest, SlogTypes
    <2>3. UNCHANGED <<logvars, prog>>
      BY <1>1 DEF TurnTest
    <2>4. s = "check" => prog[Manager] # "on"
      BY <2>1 DEF Before
    <2> QED BY <2>1, <2>2, <2>3, <2>4, GoesOn
  <1>2. CASE TurnCheck(c)
    <2>1. PICK s \in {"end", "pick"} : turn' = [turn EXCEPT ![c] = s]
      BY <1>2, NextTurnIs DEF TurnCheck
    <2>2. cntNum' \in [Core -> 0..NCONTS]
      BY <1>2, NextTurnIs DEF TurnCheck
    <2>3. /\ contDone' \subseteq Cont
          /\ scheduler_log = 1 =>
                \A k \in contDone' : k \in contDone \/ \A i \in Slots(k) : <<k, i>> \in schedulerHelper
      BY <1>2 DEF TurnCheck, SlogTypes
    <2>4. turn[c] = "check" /\ UNCHANGED <<scheduler_log, scheduler_history, schedulerHelper, marked, prog>>
      BY <1>2 DEF TurnCheck
    <2> QED BY <2>1, <2>2, <2>3, <2>4 DEF SlogTypes, Before, During
  <1>3. CASE EndTest(c)
    <2>1. PICK s \in {"all", "pick"} :
             turn' = [turn EXCEPT ![c] = s] /\ (s = "all" => scheduler_log = 1)
      BY <1>3 DEF EndTest, GoOn
    <2>2. UNCHANGED <<logvars, cntNum, prog>>
      BY <1>3 DEF EndTest
    <2>3. s = "all" => prog[Manager] # "on"
      BY <2>1 DEF Before
    <2>4. cntNum' \in [Core -> 0..NCONTS]
      BY <2>2 DEF SlogTypes
    <2> QED BY <2>1, <2>2, <2>3, <2>4, GoesOn
  <1>4. CASE AllCheck(c)
    <2>1. PICK s \in {"off", "pick"} :
             turn' = [turn EXCEPT ![c] = s] /\ (s = "off" => Cont \subseteq contDone)
      BY <1>4 DEF AllCheck, GoOn
    <2>2. turn[c] = "all" /\ UNCHANGED <<logvars, cntNum, prog>>
      BY <1>4 DEF AllCheck
    <2>0. prog[Manager] # "on"
      BY <2>2 DEF Before
    <2>3. s = "off" => marked = Worker
      <3>1. prog[Manager] # "on"
        BY <2>0
      <3>2. ASSUME s = "off", scheduler_log = 1 PROVE Worker \subseteq marked
        BY <2>1, <3>1, <3>2 DEF During, Worker
      <3> QED BY <3>1, <3>2 DEF SlogTypes
    <2>4. cntNum' \in [Core -> 0..NCONTS]
      BY <2>2 DEF SlogTypes
    <2> QED BY <2>0, <2>1, <2>2, <2>3, <2>4, GoesOn
  <1>5. CASE LogOff(c)
    BY <1>5 DEF LogOff, GoOn, SlogTypes, Before, During
  <1>6. CASE LogClear(c)
    BY <1>6 DEF LogClear, GoOn, SlogTypes, Before, During
  <1> QED BY <1>1, <1>2, <1>3, <1>4, <1>5, <1>6 DEF LogTurn

LEMMA CallInv ==
    ASSUME SlogInv, NEW p \in Worker \cup {Manager}, cm(p)
    PROVE  SlogInv'
  <1> USE DEF SlogInv
  <1>0. UNCHANGED <<schedulerHelper, contDone, cntNum, turn>>
    BY DEF cm, LogOn, Poll, logvars, corevars
  <1>1. CASE prog[p] = "on" /\ LogOn(p)
    <2>1. p = Manager
      BY <1>1 DEF SlogTypes
    <2>2. /\ scheduler_log' = 1 /\ marked' = {} /\ scheduler_history' = scheduler_history
          /\ prog' = [prog EXCEPT ![p] = "history"]
      BY <1>1 DEF LogOn, Go
    <2> QED BY <1>0, <1>1, <2>1, <2>2, ManagerIsNoWorker DEF SlogTypes, Before, During
  <1>2. CASE prog[p] = "history" /\ LogOn(p)
    <2>1. p = Manager
      BY <1>2 DEF SlogTypes
    <2>2. /\ scheduler_history' = scheduler_history + 1 /\ UNCHANGED <<scheduler_log, marked>>
          /\ prog' = [prog EXCEPT ![p] = "ended"]
      BY <1>2 DEF LogOn, Go
    <2> QED BY <1>0, <1>2, <2>1, <2>2, ManagerIsNoWorker DEF SlogTypes, Before, During
  <1>3. CASE Poll(p)
    <2>1. UNCHANGED <<scheduler_log, scheduler_history, marked>>
      BY <1>3 DEF Poll, logvars
    <2>2. PICK s \in {"ended", "past"} :
             /\ prog' = [prog EXCEPT ![p] = s] /\ prog[p] \in {"begun", "ended"}
             /\ s = "ended" => scheduler_log = 1 \/ scheduler_history = 1
             /\ s = "past" => prog[p] = "ended" /\ scheduler_log = 0
      BY <1>3 DEF Poll, Go, check_schedule_log
    <2>3. prog[Manager] # "on" /\ prog'[Manager] # "on"
      BY <2>2, ManagerIsNoWorker DEF SlogTypes, Before
    <2> QED BY <1>0, <2>1, <2>2, <2>3, ManagerIsNoWorker DEF SlogTypes, Before, During
  <1> QED BY <1>1, <1>2, <1>3 DEF cm, LogOn

\* "barrier for scheduler log" (cm.c), for any number of processors,
\* containers and processes.
THEOREM BarrierHolds == SlogSpec => []BarrierExact
  <1>1. SlogInv /\ [SlogNext]_slogvars => SlogInv'
    <2> SUFFICES ASSUME SlogInv, [SlogNext]_slogvars PROVE SlogInv'
      OBVIOUS
    <2>1. CASE UNCHANGED slogvars
      BY <2>1 DEF slogvars, logvars, corevars, SlogInv, SlogTypes, Before, During
    <2> QED BY <2>1, ContainerTurnInv, LogTurnInv, CallInv DEF SlogNext
  <1>2. SlogInv => BarrierExact
    BY ManagerIsNoWorker DEF SlogInv, SlogTypes, Before, During, BarrierExact
  <1> QED BY <1>1, <1>2, SlogStart, PTL DEF SlogSpec

-----------------------------------------------------------------------------
(* The spin locks.  What a context has still to do determines which locks  *)
(* it holds now and whether interrupts are on for it when it holds none:   *)
(* the annotations H and Fl of the list of its operations, before each of  *)
(* them.  Fl is "off" in a handler, "on" in a thread, "any" in a scheduler *)
(* and on the way from forkret() to trapret.                               *)

Op == [op : {"acquire", "spin", "release", "popcli", "sched", "resume", "loop", "sti", "iret",
             "trapret"},
       lock : Lock]
Flags == {"on", "off", "any"}
Half == {"spin", "popcli", "resume"}
Ends == {"on", "any"}

\* What an operation needs and leaves; e is "on" in threads, "any" in the
\* schedulers.
Trans(o, h, f, h2, f2, e) ==
    /\ o.op \in {"acquire", "spin"} => o.lock \notin h /\ h2 = h \cup {o.lock} /\ f2 = f
    /\ o.op = "release" => o.lock \in h /\ h2 = h \ {o.lock} /\ f2 = f
    /\ o.op = "popcli" => h2 = h /\ f2 = f
    /\ o.op \in {"sched", "resume"} => h = {"ptable"} /\ h2 = h /\ f2 = f /\ e = "on"
    /\ o.op = "loop" => h = {"ptable"} /\ h2 = h /\ f = "any" /\ f2 = "any" /\ e = "any"
    /\ o.op = "sti" => h = {} /\ h2 = h /\ f = "any" /\ f2 = "any" /\ e = "any"
    /\ o.op = "trapret" => h = {} /\ h2 = h /\ f = "any" /\ f2 = "on" /\ e = "on"
    /\ o.op = "iret" => h = {} /\ h2 = h /\ f = "off" /\ f2 \in {"on", "any"}

\* An operation of this name comes at k or later.
Later(s, k, op) == \E j \in k..Len(s) : s[j].op = op

Sound(s, H, Fl, e) ==
    /\ H \in [1..(Len(s) + 1) -> SUBSET Lock] /\ Fl \in [1..(Len(s) + 1) -> Flags]
    /\ H[Len(s) + 1] = {} /\ Fl[Len(s) + 1] = e
    /\ \A k \in 1..Len(s) : Trans(s[k], H[k], Fl[k], H[k + 1], Fl[k + 1], e)
    /\ \A k \in 2..Len(s) : s[k].op \notin Half
    /\ \A k \in 1..(Len(s) + 1) : Fl[k] = "off" <=> Later(s, k, "iret")
    /\ \A k \in 1..(Len(s) + 1) : e = "on" /\ Fl[k] = "any" => Later(s, k, "trapret")

Good(s, h, f, e) == \E H, Fl : Sound(s, H, Fl, e) /\ H[1] = h /\ Fl[1] = f

\* The list is empty or begins with an operation that is not half done.
Calm(s) == s # <<>> => Head(s).op \notin Half

LEMMA GoodEmpty ==
    ASSUME NEW e \in {"on", "any"}
    PROVE  Good(<<>>, {}, e, e)
  <1> DEFINE H == [k \in 1..1 |-> {}]
             Fl == [k \in 1..1 |-> e]
  <1>1. Len(<<>>) = 0 /\ 1..0 = {} /\ 2..0 = {} /\ H[1] = {} /\ Fl[1] = e /\ 0 + 1 = 1
    OBVIOUS
  <1>2. H \in [1..1 -> SUBSET Lock] /\ Fl \in [1..1 -> Flags]
    BY DEF Flags
  <1> HIDE DEF H, Fl
  <1>3. \A k \in 1..1 : k = 1 /\ Fl[k] = e
    BY <1>1
  <1>4. \A op : ~Later(<<>>, 1, op)
    BY <1>1 DEF Later
  <1>5. Sound(<<>>, H, Fl, e)
    BY <1>1, <1>2, <1>3, <1>4 DEF Sound
  <1> QED BY <1>1, <1>5 DEF Good

\* One operation more in front.
LEMMA GoodCons ==
    ASSUME NEW s \in Seq(Op), NEW o \in Op, NEW h \in SUBSET Lock, NEW f \in Flags, NEW h2, NEW f2,
           NEW e \in {"on", "any"}, Good(s, h2, f2, e), Calm(s), Trans(o, h, f, h2, f2, e)
    PROVE  Good(<<o>> \o s, h, f, e) /\ <<o>> \o s \in Seq(Op)
  <1> DEFINE u == <<o>> \o s
             num == Len(s)
  <1>1. /\ u \in Seq(Op) /\ Len(u) = num + 1 /\ num \in Nat /\ u[1] = o
        /\ \A k \in 1..num : u[k + 1] = s[k]
    <2>1. <<o>> \in Seq(Op) /\ Len(<<o>>) = 1 /\ <<o>>[1] = o /\ num \in Nat
      OBVIOUS
    <2>2. /\ u \in Seq(Op) /\ Len(u) = 1 + num
          /\ \A i \in 1..(1 + num) : u[i] = IF i <= 1 THEN <<o>>[i] ELSE s[i - 1]
      BY <2>1, ConcatProperties
    <2> HIDE DEF u, num
    <2>3. ASSUME NEW k \in 1..num PROVE u[k + 1] = s[k]
      <3>1. k + 1 \in 1..(1 + num) /\ ~(k + 1 <= 1) /\ (k + 1) - 1 = k
        BY <2>1, <2>3
      <3> QED BY <2>2, <3>1
    <2> QED BY <2>1, <2>2, <2>3
  <1>2. PICK H, Fl : Sound(s, H, Fl, e) /\ H[1] = h2 /\ Fl[1] = f2
    BY DEF Good
  <1> DEFINE H2 == [k \in 1..(num + 2) |-> IF k = 1 THEN h ELSE H[k - 1]]
             F2 == [k \in 1..(num + 2) |-> IF k = 1 THEN f ELSE Fl[k - 1]]
  <1>3. /\ H \in [1..(num + 1) -> SUBSET Lock] /\ Fl \in [1..(num + 1) -> Flags]
        /\ H[num + 1] = {} /\ Fl[num + 1] = e
        /\ \A k \in 1..num : Trans(s[k], H[k], Fl[k], H[k + 1], Fl[k + 1], e)
        /\ \A k \in 2..num : s[k].op \notin Half
        /\ \A k \in 1..(num + 1) : Fl[k] = "off" <=> Later(s, k, "iret")
        /\ \A k \in 1..(num + 1) : e = "on" /\ Fl[k] = "any" => Later(s, k, "trapret")
    BY <1>2 DEF Sound
  <1>4. num > 0 => s[1].op \notin Half
    BY DEF Calm
  <1> HIDE DEF u, num
  <1>5. /\ H2 \in [1..(num + 2) -> SUBSET Lock] /\ F2 \in [1..(num + 2) -> Flags]
        /\ H2[1] = h /\ F2[1] = f
        /\ \A k \in 1..(num + 1) : H2[k + 1] = H[k] /\ F2[k + 1] = Fl[k]
    <2>1. ASSUME NEW k \in 1..(num + 2) PROVE H2[k] \in SUBSET Lock /\ F2[k] \in Flags
      <3>1. CASE k = 1
        BY <3>1
      <3>2. CASE k # 1
        <4>1. k - 1 \in 1..(num + 1)
          BY <1>1, <3>2
        <4> QED BY <1>3, <3>2, <4>1
      <3> QED BY <3>1, <3>2
    <2>2. 1 \in 1..(num + 2) /\ \A k \in 1..(num + 1) : k + 1 \in 1..(num + 2) /\ k + 1 # 1 /\ (k + 1) - 1 = k
      BY <1>1
    <2> QED BY <2>1, <2>2
  <1> HIDE DEF H2, F2
  <1>6. \A op : \A k \in 1..(num + 1) : Later(u, k + 1, op) <=> Later(s, k, op)
    <2> TAKE op
    <2>1. ASSUME NEW k \in 1..(num + 1), Later(s, k, op) PROVE Later(u, k + 1, op)
      <3>1. PICK j \in k..num : s[j].op = op
        BY <2>1 DEF Later, num
      <3>2. j + 1 \in (k + 1)..Len(u) /\ j \in 1..num
        BY <1>1, <3>1
      <3> QED BY <1>1, <3>1, <3>2 DEF Later
    <2>2. ASSUME NEW k \in 1..(num + 1), Later(u, k + 1, op) PROVE Later(s, k, op)
      <3>1. PICK j \in (k + 1)..Len(u) : u[j].op = op
        BY <2>2 DEF Later
      <3>2. j - 1 \in k..num /\ j - 1 \in 1..num /\ (j - 1) + 1 = j
        BY <1>1, <3>1
      <3>3. u[j] = s[j - 1]
        BY <1>1, <3>2
      <3> QED BY <3>1, <3>2, <3>3 DEF Later, num
    <2> QED BY <2>1, <2>2
  <1>7. \A op : Later(u, 1, op) <=> o.op = op \/ Later(s, 1, op)
    <2> TAKE op
    <2>1. Later(u, 1, op) <=> u[1].op = op \/ Later(u, 2, op)
      BY <1>1 DEF Later
    <2>2. Later(u, 2, op) <=> Later(s, 1, op)
      <3>1. 1 \in 1..(num + 1) /\ 1 + 1 = 2
        BY <1>1
      <3> QED BY <1>6, <3>1
    <2> QED BY <1>1, <2>1, <2>2
  <1>8. f2 = "off" <=> Later(s, 1, "iret")
    BY <1>1, <1>2, <1>3
  <1>9. f = "off" <=> Later(u, 1, "iret")
    BY <1>7, <1>8 DEF Trans, Op
  <1>10. e = "on" /\ f2 = "any" => Later(s, 1, "trapret")
    BY <1>1, <1>2, <1>3
  <1>11. e = "on" /\ f = "any" => Later(u, 1, "trapret")
    <2>1. e = "on" /\ f = "any" => f2 = "any" \/ o.op = "trapret"
      BY DEF Trans, Op
    <2> QED BY <1>7, <1>10, <2>1
  <1>12. ASSUME NEW k \in 1..(num + 1) PROVE Trans(u[k], H2[k], F2[k], H2[k + 1], F2[k + 1], e)
    <2>1. CASE k = 1
      <3>1. H2[1 + 1] = h2 /\ F2[1 + 1] = f2
        BY <1>1, <1>2, <1>5
      <3> QED BY <1>1, <1>5, <2>1, <3>1
    <2>2. CASE k # 1
      <3>1. PICK j \in 1..num : k = j + 1
        <4>1. k - 1 \in 1..num /\ k = (k - 1) + 1
          BY <1>1, <2>2
        <4> QED BY <4>1
      <3>2. j \in 1..(num + 1) /\ j + 1 \in 1..(num + 1)
        BY <1>1, <3>1
      <3> QED BY <1>1, <1>3, <1>5, <3>1, <3>2
    <2> QED BY <2>1, <2>2
  <1>13. ASSUME NEW k \in 2..(num + 1) PROVE u[k].op \notin Half
    <2>1. PICK j \in 1..num : k = j + 1
      <3>1. k - 1 \in 1..num /\ k = (k - 1) + 1
        BY <1>1
      <3> QED BY <3>1
    <2>2. u[k] = s[j] /\ (j = 1 => num > 0) /\ (j # 1 => j \in 2..num)
      BY <1>1, <2>1
    <2> QED BY <1>3, <1>4, <2>2
  <1>14. ASSUME NEW k \in 1..(num + 2)
         PROVE  /\ F2[k] = "off" <=> Later(u, k, "iret")
                /\ e = "on" /\ F2[k] = "any" => Later(u, k, "trapret")
    <2>1. CASE k = 1
      BY <1>5, <1>9, <1>11, <2>1
    <2>2. CASE k # 1
      <3>1. PICK j \in 1..(num + 1) : k = j + 1
        <4>1. k - 1 \in 1..(num + 1) /\ k = (k - 1) + 1
          BY <1>1, <2>2
        <4> QED BY <4>1
      <3>2. F2[k] = Fl[j]
        BY <1>5, <3>1
      <3> QED BY <1>3, <1>6, <3>1, <3>2
    <2> QED BY <2>1, <2>2
  <1>15. H2[num + 2] = {} /\ F2[num + 2] = e
    <2>1. num + 1 \in 1..(num + 1) /\ (num + 1) + 1 = num + 2
      BY <1>1
    <2> QED BY <1>3, <1>5, <2>1
  <1>16. (num + 1) + 1 = num + 2
    BY <1>1
  <1>17. Sound(u, H2, F2, e)
    BY <1>1, <1>5, <1>12, <1>13, <1>14, <1>15, <1>16 DEF Sound
  <1>18. Good(u, h, f, e)
    BY <1>5, <1>17 DEF Good
  <1> QED BY <1>1, <1>18 DEF u

\* One operation less.
LEMMA GoodTail ==
    ASSUME NEW s \in Seq(Op), s # <<>>, NEW h, NEW f, NEW e, Good(s, h, f, e)
    PROVE  /\ Tail(s) \in Seq(Op) /\ Head(s) \in Op /\ h \in SUBSET Lock /\ f \in Flags /\ Calm(Tail(s))
           /\ \E h2 \in SUBSET Lock, f2 \in Flags :
                 /\ Good(Tail(s), h2, f2, e)
                 /\ Trans(Head(s), h, f, h2, f2, e)
  <1> DEFINE u == Tail(s)
             num == Len(u)
  <1>1. /\ u \in Seq(Op) /\ Len(s) = num + 1 /\ num \in Nat /\ Head(s) = s[1] /\ Head(s) \in Op
        /\ \A k \in 1..num : u[k] = s[k + 1]
    OBVIOUS
  <1>2. PICK H, Fl : Sound(s, H, Fl, e) /\ H[1] = h /\ Fl[1] = f
    BY DEF Good
  <1>4. u # <<>> => Head(u) = u[1] /\ num > 0
    BY <1>1
  <1> HIDE DEF u, num
  <1> DEFINE H2 == [k \in 1..(num + 1) |-> H[k + 1]]
             F2 == [k \in 1..(num + 1) |-> Fl[k + 1]]
  <1>3. /\ H \in [1..((num + 1) + 1) -> SUBSET Lock] /\ Fl \in [1..((num + 1) + 1) -> Flags]
        /\ H[(num + 1) + 1] = {} /\ Fl[(num + 1) + 1] = e
        /\ \A k \in 1..(num + 1) : Trans(s[k], H[k], Fl[k], H[k + 1], Fl[k + 1], e)
        /\ \A k \in 2..(num + 1) : s[k].op \notin Half
        /\ \A k \in 1..((num + 1) + 1) : Fl[k] = "off" <=> Later(s, k, "iret")
        /\ \A k \in 1..((num + 1) + 1) : e = "on" /\ Fl[k] = "any" => Later(s, k, "trapret")
    BY <1>1, <1>2 DEF Sound
  <1>5. \A k \in 1..(num + 1) : k + 1 \in 1..((num + 1) + 1)
    BY <1>1
  <1>6. /\ H2 \in [1..(num + 1) -> SUBSET Lock] /\ F2 \in [1..(num + 1) -> Flags]
        /\ \A k \in 1..(num + 1) : H2[k] = H[k + 1] /\ F2[k] = Fl[k + 1]
    BY <1>3, <1>5
  <1> HIDE DEF H2, F2
  <1>7. \A op : \A k \in 1..(num + 1) : Later(u, k, op) <=> Later(s, k + 1, op)
    <2> TAKE op
    <2>1. ASSUME NEW k \in 1..(num + 1), Later(u, k, op) PROVE Later(s, k + 1, op)
      <3>1. PICK j \in k..num : u[j].op = op
        BY <2>1 DEF Later, num
      <3>2. j + 1 \in (k + 1)..Len(s) /\ j \in 1..num
        BY <1>1, <3>1
      <3> QED BY <1>1, <3>1, <3>2 DEF Later
    <2>2. ASSUME NEW k \in 1..(num + 1), Later(s, k + 1, op) PROVE Later(u, k, op)
      <3>1. PICK j \in (k + 1)..Len(s) : s[j].op = op
        BY <2>2 DEF Later
      <3>2. j - 1 \in k..num /\ j - 1 \in 1..num /\ (j - 1) + 1 = j
        BY <1>1, <3>1
      <3>3. s[j] = u[j - 1]
        BY <1>1, <3>2
      <3> QED BY <3>1, <3>2, <3>3 DEF Later, num
    <2> QED BY <2>1, <2>2
  <1>8. ASSUME NEW k \in 1..num PROVE Trans(u[k], H2[k], F2[k], H2[k + 1], F2[k + 1], e)
    <2>1. k \in 1..(num + 1) /\ k + 1 \in 1..(num + 1)
      BY <1>1
    <2>2. Trans(s[k + 1], H[k + 1], Fl[k + 1], H[(k + 1) + 1], Fl[(k + 1) + 1], e)
      BY <1>3, <2>1
    <2>3. u[k] = s[k + 1] /\ H2[k] = H[k + 1] /\ F2[k] = Fl[k + 1]
          /\ H2[k + 1] = H[(k + 1) + 1] /\ F2[k + 1] = Fl[(k + 1) + 1]
      BY <1>1, <1>6, <2>1
    <2> QED BY <2>2, <2>3
  <1>9. ASSUME NEW k \in 1..num PROVE u[k].op \notin Half
    <2>1. k + 1 \in 2..(num + 1)
      BY <1>1
    <2> QED BY <1>1, <1>3, <2>1
  <1>10. ASSUME NEW k \in 1..(num + 1)
         PROVE  /\ F2[k] = "off" <=> Later(u, k, "iret")
                /\ e = "on" /\ F2[k] = "any" => Later(u, k, "trapret")
    BY <1>3, <1>5, <1>6, <1>7
  <1>11. H2[num + 1] = {} /\ F2[num + 1] = e /\ 2..num \subseteq 1..num /\ 1 \in 1..(num + 1)
    BY <1>1, <1>3, <1>6
  <1>12. Sound(u, H2, F2, e)
    BY <1>6, <1>8, <1>9, <1>10, <1>11 DEF Sound, num
  <1>13. Good(u, H2[1], F2[1], e)
    BY <1>12 DEF Good
  <1>14. H2[1] = H[1 + 1] /\ F2[1] = Fl[1 + 1] /\ H2[1] \in SUBSET Lock /\ F2[1] \in Flags
    BY <1>6, <1>11
  <1>15. Trans(Head(s), h, f, H2[1], F2[1], e)
    <2>1. Trans(s[1], H[1], Fl[1], H[1 + 1], Fl[1 + 1], e)
      BY <1>3, <1>11
    <2> QED BY <1>1, <1>2, <1>14, <2>1
  <1>16. h \in SUBSET Lock /\ f \in Flags
    <2>1. 1 \in 1..((num + 1) + 1)
      BY <1>1
    <2> QED BY <1>2, <1>3, <2>1
  <1>17. Calm(u)
    <2>1. num > 0 => 1 \in 1..num
      BY <1>1
    <2> QED BY <1>4, <1>9, <2>1 DEF Calm
  <1> QED BY <1>1, <1>13, <1>14, <1>15, <1>16, <1>17 DEF u

\* How the state of a processor goes with what its context has still to do:
\* s is that list, h the locks of the processor, num, ef and ie its ncli, FL_IF
\* and intena, sv the flag that sched() has saved.
HalfDone(s) == s # <<>> /\ Head(s).op \in {"spin", "popcli"}
AtResume(s) == s # <<>> /\ Head(s).op = "resume"
Obeys(v, f) == (f = "on" => v = TRUE) /\ (f = "off" => v = FALSE)

CpuOK(s, h, f, e, num, ef, ie, sv) ==
    /\ Good(s, h, f, e)
    /\ num = Cardinality(h) + (IF HalfDone(s) THEN 1 ELSE 0)
    /\ num > 0 => ef = FALSE
    /\ Obeys(IF num = 0 THEN ef ELSE IF AtResume(s) THEN sv ELSE ie, f)

LEMMA LockCard ==
    ASSUME NEW h \in SUBSET Lock
    PROVE  /\ Cardinality(h) \in Nat /\ (Cardinality(h) = 0 <=> h = {})
           /\ \A l \in Lock : l \notin h => Cardinality(h \cup {l}) = Cardinality(h) + 1
           /\ \A l \in Lock : l \in h => Cardinality(h \ {l}) = Cardinality(h) - 1
           /\ Cardinality({"ptable"}) = 1
  <1>1. IsFiniteSet(Lock)
    <2>1. IsFiniteSet({"ptable"}) /\ Cardinality({"ptable"}) = 1
      BY FS_Singleton
    <2>2. IsFiniteSet({"ptable"} \cup {"device"})
      BY <2>1, FS_AddElement
    <2>3. Lock = {"ptable"} \cup {"device"}
      BY DEF Lock
    <2> QED BY <2>2, <2>3
  <1>2. IsFiniteSet(h)
    BY <1>1, FS_Subset
  <1> QED BY <1>2, FS_CardinalityType, FS_EmptySet, FS_AddElement, FS_RemoveElement, FS_Singleton

\* The front of <<o>> \o s.
LEMMA ConsFront ==
    ASSUME NEW o \in Op, NEW s \in Seq(Op)
    PROVE  /\ <<o>> \o s \in Seq(Op) /\ <<o>> \o s # <<>> /\ Head(<<o>> \o s) = o
  <1>1. <<o>> \in Seq(Op) /\ Len(<<o>>) = 1 /\ <<o>>[1] = o /\ Len(s) \in Nat
    OBVIOUS
  <1>2. PICK u : u = <<o>> \o s
    OBVIOUS
  <1>3. /\ u \in Seq(Op) /\ Len(u) = 1 + Len(s)
        /\ \A i \in 1..(1 + Len(s)) : u[i] = IF i <= 1 THEN <<o>>[i] ELSE s[i - 1]
    BY <1>1, <1>2, ConcatProperties
  <1>4. u[1] = o
    <2>1. 1 \in 1..(1 + Len(s)) /\ 1 <= 1
      BY <1>1
    <2> QED BY <1>1, <1>3, <2>1
  <1>5. u # <<>> /\ Head(u) = u[1]
    BY <1>1, <1>3
  <1> QED BY <1>2, <1>3, <1>4, <1>5

\* What the operation in front of s does to the list and to the processor.
AcquireDoes(s, num, ef, ie, l, u, m, no, ie2) ==
    /\ s # <<>> /\ Head(s).op = "acquire" /\ l = Head(s).lock /\ u = <<Spin(l)>> \o Tail(s)
    /\ m = num + 1 /\ no = FALSE /\ ie2 = IF num = 0 THEN ef ELSE ie
ReleaseDoes(s, h, l, u, h2) ==
    /\ s # <<>> /\ Head(s).op = "release" /\ l = Head(s).lock
    /\ u = <<Do("popcli")>> \o Tail(s) /\ h2 = h \ {l}
SpinDoes(s, h, l, u, h2) ==
    s # <<>> /\ Head(s).op = "spin" /\ l = Head(s).lock /\ u = Tail(s) /\ h2 = h \cup {l}
PopcliDoes(s, num, ie, u, m, ef2) ==
    s # <<>> /\ Head(s).op = "popcli" /\ u = Tail(s) /\ m = num - 1 /\ ef2 = (num = 1 /\ ie)
ResumeDoes(s, u) == s # <<>> /\ Head(s).op = "resume" /\ u = Tail(s)
LoopDoes(s, u) == s # <<>> /\ Head(s).op = "loop" /\ u = Tail(s)
EnableDoes(s, u, yes) ==
    s # <<>> /\ Head(s).op \in {"sti", "iret", "trapret"} /\ u = Tail(s) /\ yes = TRUE
LoopNeeds(h, f, e) == h = {"ptable"} /\ f = "any" /\ e = "any"
SchedNeeds(h, num, ef, e) == h = {"ptable"} /\ num = 1 /\ ef = FALSE /\ e = "on"
SchedDoes(s, u) == s # <<>> /\ Head(s).op = "sched" /\ u = <<Do("resume")>> \o Tail(s)

LEMMA StepAcquire ==
    ASSUME NEW s \in Seq(Op), NEW h, NEW f, NEW e \in Ends, NEW num, NEW ef, NEW ie, NEW sv,
           NEW l, NEW u, NEW m, NEW no, NEW ie2, CpuOK(s, h, f, e, num, ef, ie, sv), AcquireDoes(s, num, ef, ie, l, u, m, no, ie2)
    PROVE  u \in Seq(Op) /\ l \in Lock /\ l \notin h /\ num \in Nat /\ CpuOK(u, h, f, e, m, no, ie2, sv)
  <1> USE DEF Ends, AcquireDoes
  <1>1. Good(s, h, f, e)
    BY DEF CpuOK
  <1>2. /\ Tail(s) \in Seq(Op) /\ Head(s) \in Op /\ h \in SUBSET Lock /\ f \in Flags /\ Calm(Tail(s))
    BY <1>1, GoodTail
  <1>3. PICK h2 \in SUBSET Lock, f2 \in Flags :
           /\ Good(Tail(s), h2, f2, e)
           /\ Trans(Head(s), h, f, h2, f2, e)
    BY <1>1, GoodTail
  <1>4. l \in Lock /\ Spin(l) \in Op /\ Spin(l).op = "spin" /\ Spin(l).lock = l
    BY <1>2 DEF Op, Spin
  <1>5. l \notin h /\ h2 = h \cup {l} /\ f2 = f
    BY <1>3 DEF Trans
  <1>6. Trans(Spin(l), h, f, h2, f2, e)
    BY <1>4, <1>5 DEF Trans
  <1>7. PICK o \in Op : o = Spin(l)
    BY <1>4
  <1>8. Good(<<o>> \o Tail(s), h, f, e)
    <2>1. PICK v \in Seq(Op) : v = Tail(s)
      BY <1>2
    <2>2. Good(v, h2, f2, e) /\ Calm(v) /\ Trans(o, h, f, h2, f2, e)
      BY <1>2, <1>3, <1>6, <1>7, <2>1
    <2>4. Good(<<o>> \o v, h, f, e)
      BY <1>2, <2>2, GoodCons
    <2> QED BY <2>1, <2>4
  <1>9. u \in Seq(Op) /\ u # <<>> /\ Head(u).op = "spin"
    BY <1>2, <1>4, ConsFront
  <1>10. Good(u, h, f, e)
    BY <1>7, <1>8
  <1>11. num = Cardinality(h) /\ Cardinality(h) \in Nat
    BY <1>2, LockCard DEF CpuOK, HalfDone
  <1>12. HalfDone(u) /\ ~AtResume(u) /\ ~AtResume(s)
    BY <1>9 DEF HalfDone, AtResume
  <1>13. CpuOK(u, h, f, e, m, no, ie2, sv)
    <2>1. m = Cardinality(h) + 1 /\ m > 0 /\ m # 0
      BY <1>11
    <2>2. Obeys(ie2, f)
      BY <1>12 DEF CpuOK
    <2> QED BY <1>10, <1>12, <2>1, <2>2 DEF CpuOK
  <1> QED BY <1>4, <1>5, <1>9, <1>11, <1>13

LEMMA StepRelease ==
    ASSUME NEW s \in Seq(Op), NEW h, NEW f, NEW e \in Ends, NEW num, NEW ef, NEW ie, NEW sv,
           NEW l, NEW u, NEW h2, CpuOK(s, h, f, e, num, ef, ie, sv), ReleaseDoes(s, h, l, u, h2)
    PROVE  u \in Seq(Op) /\ l \in Lock /\ l \in h /\ num \in Nat /\ CpuOK(u, h2, f, e, num, ef, ie, sv)
  <1> USE DEF Ends, ReleaseDoes
  <1>1. Good(s, h, f, e)
    BY DEF CpuOK
  <1>2. /\ Tail(s) \in Seq(Op) /\ Head(s) \in Op /\ h \in SUBSET Lock /\ f \in Flags /\ Calm(Tail(s))
    BY <1>1, GoodTail
  <1>3a. PICK h3 \in SUBSET Lock, f2 \in Flags :
           /\ Good(Tail(s), h3, f2, e)
           /\ Trans(Head(s), h, f, h3, f2, e)
    BY <1>1, GoodTail
  <1>3. h2 \in SUBSET Lock /\ f2 \in Flags /\ Good(Tail(s), h2, f2, e) /\ Trans(Head(s), h, f, h2, f2, e)
    <2>1. h3 = h2
      BY <1>3a DEF Trans
    <2> QED BY <1>3a, <2>1
  <1>4. l \in Lock /\ Do("popcli") \in Op /\ Do("popcli").op = "popcli"
    BY <1>2 DEF Op, Do, Lock
  <1>5. l \in h /\ h2 = h \ {l} /\ f2 = f
    BY <1>3 DEF Trans
  <1>6. Trans(Do("popcli"), h2, f, h2, f2, e)
    BY <1>4, <1>5 DEF Trans
  <1>7. PICK o \in Op : o = Do("popcli")
    BY <1>4
  <1>8. Good(<<o>> \o Tail(s), h2, f, e)
    <2>1. PICK v \in Seq(Op) : v = Tail(s)
      BY <1>2
    <2>2. Good(v, h2, f2, e) /\ Calm(v) /\ Trans(o, h2, f, h2, f2, e)
      BY <1>2, <1>3, <1>6, <1>7, <2>1
    <2>4. Good(<<o>> \o v, h2, f, e)
      BY <1>2, <1>3, <2>2, GoodCons
    <2> QED BY <2>1, <2>4
  <1>9. u \in Seq(Op) /\ u # <<>> /\ Head(u).op = "popcli"
    BY <1>2, <1>4, ConsFront
  <1>10. Good(u, h2, f, e)
    BY <1>7, <1>8
  <1>11. num = Cardinality(h) /\ Cardinality(h) \in Nat /\ Cardinality(h2) = num - 1 /\ num # 0
    <2>1. ~HalfDone(s)
      BY DEF HalfDone
    <2>2. /\ Cardinality(h) \in Nat /\ (Cardinality(h) = 0 <=> h = {})
          /\ Cardinality(h \ {l}) = Cardinality(h) - 1
      BY <1>2, <1>4, <1>5, LockCard
    <2>3. num = Cardinality(h)
      BY <2>1, <2>2 DEF CpuOK
    <2> QED BY <1>5, <2>2, <2>3
  <1>12. HalfDone(u) /\ ~AtResume(u) /\ ~AtResume(s)
    BY <1>9 DEF HalfDone, AtResume
  <1>13. CpuOK(u, h2, f, e, num, ef, ie, sv)
    BY <1>10, <1>11, <1>12 DEF CpuOK
  <1> QED BY <1>4, <1>5, <1>9, <1>11, <1>13

\* Operations that are done: the rest of the list.
LEMMA StepSpin ==
    ASSUME NEW s \in Seq(Op), NEW h, NEW f, NEW e \in Ends, NEW num, NEW ef, NEW ie, NEW sv,
           NEW l, NEW u, NEW h2, CpuOK(s, h, f, e, num, ef, ie, sv), SpinDoes(s, h, l, u, h2)
    PROVE  u \in Seq(Op) /\ l \in Lock /\ l \notin h /\ num \in Nat /\ CpuOK(u, h2, f, e, num, ef, ie, sv)
  <1> USE DEF Ends, SpinDoes
  <1>1. Good(s, h, f, e)
    BY DEF CpuOK
  <1>2. /\ u \in Seq(Op) /\ Head(s) \in Op /\ h \in SUBSET Lock /\ f \in Flags /\ Calm(u)
    BY <1>1, GoodTail
  <1>3. PICK h3 \in SUBSET Lock, f2 \in Flags :
           /\ Good(u, h3, f2, e)
           /\ Trans(Head(s), h, f, h3, f2, e)
    BY <1>1, GoodTail
  <1>4. Head(s).lock \in Lock
    BY <1>2 DEF Op
  <1>5. ~HalfDone(u) /\ ~AtResume(u)
    BY <1>2 DEF Calm, HalfDone, AtResume, Half
  <1>6. Cardinality(h) \in Nat /\ num \in Nat
    BY <1>2, LockCard DEF CpuOK
  <1>7. l \notin h /\ h3 = h2 /\ f2 = f
    BY <1>3 DEF Trans
  <1>8. num = Cardinality(h) + 1 /\ Cardinality(h2) = Cardinality(h) + 1
    BY <1>2, <1>4, <1>7, LockCard DEF CpuOK, HalfDone
  <1>9. CpuOK(u, h2, f, e, num, ef, ie, sv)
    BY <1>3, <1>5, <1>6, <1>7, <1>8 DEF CpuOK, AtResume
  <1> QED BY <1>2, <1>4, <1>6, <1>7, <1>9

LEMMA StepPopcli ==
    ASSUME NEW s \in Seq(Op), NEW h, NEW f, NEW e \in Ends, NEW num, NEW ef, NEW ie, NEW sv,
           NEW u, NEW m, NEW ef2, CpuOK(s, h, f, e, num, ef, ie, sv), PopcliDoes(s, num, ie, u, m, ef2)
    PROVE  u \in Seq(Op) /\ num \in Nat /\ num > 0 /\ ef = FALSE /\ CpuOK(u, h, f, e, m, ef2, ie, sv)
  <1> USE DEF Ends, PopcliDoes
  <1>1. Good(s, h, f, e)
    BY DEF CpuOK
  <1>2. /\ u \in Seq(Op) /\ Head(s) \in Op /\ h \in SUBSET Lock /\ f \in Flags /\ Calm(u)
    BY <1>1, GoodTail
  <1>3. PICK h3 \in SUBSET Lock, f2 \in Flags :
           /\ Good(u, h3, f2, e)
           /\ Trans(Head(s), h, f, h3, f2, e)
    BY <1>1, GoodTail
  <1>4. Head(s).lock \in Lock
    BY <1>2 DEF Op
  <1>5. ~HalfDone(u) /\ ~AtResume(u)
    BY <1>2 DEF Calm, HalfDone, AtResume, Half
  <1>6. Cardinality(h) \in Nat /\ num \in Nat
    BY <1>2, LockCard DEF CpuOK
  <1>7. h3 = h /\ f2 = f
    BY <1>3 DEF Trans
  <1>8. num = Cardinality(h) + 1
    BY DEF CpuOK, HalfDone
  <1>9. ef = FALSE /\ Obeys(ie, f) /\ num > 0
    BY <1>6, <1>8 DEF CpuOK, AtResume
  <1>10. num = 1 => Obeys(ef2, f)
    BY <1>9 DEF Obeys
  <1>11. m > 0 => ef2 = FALSE
    <2>1. m > 0 => num # 1
      BY <1>6
    <2> QED BY <2>1
  <1>12. CpuOK(u, h, f, e, m, ef2, ie, sv)
    BY <1>3, <1>5, <1>6, <1>7, <1>8, <1>9, <1>10, <1>11 DEF CpuOK
  <1> QED BY <1>2, <1>6, <1>9, <1>12

LEMMA StepResume ==
    ASSUME NEW s \in Seq(Op), NEW h, NEW f, NEW e \in Ends, NEW num, NEW ef, NEW ie, NEW sv,
           NEW u, CpuOK(s, h, f, e, num, ef, ie, sv), ResumeDoes(s, u)
    PROVE  u \in Seq(Op) /\ num \in Nat /\ CpuOK(u, h, f, e, num, ef, sv, sv)
  <1> USE DEF Ends, ResumeDoes
  <1>1. Good(s, h, f, e)
    BY DEF CpuOK
  <1>2. /\ u \in Seq(Op) /\ Head(s) \in Op /\ h \in SUBSET Lock /\ f \in Flags /\ Calm(u)
    BY <1>1, GoodTail
  <1>3. PICK h3 \in SUBSET Lock, f2 \in Flags :
           /\ Good(u, h3, f2, e)
           /\ Trans(Head(s), h, f, h3, f2, e)
    BY <1>1, GoodTail
  <1>4. Head(s).lock \in Lock
    BY <1>2 DEF Op
  <1>5. ~HalfDone(u) /\ ~AtResume(u)
    BY <1>2 DEF Calm, HalfDone, AtResume, Half
  <1>6. Cardinality(h) \in Nat /\ num \in Nat
    BY <1>2, LockCard DEF CpuOK
  <1>7. h3 = h /\ f2 = f /\ h = {"ptable"}
    BY <1>3 DEF Trans
  <1>8. num = Cardinality(h) /\ num = 1 /\ AtResume(s)
    BY <1>2, <1>7, LockCard DEF CpuOK, HalfDone, AtResume
  <1>9. CpuOK(u, h, f, e, num, ef, sv, sv)
    BY <1>3, <1>5, <1>6, <1>7, <1>8 DEF CpuOK
  <1> QED BY <1>2, <1>6, <1>9

LEMMA StepLoop ==
    ASSUME NEW s \in Seq(Op), NEW h, NEW f, NEW e \in Ends, NEW num, NEW ef, NEW ie, NEW sv,
           NEW u, CpuOK(s, h, f, e, num, ef, ie, sv), LoopDoes(s, u)
    PROVE  u \in Seq(Op) /\ num \in Nat /\ LoopNeeds(h, f, e) /\ CpuOK(u, h, f, e, num, ef, ie, sv)
  <1> USE DEF Ends, LoopDoes, LoopNeeds
  <1>1. Good(s, h, f, e)
    BY DEF CpuOK
  <1>2. /\ u \in Seq(Op) /\ Head(s) \in Op /\ h \in SUBSET Lock /\ f \in Flags /\ Calm(u)
    BY <1>1, GoodTail
  <1>3. PICK h3 \in SUBSET Lock, f2 \in Flags :
           /\ Good(u, h3, f2, e)
           /\ Trans(Head(s), h, f, h3, f2, e)
    BY <1>1, GoodTail
  <1>4. Head(s).lock \in Lock
    BY <1>2 DEF Op
  <1>5. ~HalfDone(u) /\ ~AtResume(u)
    BY <1>2 DEF Calm, HalfDone, AtResume, Half
  <1>6. Cardinality(h) \in Nat /\ num \in Nat
    BY <1>2, LockCard DEF CpuOK
  <1>7. h3 = h /\ f2 = f /\ h = {"ptable"} /\ f = "any" /\ e = "any"
    BY <1>3 DEF Trans
  <1>8. num = Cardinality(h) /\ ~AtResume(s)
    <2>1. ~AtResume(s) /\ ~HalfDone(s)
      BY DEF HalfDone, AtResume
    <2>2. num = Cardinality(h) + (IF HalfDone(s) THEN 1 ELSE 0)
      BY DEF CpuOK
    <2> QED BY <1>6, <2>1, <2>2
  <1>9. CpuOK(u, h, f, e, num, ef, ie, sv)
    BY <1>3, <1>5, <1>6, <1>7, <1>8 DEF CpuOK
  <1> QED BY <1>2, <1>6, <1>7, <1>9

LEMMA StepEnable ==
    ASSUME NEW s \in Seq(Op), NEW h, NEW f, NEW e \in Ends, NEW num, NEW ef, NEW ie, NEW sv,
           NEW u, NEW yes, CpuOK(s, h, f, e, num, ef, ie, sv), EnableDoes(s, u, yes)
    PROVE  u \in Seq(Op) /\ num \in Nat /\ \E g : CpuOK(u, h, g, e, num, yes, ie, sv)
  <1> USE DEF Ends, EnableDoes
  <1>1. Good(s, h, f, e)
    BY DEF CpuOK
  <1>2. /\ u \in Seq(Op) /\ Head(s) \in Op /\ h \in SUBSET Lock /\ f \in Flags /\ Calm(u)
    BY <1>1, GoodTail
  <1>3. PICK h3 \in SUBSET Lock, f2 \in Flags :
           /\ Good(u, h3, f2, e)
           /\ Trans(Head(s), h, f, h3, f2, e)
    BY <1>1, GoodTail
  <1>4. Head(s).lock \in Lock
    BY <1>2 DEF Op
  <1>5. ~HalfDone(u) /\ ~AtResume(u)
    BY <1>2 DEF Calm, HalfDone, AtResume, Half
  <1>6. Cardinality(h) \in Nat /\ num \in Nat
    BY <1>2, LockCard DEF CpuOK
  <1>7. h3 = h /\ f2 # "off" /\ h = {}
    BY <1>3 DEF Trans
  <1>8. num = Cardinality(h) /\ num = 0
    BY <1>2, <1>7, LockCard DEF CpuOK, HalfDone
  <1>9. CpuOK(u, h, f2, e, num, yes, ie, sv)
    BY <1>3, <1>5, <1>7, <1>8 DEF CpuOK, Obeys
  <1> QED BY <1>2, <1>6, <1>9

LEMMA StepSched ==
    ASSUME NEW s \in Seq(Op), NEW h, NEW f, NEW e \in Ends, NEW num, NEW ef, NEW ie, NEW sv,
           NEW u, CpuOK(s, h, f, e, num, ef, ie, sv), SchedDoes(s, u)
    PROVE  /\ u \in Seq(Op) /\ SchedNeeds(h, num, ef, e)
           /\ Good(u, h, f, e) /\ Obeys(ie, f) /\ AtResume(u)
  <1> USE DEF Ends, SchedDoes, SchedNeeds
  <1>1. Good(s, h, f, e)
    BY DEF CpuOK
  <1>2. /\ Tail(s) \in Seq(Op) /\ Head(s) \in Op /\ h \in SUBSET Lock /\ f \in Flags /\ Calm(Tail(s))
    BY <1>1, GoodTail
  <1>3. PICK h2 \in SUBSET Lock, f2 \in Flags :
           /\ Good(Tail(s), h2, f2, e)
           /\ Trans(Head(s), h, f, h2, f2, e)
    BY <1>1, GoodTail
  <1>4. Do("resume") \in Op /\ Do("resume").op = "resume"
    BY DEF Op, Do, Lock
  <1>5. h = {"ptable"} /\ h2 = h /\ f2 = f /\ e = "on"
    BY <1>3 DEF Trans
  <1>6. Trans(Do("resume"), h, f, h2, f2, e)
    BY <1>4, <1>5 DEF Trans
  <1>7. Good(u, h, f, e)
    <2>1. PICK v \in Seq(Op) : v = Tail(s)
      BY <1>2
    <2>2. PICK o \in Op : o = Do("resume")
      BY <1>4
    <2>3. Good(v, h2, f2, e) /\ Calm(v) /\ Trans(o, h, f, h2, f2, e)
      BY <1>2, <1>3, <1>6, <2>1, <2>2
    <2>5. Good(<<o>> \o v, h, f, e)
      BY <1>2, <2>3, GoodCons
    <2> QED BY <2>1, <2>2, <2>5
  <1>8. u \in Seq(Op) /\ u # <<>> /\ Head(u).op = "resume"
    BY <1>2, <1>4, ConsFront
  <1>9. ~HalfDone(s) /\ ~AtResume(s)
    BY DEF HalfDone, AtResume
  <1>10. num = 1
    BY <1>2, <1>5, <1>9, LockCard DEF CpuOK
  <1>11. ef = FALSE /\ Obeys(ie, f)
    BY <1>9, <1>10 DEF CpuOK
  <1> QED BY <1>5, <1>7, <1>8, <1>10, <1>11 DEF AtResume

-----------------------------------------------------------------------------
(* The lists of the program.                                               *)

\* Names for terms that the provers are to leave alone.
Cons(o, s) == <<o>> \o s
Cat(t, s) == t \o s
Whole(o) == o.op \notin Half
LockSets == SUBSET Lock

\* One operation in front of t \o s.
LEMMA GoodFront ==
    ASSUME NEW t \in Seq(Op), NEW s \in Seq(Op), NEW o \in Op, Whole(o), NEW u, u = Cons(o, t),
           NEW h \in LockSets, NEW f \in Flags, NEW h2, NEW f2, NEW e \in Ends,
           Trans(o, h, f, h2, f2, e), Good(Cat(t, s), h2, f2, e), Calm(Cat(t, s))
    PROVE  Good(Cat(u, s), h, f, e) /\ Calm(Cat(u, s))
  <1>1. PICK v : v = t \o s
    OBVIOUS
  <1>2. v \in Seq(Op) /\ <<o>> \in Seq(Op)
    BY <1>1, ConcatProperties
  <1>3. (<<o>> \o t) \o s = <<o>> \o v
    BY <1>1, <1>2, ConcatAssociative
  <1>4. Good(v, h2, f2, e) /\ Calm(v)
    BY <1>1 DEF Cat
  <1>5. Good(<<o>> \o v, h, f, e)
    BY <1>2, <1>4, GoodCons DEF LockSets, Ends
  <1>6. Head(<<o>> \o v) = o
    BY <1>2, ConsFront
  <1> QED BY <1>3, <1>5, <1>6 DEF Calm, Cat, Cons, Whole

LEMMA OpsAre ==
    /\ \A l \in Lock : /\ Acq(l) \in Op /\ Acq(l).op = "acquire" /\ Acq(l).lock = l
                       /\ Rel(l) \in Op /\ Rel(l).op = "release" /\ Rel(l).lock = l
    /\ \A x \in {"sched", "loop", "sti", "iret", "trapret"} : Do(x) \in Op /\ Do(x).op = x
    /\ "ptable" \in Lock /\ "device" \in Lock /\ "ptable" # "device"
  BY DEF Acq, Rel, Do, Op, Lock

\* The operations of the lists: their types and what they do to the locks.
LEMMA OpsDo ==
    ASSUME NEW f \in Flags, NEW e \in Ends
    PROVE  /\ \A l \in Lock : Acq(l) \in Op /\ Whole(Acq(l)) /\ Rel(l) \in Op /\ Whole(Rel(l))
           /\ \A x \in {"sched", "loop", "sti", "iret", "trapret"} : Do(x) \in Op /\ Whole(Do(x))
           /\ \A l \in Lock : \A h \in LockSets : /\ l \notin h => Trans(Acq(l), h, f, h \cup {l}, f, e)
                                                  /\ l \in h => Trans(Rel(l), h, f, h \ {l}, f, e)
           /\ Trans(Do("sched"), {"ptable"}, f, {"ptable"}, f, "on")
           /\ Trans(Do("loop"), {"ptable"}, "any", {"ptable"}, "any", "any")
           /\ Trans(Do("sti"), {}, "any", {}, "any", "any")
           /\ Trans(Do("trapret"), {}, "any", {}, "on", "on")
           /\ f \in Ends => Trans(Do("iret"), {}, "off", {}, f, e)
  <1>1. \A l \in Lock : Acq(l) \in Op /\ Whole(Acq(l)) /\ Rel(l) \in Op /\ Whole(Rel(l))
    BY OpsAre DEF Whole, Half
  <1>2. \A x \in {"sched", "loop", "sti", "iret", "trapret"} : Do(x) \in Op /\ Whole(Do(x))
    BY OpsAre DEF Whole, Half
  <1>3. ASSUME NEW l \in Lock, NEW h \in LockSets
        PROVE  /\ l \notin h => Trans(Acq(l), h, f, h \cup {l}, f, e)
               /\ l \in h => Trans(Rel(l), h, f, h \ {l}, f, e)
    BY OpsAre DEF Trans
  <1>4. Trans(Do("sched"), {"ptable"}, f, {"ptable"}, f, "on")
    BY OpsAre DEF Trans
  <1>5. Trans(Do("loop"), {"ptable"}, "any", {"ptable"}, "any", "any")
    BY OpsAre DEF Trans
  <1>6. Trans(Do("sti"), {}, "any", {}, "any", "any")
    BY OpsAre DEF Trans
  <1>7. Trans(Do("trapret"), {}, "any", {}, "on", "on")
    BY OpsAre DEF Trans
  <1>8. f \in Ends => Trans(Do("iret"), {}, "off", {}, f, e)
    BY OpsAre DEF Trans, Ends
  <1> QED BY <1>1, <1>2, <1>3, <1>4, <1>5, <1>6, <1>7, <1>8

\* The sets of locks of the lists.
LEMMA LockSetsAre ==
    /\ {} \in LockSets /\ {"device"} \in LockSets /\ {"ptable"} \in LockSets
    /\ {"device", "ptable"} \in LockSets /\ "device" \in Lock /\ "ptable" \in Lock
  BY DEF LockSets, Lock

\* acquire() and release() of the lists, by name.
LEMMA LocksDo ==
    ASSUME NEW f \in Flags, NEW e \in Ends
    PROVE  /\ Trans(Acq("device"), {}, f, {"device"}, f, e)
           /\ Trans(Acq("ptable"), {}, f, {"ptable"}, f, e)
           /\ Trans(Acq("ptable"), {"device"}, f, {"device", "ptable"}, f, e)
           /\ Trans(Rel("device"), {"device"}, f, {}, f, e)
           /\ Trans(Rel("ptable"), {"ptable"}, f, {}, f, e)
           /\ Trans(Rel("ptable"), {"device", "ptable"}, f, {"device"}, f, e)
           /\ Trans(Rel("device"), {"device", "ptable"}, f, {"ptable"}, f, e)
  BY OpsAre DEF Trans

\* wakeup() under a lock.
LEMMA GoodWakeup ==
    ASSUME NEW s \in Seq(Op), NEW f \in Flags, NEW e \in Ends, Good(s, {}, f, e), Calm(s)
    PROVE  /\ Good(Cat(WakeupCall, s), {}, f, e) /\ Calm(Cat(WakeupCall, s)) /\ WakeupCall \in Seq(Op)
  <1> DEFINE t3 == <<Rel("device")>>
             t2 == <<Rel("ptable"), Rel("device")>>
             t1 == <<Acq("ptable"), Rel("ptable"), Rel("device")>>
             E == <<>>
  <1>1. /\ t3 = Cons(Rel("device"), E) /\ t2 = Cons(Rel("ptable"), t3)
        /\ t1 = Cons(Acq("ptable"), t2) /\ WakeupCall = Cons(Acq("device"), t1)
    BY DEF WakeupCall, Cons
  <1>2. E \in Seq(Op) /\ t3 \in Seq(Op) /\ t2 \in Seq(Op) /\ t1 \in Seq(Op) /\ WakeupCall \in Seq(Op)
    BY OpsAre DEF WakeupCall
  <1>3. Cat(E, s) = s
    BY ConcatEmptySeq DEF Cat
  <1>4. PICK ad, ap, rd, rp : /\ ad = Acq("device") /\ ap = Acq("ptable")
                              /\ rd = Rel("device") /\ rp = Rel("ptable")
    OBVIOUS
  <1>5. /\ ad \in Op /\ Whole(ad) /\ ap \in Op /\ Whole(ap)
        /\ rd \in Op /\ Whole(rd) /\ rp \in Op /\ Whole(rp)
    BY <1>4, OpsAre, OpsDo
  <1>6. PICK no, hd, hb : no = {} /\ hd = {"device"} /\ hb = {"device", "ptable"}
    OBVIOUS
  <1>7. no \in LockSets /\ hd \in LockSets /\ hb \in LockSets
    BY <1>6, LockSetsAre
  <1>8. /\ Trans(ad, no, f, hd, f, e) /\ Trans(ap, hd, f, hb, f, e)
        /\ Trans(rd, hd, f, no, f, e) /\ Trans(rp, hb, f, hd, f, e)
    BY <1>4, <1>6, LocksDo
  <1>9. t3 = Cons(rd, E) /\ t2 = Cons(rp, t3) /\ t1 = Cons(ap, t2) /\ WakeupCall = Cons(ad, t1)
    BY <1>1, <1>4
  <1>10. Good(Cat(E, s), no, f, e) /\ Calm(Cat(E, s))
    BY <1>3, <1>6
  <1> HIDE DEF E, t1, t2, t3
  <1>11. Good(Cat(t3, s), hd, f, e) /\ Calm(Cat(t3, s))
    BY <1>2, <1>5, <1>7, <1>8, <1>9, <1>10, GoodFront
  <1>12. Good(Cat(t2, s), hb, f, e) /\ Calm(Cat(t2, s))
    BY <1>2, <1>5, <1>7, <1>8, <1>9, <1>11, GoodFront
  <1>13. Good(Cat(t1, s), hd, f, e) /\ Calm(Cat(t1, s))
    BY <1>2, <1>5, <1>7, <1>8, <1>9, <1>12, GoodFront
  <1>14. Good(Cat(WakeupCall, s), no, f, e) /\ Calm(Cat(WakeupCall, s))
    BY <1>2, <1>5, <1>7, <1>8, <1>9, <1>13, GoodFront
  <1> QED BY <1>2, <1>6, <1>14

\* yield().
Yield == <<Acq("ptable"), Do("sched"), Rel("ptable")>>

LEMMA GoodYield ==
    ASSUME NEW s \in Seq(Op), NEW f \in Flags, Good(s, {}, f, "on"), Calm(s)
    PROVE  /\ Good(Cat(Yield, s), {}, f, "on") /\ Calm(Cat(Yield, s)) /\ Yield \in Seq(Op)
  <1> DEFINE t2 == <<Rel("ptable")>>
             t1 == <<Do("sched"), Rel("ptable")>>
             E == <<>>
  <1>0. PICK e \in Ends : e = "on"
    BY DEF Ends
  <1>1. /\ t2 = Cons(Rel("ptable"), E) /\ t1 = Cons(Do("sched"), t2) /\ Yield = Cons(Acq("ptable"), t1)
    BY DEF Yield, Cons
  <1>2. E \in Seq(Op) /\ t2 \in Seq(Op) /\ t1 \in Seq(Op) /\ Yield \in Seq(Op)
    BY OpsAre DEF Yield
  <1>3. Cat(E, s) = s
    BY ConcatEmptySeq DEF Cat
  <1>4. PICK ap, rp, sc : ap = Acq("ptable") /\ rp = Rel("ptable") /\ sc = Do("sched")
    OBVIOUS
  <1>5. ap \in Op /\ Whole(ap) /\ rp \in Op /\ Whole(rp) /\ sc \in Op /\ Whole(sc)
    BY <1>0, <1>4, OpsAre, OpsDo
  <1>6. PICK no, hp : no = {} /\ hp = {"ptable"}
    OBVIOUS
  <1>7. no \in LockSets /\ hp \in LockSets
    BY <1>6, LockSetsAre
  <1>8. Trans(ap, no, f, hp, f, e) /\ Trans(rp, hp, f, no, f, e)
    BY <1>4, <1>6, LocksDo
  <1>9. Trans(sc, hp, f, hp, f, e)
    BY <1>0, <1>4, <1>6, OpsDo
  <1>10. t2 = Cons(rp, E) /\ t1 = Cons(sc, t2) /\ Yield = Cons(ap, t1)
    BY <1>1, <1>4
  <1>11. Good(Cat(E, s), no, f, e) /\ Calm(Cat(E, s))
    BY <1>0, <1>3, <1>6
  <1> HIDE DEF E, t1, t2
  <1>12. Good(Cat(t2, s), hp, f, e) /\ Calm(Cat(t2, s))
    BY <1>2, <1>5, <1>7, <1>8, <1>10, <1>11, GoodFront
  <1>13. Good(Cat(t1, s), hp, f, e) /\ Calm(Cat(t1, s))
    BY <1>2, <1>5, <1>7, <1>9, <1>10, <1>12, GoodFront
  <1>14. Good(Cat(Yield, s), no, f, e) /\ Calm(Cat(Yield, s))
    BY <1>2, <1>5, <1>7, <1>8, <1>10, <1>13, GoodFront
  <1> QED BY <1>0, <1>2, <1>6, <1>14

\* The handlers, in front of what they interrupt.
LEMMA GoodHandler ==
    ASSUME NEW s \in Seq(Op), NEW f \in Ends, NEW e \in Ends, Good(s, {}, f, e), Calm(s)
    PROVE  /\ Handler \o s \in Seq(Op) /\ Good(Handler \o s, {}, "off", e) /\ Calm(Handler \o s)
           /\ e = "on" => /\ TimerHandler \o s \in Seq(Op) /\ Good(TimerHandler \o s, {}, "off", e)
                          /\ Calm(TimerHandler \o s)
  <1>1. PICK o \in Op : o = Do("iret")
    BY OpsAre
  <1>2. /\ o.op = "iret" /\ <<o>> \in Seq(Op) /\ "off" \in Flags /\ {} \in SUBSET Lock /\ e \in {"on", "any"}
        /\ o.op \notin Half
    BY <1>1, OpsAre DEF Flags, Ends, Half
  <1>3. Trans(o, {}, "off", {}, f, e)
    <2>1. f \in Flags
      BY DEF Ends, Flags
    <2> QED BY <1>1, <2>1, OpsDo
  <1>4. PICK v : v = <<o>> \o s
    OBVIOUS
  <1>5. v \in Seq(Op) /\ Good(v, {}, "off", e)
    BY <1>2, <1>3, <1>4, GoodCons
  <1>6. Calm(v)
    BY <1>2, <1>4, ConsFront DEF Calm
  <1>7. /\ Good(Cat(WakeupCall, v), {}, "off", e) /\ Calm(Cat(WakeupCall, v)) /\ WakeupCall \in Seq(Op)
    BY <1>2, <1>5, <1>6, GoodWakeup
  <1>8. Handler \o s = WakeupCall \o v
    <2>1. Handler = WakeupCall \o <<o>>
      BY <1>1 DEF Handler
    <2> QED BY <1>2, <1>4, <1>7, <2>1, ConcatAssociative
  <1>9. WakeupCall \o v \in Seq(Op)
    BY <1>5, <1>7, ConcatProperties
  <1>10. ASSUME e = "on"
         PROVE  /\ TimerHandler \o s \in Seq(Op) /\ Good(TimerHandler \o s, {}, "off", e)
                /\ Calm(TimerHandler \o s)
    <2>1. /\ Good(Cat(Yield, v), {}, "off", "on") /\ Calm(Cat(Yield, v)) /\ Yield \in Seq(Op)
      BY <1>2, <1>5, <1>6, <1>10, GoodYield
    <2>2. TimerHandler = Yield \o <<o>>
      BY <1>1 DEF TimerHandler, Yield
    <2>3. TimerHandler \o s = Yield \o v
      BY <1>2, <1>4, <2>1, <2>2, ConcatAssociative
    <2>4. Yield \o v \in Seq(Op)
      BY <1>5, <2>1, ConcatProperties
    <2> QED BY <1>10, <2>1, <2>3, <2>4 DEF Cat
  <1> QED BY <1>7, <1>8, <1>9, <1>10 DEF Cat

\* The lists that a context starts with.
LEMMA GoodNext ==
    ASSUME NEW t \in Seq(Op), NEW o \in Op, Whole(o), NEW u, u = Cons(o, t),
           NEW h \in LockSets, NEW f \in Flags, NEW h2, NEW f2, NEW e \in Ends,
           Trans(o, h, f, h2, f2, e), Good(t, h2, f2, e), Calm(t)
    PROVE  Good(u, h, f, e) /\ Calm(u)
  <1>1. Good(<<o>> \o t, h, f, e)
    BY GoodCons DEF LockSets, Ends
  <1>2. Head(<<o>> \o t) = o
    BY ConsFront
  <1> QED BY <1>1, <1>2 DEF Calm, Cons, Whole

LEMMA GoodForkret == Good(Forkret, {"ptable"}, "any", "on") /\ Forkret \in Seq(Op) /\ Forkret # <<>>
                     /\ Head(Forkret).op = "release"
  <1> DEFINE t1 == <<Do("trapret")>>
             E == <<>>
  <1>1. t1 = Cons(Do("trapret"), E) /\ Forkret = Cons(Rel("ptable"), t1)
    BY DEF Forkret, Cons
  <1>2. E \in Seq(Op) /\ t1 \in Seq(Op) /\ Forkret \in Seq(Op) /\ Forkret # <<>>
        /\ Head(Forkret).op = "release"
    BY OpsAre DEF Forkret
  <1>3. PICK e \in Ends, an \in Flags, on \in Flags : e = "on" /\ an = "any" /\ on = "on"
    BY DEF Ends, Flags
  <1>4. PICK rp \in Op, tr \in Op : rp = Rel("ptable") /\ tr = Do("trapret")
    BY OpsAre
  <1>5. Whole(rp) /\ Whole(tr)
    BY <1>3, <1>4, OpsAre, OpsDo
  <1>6. PICK no \in LockSets, hp \in LockSets : no = {} /\ hp = {"ptable"}
    BY LockSetsAre
  <1>7. Trans(tr, no, an, no, on, e)
    BY <1>3, <1>4, <1>6, OpsDo
  <1>8. Trans(rp, hp, an, no, an, e)
    BY <1>4, <1>6, LocksDo
  <1>9. Good(E, no, on, e) /\ Calm(E)
    BY <1>3, <1>6, GoodEmpty DEF Calm
  <1>10. t1 = Cons(tr, E) /\ Forkret = Cons(rp, t1)
    BY <1>1, <1>4
  <1> HIDE DEF E, t1
  <1>11. Good(t1, no, an, e) /\ Calm(t1)
    BY <1>2, <1>5, <1>7, <1>9, <1>10, GoodNext
  <1>12. Good(Forkret, hp, an, e)
    BY <1>2, <1>5, <1>8, <1>10, <1>11, GoodNext
  <1> QED BY <1>2, <1>3, <1>6, <1>12

LEMMA GoodTurn == Good(SchedulerTurn, {}, "any", "any") /\ SchedulerTurn \in Seq(Op) /\ SchedulerTurn # <<>>
                  /\ Head(SchedulerTurn).op = "sti"
  <1> DEFINE t3 == <<Rel("ptable")>>
             t2 == <<Do("loop"), Rel("ptable")>>
             t1 == <<Acq("ptable"), Do("loop"), Rel("ptable")>>
             E == <<>>
  <1>1. /\ t3 = Cons(Rel("ptable"), E) /\ t2 = Cons(Do("loop"), t3) /\ t1 = Cons(Acq("ptable"), t2)
        /\ SchedulerTurn = Cons(Do("sti"), t1)
    BY DEF SchedulerTurn, Cons
  <1>2. E \in Seq(Op) /\ t3 \in Seq(Op) /\ t2 \in Seq(Op) /\ t1 \in Seq(Op)
        /\ SchedulerTurn \in Seq(Op) /\ SchedulerTurn # <<>> /\ Head(SchedulerTurn).op = "sti"
    BY OpsAre DEF SchedulerTurn
  <1>3. PICK e \in Ends, an \in Flags : e = "any" /\ an = "any"
    BY DEF Ends, Flags
  <1>4. PICK rp \in Op, ap \in Op, lo \in Op, st \in Op :
           rp = Rel("ptable") /\ ap = Acq("ptable") /\ lo = Do("loop") /\ st = Do("sti")
    BY OpsAre
  <1>5. Whole(rp) /\ Whole(ap) /\ Whole(lo) /\ Whole(st)
    BY <1>3, <1>4, OpsAre, OpsDo
  <1>6. PICK no \in LockSets, hp \in LockSets : no = {} /\ hp = {"ptable"}
    BY LockSetsAre
  <1>7. Trans(lo, hp, an, hp, an, e) /\ Trans(st, no, an, no, an, e)
    BY <1>3, <1>4, <1>6, OpsDo
  <1>8. Trans(rp, hp, an, no, an, e) /\ Trans(ap, no, an, hp, an, e)
    BY <1>4, <1>6, LocksDo
  <1>9. Good(E, no, an, e) /\ Calm(E)
    BY <1>3, <1>6, GoodEmpty DEF Calm
  <1>10. t3 = Cons(rp, E) /\ t2 = Cons(lo, t3) /\ t1 = Cons(ap, t2) /\ SchedulerTurn = Cons(st, t1)
    BY <1>1, <1>4
  <1> HIDE DEF E, t1, t2, t3
  <1>11. Good(t3, hp, an, e) /\ Calm(t3)
    BY <1>2, <1>5, <1>8, <1>9, <1>10, GoodNext
  <1>12. Good(t2, hp, an, e) /\ Calm(t2)
    BY <1>2, <1>5, <1>7, <1>10, <1>11, GoodNext
  <1>13. Good(t1, no, an, e) /\ Calm(t1)
    BY <1>2, <1>5, <1>8, <1>10, <1>12, GoodNext
  <1>14. Good(SchedulerTurn, no, an, e)
    BY <1>2, <1>5, <1>7, <1>10, <1>13, GoodNext
  <1> QED BY <1>2, <1>3, <1>6, <1>14

LEMMA GoodCalls ==
    ASSUME NEW s \in SystemCalls
    PROVE  s \in Seq(Op) /\ Good(s, {}, "on", "on") /\ Calm(s)
  <1>1. CASE s = WakeupCall
    <2>1. <<>> \in Seq(Op) /\ "on" \in Flags /\ "on" \in Ends /\ Good(<<>>, {}, "on", "on") /\ Calm(<<>>)
      BY GoodEmpty DEF Flags, Ends, Calm
    <2>2. /\ Good(Cat(WakeupCall, <<>>), {}, "on", "on") /\ Calm(Cat(WakeupCall, <<>>))
          /\ WakeupCall \in Seq(Op)
      BY <2>1, GoodWakeup
    <2>3. Cat(WakeupCall, <<>>) = WakeupCall
      BY <2>2, ConcatEmptySeq DEF Cat
    <2> QED BY <1>1, <2>2, <2>3
  <1>2. CASE s # WakeupCall
    <2> DEFINE t7 == <<Rel("device")>>
               t6 == <<Acq("device"), Rel("device")>>
               t5 == <<Rel("ptable"), Acq("device"), Rel("device")>>
               t4 == <<Do("sched"), Rel("ptable"), Acq("device"), Rel("device")>>
               t3 == <<Rel("device"), Do("sched"), Rel("ptable"), Acq("device"), Rel("device")>>
               t2 == <<Acq("ptable"), Rel("device"), Do("sched"), Rel("ptable"), Acq("device"),
                       Rel("device")>>
               E == <<>>
    <2>1. /\ t7 = Cons(Rel("device"), E) /\ t6 = Cons(Acq("device"), t7) /\ t5 = Cons(Rel("ptable"), t6)
          /\ t4 = Cons(Do("sched"), t5) /\ t3 = Cons(Rel("device"), t4) /\ t2 = Cons(Acq("ptable"), t3)
          /\ s = Cons(Acq("device"), t2)
      BY <1>2 DEF SystemCalls, Cons
    <2>2. E \in Seq(Op) /\ t7 \in Seq(Op) /\ t6 \in Seq(Op) /\ t5 \in Seq(Op) /\ t4 \in Seq(Op)
          /\ t3 \in Seq(Op) /\ t2 \in Seq(Op)
      BY OpsAre
    <2>3. PICK e \in Ends, f \in Flags : e = "on" /\ f = "on"
      BY DEF Ends, Flags
    <2>4. PICK ad \in Op, ap \in Op, rd \in Op, rp \in Op, sc \in Op :
             /\ ad = Acq("device") /\ ap = Acq("ptable") /\ rd = Rel("device") /\ rp = Rel("ptable")
             /\ sc = Do("sched")
      BY OpsAre
    <2>5. Whole(ad) /\ Whole(ap) /\ Whole(rd) /\ Whole(rp) /\ Whole(sc)
      BY <2>3, <2>4, OpsAre, OpsDo
    <2>6. PICK no \in LockSets, hd \in LockSets, hp \in LockSets, hb \in LockSets :
             no = {} /\ hd = {"device"} /\ hp = {"ptable"} /\ hb = {"device", "ptable"}
      BY LockSetsAre
    <2>7. /\ Trans(ad, no, f, hd, f, e) /\ Trans(ap, hd, f, hb, f, e) /\ Trans(rd, hb, f, hp, f, e)
          /\ Trans(rp, hp, f, no, f, e) /\ Trans(rd, hd, f, no, f, e)
      BY <2>4, <2>6, LocksDo
    <2>8. Trans(sc, hp, f, hp, f, e)
      BY <2>3, <2>4, <2>6, OpsDo
    <2>9. Good(E, no, f, e) /\ Calm(E)
      BY <2>3, <2>6, GoodEmpty DEF Calm
    <2>10. /\ t7 = Cons(rd, E) /\ t6 = Cons(ad, t7) /\ t5 = Cons(rp, t6) /\ t4 = Cons(sc, t5)
           /\ t3 = Cons(rd, t4) /\ t2 = Cons(ap, t3) /\ s = Cons(ad, t2)
      BY <2>1, <2>4
    <2> HIDE DEF E, t2, t3, t4, t5, t6, t7
    <2>11. Good(t7, hd, f, e) /\ Calm(t7)
      BY <2>2, <2>5, <2>7, <2>9, <2>10, GoodNext
    <2>12. Good(t6, no, f, e) /\ Calm(t6)
      BY <2>2, <2>5, <2>7, <2>10, <2>11, GoodNext
    <2>13. Good(t5, hp, f, e) /\ Calm(t5)
      BY <2>2, <2>5, <2>7, <2>10, <2>12, GoodNext
    <2>14. Good(t4, hp, f, e) /\ Calm(t4)
      BY <2>2, <2>5, <2>8, <2>10, <2>13, GoodNext
    <2>15. Good(t3, hb, f, e) /\ Calm(t3)
      BY <2>2, <2>5, <2>7, <2>10, <2>14, GoodNext
    <2>16. Good(t2, hd, f, e) /\ Calm(t2)
      BY <2>2, <2>5, <2>7, <2>10, <2>15, GoodNext
    <2>17. Good(s, no, f, e) /\ Calm(s)
      BY <2>2, <2>5, <2>7, <2>10, <2>16, GoodNext
    <2>18. s \in Seq(Op)
      BY <2>2, <2>10, ConsFront DEF Cons
    <2> QED BY <2>3, <2>6, <2>17, <2>18
  <1> QED BY <1>1, <1>2

-----------------------------------------------------------------------------
EndOf(x) == IF x \in Kthread THEN "on" ELSE "any"
LocksOf(c) == {l \in Lock : holder[l] = c}

SpinTypes ==
    /\ holder \in [Lock -> CPU \cup {NoCpu}]
    /\ eflags \in [CPU -> BOOLEAN] /\ intena \in [CPU -> BOOLEAN] /\ ncli \in [CPU -> Nat]
    /\ cur \in [CPU -> CPU \cup Kthread]
    /\ \A c \in CPU : cur[c] \in CPU => cur[c] = c
    /\ \A c, d \in CPU : cur[c] = cur[d] => c = d
    /\ todo \in [CPU \cup Kthread -> Seq(Op)]
    /\ saved \in [Kthread -> BOOLEAN]

\* The processor c and its context.
OnCpu(c) ==
    \E f : CpuOK(todo[cur[c]], LocksOf(c), f, EndOf(cur[c]), ncli[c], eflags[c], intena[c],
                 saved[cur[c]])

\* A scheduler whose processor runs a thread, and a thread that does not run.
SchedulerWaits(c) ==
    /\ Good(todo[c], {"ptable"}, "any", "any")
    /\ todo[c] # <<>> /\ Head(todo[c]).op = "loop"

ThreadWaits(t) ==
    \E f : /\ Good(todo[t], {"ptable"}, f, "on")
           /\ \/ AtResume(todo[t]) /\ Obeys(saved[t], f)
              \/ todo[t] = Forkret /\ f = "any"

SpinInv ==
    /\ SpinTypes /\ stuck = FALSE
    /\ \A c \in CPU : OnCpu(c)
    /\ \A c \in CPU : cur[c] # c => SchedulerWaits(c)
    /\ \A t \in Kthread : (\A c \in CPU : cur[c] # t) => ThreadWaits(t)

\* The processor c does something that is no concern of the others.
LEMMA LocalStep ==
    ASSUME SpinInv, NEW c \in CPU, NEW u \in Seq(Op), todo' = [todo EXCEPT ![cur[c]] = u],
           cur' = cur, saved' = saved, stuck' = FALSE,
           holder' \in [Lock -> CPU \cup {NoCpu}], \A d \in CPU : d # c => LocksOf(d)' = LocksOf(d),
           eflags' \in [CPU -> BOOLEAN], intena' \in [CPU -> BOOLEAN], ncli' \in [CPU -> Nat],
           \A d \in CPU : d # c => eflags'[d] = eflags[d] /\ intena'[d] = intena[d] /\ ncli'[d] = ncli[d],
           \E f : CpuOK(u, LocksOf(c)', f, EndOf(cur[c]), ncli'[c], eflags'[c], intena'[c], saved[cur[c]])
    PROVE  SpinInv'
  <1>1. /\ cur[c] \in CPU \cup Kthread
        /\ todo' \in [CPU \cup Kthread -> Seq(Op)]
        /\ \A x \in CPU \cup Kthread : todo'[x] = IF x = cur[c] THEN u ELSE todo[x]
    BY DEF SpinInv, SpinTypes
  <1>2. SpinTypes'
    BY <1>1 DEF SpinInv, SpinTypes
  <1>3. ASSUME NEW d \in CPU PROVE OnCpu(d)'
    <2>1. CASE d = c
      BY <1>1, <2>1 DEF OnCpu
    <2>2. CASE d # c
      <3>1. cur[d] # cur[c] /\ cur[d] \in CPU \cup Kthread
        BY <2>2 DEF SpinInv, SpinTypes
      <3>2. todo'[cur[d]] = todo[cur[d]]
        BY <1>1, <3>1
      <3>3. OnCpu(d)
        BY DEF SpinInv
      <3>4. LocksOf(d)' = LocksOf(d) /\ eflags'[d] = eflags[d] /\ intena'[d] = intena[d] /\ ncli'[d] = ncli[d]
        BY <2>2
      <3> QED BY <3>2, <3>3, <3>4 DEF OnCpu
    <2> QED BY <2>1, <2>2
  <1>4. ASSUME NEW d \in CPU, cur[d] # d PROVE SchedulerWaits(d)'
    <2>1. d # cur[c]
      BY <1>4 DEF SpinInv, SpinTypes
    <2>2. todo'[d] = todo[d] /\ SchedulerWaits(d)
      BY <1>1, <1>4, <2>1 DEF SpinInv
    <2> QED BY <2>2 DEF SchedulerWaits
  <1>5. ASSUME NEW t \in Kthread, \A d \in CPU : cur[d] # t PROVE ThreadWaits(t)'
    <2>1. todo'[t] = todo[t] /\ ThreadWaits(t)
      BY <1>1, <1>5 DEF SpinInv
    <2> QED BY <2>1 DEF ThreadWaits
  <1> QED BY <1>2, <1>3, <1>4, <1>5 DEF SpinInv

\* The processor c by name.
CoreAt(c, s, h, f, e, num, ef, ie, sv) ==
    /\ s \in Seq(Op) /\ h \in SUBSET Lock /\ e \in Ends /\ num \in Nat
    /\ ef \in BOOLEAN /\ ie \in BOOLEAN
    /\ s = todo[cur[c]] /\ h = LocksOf(c) /\ e = EndOf(cur[c])
    /\ num = ncli[c] /\ ef = eflags[c] /\ ie = intena[c] /\ sv = saved[cur[c]]
    /\ CpuOK(s, h, f, e, num, ef, ie, sv)

LEMMA Here ==
    ASSUME SpinInv, NEW c \in CPU
    PROVE  \E s, h, f, e, num, ef, ie, sv : CoreAt(c, s, h, f, e, num, ef, ie, sv)
  <1>1. PICK f : CpuOK(todo[cur[c]], LocksOf(c), f, EndOf(cur[c]), ncli[c], eflags[c], intena[c],
                       saved[cur[c]])
    BY DEF SpinInv, OnCpu
  <1>2. PICK s, h, e : s = todo[cur[c]] /\ h = LocksOf(c) /\ e = EndOf(cur[c])
    OBVIOUS
  <1>3. PICK num, ef, ie, sv : num = ncli[c] /\ ef = eflags[c] /\ ie = intena[c] /\ sv = saved[cur[c]]
    OBVIOUS
  <1>4. s \in Seq(Op) /\ num \in Nat /\ ef \in BOOLEAN /\ ie \in BOOLEAN
    BY <1>2, <1>3 DEF SpinInv, SpinTypes
  <1>5. h \in SUBSET Lock /\ e \in Ends
    BY <1>2 DEF LocksOf, EndOf, Ends
  <1>6. CpuOK(s, h, f, e, num, ef, ie, sv)
    BY <1>1, <1>2, <1>3
  <1>7. CoreAt(c, s, h, f, e, num, ef, ie, sv)
    BY <1>2, <1>3, <1>4, <1>5, <1>6 DEF CoreAt
  <1> QED BY <1>7

LEMMA AcquireInv ==
    ASSUME SpinInv, NEW c \in CPU, Acquire(c)
    PROVE  SpinInv'
  <1>0. PICK s, h, f, e, num, ef, ie, sv : CoreAt(c, s, h, f, e, num, ef, ie, sv)
    BY Here
  <1>1. /\ s \in Seq(Op) /\ h \in SUBSET Lock /\ e \in Ends /\ num \in Nat
        /\ ef \in BOOLEAN /\ ie \in BOOLEAN
        /\ s = todo[cur[c]] /\ h = LocksOf(c) /\ e = EndOf(cur[c])
        /\ num = ncli[c] /\ ef = eflags[c] /\ ie = intena[c] /\ sv = saved[cur[c]]
        /\ CpuOK(s, h, f, e, num, ef, ie, sv)
    BY <1>0 DEF CoreAt
  <1>2. s # <<>> /\ Head(s).op = "acquire"
    BY <1>1 DEF Acquire, AtOp
  <1>3. PICK l, u : l = Head(s).lock /\ u = <<Spin(l)>> \o Tail(s)
    OBVIOUS
  <1>4. PICK ie2 : ie2 = IF num = 0 THEN ef ELSE ie
    OBVIOUS
  <1>4a. PICK m, no : m = num + 1 /\ no = FALSE
    OBVIOUS
  <1>4b. AcquireDoes(s, num, ef, ie, l, u, m, no, ie2)
    BY <1>2, <1>3, <1>4, <1>4a DEF AcquireDoes
  <1>5. u \in Seq(Op) /\ l \in Lock /\ l \notin h /\ CpuOK(u, h, f, e, m, no, ie2, sv)
    BY <1>1, <1>4b, StepAcquire
  <1>6. /\ eflags' = [eflags EXCEPT ![c] = FALSE]
        /\ intena' = [intena EXCEPT ![c] = ie2] /\ ie2 \in BOOLEAN
        /\ ncli' = [ncli EXCEPT ![c] = num + 1]
    BY <1>1, <1>4 DEF Acquire, pushcli
  <1>7. todo' = [todo EXCEPT ![cur[c]] = u]
    BY <1>1, <1>3 DEF Acquire, Then, TheLock
  <1>8. stuck' = FALSE
    <2>1. holder[l] # c
      BY <1>1, <1>5 DEF LocksOf
    <2> QED BY <1>1, <1>3, <2>1 DEF Acquire, PanicUnless, TheLock
  <1>9. holder' = holder /\ cur' = cur /\ saved' = saved
    BY DEF Acquire
  <1>10. /\ eflags' \in [CPU -> BOOLEAN] /\ intena' \in [CPU -> BOOLEAN] /\ ncli' \in [CPU -> Nat]
         /\ eflags'[c] = FALSE /\ intena'[c] = ie2 /\ ncli'[c] = num + 1
         /\ \A d \in CPU : d # c => eflags'[d] = eflags[d] /\ intena'[d] = intena[d] /\ ncli'[d] = ncli[d]
    BY <1>1, <1>6 DEF SpinInv, SpinTypes
  <1>11. \A d \in CPU : LocksOf(d)' = LocksOf(d)
    BY <1>9 DEF LocksOf
  <1>12. CpuOK(u, LocksOf(c)', f, EndOf(cur[c]), ncli'[c], eflags'[c], intena'[c], saved[cur[c]])
    BY <1>1, <1>4a, <1>5, <1>10, <1>11
  <1>13. holder' \in [Lock -> CPU \cup {NoCpu}]
    BY <1>9 DEF SpinInv, SpinTypes
  <1> QED BY <1>5, <1>7, <1>8, <1>9, <1>10, <1>11, <1>12, <1>13, LocalStep

LEMMA XchgInv ==
    ASSUME SpinInv, NEW c \in CPU, Xchg(c)
    PROVE  SpinInv'
  <1>0. PICK s, h, f, e, num, ef, ie, sv : CoreAt(c, s, h, f, e, num, ef, ie, sv)
    BY Here
  <1>1. /\ s \in Seq(Op) /\ h \in SUBSET Lock /\ e \in Ends /\ num \in Nat
        /\ ef \in BOOLEAN /\ ie \in BOOLEAN
        /\ s = todo[cur[c]] /\ h = LocksOf(c) /\ e = EndOf(cur[c])
        /\ num = ncli[c] /\ ef = eflags[c] /\ ie = intena[c] /\ sv = saved[cur[c]]
        /\ CpuOK(s, h, f, e, num, ef, ie, sv)
    BY <1>0 DEF CoreAt
  <1>2. s # <<>> /\ Head(s).op = "spin"
    BY <1>1 DEF Xchg, AtOp
  <1>3. PICK l, u : l = Head(s).lock /\ u = Tail(s)
    OBVIOUS
  <1>4. PICK h2 : h2 = h \cup {l}
    OBVIOUS
  <1>5. u \in Seq(Op) /\ l \in Lock /\ CpuOK(u, h2, f, e, num, ef, ie, sv)
    <2>1. SpinDoes(s, h, l, u, h2)
      BY <1>2, <1>3, <1>4 DEF SpinDoes
    <2> QED BY <1>1, <2>1, StepSpin
  <1>6. /\ holder[l] = NoCpu /\ holder' = [holder EXCEPT ![l] = c]
        /\ UNCHANGED <<eflags, ncli, intena, cur, saved, stuck>>
    BY <1>1, <1>3 DEF Xchg, TheLock
  <1>7. todo' = [todo EXCEPT ![cur[c]] = u]
    BY <1>1, <1>3 DEF Xchg, Did
  <1>8. holder' \in [Lock -> CPU \cup {NoCpu}] /\ \A k \in Lock : holder'[k] = IF k = l THEN c ELSE holder[k]
    BY <1>5, <1>6 DEF SpinInv, SpinTypes
  <1>9. \A d \in CPU : d # c => LocksOf(d)' = LocksOf(d)
    BY <1>5, <1>6, <1>8, SpinAssumption DEF LocksOf
  <1>10. LocksOf(c)' = h2
    BY <1>1, <1>4, <1>5, <1>6, <1>8, SpinAssumption DEF LocksOf
  <1>11. CpuOK(u, LocksOf(c)', f, EndOf(cur[c]), ncli'[c], eflags'[c], intena'[c], saved[cur[c]])
    BY <1>1, <1>5, <1>6, <1>10
  <1>12. /\ eflags' \in [CPU -> BOOLEAN] /\ intena' \in [CPU -> BOOLEAN] /\ ncli' \in [CPU -> Nat]
         /\ \A d \in CPU : d # c => eflags'[d] = eflags[d] /\ intena'[d] = intena[d] /\ ncli'[d] = ncli[d]
         /\ stuck' = FALSE
    BY <1>6 DEF SpinInv, SpinTypes
  <1> QED BY <1>5, <1>6, <1>7, <1>8, <1>9, <1>11, <1>12, LocalStep

LEMMA ReleaseInv ==
    ASSUME SpinInv, NEW c \in CPU, Release(c)
    PROVE  SpinInv'
  <1>0. PICK s, h, f, e, num, ef, ie, sv : CoreAt(c, s, h, f, e, num, ef, ie, sv)
    BY Here
  <1>1. /\ s \in Seq(Op) /\ h \in SUBSET Lock /\ e \in Ends /\ num \in Nat
        /\ ef \in BOOLEAN /\ ie \in BOOLEAN
        /\ s = todo[cur[c]] /\ h = LocksOf(c) /\ e = EndOf(cur[c])
        /\ num = ncli[c] /\ ef = eflags[c] /\ ie = intena[c] /\ sv = saved[cur[c]]
        /\ CpuOK(s, h, f, e, num, ef, ie, sv)
    BY <1>0 DEF CoreAt
  <1>2. s # <<>> /\ Head(s).op = "release"
    BY <1>1 DEF Release, AtOp
  <1>3. PICK l, u : l = Head(s).lock /\ u = <<Do("popcli")>> \o Tail(s)
    OBVIOUS
  <1>4. PICK h2 : h2 = h \ {l}
    OBVIOUS
  <1>5. u \in Seq(Op) /\ l \in Lock /\ l \in h /\ CpuOK(u, h2, f, e, num, ef, ie, sv)
    <2>1. ReleaseDoes(s, h, l, u, h2)
      BY <1>2, <1>3, <1>4 DEF ReleaseDoes
    <2> QED BY <1>1, <2>1, StepRelease
  <1>6. /\ stuck' = ~(holder[l] = c) /\ holder' = [holder EXCEPT ![l] = NoCpu]
        /\ UNCHANGED <<eflags, ncli, intena, cur, saved>>
    BY <1>1, <1>3 DEF Release, TheLock, PanicUnless
  <1>7. todo' = [todo EXCEPT ![cur[c]] = u]
    BY <1>1, <1>3 DEF Release, Then
  <1>8. holder' \in [Lock -> CPU \cup {NoCpu}] /\ holder[l] = c
        /\ \A k \in Lock : holder'[k] = IF k = l THEN NoCpu ELSE holder[k]
    BY <1>1, <1>5, <1>6 DEF SpinInv, SpinTypes, LocksOf
  <1>9. \A d \in CPU : d # c => LocksOf(d)' = LocksOf(d)
    BY <1>5, <1>8, SpinAssumption DEF LocksOf
  <1>10. LocksOf(c)' = h2
    BY <1>1, <1>4, <1>5, <1>8, SpinAssumption DEF LocksOf
  <1>11. CpuOK(u, LocksOf(c)', f, EndOf(cur[c]), ncli'[c], eflags'[c], intena'[c], saved[cur[c]])
    BY <1>1, <1>5, <1>6, <1>10
  <1>12. /\ eflags' \in [CPU -> BOOLEAN] /\ intena' \in [CPU -> BOOLEAN] /\ ncli' \in [CPU -> Nat]
         /\ \A d \in CPU : d # c => eflags'[d] = eflags[d] /\ intena'[d] = intena[d] /\ ncli'[d] = ncli[d]
    BY <1>6 DEF SpinInv, SpinTypes
  <1>13. stuck' = FALSE
    BY <1>6, <1>8
  <1> QED BY <1>5, <1>6, <1>7, <1>8, <1>9, <1>11, <1>12, <1>13, LocalStep

LEMMA PopcliInv ==
    ASSUME SpinInv, NEW c \in CPU, popcli(c)
    PROVE  SpinInv'
  <1>0. PICK s, h, f, e, num, ef, ie, sv : CoreAt(c, s, h, f, e, num, ef, ie, sv)
    BY Here
  <1>1. /\ s \in Seq(Op) /\ h \in SUBSET Lock /\ e \in Ends /\ num \in Nat
        /\ ef \in BOOLEAN /\ ie \in BOOLEAN
        /\ s = todo[cur[c]] /\ h = LocksOf(c) /\ e = EndOf(cur[c])
        /\ num = ncli[c] /\ ef = eflags[c] /\ ie = intena[c] /\ sv = saved[cur[c]]
        /\ CpuOK(s, h, f, e, num, ef, ie, sv)
    BY <1>0 DEF CoreAt
  <1>2. s # <<>> /\ Head(s).op = "popcli"
    BY <1>1 DEF popcli, AtOp
  <1>3. PICK u : u = Tail(s)
    OBVIOUS
  <1>5. PICK ef2 : ef2 \in BOOLEAN /\ ef2 = (num = 1 /\ ie)
    <2>1. CASE num = 1 /\ ie
      <3>1. TRUE = (num = 1 /\ ie)
        BY <2>1
      <3> QED BY <3>1
    <2>2. CASE ~(num = 1 /\ ie)
      <3>1. FALSE = (num = 1 /\ ie)
        BY <2>2
      <3> QED BY <3>1
    <2> QED BY <2>1, <2>2
  <1>5a. PICK m : m = num - 1
    OBVIOUS
  <1>4. u \in Seq(Op) /\ num > 0 /\ ef = FALSE /\ CpuOK(u, h, f, e, m, ef2, ie, sv)
    <2>1. PopcliDoes(s, num, ie, u, m, ef2)
      BY <1>2, <1>3, <1>5, <1>5a DEF PopcliDoes
    <2>2. s \in Seq(Op) /\ e \in Ends /\ CpuOK(s, h, f, e, num, ef, ie, sv)
      BY <1>1
    <2>3. CpuOK(u, h, f, e, m, ef2, ie, sv)
      BY <2>1, <2>2, StepPopcli
    <2>4. u \in Seq(Op)
      BY <2>1, <2>2, StepPopcli
    <2>5. num > 0
      BY <2>1, <2>2, StepPopcli
    <2>6. ef = FALSE
      BY <2>2, <2>5 DEF CpuOK
    <2> QED BY <2>3, <2>4, <2>5, <2>6
  <1>6. /\ eflags' = [eflags EXCEPT ![c] = ef2] /\ ncli' = [ncli EXCEPT ![c] = num - 1]
        /\ UNCHANGED <<holder, intena, cur, saved>>
    BY <1>1, <1>5 DEF popcli
  <1>7. stuck' = FALSE
    BY <1>1, <1>4 DEF popcli, PanicUnless
  <1>8. todo' = [todo EXCEPT ![cur[c]] = u]
    BY <1>1, <1>3 DEF popcli, Did
  <1>9. /\ eflags' \in [CPU -> BOOLEAN] /\ intena' \in [CPU -> BOOLEAN] /\ ncli' \in [CPU -> Nat]
        /\ eflags'[c] = ef2 /\ intena'[c] = ie /\ ncli'[c] = num - 1
        /\ \A d \in CPU : d # c => eflags'[d] = eflags[d] /\ intena'[d] = intena[d] /\ ncli'[d] = ncli[d]
    <2>1. ef2 \in BOOLEAN /\ num - 1 \in Nat
      BY <1>1, <1>4, <1>5
    <2> QED BY <1>1, <1>6, <2>1 DEF SpinInv, SpinTypes
  <1>10. \A d \in CPU : LocksOf(d)' = LocksOf(d)
    BY <1>6 DEF LocksOf
  <1>11. CpuOK(u, h, f, e, num - 1, ef2, ie, sv)
    BY <1>4, <1>5a
  <1>12. CpuOK(u, LocksOf(c)', f, EndOf(cur[c]), ncli'[c], eflags'[c], intena'[c], saved[cur[c]])
    BY <1>1, <1>9, <1>10, <1>11
  <1>13. holder' \in [Lock -> CPU \cup {NoCpu}]
    BY <1>6 DEF SpinInv, SpinTypes
  <1> QED BY <1>4, <1>6, <1>7, <1>8, <1>9, <1>10, <1>12, <1>13, LocalStep

LEMMA ResumeInv ==
    ASSUME SpinInv, NEW c \in CPU, Resume(c)
    PROVE  SpinInv'
  <1>0. PICK s, h, f, e, num, ef, ie, sv : CoreAt(c, s, h, f, e, num, ef, ie, sv)
    BY Here
  <1>1. /\ s \in Seq(Op) /\ h \in SUBSET Lock /\ e \in Ends /\ num \in Nat
        /\ ef \in BOOLEAN /\ ie \in BOOLEAN
        /\ s = todo[cur[c]] /\ h = LocksOf(c) /\ e = EndOf(cur[c])
        /\ num = ncli[c] /\ ef = eflags[c] /\ ie = intena[c] /\ sv = saved[cur[c]]
        /\ CpuOK(s, h, f, e, num, ef, ie, sv)
    BY <1>0 DEF CoreAt
  <1>2. s \in Seq(Op) /\ e \in Ends /\ CpuOK(s, h, f, e, num, ef, ie, sv)
    BY <1>1
  <1>3. PICK u : u = Tail(s)
    OBVIOUS
  <1>4. ResumeDoes(s, u)
    BY <1>1, <1>3 DEF Resume, AtOp, ResumeDoes
  <1>5. u \in Seq(Op) /\ CpuOK(u, h, f, e, num, ef, sv, sv)
    BY <1>2, <1>4, StepResume
  <1>6. cur[c] \in Kthread
    <2>1. Good(s, h, f, e)
      BY <1>2 DEF CpuOK
    <2>2. PICK h2 \in SUBSET Lock, f2 \in Flags : Trans(Head(s), h, f, h2, f2, e)
      BY <1>2, <1>4, <2>1, GoodTail DEF ResumeDoes
    <2>3. e = "on"
      BY <1>4, <2>2 DEF Trans, ResumeDoes
    <2> QED BY <1>1, <2>3 DEF EndOf
  <1>7. sv \in BOOLEAN
    BY <1>1, <1>6 DEF SpinInv, SpinTypes
  <1>8. /\ intena' = [intena EXCEPT ![c] = sv] /\ stuck' = FALSE
        /\ holder' = holder /\ eflags' = eflags /\ ncli' = ncli /\ cur' = cur /\ saved' = saved
        /\ todo' = [todo EXCEPT ![cur[c]] = u]
    BY <1>1, <1>3 DEF Resume, Did, SpinInv
  <1>9. /\ eflags' \in [CPU -> BOOLEAN] /\ intena' \in [CPU -> BOOLEAN] /\ ncli' \in [CPU -> Nat]
        /\ holder' \in [Lock -> CPU \cup {NoCpu}] /\ intena'[c] = sv
        /\ \A d \in CPU : d # c => eflags'[d] = eflags[d] /\ intena'[d] = intena[d] /\ ncli'[d] = ncli[d]
    BY <1>7, <1>8 DEF SpinInv, SpinTypes
  <1>10. \A d \in CPU : LocksOf(d)' = LocksOf(d)
    BY <1>8 DEF LocksOf
  <1>11. CpuOK(u, LocksOf(c)', f, EndOf(cur[c]), ncli'[c], eflags'[c], intena'[c], saved[cur[c]])
    BY <1>1, <1>5, <1>8, <1>9, <1>10
  <1> QED BY <1>5, <1>8, <1>9, <1>10, <1>11, LocalStep

\* Steps that change nothing but FL_IF and the list.
LEMMA ListStep ==
    ASSUME SpinInv, NEW c \in CPU, NEW u \in Seq(Op), todo' = [todo EXCEPT ![cur[c]] = u],
           NEW b, b \in BOOLEAN, eflags' = [eflags EXCEPT ![c] = b],
           holder' = holder, ncli' = ncli, intena' = intena, cur' = cur, saved' = saved, stuck' = stuck,
           NEW g, CpuOK(u, LocksOf(c), g, EndOf(cur[c]), ncli[c], b, intena[c], saved[cur[c]])
    PROVE  SpinInv'
  <1>1. /\ eflags' \in [CPU -> BOOLEAN] /\ intena' \in [CPU -> BOOLEAN] /\ ncli' \in [CPU -> Nat]
        /\ holder' \in [Lock -> CPU \cup {NoCpu}] /\ eflags'[c] = b /\ stuck' = FALSE
        /\ \A d \in CPU : d # c => eflags'[d] = eflags[d] /\ intena'[d] = intena[d] /\ ncli'[d] = ncli[d]
    BY DEF SpinInv, SpinTypes
  <1>2. \A d \in CPU : LocksOf(d)' = LocksOf(d)
    BY DEF LocksOf
  <1>3. CpuOK(u, LocksOf(c)', g, EndOf(cur[c]), ncli'[c], eflags'[c], intena'[c], saved[cur[c]])
    BY <1>1, <1>2
  <1> QED BY <1>1, <1>2, <1>3, LocalStep

LEMMA LoopEndsInv ==
    ASSUME SpinInv, NEW c \in CPU, LoopEnds(c)
    PROVE  SpinInv'
  <1>0. PICK s, h, f, e, num, ef, ie, sv : CoreAt(c, s, h, f, e, num, ef, ie, sv)
    BY Here
  <1>1. /\ s \in Seq(Op) /\ h \in SUBSET Lock /\ e \in Ends /\ num \in Nat
        /\ ef \in BOOLEAN /\ ie \in BOOLEAN
        /\ s = todo[cur[c]] /\ h = LocksOf(c) /\ e = EndOf(cur[c])
        /\ num = ncli[c] /\ ef = eflags[c] /\ ie = intena[c] /\ sv = saved[cur[c]]
        /\ CpuOK(s, h, f, e, num, ef, ie, sv)
    BY <1>0 DEF CoreAt
  <1>2. s \in Seq(Op) /\ e \in Ends /\ CpuOK(s, h, f, e, num, ef, ie, sv)
    BY <1>1
  <1>3. PICK u : u = Tail(s)
    OBVIOUS
  <1>4. LoopDoes(s, u)
    BY <1>1, <1>3 DEF LoopEnds, AtOp, LoopDoes
  <1>5. u \in Seq(Op) /\ CpuOK(u, h, f, e, num, ef, ie, sv)
    BY <1>2, <1>4, StepLoop
  <1>6. /\ stuck' = stuck /\ intena' = intena
        /\ holder' = holder /\ eflags' = eflags /\ ncli' = ncli /\ cur' = cur /\ saved' = saved
        /\ todo' = [todo EXCEPT ![cur[c]] = u]
    BY <1>1, <1>3 DEF LoopEnds, Did
  <1>7. eflags' = [eflags EXCEPT ![c] = ef]
    BY <1>1, <1>6 DEF SpinInv, SpinTypes
  <1>8. CpuOK(u, LocksOf(c), f, EndOf(cur[c]), ncli[c], ef, intena[c], saved[cur[c]]) /\ ef \in BOOLEAN
    BY <1>1, <1>5
  <1> QED BY <1>5, <1>6, <1>7, <1>8, ListStep

LEMMA EnableInv ==
    ASSUME SpinInv, NEW c \in CPU, Enable(c)
    PROVE  SpinInv'
  <1>0. PICK s, h, f, e, num, ef, ie, sv : CoreAt(c, s, h, f, e, num, ef, ie, sv)
    BY Here
  <1>1. /\ s \in Seq(Op) /\ h \in SUBSET Lock /\ e \in Ends /\ num \in Nat
        /\ ef \in BOOLEAN /\ ie \in BOOLEAN
        /\ s = todo[cur[c]] /\ h = LocksOf(c) /\ e = EndOf(cur[c])
        /\ num = ncli[c] /\ ef = eflags[c] /\ ie = intena[c] /\ sv = saved[cur[c]]
        /\ CpuOK(s, h, f, e, num, ef, ie, sv)
    BY <1>0 DEF CoreAt
  <1>2. s \in Seq(Op) /\ e \in Ends /\ CpuOK(s, h, f, e, num, ef, ie, sv)
    BY <1>1
  <1>3. PICK u, yes : u = Tail(s) /\ yes = TRUE
    OBVIOUS
  <1>4. EnableDoes(s, u, yes)
    BY <1>1, <1>3 DEF Enable, AtOp, EnableDoes
  <1>5. u \in Seq(Op) /\ \E g : CpuOK(u, h, g, e, num, yes, ie, sv)
    BY <1>2, <1>4, StepEnable
  <1>6. PICK g : CpuOK(u, h, g, e, num, yes, ie, sv)
    BY <1>5
  <1>7. /\ stuck' = stuck /\ intena' = intena
        /\ holder' = holder /\ eflags' = [eflags EXCEPT ![c] = yes] /\ ncli' = ncli /\ cur' = cur
        /\ saved' = saved /\ todo' = [todo EXCEPT ![cur[c]] = u]
    BY <1>1, <1>3 DEF Enable, Did
  <1>8. CpuOK(u, LocksOf(c), g, EndOf(cur[c]), ncli[c], yes, intena[c], saved[cur[c]]) /\ yes \in BOOLEAN
    BY <1>1, <1>3, <1>6
  <1> QED BY <1>5, <1>7, <1>8, ListStep

\* A context that has nothing to do holds no lock, and begins something new.
LEMMA Restart ==
    ASSUME NEW s, s = <<>>, NEW h, NEW f, NEW e, NEW num, NEW ef, NEW ie, NEW sv,
           CpuOK(s, h, f, e, num, ef, ie, sv), NEW u, Good(u, {}, e, e), Calm(u)
    PROVE  CpuOK(u, h, f, e, num, ef, ie, sv)
  <1>1. PICK H, Fl : Sound(s, H, Fl, e) /\ H[1] = h /\ Fl[1] = f
    BY DEF CpuOK, Good
  <1>2. Len(s) = 0 /\ 0 + 1 = 1
    OBVIOUS
  <1>3. h = {} /\ f = e
    BY <1>1, <1>2 DEF Sound
  <1>4. ~HalfDone(s) /\ ~HalfDone(u)
    BY DEF HalfDone, Calm, Half
  <1>5. num = 0
    <2>1. Cardinality(h) = 0
      BY <1>3, FS_EmptySet
    <2> QED BY <1>4, <2>1 DEF CpuOK
  <1>6. Good(u, h, f, e)
    BY <1>3
  <1>7. num = Cardinality(h) + (IF HalfDone(u) THEN 1 ELSE 0) /\ Obeys(ef, f)
    BY <1>4, <1>5 DEF CpuOK
  <1> QED BY <1>5, <1>6, <1>7 DEF CpuOK

LEMMA TurnInv ==
    ASSUME SpinInv, NEW c \in CPU, Turn(c)
    PROVE  SpinInv'
  <1>0. PICK s, h, f, e, num, ef, ie, sv : CoreAt(c, s, h, f, e, num, ef, ie, sv)
    BY Here
  <1>1. /\ s \in Seq(Op) /\ h \in SUBSET Lock /\ e \in Ends /\ num \in Nat
        /\ ef \in BOOLEAN /\ ie \in BOOLEAN
        /\ s = todo[cur[c]] /\ h = LocksOf(c) /\ e = EndOf(cur[c])
        /\ num = ncli[c] /\ ef = eflags[c] /\ ie = intena[c] /\ sv = saved[cur[c]]
        /\ CpuOK(s, h, f, e, num, ef, ie, sv)
    BY <1>0 DEF CoreAt
  <1>2. s \in Seq(Op) /\ e \in Ends /\ CpuOK(s, h, f, e, num, ef, ie, sv)
    BY <1>1
  <1>3. s = <<>> /\ e = "any" /\ cur[c] = c
    BY <1>1, SpinAssumption DEF Turn, EndOf
  <1>4. PICK u : u = SchedulerTurn
    OBVIOUS
  <1>5. u \in Seq(Op) /\ Good(u, {}, e, e) /\ Calm(u)
    BY <1>3, <1>4, GoodTurn DEF Calm, Half
  <1>6. CpuOK(u, h, f, e, num, ef, ie, sv)
    BY <1>2, <1>3, <1>5, Restart
  <1>7. /\ stuck' = stuck /\ intena' = intena
        /\ holder' = holder /\ eflags' = eflags /\ ncli' = ncli /\ cur' = cur /\ saved' = saved
        /\ todo' = [todo EXCEPT ![cur[c]] = u]
    BY <1>3, <1>4 DEF Turn
  <1>8. eflags' = [eflags EXCEPT ![c] = ef]
    BY <1>1, <1>7 DEF SpinInv, SpinTypes
  <1>9. CpuOK(u, LocksOf(c), f, EndOf(cur[c]), ncli[c], ef, intena[c], saved[cur[c]]) /\ ef \in BOOLEAN
    BY <1>1, <1>6
  <1> QED BY <1>5, <1>7, <1>8, <1>9, ListStep

LEMMA SyscallInv ==
    ASSUME SpinInv, NEW c \in CPU, Syscall(c)
    PROVE  SpinInv'
  <1>0. PICK s, h, f, e, num, ef, ie, sv : CoreAt(c, s, h, f, e, num, ef, ie, sv)
    BY Here
  <1>1. /\ s \in Seq(Op) /\ h \in SUBSET Lock /\ e \in Ends /\ num \in Nat
        /\ ef \in BOOLEAN /\ ie \in BOOLEAN
        /\ s = todo[cur[c]] /\ h = LocksOf(c) /\ e = EndOf(cur[c])
        /\ num = ncli[c] /\ ef = eflags[c] /\ ie = intena[c] /\ sv = saved[cur[c]]
        /\ CpuOK(s, h, f, e, num, ef, ie, sv)
    BY <1>0 DEF CoreAt
  <1>2. s \in Seq(Op) /\ e \in Ends /\ CpuOK(s, h, f, e, num, ef, ie, sv)
    BY <1>1
  <1>3. s = <<>> /\ e = "on" /\ cur[c] \in Kthread
    BY <1>1 DEF Syscall, EndOf
  <1>4. PICK u \in SystemCalls : todo' = [todo EXCEPT ![cur[c]] = u]
    BY DEF Syscall
  <1>5. u \in Seq(Op) /\ Good(u, {}, e, e) /\ Calm(u)
    BY <1>3, <1>4, GoodCalls
  <1>6. CpuOK(u, h, f, e, num, ef, ie, sv)
    BY <1>2, <1>3, <1>5, Restart
  <1>7. /\ stuck' = stuck /\ intena' = intena
        /\ holder' = holder /\ eflags' = eflags /\ ncli' = ncli /\ cur' = cur /\ saved' = saved
    BY DEF Syscall
  <1>8. eflags' = [eflags EXCEPT ![c] = ef]
    BY <1>1, <1>7 DEF SpinInv, SpinTypes
  <1>9. CpuOK(u, LocksOf(c), f, EndOf(cur[c]), ncli[c], ef, intena[c], saved[cur[c]]) /\ ef \in BOOLEAN
    BY <1>1, <1>6
  <1> QED BY <1>4, <1>5, <1>7, <1>8, <1>9, ListStep

\* Who can be interrupted holds no lock, and the handler begins in front of it.
LEMMA StepInterrupt ==
    ASSUME NEW s \in Seq(Op), NEW h, NEW f, NEW e \in Ends, NEW num, NEW ef, NEW ie, NEW sv,
           CpuOK(s, h, f, e, num, ef, ie, sv), ef = TRUE, NEW u, NEW no, no = FALSE,
           u = Handler \o s \/ (e = "on" /\ u = TimerHandler \o s)
    PROVE  u \in Seq(Op) /\ \E g : CpuOK(u, h, g, e, num, no, ie, sv)
  <1>1. Good(s, h, f, e)
    BY DEF CpuOK
  <1>2. h \in SUBSET Lock /\ f \in Flags /\ (s # <<>> => Head(s) \in Op)
    <2>1. CASE s = <<>>
      <3>1. PICK H, Fl : Sound(s, H, Fl, e) /\ H[1] = h /\ Fl[1] = f
        BY <1>1 DEF Good
      <3>2. Len(s) = 0 /\ 0 + 1 = 1
        BY <2>1
      <3> QED BY <2>1, <3>1, <3>2 DEF Sound, Flags, Ends
    <2>2. CASE s # <<>>
      BY <1>1, <2>2, GoodTail
    <2> QED BY <2>1, <2>2
  <1>3. Cardinality(h) \in Nat /\ (Cardinality(h) = 0 <=> h = {})
    BY <1>2, LockCard
  <1>4. num = Cardinality(h) + (IF HalfDone(s) THEN 1 ELSE 0) /\ ~(num > 0)
    BY DEF CpuOK
  <1>5. ~HalfDone(s) /\ num = 0 /\ h = {}
    BY <1>3, <1>4
  <1>6. ~AtResume(s)
    <2> SUFFICES ASSUME AtResume(s) PROVE FALSE
      OBVIOUS
    <2>1. PICK h2 \in SUBSET Lock, f2 \in Flags : Trans(Head(s), h, f, h2, f2, e)
      BY <1>1, GoodTail DEF AtResume
    <2> QED BY <1>5, <2>1 DEF Trans, AtResume
  <1>7. Calm(s)
    BY <1>5, <1>6 DEF Calm, HalfDone, AtResume, Half
  <1>8. f \in Ends
    <2>1. Obeys(ef, f)
      BY <1>5 DEF CpuOK
    <2> QED BY <1>2, <2>1 DEF Obeys, Flags, Ends
  <1>9. u \in Seq(Op) /\ Good(u, {}, "off", e) /\ Calm(u)
    BY <1>1, <1>5, <1>7, <1>8, GoodHandler
  <1>10. ~HalfDone(u)
    BY <1>9 DEF HalfDone, Calm, Half
  <1>11. PICK g : g = "off"
    OBVIOUS
  <1>12. CpuOK(u, h, g, e, num, no, ie, sv)
    BY <1>3, <1>5, <1>9, <1>10, <1>11 DEF CpuOK, Obeys
  <1> QED BY <1>9, <1>12

LEMMA InterruptInv ==
    ASSUME SpinInv, NEW c \in CPU, Interrupt(c)
    PROVE  SpinInv'
  <1>0. PICK s, h, f, e, num, ef, ie, sv : CoreAt(c, s, h, f, e, num, ef, ie, sv)
    BY Here
  <1>1. /\ s \in Seq(Op) /\ h \in SUBSET Lock /\ e \in Ends /\ num \in Nat
        /\ ef \in BOOLEAN /\ ie \in BOOLEAN
        /\ s = todo[cur[c]] /\ h = LocksOf(c) /\ e = EndOf(cur[c])
        /\ num = ncli[c] /\ ef = eflags[c] /\ ie = intena[c] /\ sv = saved[cur[c]]
        /\ CpuOK(s, h, f, e, num, ef, ie, sv)
    BY <1>0 DEF CoreAt
  <1>2. s \in Seq(Op) /\ e \in Ends /\ CpuOK(s, h, f, e, num, ef, ie, sv)
    BY <1>1
  <1>3. ef = TRUE
    BY <1>1 DEF Interrupt
  <1>4. PICK w \in {Handler} \cup (IF cur[c] \in Kthread THEN {TimerHandler} ELSE {}) :
           todo' = [todo EXCEPT ![cur[c]] = w \o @]
    BY DEF Interrupt
  <1>5. PICK u, no : u = w \o s /\ no = FALSE
    OBVIOUS
  <1>6. u = Handler \o s \/ (e = "on" /\ u = TimerHandler \o s)
    BY <1>1, <1>4, <1>5 DEF EndOf
  <1>7. u \in Seq(Op) /\ \E g : CpuOK(u, h, g, e, num, no, ie, sv)
    BY <1>2, <1>3, <1>5, <1>6, StepInterrupt
  <1>8. PICK g : CpuOK(u, h, g, e, num, no, ie, sv)
    BY <1>7
  <1>9. /\ stuck' = stuck /\ intena' = intena
        /\ holder' = holder /\ eflags' = [eflags EXCEPT ![c] = no] /\ ncli' = ncli /\ cur' = cur
        /\ saved' = saved /\ todo' = [todo EXCEPT ![cur[c]] = u]
    BY <1>1, <1>4, <1>5 DEF Interrupt
  <1>10. CpuOK(u, LocksOf(c), g, EndOf(cur[c]), ncli[c], no, intena[c], saved[cur[c]]) /\ no \in BOOLEAN
    BY <1>1, <1>5, <1>8
  <1> QED BY <1>7, <1>9, <1>10, ListStep

\* The flag of sched() is no concern of a scheduler.
LEMMA NotSaved ==
    ASSUME NEW s \in Seq(Op), NEW h, NEW f, NEW e, e = "any", NEW num, NEW ef, NEW ie, NEW sv, NEW sv2,
           CpuOK(s, h, f, e, num, ef, ie, sv)
    PROVE  CpuOK(s, h, f, e, num, ef, ie, sv2)
  <1>1. Good(s, h, f, e)
    BY DEF CpuOK
  <1>2. ~AtResume(s)
    <2> SUFFICES ASSUME AtResume(s) PROVE FALSE
      OBVIOUS
    <2>1. PICK h2 \in SUBSET Lock, f2 \in Flags : Trans(Head(s), h, f, h2, f2, e)
      BY <1>1, GoodTail DEF AtResume
    <2> QED BY <2>1 DEF Trans, AtResume
  <1> QED BY <1>2 DEF CpuOK

\* A scheduler that goes on after its thread, and a thread that starts.
LEMMA StepBack ==
    ASSUME NEW s, s # <<>>, Head(s).op = "loop", NEW h, NEW an, Good(s, h, an, an), h = {"ptable"}, an = "any",
           NEW num, num = 1, NEW ef, ef = FALSE, NEW ie, NEW sv
    PROVE  CpuOK(s, h, an, an, num, ef, ie, sv)
  <1>1. ~HalfDone(s)
    BY DEF HalfDone
  <1>2. Cardinality(h) = 1
    BY FS_Singleton
  <1> QED BY <1>1, <1>2 DEF CpuOK, Obeys

LEMMA StepOn ==
    ASSUME NEW s, NEW h, NEW f, NEW e, Good(s, h, f, e), h = {"ptable"},
           NEW num, num = 1, NEW ef, ef = FALSE, NEW ie, NEW sv,
           (AtResume(s) /\ Obeys(sv, f)) \/ (s = Forkret /\ f = "any")
    PROVE  CpuOK(s, h, f, e, num, ef, ie, sv)
  <1>1. ~HalfDone(s) /\ (s = Forkret => ~AtResume(s))
    BY GoodForkret DEF HalfDone, AtResume
  <1>2. Cardinality(h) = 1
    BY FS_Singleton
  <1>3. Obeys(IF AtResume(s) THEN sv ELSE ie, f)
    BY <1>1 DEF Obeys
  <1> QED BY <1>1, <1>2, <1>3 DEF CpuOK

LEMMA SchedInv ==
    ASSUME SpinInv, NEW c \in CPU, Sched(c)
    PROVE  SpinInv'
  <1>0. PICK s, h, f, e, num, ef, ie, sv : CoreAt(c, s, h, f, e, num, ef, ie, sv)
    BY Here
  <1>1. /\ s \in Seq(Op) /\ h \in SUBSET Lock /\ e \in Ends /\ num \in Nat
        /\ ef \in BOOLEAN /\ ie \in BOOLEAN
        /\ s = todo[cur[c]] /\ h = LocksOf(c) /\ e = EndOf(cur[c])
        /\ num = ncli[c] /\ ef = eflags[c] /\ ie = intena[c] /\ sv = saved[cur[c]]
        /\ CpuOK(s, h, f, e, num, ef, ie, sv)
    BY <1>0 DEF CoreAt
  <1>2. s \in Seq(Op) /\ e \in Ends /\ CpuOK(s, h, f, e, num, ef, ie, sv)
    BY <1>1
  <1>3. PICK u : u = <<Do("resume")>> \o Tail(s)
    OBVIOUS
  <1>4. SchedDoes(s, u)
    BY <1>1, <1>3 DEF Sched, AtOp, SchedDoes
  <1>5. /\ u \in Seq(Op) /\ h = {"ptable"} /\ num = 1 /\ ef = FALSE /\ e = "on"
        /\ Good(u, h, f, e) /\ Obeys(ie, f) /\ AtResume(u)
    <2>1. u \in Seq(Op) /\ SchedNeeds(h, num, ef, e) /\ Good(u, h, f, e) /\ Obeys(ie, f) /\ AtResume(u)
      BY <1>2, <1>4, StepSched
    <2> QED BY <2>1 DEF SchedNeeds
  <1>6. PICK t \in Kthread : t = cur[c] /\ t # c /\ t \notin CPU
    BY <1>1, <1>5, SpinAssumption DEF EndOf
  <1>7. /\ saved' = [saved EXCEPT ![t] = ie] /\ todo' = [todo EXCEPT ![t] = u] /\ cur' = [cur EXCEPT ![c] = c]
        /\ holder' = holder /\ eflags' = eflags /\ ncli' = ncli /\ intena' = intena
    BY <1>1, <1>3, <1>6 DEF Sched, Then
  <1>8. stuck' = FALSE
    <2>1. holder["ptable"] = c /\ ncli[c] = 1 /\ ~eflags[c]
      BY <1>1, <1>5 DEF LocksOf
    <2> QED BY <2>1 DEF Sched, PanicUnless
  <1>9. /\ \A x \in CPU \cup Kthread : todo'[x] = IF x = t THEN u ELSE todo[x]
        /\ \A x \in Kthread : saved'[x] = IF x = t THEN ie ELSE saved[x]
        /\ \A d \in CPU : cur'[d] = IF d = c THEN c ELSE cur[d]
        /\ todo' \in [CPU \cup Kthread -> Seq(Op)] /\ saved' \in [Kthread -> BOOLEAN]
        /\ cur' \in [CPU -> CPU \cup Kthread]
    BY <1>1, <1>5, <1>6, <1>7 DEF SpinInv, SpinTypes
  <1>10. SpinTypes'
    <2>1. \A d \in CPU : cur'[d] \in CPU => cur'[d] = d
      BY <1>9 DEF SpinInv, SpinTypes
    <2>2. ASSUME NEW d \in CPU, NEW g \in CPU, cur'[d] = cur'[g] PROVE d = g
      <3>1. \A x, y \in CPU : cur[x] = cur[y] => x = y
        BY DEF SpinInv, SpinTypes
      <3>2. CASE d = c
        BY <1>9, <2>1, <2>2, <3>2
      <3>3. CASE g = c
        BY <1>9, <2>1, <2>2, <3>3
      <3>4. CASE d # c /\ g # c
        BY <1>9, <2>2, <3>1, <3>4
      <3> QED BY <3>2, <3>3, <3>4
    <2> QED BY <1>7, <1>9, <2>1, <2>2 DEF SpinInv, SpinTypes
  <1>11. \A d \in CPU : LocksOf(d)' = LocksOf(d)
    BY <1>7 DEF LocksOf
  <1>12. SchedulerWaits(c) /\ todo'[c] = todo[c]
    BY <1>6, <1>9 DEF SpinInv
  <1>13. ASSUME NEW d \in CPU PROVE OnCpu(d)'
    <2>1. CASE d = c
      <3>1. PICK s2, an, sv2 : s2 = todo[c] /\ an = "any" /\ sv2 = saved'[c]
        OBVIOUS
      <3>2. s2 # <<>> /\ Head(s2).op = "loop" /\ Good(s2, h, an, an)
        BY <1>5, <1>12, <3>1 DEF SchedulerWaits
      <3>3. CpuOK(s2, h, an, an, num, ef, ie, sv2)
        BY <1>5, <3>1, <3>2, StepBack
      <3>4. cur'[c] = c /\ EndOf(c) = "any"
        BY <1>9, SpinAssumption DEF EndOf
      <3>5. CpuOK(todo'[cur'[c]], LocksOf(c)', an, EndOf(cur'[c]), ncli'[c], eflags'[c], intena'[c],
                  saved'[cur'[c]])
        BY <1>1, <1>7, <1>11, <1>12, <3>1, <3>3, <3>4
      <3> QED BY <2>1, <3>5 DEF OnCpu, EndOf
    <2>2. CASE d # c
      <3>1. cur[d] \in CPU \cup Kthread /\ cur[d] # t /\ cur'[d] = cur[d]
        BY <1>6, <1>9, <2>2 DEF SpinInv, SpinTypes
      <3>2. todo'[cur[d]] = todo[cur[d]]
        BY <1>9, <3>1
      <3>3. PICK g : CpuOK(todo[cur[d]], LocksOf(d), g, EndOf(cur[d]), ncli[d], eflags[d], intena[d], saved[cur[d]])
        BY DEF SpinInv, OnCpu
      <3>4. CpuOK(todo[cur[d]], LocksOf(d), g, EndOf(cur[d]), ncli[d], eflags[d], intena[d], saved'[cur[d]])
        <4>1. CASE cur[d] \in Kthread
          <5>1. saved'[cur[d]] = saved[cur[d]]
            BY <1>9, <3>1, <4>1
          <5> QED BY <3>3, <5>1
        <4>2. CASE cur[d] \notin Kthread
          <5>1. EndOf(cur[d]) = "any" /\ todo[cur[d]] \in Seq(Op)
            BY <3>1, <4>2 DEF EndOf, SpinInv, SpinTypes
          <5> QED BY <3>3, <5>1, NotSaved
        <4> QED BY <4>1, <4>2
      <3>5. LocksOf(d)' = LocksOf(d) /\ ncli'[d] = ncli[d] /\ eflags'[d] = eflags[d] /\ intena'[d] = intena[d]
        BY <1>7, <1>11
      <3> QED BY <3>1, <3>2, <3>4, <3>5 DEF OnCpu, EndOf
    <2> QED BY <2>1, <2>2
  <1>14. ASSUME NEW d \in CPU, cur'[d] # d PROVE SchedulerWaits(d)'
    <2>1. d # c /\ cur[d] # d /\ d # t
      BY <1>6, <1>9, <1>14
    <2>2. todo'[d] = todo[d] /\ SchedulerWaits(d)
      BY <1>9, <2>1 DEF SpinInv
    <2> QED BY <2>2 DEF SchedulerWaits
  <1>15. ASSUME NEW x \in Kthread, \A d \in CPU : cur'[d] # x PROVE ThreadWaits(x)'
    <2>1. CASE x = t
      <3>1. todo'[x] = u /\ saved'[x] = ie
        BY <1>9, <2>1
      <3>2. Good(u, {"ptable"}, f, "on") /\ AtResume(u) /\ Obeys(ie, f)
        BY <1>5
      <3> QED BY <3>1, <3>2 DEF ThreadWaits
    <2>2. CASE x # t
      <3>1. \A d \in CPU : cur[d] # x
        BY <1>6, <1>9, <1>15, <2>2
      <3>2. todo'[x] = todo[x] /\ saved'[x] = saved[x] /\ ThreadWaits(x)
        BY <1>9, <2>2, <3>1 DEF SpinInv
      <3> QED BY <3>2 DEF ThreadWaits
    <2> QED BY <2>1, <2>2
  <1> QED BY <1>8, <1>10, <1>13, <1>14, <1>15 DEF SpinInv

LEMMA DispatchInv ==
    ASSUME SpinInv, NEW c \in CPU, NEW t \in Kthread, Dispatch(c, t)
    PROVE  SpinInv'
  <1>0. PICK s, h, f, e, num, ef, ie, sv : CoreAt(c, s, h, f, e, num, ef, ie, sv)
    BY Here
  <1>1. /\ s \in Seq(Op) /\ h \in SUBSET Lock /\ e \in Ends /\ num \in Nat
        /\ ef \in BOOLEAN /\ ie \in BOOLEAN
        /\ s = todo[cur[c]] /\ h = LocksOf(c) /\ e = EndOf(cur[c])
        /\ num = ncli[c] /\ ef = eflags[c] /\ ie = intena[c] /\ sv = saved[cur[c]]
        /\ CpuOK(s, h, f, e, num, ef, ie, sv)
    BY <1>0 DEF CoreAt
  <1>2. s \in Seq(Op) /\ e \in Ends /\ CpuOK(s, h, f, e, num, ef, ie, sv)
    BY <1>1
  <1>3. PICK u : u = Tail(s)
    OBVIOUS
  <1>4. LoopDoes(s, u)
    BY <1>1, <1>3 DEF Dispatch, AtOp, LoopDoes
  <1>5. h = {"ptable"} /\ f = "any" /\ e = "any"
    <2>1. LoopNeeds(h, f, e)
      BY <1>2, <1>4, StepLoop
    <2> QED BY <2>1 DEF LoopNeeds
  <1>6. cur[c] = c /\ t # c /\ t \notin CPU
    <2>1. cur[c] \notin Kthread
      BY <1>1, <1>5 DEF EndOf
    <2> QED BY <2>1, SpinAssumption DEF SpinInv, SpinTypes
  <1>7. num = 1 /\ ef = FALSE
    <2>1. ~HalfDone(s) /\ Cardinality(h) = 1
      BY <1>4, <1>5, FS_Singleton DEF HalfDone, LoopDoes
    <2>2. num = 1
      BY <1>2, <2>1 DEF CpuOK
    <2> QED BY <1>2, <2>2 DEF CpuOK
  <1>8. /\ cur' = [cur EXCEPT ![c] = t] /\ \A d \in CPU : cur[d] # t
        /\ holder' = holder /\ eflags' = eflags /\ ncli' = ncli /\ intena' = intena
        /\ todo' = todo /\ saved' = saved /\ stuck' = stuck
    BY DEF Dispatch
  <1>9. cur' \in [CPU -> CPU \cup Kthread] /\ \A d \in CPU : cur'[d] = IF d = c THEN t ELSE cur[d]
    BY <1>8 DEF SpinInv, SpinTypes
  <1>10. SpinTypes'
    <2>1. \A d \in CPU : cur'[d] \in CPU => cur'[d] = d
      BY <1>6, <1>9 DEF SpinInv, SpinTypes
    <2>2. \A d, g \in CPU : cur'[d] = cur'[g] => d = g
      BY <1>8, <1>9 DEF SpinInv, SpinTypes
    <2> QED BY <1>8, <1>9, <2>1, <2>2 DEF SpinInv, SpinTypes
  <1>11. \A d \in CPU : LocksOf(d)' = LocksOf(d)
    BY <1>8 DEF LocksOf
  <1>12. ASSUME NEW d \in CPU PROVE OnCpu(d)'
    <2>1. CASE d = c
      <3>1. ThreadWaits(t)
        BY <1>8 DEF SpinInv
      <3>2. PICK g : /\ Good(todo[t], {"ptable"}, g, "on")
                     /\ \/ AtResume(todo[t]) /\ Obeys(saved[t], g)
                        \/ todo[t] = Forkret /\ g = "any"
        BY <3>1 DEF ThreadWaits
      <3>3. PICK s2, e2, sv2 : s2 = todo[t] /\ e2 = "on" /\ sv2 = saved[t]
        OBVIOUS
      <3>4. Good(s2, h, g, e2) /\ ((AtResume(s2) /\ Obeys(sv2, g)) \/ (s2 = Forkret /\ g = "any"))
        BY <1>5, <3>2, <3>3
      <3>5. CpuOK(s2, h, g, e2, num, ef, ie, sv2)
        BY <1>5, <1>7, <3>4, StepOn
      <3>6. cur'[c] = t /\ EndOf(t) = "on"
        BY <1>9 DEF EndOf
      <3>7. CpuOK(todo'[cur'[c]], LocksOf(c)', g, EndOf(cur'[c]), ncli'[c], eflags'[c], intena'[c],
                  saved'[cur'[c]])
        BY <1>1, <1>8, <1>11, <3>3, <3>5, <3>6
      <3> QED BY <2>1, <3>7 DEF OnCpu, EndOf
    <2>2. CASE d # c
      <3>1. cur'[d] = cur[d]
        BY <1>9, <2>2
      <3>2. PICK g : CpuOK(todo[cur[d]], LocksOf(d), g, EndOf(cur[d]), ncli[d], eflags[d], intena[d], saved[cur[d]])
        BY DEF SpinInv, OnCpu
      <3>3. LocksOf(d)' = LocksOf(d)
        BY <1>11
      <3> QED BY <1>8, <3>1, <3>2, <3>3 DEF OnCpu, EndOf
    <2> QED BY <2>1, <2>2
  <1>13. ASSUME NEW d \in CPU, cur'[d] # d PROVE SchedulerWaits(d)'
    <2>1. CASE d = c
      <3>1. Good(s, h, f, e) /\ s = todo[c]
        BY <1>1, <1>6 DEF CpuOK
      <3> QED BY <1>4, <1>5, <1>8, <2>1, <3>1 DEF SchedulerWaits, LoopDoes
    <2>2. CASE d # c
      <3>1. cur[d] # d
        BY <1>9, <1>13, <2>2
      <3>2. SchedulerWaits(d)
        BY <3>1 DEF SpinInv
      <3> QED BY <1>8, <3>2 DEF SchedulerWaits
    <2> QED BY <2>1, <2>2
  <1>14. ASSUME NEW x \in Kthread, \A d \in CPU : cur'[d] # x PROVE ThreadWaits(x)'
    <2>1. \A d \in CPU : cur[d] # x
      BY <1>6, <1>9, <1>14, SpinAssumption
    <2>2. ThreadWaits(x)
      BY <2>1 DEF SpinInv
    <2> QED BY <1>8, <2>2 DEF ThreadWaits
  <1>15. stuck' = FALSE
    BY <1>8 DEF SpinInv
  <1> QED BY <1>10, <1>12, <1>13, <1>14, <1>15 DEF SpinInv

LEMMA SpinStart == SpinInit => SpinInv
  <1> SUFFICES ASSUME SpinInit PROVE SpinInv
    OBVIOUS
  <1>1. /\ holder = [l \in Lock |-> NoCpu] /\ eflags = [c \in CPU |-> FALSE]
        /\ ncli = [c \in CPU |-> 0] /\ intena = [c \in CPU |-> FALSE] /\ cur = [c \in CPU |-> c]
        /\ saved = [t \in Kthread |-> FALSE] /\ stuck = FALSE
        /\ todo = [x \in CPU \cup Kthread |-> IF x \in CPU THEN SchedulerTurn ELSE Forkret]
    BY DEF SpinInit
  <1>2. todo \in [CPU \cup Kthread -> Seq(Op)]
    BY <1>1, GoodTurn, GoodForkret
  <1>3. SpinTypes
    BY <1>1, <1>2 DEF SpinTypes
  <1>4. ASSUME NEW c \in CPU PROVE OnCpu(c)
    <2>1. cur[c] = c /\ todo[c] = SchedulerTurn /\ LocksOf(c) = {} /\ EndOf(c) = "any" /\ ncli[c] = 0
      BY <1>1, SpinAssumption DEF LocksOf, EndOf
    <2>2. ~HalfDone(SchedulerTurn) /\ Cardinality({}) = 0
      BY GoodTurn, FS_EmptySet DEF HalfDone
    <2>3. PICK an, no, u, num, ef, ie, sv : /\ an = "any" /\ no = {} /\ u = SchedulerTurn /\ num = 0
                                          /\ ef = eflags[c] /\ ie = intena[c] /\ sv = saved[c]
      OBVIOUS
    <2>4. CpuOK(u, no, an, an, num, ef, ie, sv)
      BY <2>2, <2>3, GoodTurn DEF CpuOK, Obeys
    <2>5. CpuOK(todo[cur[c]], LocksOf(c), an, EndOf(cur[c]), ncli[c], eflags[c], intena[c], saved[cur[c]])
      BY <2>1, <2>3, <2>4
    <2> QED BY <2>5 DEF OnCpu
  <1>5. ASSUME NEW t \in Kthread PROVE ThreadWaits(t)
    <2>1. todo[t] = Forkret
      BY <1>1, SpinAssumption
    <2> QED BY <2>1, GoodForkret DEF ThreadWaits
  <1>6. \A c \in CPU : cur[c] = c
    BY <1>1
  <1> QED BY <1>1, <1>3, <1>4, <1>5, <1>6 DEF SpinInv

LEMMA SpinMeans == SpinInv => InterruptsExact
  <1> SUFFICES ASSUME SpinInv PROVE InterruptsExact
    OBVIOUS
  <1>1. ~stuck
    BY DEF SpinInv
  <1>2. ASSUME NEW c \in CPU
        PROVE  /\ ncli[c] = Depth(c)
               /\ ncli[c] > 0 \/ InHandler(cur[c]) => ~eflags[c]
               /\ ncli[c] = 0 /\ cur[c] \in Kthread => eflags[c] \/ InHandler(cur[c]) \/ Has(cur[c], "trapret")
    <2>0. PICK s, h, f, e, num, ef, ie, sv : CoreAt(c, s, h, f, e, num, ef, ie, sv)
      BY Here
    <2>1. /\ s \in Seq(Op) /\ h \in SUBSET Lock /\ e \in Ends /\ num \in Nat
          /\ ef \in BOOLEAN /\ s = todo[cur[c]] /\ h = LocksOf(c) /\ e = EndOf(cur[c])
          /\ num = ncli[c] /\ ef = eflags[c]
          /\ CpuOK(s, h, f, e, num, ef, ie, sv)
      BY <2>0 DEF CoreAt
    <2>2. num = Cardinality(h) + (IF HalfDone(s) THEN 1 ELSE 0) /\ (num > 0 => ef = FALSE)
      BY <2>1 DEF CpuOK
    <2>3. ncli[c] = Depth(c)
      BY <2>1, <2>2 DEF Depth, LocksOf, HalfDone
    <2>4. num = 0 => Obeys(ef, f)
      BY <2>1 DEF CpuOK
    <2>5. PICK H, Fl : Sound(s, H, Fl, e) /\ Fl[1] = f
      BY <2>1 DEF CpuOK, Good
    <2>6. 1 \in 1..(Len(s) + 1) /\ 1..Len(s) = DOMAIN s
      BY <2>1
    <2>7. /\ f \in Flags /\ (f = "off" <=> Later(s, 1, "iret"))
          /\ e = "on" /\ f = "any" => Later(s, 1, "trapret")
      BY <2>5, <2>6 DEF Sound
    <2>8. \A op : Later(s, 1, op) <=> Has(cur[c], op)
      BY <2>1, <2>6 DEF Later, Has
    <2>9. InHandler(cur[c]) => ~eflags[c]
      <3>1. InHandler(cur[c]) => f = "off"
        BY <2>7, <2>8 DEF InHandler
      <3>2. f = "off" => ef = FALSE
        BY <2>1, <2>2, <2>4 DEF Obeys
      <3> QED BY <2>1, <3>1, <3>2
    <2>10. ncli[c] > 0 => ~eflags[c]
      BY <2>1, <2>2
    <2>11. ASSUME ncli[c] = 0, cur[c] \in Kthread
           PROVE  eflags[c] \/ InHandler(cur[c]) \/ Has(cur[c], "trapret")
      <3>1. e = "on" /\ Obeys(ef, f)
        BY <2>1, <2>4, <2>11 DEF EndOf
      <3>2. CASE f = "on"
        <4>1. ef = TRUE
          BY <3>1, <3>2 DEF Obeys
        <4> QED BY <2>1, <4>1
      <3>3. CASE f = "off"
        BY <2>7, <2>8, <3>3 DEF InHandler
      <3>4. CASE f = "any"
        BY <2>7, <2>8, <3>1, <3>4
      <3> QED BY <2>7, <3>2, <3>3, <3>4 DEF Flags
    <2> QED BY <2>3, <2>9, <2>10, <2>11
  <1> QED BY <1>1, <1>2 DEF InterruptsExact

LEMMA SpinStep == SpinInv /\ [SpinNext]_spinvars => SpinInv'
  <1> SUFFICES ASSUME SpinInv, [SpinNext]_spinvars PROVE SpinInv'
    OBVIOUS
  <1>1. CASE UNCHANGED spinvars
    <2>1. /\ holder' = holder /\ eflags' = eflags /\ ncli' = ncli /\ intena' = intena /\ cur' = cur
          /\ todo' = todo /\ saved' = saved /\ stuck' = stuck
      BY <1>1 DEF spinvars
    <2>2. SpinTypes' /\ stuck' = FALSE
      BY <2>1 DEF SpinInv, SpinTypes
    <2>3. \A c \in CPU : OnCpu(c)' <=> OnCpu(c)
      BY <2>1 DEF OnCpu, LocksOf, EndOf
    <2>4. \A c \in CPU : SchedulerWaits(c)' <=> SchedulerWaits(c)
      BY <2>1 DEF SchedulerWaits
    <2>5. \A t \in Kthread : ThreadWaits(t)' <=> ThreadWaits(t)
      BY <2>1 DEF ThreadWaits
    <2> QED BY <2>1, <2>2, <2>3, <2>4, <2>5 DEF SpinInv
  <1>2. CASE SpinNext
    <2>1. PICK c \in CPU : LockStep(c) \/ SwitchStep(c) \/ Syscall(c) \/ Interrupt(c)
      BY <1>2 DEF SpinNext
    <2>2. CASE LockStep(c)
      BY <2>2, AcquireInv, XchgInv, ReleaseInv, PopcliInv DEF LockStep
    <2>3. CASE SwitchStep(c)
      BY <2>3, SchedInv, ResumeInv, LoopEndsInv, TurnInv, EnableInv, DispatchInv DEF SwitchStep
    <2> QED BY <2>1, <2>2, <2>3, SyscallInv, InterruptInv
  <1> QED BY <1>1, <1>2

\* Every processor, whatever sleeps, wakes elsewhere and is interrupted: ncli
\* counts its locks, interrupts are off with a lock and in a handler and on in
\* a thread that holds none, and nothing panics (spinlock.c, sched).
THEOREM InterruptsAreExact == SpinSpec => []InterruptsExact
  <1>1. SpinSpec => []SpinInv
    BY SpinStart, SpinStep, PTL DEF SpinSpec
  <1> QED BY <1>1, SpinMeans, PTL

-----------------------------------------------------------------------------
(* The pipe: nobody sleeps through what it waits for.                      *)

\* A thread between the acquire and the release of p->lock.
Holding == {"loop", "empty", "copy", "sleep"}

PipeType ==
    /\ pc \in [Thread -> PC] /\ killed \in [Thread -> BOOLEAN]
    /\ left \in [Thread -> Nat] /\ fd \subseteq Thread
    /\ readopen \in BOOLEAN /\ writeopen \in BOOLEAN

PipeLock == \A t \in Thread : lock = t <=> pc[t] \in Holding

\* Threads inside have their end open, and writers are in pipewrite.
PipeEnds ==
    /\ \A t \in Thread : pc[t] # "idle" => t \in fd
    /\ ~readopen => fd \cap Reader = {}
    /\ ~writeopen => fd \cap Writer = {}
    /\ \A t \in Writer : pc[t] \notin {"empty", "copy"}
    /\ \A t \in Reader : pc[t] # "loop"

\* A reader sleeps while the pipe is empty; or a writer is about to wake it, or
\* has given up.
ReaderWaits ==
    \A t \in Reader :
       /\ pc[t] = "sleep" => writeopen /\ IsEmpty
       /\ pc[t] = "asleep" =>
             writeopen /\ (IsEmpty \/ GaveUp \/ \E w \in Writer : pc[w] = "loop")

\* A writer sleeps while the pipe is full, or a reader is about to wake it.
WriterWaits ==
    \A t \in Writer :
       /\ pc[t] = "sleep" => readopen /\ IsFull
       /\ pc[t] = "asleep" => readopen /\ (IsFull \/ \E r \in Reader : pc[r] = "copy")

PipeInv == PipeType /\ PipeLock /\ PipeEnds /\ ReaderWaits /\ WriterWaits

\* Only the thread with p->lock is inside.
LEMMA OnlyHolder ==
    ASSUME PipeInv, NEW t \in Thread, pc[t] \in Holding, NEW u \in Thread, u # t
    PROVE  pc[u] \notin Holding
  BY DEF PipeInv, PipeLock

LEMMA ThreadSorts == Thread = Reader \cup Writer /\ Reader \cap Writer = {} /\ Nobody \notin Thread
  BY PipeAssumption DEF Thread

\* The thread with the lock moves a byte.
LEMMA ByteInv ==
    ASSUME PipeInv, NEW t \in Thread, (\E v \in Byte : WriteByte(t, v)) \/ ReadByte(t)
    PROVE  PipeInv'
  <1> USE DEF Holding
  <1>1. /\ UNCHANGED <<readopen, writeopen, lock, fd, pc, killed>>
        /\ pc[t] \in Holding
        /\ left' = [left EXCEPT ![t] = @ - 1] /\ left[t] > 0
    BY DEF WriteByte, ReadByte
  <1>2. PipeType'
    BY <1>1 DEF PipeInv, PipeType
  <1>3. PipeLock' /\ PipeEnds'
    BY <1>1 DEF PipeInv, PipeLock, PipeEnds
  <1>4. \A u \in Thread : pc[u] # "sleep"
    <2>1. pc[t] # "sleep"
      BY DEF WriteByte, ReadByte
    <2> QED BY <1>1, <2>1, OnlyHolder
  <1>5. CASE \E v \in Byte : WriteByte(t, v)
    <2>1. t \in Writer /\ pc[t] = "loop" /\ ~IsFull
      BY <1>5 DEF WriteByte
    <2>2. ReaderWaits'
      BY <1>1, <1>4, <2>1, ThreadSorts DEF PipeInv, ReaderWaits
    <2>3. \A r \in Reader : pc[r] # "copy"
      BY <1>1, <2>1, OnlyHolder, ThreadSorts
    <2>4. \A w \in Writer : pc[w] # "asleep"
      BY <2>1, <2>3 DEF PipeInv, WriterWaits
    <2>5. WriterWaits'
      BY <1>1, <1>4, <2>4, ThreadSorts DEF WriterWaits
    <2> QED BY <1>2, <1>3, <2>2, <2>5 DEF PipeInv
  <1>6. CASE ReadByte(t)
    <2>1. t \in Reader /\ pc[t] = "copy" /\ ~IsEmpty
      BY <1>6 DEF ReadByte
    <2>2. WriterWaits'
      BY <1>1, <1>4, <2>1, ThreadSorts DEF PipeInv, WriterWaits
    <2>3. \A w \in Writer : pc[w] # "loop"
      BY <1>1, <2>1, OnlyHolder, ThreadSorts
    <2>4. \A w \in Writer : left'[w] = left[w]
      BY <1>1, <2>1, ThreadSorts DEF PipeInv, PipeType
    <2>5. GaveUp' <=> GaveUp
      BY <1>1, <2>4 DEF GaveUp
    <2>6. ReaderWaits'
      BY <1>1, <1>4, <2>1, <2>3, <2>5, ThreadSorts DEF PipeInv, ReaderWaits
    <2> QED BY <1>2, <1>3, <2>2, <2>6 DEF PipeInv
  <1> QED BY <1>5, <1>6

\* A step that moves t and wakes some sleepers, and leaves the ring, the ends
\* and the counts of killed writers alone.
LEMMA PipeMove ==
    ASSUME PipeInv, NEW t \in Thread, NEW l \in PC, NEW S \in SUBSET Thread,
           UNCHANGED <<nread, nwrite, readopen, writeopen, fd>>,
           killed' \in [Thread -> BOOLEAN], left' \in [Thread -> Nat],
           \A u \in Writer : killed[u] /\ left[u] > 0 => killed'[u] /\ left'[u] > 0,
           pc' = [Wakeup(S) EXCEPT ![t] = l],
           lock' = IF l \in Holding THEN t ELSE Nobody,
           lock \in {t, Nobody},
           l # "idle" => t \in fd,
           t \in Writer => l \notin {"empty", "copy"},
           t \in Reader => l # "loop",
           t \in Reader /\ l \in {"sleep", "asleep"} => writeopen /\ IsEmpty,
           t \in Writer /\ l \in {"sleep", "asleep"} => readopen /\ IsFull,
           pc[t] = "loop" /\ l # "loop" =>
              \/ GaveUp'
              \/ \A r \in Reader : pc'[r] # "asleep",
           pc[t] = "copy" /\ l # "copy" => \A w \in Writer : pc'[w] # "asleep"
    PROVE  PipeInv'
  <1> USE DEF Holding
  <1>1. /\ \A u \in Thread : u # t => pc'[u] = IF u \in S /\ pc[u] = "asleep" THEN "awake"
                                               ELSE pc[u]
        /\ pc'[t] = l /\ pc' \in [Thread -> PC]
    BY DEF Wakeup, PC, PipeInv, PipeType
  <1>2. PipeType'
    BY <1>1 DEF PipeInv, PipeType
  <1>3. \A u \in Thread : u # t => pc[u] \notin Holding
    BY ThreadSorts DEF PipeInv, PipeLock
  <1>4. \A u \in Thread : u # t => pc'[u] \notin Holding
    BY <1>1, <1>3
  <1>5. PipeLock'
    BY <1>1, <1>4, ThreadSorts DEF PipeLock
  <1>6. PipeEnds'
    BY <1>1, ThreadSorts DEF PipeInv, PipeEnds
  <1>7. (IsEmpty' <=> IsEmpty) /\ (IsFull' <=> IsFull) /\ (GaveUp => GaveUp')
    BY DEF IsEmpty, IsFull, GaveUp
  <1>8. ReaderWaits'
    <2> SUFFICES ASSUME NEW r \in Reader
                 PROVE  /\ pc'[r] = "sleep" => writeopen /\ IsEmpty
                        /\ pc'[r] = "asleep" =>
                             writeopen /\ (IsEmpty \/ GaveUp' \/ \E w \in Writer : pc'[w] = "loop")
      BY <1>7 DEF ReaderWaits
    <2>1. CASE r = t
      BY <1>1, <2>1
    <2>2. CASE r # t
      <3>1. pc'[r] # "sleep"
        BY <1>4, <2>2, ThreadSorts
      <3>2. ASSUME pc'[r] = "asleep"
            PROVE  writeopen /\ (IsEmpty \/ GaveUp' \/ \E w \in Writer : pc'[w] = "loop")
        <4>1. pc[r] = "asleep"
          BY <1>1, <2>2, <3>2, ThreadSorts
        <4>2. writeopen /\ (IsEmpty \/ GaveUp \/ \E w \in Writer : pc[w] = "loop")
          BY <4>1 DEF PipeInv, ReaderWaits
        <4>3. ASSUME NEW w \in Writer, pc[w] = "loop"
              PROVE  GaveUp' \/ \E x \in Writer : pc'[x] = "loop"
          <5>1. w = t
            BY <1>3, <4>3, ThreadSorts
          <5> QED BY <1>1, <3>2, <4>3, <5>1
        <4> QED BY <1>7, <4>2, <4>3
      <3> QED BY <3>1, <3>2
    <2> QED BY <2>1, <2>2
  <1>9. WriterWaits'
    <2> SUFFICES ASSUME NEW w \in Writer
                 PROVE  /\ pc'[w] = "sleep" => readopen /\ IsFull
                        /\ pc'[w] = "asleep" =>
                             readopen /\ (IsFull \/ \E r \in Reader : pc'[r] = "copy")
      BY <1>7 DEF WriterWaits
    <2>1. CASE w = t
      BY <1>1, <2>1
    <2>2. CASE w # t
      <3>1. pc'[w] # "sleep"
        BY <1>4, <2>2, ThreadSorts
      <3>2. ASSUME pc'[w] = "asleep"
            PROVE  readopen /\ (IsFull \/ \E r \in Reader : pc'[r] = "copy")
        <4>1. pc[w] = "asleep"
          BY <1>1, <2>2, <3>2, ThreadSorts
        <4>2. readopen /\ (IsFull \/ \E r \in Reader : pc[r] = "copy")
          BY <4>1 DEF PipeInv, WriterWaits
        <4>3. ASSUME NEW r \in Reader, pc[r] = "copy"
              PROVE  \E x \in Reader : pc'[x] = "copy"
          <5>1. r = t
            BY <1>3, <4>3, ThreadSorts
          <5> QED BY <1>1, <3>2, <4>3, <5>1
        <4> QED BY <4>2, <4>3
      <3> QED BY <3>1, <3>2
    <2> QED BY <2>1, <2>2
  <1> QED BY <1>2, <1>5, <1>6, <1>8, <1>9 DEF PipeInv

\* Goto is a move that wakes nobody.
LEMMA GotoMoves ==
    ASSUME PipeInv, NEW t \in Thread, NEW l, Goto(t, l)
    PROVE  pc' = [Wakeup({}) EXCEPT ![t] = l]
  <1>1. Wakeup({}) = pc
    BY DEF Wakeup, PipeInv, PipeType
  <1> QED BY <1>1 DEF Goto

\* A wakeup leaves nobody of the side asleep.
LEMMA AllWoken ==
    ASSUME PipeInv, NEW t \in Thread, NEW l, l # "asleep", NEW S \in SUBSET Thread,
           pc' = [Wakeup(S) EXCEPT ![t] = l]
    PROVE  \A u \in S : pc'[u] # "asleep"
  BY DEF Wakeup, PipeInv, PipeType

\* Every step of pipewrite.
LEMMA WriterStepInv ==
    ASSUME PipeInv, NEW t \in Thread,
           WriteFail(t) \/ WriteWait(t) \/ WriteDone(t) \/ \E m \in 0..MaxN : WriteStart(t, m)
    PROVE  PipeInv'
  <1> USE DEF Holding
  <1>1. t \in Writer /\ t \notin Reader /\ lock \in {t, Nobody} /\ UNCHANGED pipevars
    BY ThreadSorts DEF WriteFail, WriteWait, WriteDone, WriteStart, PipeInv, PipeLock
  <1>2. UNCHANGED <<nread, nwrite, readopen, writeopen, fd, killed>>
    BY DEF WriteFail, WriteWait, WriteDone, WriteStart, pipevars
  <1>3. killed' \in [Thread -> BOOLEAN]
    BY <1>2 DEF PipeInv, PipeType
  <1>4. CASE WriteFail(t)
    <2>1. /\ pc[t] = "loop" /\ left[t] > 0 /\ (~readopen \/ killed[t])
          /\ lock' = Nobody /\ left' = left /\ pc' = [Wakeup({}) EXCEPT ![t] = "idle"]
      BY <1>4, GotoMoves DEF WriteFail
    <2>2. GaveUp' \/ \A r \in Reader : pc'[r] # "asleep"
      <3>1. CASE killed[t]
        BY <1>1, <1>2, <2>1, <3>1 DEF GaveUp
      <3>2. CASE ~readopen
        <4>1. \A r \in Reader : pc[r] = "idle"
          BY <3>2, ThreadSorts DEF PipeInv, PipeEnds
        <4> QED BY <1>1, <2>1, <4>1, ThreadSorts DEF Wakeup
      <3> QED BY <2>1, <3>1, <3>2
    <2>3. left' \in [Thread -> Nat]
      BY <2>1 DEF PipeInv, PipeType
    <2>4. \A u \in Writer : killed[u] /\ left[u] > 0 => killed'[u] /\ left'[u] > 0
      BY <1>2, <2>1
    <2> QED BY <1>1, <1>2, <1>3, <2>1, <2>2, <2>3, <2>4, PipeMove DEF PC
  <1>5. CASE WriteWait(t)
    <2>1. /\ pc[t] = "loop" /\ left[t] > 0 /\ readopen /\ IsFull
          /\ lock' = lock /\ left' = left /\ pc' = [Wakeup(Reader) EXCEPT ![t] = "sleep"]
      BY <1>5 DEF WriteWait
    <2>2. \A r \in Reader : pc'[r] # "asleep"
      BY <2>1, AllWoken, ThreadSorts
    <2>3. left' \in [Thread -> Nat] /\ lock' = t /\ t \in fd
      BY <2>1 DEF PipeInv, PipeType, PipeLock, PipeEnds
    <2>4. \A u \in Writer : killed[u] /\ left[u] > 0 => killed'[u] /\ left'[u] > 0
      BY <1>2, <2>1
    <2>5. PICK l \in PC, S \in SUBSET Thread : l = "sleep" /\ S = Reader
      BY ThreadSorts DEF PC
    <2>6. pc' = [Wakeup(S) EXCEPT ![t] = l]
      BY <2>1, <2>5
    <2> QED BY <1>1, <1>2, <1>3, <2>1, <2>2, <2>3, <2>4, <2>5, <2>6, PipeMove, ThreadSorts
  <1>6. CASE WriteDone(t)
    <2>1. /\ pc[t] = "loop" /\ lock' = Nobody /\ left' = left
          /\ pc' = [Wakeup(Reader) EXCEPT ![t] = "idle"]
      BY <1>6 DEF WriteDone
    <2>2. \A r \in Reader : pc'[r] # "asleep"
      BY <2>1, AllWoken, ThreadSorts
    <2>3. left' \in [Thread -> Nat]
      BY <2>1 DEF PipeInv, PipeType
    <2>4. \A u \in Writer : killed[u] /\ left[u] > 0 => killed'[u] /\ left'[u] > 0
      BY <1>2, <2>1
    <2> QED BY <1>1, <1>2, <1>3, <2>1, <2>2, <2>3, <2>4, PipeMove, ThreadSorts DEF PC
  <1>7. ASSUME NEW m \in 0..MaxN, WriteStart(t, m) PROVE PipeInv'
    <2>1. /\ pc[t] = "idle" /\ t \in fd /\ ~killed[t] /\ lock' = t
          /\ left' = [left EXCEPT ![t] = m] /\ pc' = [Wakeup({}) EXCEPT ![t] = "loop"]
      BY <1>7, GotoMoves DEF WriteStart
    <2>2. left' \in [Thread -> Nat]
      BY <1>7, <2>1, PipeAssumption DEF PipeInv, PipeType
    <2>3. \A u \in Writer : killed[u] /\ left[u] > 0 => killed'[u] /\ left'[u] > 0
      BY <1>2, <2>1, ThreadSorts DEF PipeInv, PipeType
    <2> QED BY <1>1, <1>2, <1>3, <2>1, <2>2, <2>3, PipeMove DEF PC
  <1> QED BY <1>4, <1>5, <1>6, <1>7

\* Every step of piperead.
LEMMA ReaderStepInv ==
    ASSUME PipeInv, NEW t \in Thread,
           ReadFail(t) \/ ReadWait(t) \/ ReadCopy(t) \/ ReadDone(t)
              \/ \E m \in 0..MaxN : ReadStart(t, m)
    PROVE  PipeInv'
  <1> USE DEF Holding
  <1>1. t \in Reader /\ t \notin Writer /\ lock \in {t, Nobody} /\ pc[t] # "loop"
    BY ThreadSorts DEF ReadFail, ReadWait, ReadCopy, ReadDone, ReadStart, PipeInv, PipeLock
  <1>2. UNCHANGED <<nread, nwrite, readopen, writeopen, fd, killed>>
    BY DEF ReadFail, ReadWait, ReadCopy, ReadDone, ReadStart, pipevars
  <1>3. killed' \in [Thread -> BOOLEAN]
    BY <1>2 DEF PipeInv, PipeType
  <1>4. ASSUME ReadFail(t) \/ ReadWait(t) \/ ReadCopy(t) PROVE PipeInv'
    <2>1. PICK l \in {"idle", "sleep", "copy"} :
             /\ pc' = [Wakeup({}) EXCEPT ![t] = l]
             /\ lock' = IF l = "idle" THEN Nobody ELSE lock
             /\ l = "sleep" => writeopen /\ IsEmpty
      BY <1>4, GotoMoves DEF ReadFail, ReadWait, ReadCopy
    <2>2. pc[t] = "empty" /\ left' = left
      BY <1>4 DEF ReadFail, ReadWait, ReadCopy
    <2>3. left' \in [Thread -> Nat] /\ lock = t /\ t \in fd
      BY <2>2 DEF PipeInv, PipeType, PipeLock, PipeEnds
    <2>4. \A u \in Writer : killed[u] /\ left[u] > 0 => killed'[u] /\ left'[u] > 0
      BY <1>2, <2>2
    <2> QED BY <1>1, <1>2, <1>3, <2>1, <2>2, <2>3, <2>4, PipeMove DEF PC
  <1>5. CASE ReadDone(t)
    <2>1. /\ pc[t] = "copy" /\ lock' = Nobody /\ left' = left
          /\ pc' = [Wakeup(Writer) EXCEPT ![t] = "idle"]
      BY <1>5 DEF ReadDone
    <2>2. \A w \in Writer : pc'[w] # "asleep"
      BY <2>1, AllWoken, ThreadSorts
    <2>3. left' \in [Thread -> Nat]
      BY <2>1 DEF PipeInv, PipeType
    <2>4. \A u \in Writer : killed[u] /\ left[u] > 0 => killed'[u] /\ left'[u] > 0
      BY <1>2, <2>1
    <2> QED BY <1>1, <1>2, <1>3, <2>1, <2>2, <2>3, <2>4, PipeMove, ThreadSorts DEF PC
  <1>6. ASSUME NEW m \in 0..MaxN, ReadStart(t, m) PROVE PipeInv'
    <2>1. /\ pc[t] = "idle" /\ t \in fd /\ lock' = t
          /\ left' = [left EXCEPT ![t] = m] /\ pc' = [Wakeup({}) EXCEPT ![t] = "empty"]
      BY <1>6, GotoMoves DEF ReadStart
    <2>2. left' \in [Thread -> Nat]
      BY <1>6, <2>1, PipeAssumption DEF PipeInv, PipeType
    <2>3. \A u \in Writer : killed[u] /\ left[u] > 0 => killed'[u] /\ left'[u] > 0
      BY <1>1, <1>2, <2>1, ThreadSorts DEF PipeInv, PipeType
    <2> QED BY <1>1, <1>2, <1>3, <2>1, <2>2, <2>3, PipeMove DEF PC
  <1> QED BY <1>4, <1>5, <1>6

\* sleep(), which gives up p->lock and takes it again.
LEMMA SleepStepInv ==
    ASSUME PipeInv, NEW t \in Thread, SleepCommit(t) \/ SleepReturn(t)
    PROVE  PipeInv'
  <1> USE DEF Holding
  <1>1. /\ UNCHANGED <<nread, nwrite, readopen, writeopen, fd, killed, left>>
        /\ pc[t] \in {"sleep", "awake"} /\ lock \in {t, Nobody}
    BY DEF SleepCommit, SleepReturn, pipevars, PipeInv, PipeLock
  <1>2. killed' \in [Thread -> BOOLEAN] /\ left' \in [Thread -> Nat] /\ t \in fd
    BY <1>1 DEF PipeInv, PipeType, PipeEnds
  <1>3. \A u \in Writer : killed[u] /\ left[u] > 0 => killed'[u] /\ left'[u] > 0
    BY <1>1
  <1>4. CASE SleepCommit(t)
    <2>1. pc[t] = "sleep" /\ lock' = Nobody /\ pc' = [Wakeup({}) EXCEPT ![t] = "asleep"]
      BY <1>4, GotoMoves DEF SleepCommit
    <2>2. /\ t \in Reader => writeopen /\ IsEmpty
          /\ t \in Writer => readopen /\ IsFull
      BY <2>1 DEF PipeInv, ReaderWaits, WriterWaits
    <2> QED BY <1>1, <1>2, <1>3, <2>1, <2>2, PipeMove DEF PC
  <1>5. CASE SleepReturn(t)
    <2>1. PICK l \in {"loop", "empty"} :
             /\ pc' = [Wakeup({}) EXCEPT ![t] = l] /\ lock' = t
             /\ t \in Writer => l = "loop"
             /\ t \notin Writer => l = "empty"
      BY <1>5, GotoMoves DEF SleepReturn
    <2>2. pc[t] = "awake"
      BY <1>5 DEF SleepReturn
    <2> QED BY <1>1, <1>2, <1>3, <2>1, <2>2, PipeMove, ThreadSorts DEF PC
  <1> QED BY <1>4, <1>5

\* close() of an end: nobody is inside, and the last one wakes the other side.
LEMMA CloseInv ==
    ASSUME PipeInv, NEW t \in Thread, Close(t)
    PROVE  PipeInv'
  <1> USE DEF Holding
  <1>1. PICK S \in SUBSET Thread :
           /\ pc' = Wakeup(S)
           /\ readopen' # readopen => Writer \subseteq S
           /\ writeopen' # writeopen => Reader \subseteq S
    BY ThreadSorts DEF Close
  <1>2. /\ UNCHANGED <<data, nread, nwrite, lock, left, killed>> /\ lock = Nobody
        /\ t \in fd /\ pc[t] = "idle" /\ fd' = fd \ {t}
        /\ readopen' = (readopen /\ fd' \cap Reader # {})
        /\ writeopen' = (writeopen /\ fd' \cap Writer # {})
    BY DEF Close
  <1>3. /\ pc' \in [Thread -> PC]
        /\ \A u \in Thread : pc'[u] = IF u \in S /\ pc[u] = "asleep" THEN "awake" ELSE pc[u]
    BY <1>1 DEF Wakeup, PC, PipeInv, PipeType
  <1>4. PipeType'
    BY <1>2, <1>3 DEF PipeInv, PipeType
  <1>5. PipeLock'
    BY <1>2, <1>3 DEF PipeInv, PipeLock
  <1>6. \A u \in Thread : pc[u] \notin Holding
    BY <1>2, ThreadSorts DEF PipeInv, PipeLock
  <1>7. PipeEnds'
    <2>1. \A u \in Thread : pc'[u] # "idle" => u \in fd'
      BY <1>2, <1>3 DEF PipeInv, PipeEnds
    <2>2. (~readopen' => fd' \cap Reader = {}) /\ (~writeopen' => fd' \cap Writer = {})
      BY <1>2 DEF PipeInv, PipeEnds
    <2>3. \A u \in Thread : pc'[u] \notin Holding
      BY <1>3, <1>6
    <2> QED BY <2>1, <2>2, <2>3, ThreadSorts DEF PipeEnds
  <1>8. (IsEmpty' <=> IsEmpty) /\ (IsFull' <=> IsFull) /\ (GaveUp' <=> GaveUp)
    BY <1>2 DEF IsEmpty, IsFull, GaveUp
  <1>9. ReaderWaits'
    <2> SUFFICES ASSUME NEW r \in Reader
                 PROVE  /\ pc'[r] # "sleep"
                        /\ pc'[r] = "asleep" => writeopen' /\ (IsEmpty \/ GaveUp)
      BY <1>8 DEF ReaderWaits
    <2>1. pc'[r] # "sleep"
      BY <1>3, <1>6, ThreadSorts
    <2>2. ASSUME pc'[r] = "asleep" PROVE writeopen' /\ (IsEmpty \/ GaveUp)
      <3>1. pc[r] = "asleep" /\ r \notin S
        BY <1>3, <2>2, ThreadSorts
      <3>2. writeopen' = writeopen
        BY <1>1, <3>1
      <3> QED BY <1>6, <3>1, <3>2, ThreadSorts DEF PipeInv, ReaderWaits
    <2> QED BY <2>1, <2>2
  <1>10. WriterWaits'
    <2> SUFFICES ASSUME NEW w \in Writer
                 PROVE  /\ pc'[w] # "sleep"
                        /\ pc'[w] = "asleep" => readopen' /\ IsFull
      BY <1>8 DEF WriterWaits
    <2>1. pc'[w] # "sleep"
      BY <1>3, <1>6, ThreadSorts
    <2>2. ASSUME pc'[w] = "asleep" PROVE readopen' /\ IsFull
      <3>1. pc[w] = "asleep" /\ w \notin S
        BY <1>3, <2>2, ThreadSorts
      <3>2. readopen' = readopen
        BY <1>1, <3>1
      <3> QED BY <1>6, <3>1, <3>2, ThreadSorts DEF PipeInv, WriterWaits
    <2> QED BY <2>1, <2>2
  <1> QED BY <1>4, <1>5, <1>7, <1>9, <1>10 DEF PipeInv

\* kill() wakes its victim without p->lock.
LEMMA KillInv ==
    ASSUME PipeInv, NEW t \in Thread, Kill(t)
    PROVE  PipeInv'
  <1> USE DEF Holding
  <1>1. /\ pc' \in [Thread -> PC]
        /\ \A u \in Thread : pc'[u] = IF u = t /\ pc[u] = "asleep" THEN "awake" ELSE pc[u]
    BY DEF Kill, PC, PipeInv, PipeType
  <1>2. UNCHANGED <<nread, nwrite, readopen, writeopen, lock, fd, left>>
    BY DEF Kill, pipevars
  <1>3. killed' \in [Thread -> BOOLEAN] /\ \A u \in Thread : killed[u] => killed'[u]
    BY DEF Kill, PipeInv, PipeType
  <1>4. PipeType'
    BY <1>1, <1>2, <1>3 DEF PipeInv, PipeType
  <1>5. PipeLock' /\ PipeEnds'
    BY <1>1, <1>2, ThreadSorts DEF PipeInv, PipeLock, PipeEnds
  <1>6. (IsEmpty' <=> IsEmpty) /\ (IsFull' <=> IsFull)
    BY <1>2 DEF IsEmpty, IsFull
  <1>7. GaveUp => GaveUp'
    BY <1>2, <1>3, ThreadSorts DEF GaveUp
  <1>8. \A u \in Thread : \A l \in Holding \cup {"asleep"} : pc'[u] = l => pc[u] = l
    BY <1>1
  <1>9. \A u \in Thread : \A l \in Holding : pc[u] = l => pc'[u] = l
    BY <1>1
  <1>10. ReaderWaits'
    BY <1>2, <1>6, <1>7, <1>8, <1>9, ThreadSorts DEF PipeInv, ReaderWaits
  <1>11. WriterWaits'
    BY <1>2, <1>6, <1>8, <1>9, ThreadSorts DEF PipeInv, WriterWaits
  <1> QED BY <1>4, <1>5, <1>10, <1>11 DEF PipeInv

\* The inductive invariant of the pipe, for every set of readers and writers.
THEOREM PipeInvariance == Spec => []PipeInv
  <1>1. Init => PipeInv
    BY ThreadSorts DEF Init, PipeInv, PipeType, PipeLock, PipeEnds, ReaderWaits, WriterWaits,
                       PC, Holding
  <1>2. PipeInv /\ [Next]_vars => PipeInv'
    <2> SUFFICES ASSUME PipeInv, [Next]_vars PROVE PipeInv'
      OBVIOUS
    <2>1. CASE UNCHANGED vars
      BY <2>1 DEF vars, pipevars, PipeInv, PipeType, PipeLock, PipeEnds, ReaderWaits,
                  WriterWaits, IsEmpty, IsFull, GaveUp
    <2>2. ASSUME NEW t \in Thread,
                 \/ Inside(t)
                 \/ \E m \in 0..MaxN : WriteStart(t, m) \/ ReadStart(t, m)
                 \/ Close(t)
                 \/ Kill(t)
          PROVE  PipeInv'
      BY <2>2, ByteInv, WriterStepInv, ReaderStepInv, SleepStepInv, CloseInv, KillInv DEF Inside
    <2> QED BY <2>1, <2>2 DEF Next
  <1> QED BY <1>1, <1>2, PTL DEF Spec

\* pipewrite() and piperead(): while p->lock is free no reader sleeps while
\* there are bytes or no writers, except behind a writer that was killed, and
\* no writer while there is room or no reader, for any number of both.
THEOREM NoWakeupIsLost == Spec => []NoLostWakeup
  <1>1. PipeInv => NoLostWakeup
    <2> SUFFICES ASSUME PipeInv, lock = Nobody
                 PROVE  /\ \A t \in Reader : pc[t] = "asleep" => writeopen /\ (IsEmpty \/ GaveUp)
                        /\ \A t \in Writer : pc[t] = "asleep" => readopen /\ IsFull
      BY DEF NoLostWakeup
    <2>1. \A t \in Thread : pc[t] # "loop" /\ pc[t] # "copy"
      BY ThreadSorts DEF PipeInv, PipeLock, Holding
    <2> QED BY <2>1, ThreadSorts DEF PipeInv, ReaderWaits, WriterWaits
  <1> QED BY <1>1, PipeInvariance, PTL

-----------------------------------------------------------------------------
(* Remainders, for the rings whose indices wrap at a multiple of their     *)
(* size.                                                                   *)

\* The quotient and the remainder give the number back.
LEMMA DivMod ==
    ASSUME NEW P \in Nat \ {0}, NEW x \in Nat
    PROVE  x \div P \in Nat /\ x % P \in 0..(P - 1) /\ x = (x \div P) * P + (x % P)
  <1>1. x % P \in 0..(P - 1)
    OBVIOUS
  <1>2. x = (x \div P) * P + (x % P) /\ x \div P \in Nat
    OBVIOUS
  <1> QED BY <1>1, <1>2

LEMMA ModOf ==
    ASSUME NEW P \in Nat \ {0}, NEW d \in Nat, NEW r \in 0..(P - 1)
    PROVE  (d * P + r) % P = r
  OBVIOUS

\* One turn of the index does not move the place in the ring.
LEMMA ModTurn ==
    ASSUME NEW P \in Nat \ {0}, NEW m \in Nat, m % P = 0, NEW x \in Nat
    PROVE  (x + m) % P = x % P
  <1> DEFINE a == x \div P
             b == m \div P
             r == x % P
  <1>1. a \in Nat /\ b \in Nat /\ r \in 0..(P - 1) /\ x = a * P + r /\ m = b * P
    BY DivMod
  <1> HIDE DEF a, b, r
  <1>2. x + m = (a + b) * P + r
    BY <1>1
  <1>3. ((a + b) * P + r) % P = r
    <2>1. a + b \in Nat
      BY <1>1
    <2> HIDE DEF a, b, r
    <2> QED BY <1>1, <2>1, ModOf
  <1> QED BY <1>2, <1>3 DEF r

\* Two indices less than a turn apart are different places.
LEMMA ModApart ==
    ASSUME NEW P \in Nat \ {0}, NEW x \in Nat, NEW d \in 1..(P - 1)
    PROVE  (x + d) % P # x % P
  <1> DEFINE a == x \div P
             r == x % P
  <1>1. a \in Nat /\ r \in 0..(P - 1) /\ x = a * P + r
    BY DivMod
  <1> HIDE DEF a, r
  <1>2. CASE r + d < P
    <2>1. (a * P + (r + d)) % P = r + d
      BY <1>1, <1>2, ModOf
    <2> QED BY <1>1, <2>1 DEF r
  <1>3. CASE r + d >= P
    <2>1. a + 1 \in Nat /\ r + d - P \in 0..(P - 1)
      BY <1>1, <1>3
    <2>2. ((a + 1) * P + (r + d - P)) % P = r + d - P
      BY <2>1, ModOf
    <2>3. x + d = (a + 1) * P + (r + d - P)
      BY <1>1
    <2>4. (x + d) % P = r + d - P
      BY <2>2, <2>3
    <2> QED BY <1>1, <2>1, <2>4 DEF r
  <1> QED BY <1>1, <1>2, <1>3

\* An index that is less than two turns.
LEMMA ModTwo ==
    ASSUME NEW P \in Nat \ {0}, NEW x \in 0..(2 * P - 1)
    PROVE  x % P = IF x < P THEN x ELSE x - P
  <1>1. CASE x < P
    BY <1>1
  <1>2. CASE x >= P
    <2>1. (1 * P + (x - P)) % P = x - P
      BY <1>2, ModOf
    <2> QED BY <1>2, <2>1
  <1> QED BY <1>1, <1>2

\* The distance between two indices that wrap at U.
LEMMA Distance ==
    ASSUME NEW U \in Nat \ {0}, NEW a \in 0..(U - 1), NEW b \in 0..(U - 1)
    PROVE  (b + U - a) % U = IF b >= a THEN b - a ELSE b + U - a
  <1> DEFINE x == b + U - a
  <1>1. x \in 0..(2 * U - 1)
    OBVIOUS
  <1> HIDE DEF x
  <1>2. x % U = IF x < U THEN x ELSE x - U
    BY <1>1, ModTwo
  <1> QED BY <1>2 DEF x

\* The index after a.
LEMMA Successor ==
    ASSUME NEW U \in Nat \ {0}, U > 1, NEW a \in 0..(U - 1)
    PROVE  (a + 1) % U = IF a + 1 = U THEN 0 ELSE a + 1
  <1> DEFINE x == a + 1
  <1>1. x \in 0..(2 * U - 1)
    OBVIOUS
  <1> HIDE DEF x
  <1>2. x % U = IF x < U THEN x ELSE x - U
    BY <1>1, ModTwo
  <1> QED BY <1>2 DEF x

-----------------------------------------------------------------------------
(* Stretches of a ring.  The sequence s of elements of T is what the c     *)
(* places of the ring d of size P from index r on hold.                    *)

IsRing(P, T, d) == P \in Nat \ {0} /\ d \in [0..(P - 1) -> T]

Spans(s, T, P, d, r, c) ==
    s \in Seq(T) /\ Len(s) = c /\ \A k \in 1..c : s[k] = d[(r + k - 1) % P]

\* The expression that the refinements use is one, and the only one.
LEMMA SpansOf ==
    ASSUME NEW P, NEW T, NEW d, IsRing(P, T, d), NEW r \in Nat, NEW c \in Nat
    PROVE  Spans([k \in 1..c |-> d[(r + k - 1) % P]], T, P, d, r, c)
  <1> DEFINE s == [k \in 1..c |-> d[(r + k - 1) % P]]
  <1>0. P \in Nat \ {0} /\ d \in [0..(P - 1) -> T]
    BY DEF IsRing
  <1>1. \A k \in 1..c : d[(r + k - 1) % P] \in T
    <2> SUFFICES ASSUME NEW k \in 1..c PROVE d[(r + k - 1) % P] \in T
      OBVIOUS
    <2>1. r + k - 1 \in Nat
      OBVIOUS
    <2>2. (r + k - 1) % P \in 0..(P - 1)
      BY <1>0, <2>1, DivMod
    <2> QED BY <1>0, <2>2
  <1>2. s \in [1..c -> T] /\ \A k \in 1..c : s[k] = d[(r + k - 1) % P]
    BY <1>1
  <1> HIDE DEF s
  <1>3. s \in Seq(T) /\ Len(s) = c
    BY <1>2
  <1>4. Spans(s, T, P, d, r, c)
    BY <1>2, <1>3 DEF Spans
  <1> QED BY <1>4 DEF s

LEMMA SpansOnce ==
    ASSUME NEW P, NEW T, NEW d, NEW r, NEW c, NEW s, NEW u,
           Spans(s, T, P, d, r, c), Spans(u, T, P, d, r, c)
    PROVE  s = u
  BY DEF Spans

\* A turn of the index does not change it.
LEMMA SpansTurn ==
    ASSUME NEW P, NEW T, NEW d, IsRing(P, T, d), NEW r \in Nat, NEW c \in Nat,
           NEW m \in Nat, m % P = 0, NEW s
    PROVE  Spans(s, T, P, d, r + m, c) <=> Spans(s, T, P, d, r, c)
  <1>1. ASSUME NEW k \in 1..c PROVE ((r + m) + k - 1) % P = (r + k - 1) % P
    <2>1. r + k - 1 \in Nat /\ P \in Nat \ {0}
      BY <1>1 DEF IsRing
    <2>2. ((r + k - 1) + m) % P = (r + k - 1) % P
      BY <2>1, ModTurn
    <2>3. (r + k - 1) + m = (r + m) + k - 1
      BY <1>1
    <2> QED BY <2>2, <2>3
  <1> QED BY <1>1 DEF Spans

\* A place less than a turn behind the start, and not in the stretch, may be
\* written.
LEMMA SpansKeep ==
    ASSUME NEW P, NEW T, NEW d, IsRing(P, T, d), NEW r \in Nat,
           NEW m \in Nat, m < P, NEW c \in 0..m, NEW v \in T, NEW s, Spans(s, T, P, d, r, c)
    PROVE  /\ IsRing(P, T, [d EXCEPT ![(r + m) % P] = v])
           /\ Spans(s, T, P, [d EXCEPT ![(r + m) % P] = v], r, c)
  <1>0. r + m \in Nat /\ P \in Nat \ {0} /\ d \in [0..(P - 1) -> T]
    BY DEF IsRing
  <1>1. (r + m) % P \in 0..(P - 1)
    BY <1>0, DivMod
  <1>2. ASSUME NEW k \in 1..c
        PROVE  (r + k - 1) % P # (r + m) % P /\ (r + k - 1) % P \in 0..(P - 1)
    <2> DEFINE x == r + k - 1
               y == m - k + 1
    <2>1. x \in Nat /\ y \in 1..(P - 1) /\ x + y = r + m
      BY <1>0, <1>2
    <2> HIDE DEF x, y
    <2>2. (x + y) % P # x % P /\ x % P \in 0..(P - 1)
      BY <1>0, <2>1, ModApart, DivMod
    <2>3. x % P # (r + m) % P /\ x % P \in 0..(P - 1)
      BY <2>1, <2>2
    <2> QED BY <2>3 DEF x
  <1>3. \A k \in 1..c : [d EXCEPT ![(r + m) % P] = v][(r + k - 1) % P] = d[(r + k - 1) % P]
    BY <1>0, <1>2
  <1> QED BY <1>0, <1>1, <1>3 DEF Spans, IsRing

\* The element that goes into the next place comes last.
LEMMA SpansAppend ==
    ASSUME NEW P, NEW T, NEW d, IsRing(P, T, d), NEW r \in Nat,
           NEW c \in Nat, c < P, NEW v \in T, NEW s, Spans(s, T, P, d, r, c)
    PROVE  Spans(Append(s, v), T, P, [d EXCEPT ![(r + c) % P] = v], r, c + 1)
  <1> DEFINE d2 == [d EXCEPT ![(r + c) % P] = v]
  <1>0. /\ r + c \in Nat /\ c \in 0..c /\ P \in Nat \ {0} /\ d \in [0..(P - 1) -> T]
    BY DEF IsRing
  <1>1. Spans(s, T, P, d2, r, c)
    BY <1>0, SpansKeep
  <1>2. d2[(r + c) % P] = v
    <2>1. (r + c) % P \in 0..(P - 1)
      BY <1>0, DivMod
    <2> QED BY <1>0, <2>1
  <1> HIDE DEF d2
  <1>3. s \in Seq(T) /\ Len(s) = c /\ \A k \in 1..c : s[k] = d2[(r + k - 1) % P]
    BY <1>1 DEF Spans
  <1>4. Append(s, v) \in Seq(T) /\ Len(Append(s, v)) = c + 1
    BY <1>3
  <1>5. ASSUME NEW k \in 1..(c + 1) PROVE Append(s, v)[k] = d2[(r + k - 1) % P]
    <2>1. CASE k = c + 1
      <3>1. r + k - 1 = r + c
        BY <2>1
      <3> QED BY <1>2, <1>3, <2>1, <3>1
    <2>2. CASE k # c + 1
      <3>1. k \in 1..c
        BY <1>5, <2>2
      <3>2. Append(s, v)[k] = s[k]
        BY <1>3, <3>1
      <3> QED BY <1>3, <3>1, <3>2
    <2> QED BY <2>1, <2>2
  <1>6. Spans(Append(s, v), T, P, d2, r, c + 1)
    BY <1>4, <1>5 DEF Spans
  <1> QED BY <1>6 DEF d2

\* The first element, what is left without it, and without the last.
LEMMA SpansTail ==
    ASSUME NEW P, NEW T, NEW d, NEW r \in Nat, NEW c \in Nat, c # 0, NEW s,
           Spans(s, T, P, d, r, c)
    PROVE  /\ s # <<>> /\ Head(s) = d[r % P]
           /\ Spans(Tail(s), T, P, d, r + 1, c - 1)
           /\ Spans(SubSeq(s, 1, c - 1), T, P, d, r, c - 1)
  <1>1. s \in Seq(T) /\ Len(s) = c /\ \A k \in 1..c : s[k] = d[(r + k - 1) % P]
    BY DEF Spans
  <1>2. s # <<>> /\ Head(s) = s[1] /\ Tail(s) \in Seq(T) /\ Len(Tail(s)) = c - 1
    BY <1>1
  <1>3. Head(s) = d[r % P]
    <2>1. r + 1 - 1 = r /\ 1 \in 1..c
      OBVIOUS
    <2> QED BY <1>1, <1>2, <2>1
  <1>4. ASSUME NEW k \in 1..(c - 1) PROVE Tail(s)[k] = d[((r + 1) + k - 1) % P]
    <2>1. (r + 1) + k - 1 = r + (k + 1) - 1 /\ k + 1 \in 1..c
      BY <1>4
    <2>2. s[k + 1] = d[((r + 1) + k - 1) % P]
      BY <1>1, <2>1
    <2> QED BY <1>1, <1>2, <1>4, <2>2
  <1>5. Spans(Tail(s), T, P, d, r + 1, c - 1)
    BY <1>2, <1>4 DEF Spans
  <1>6. /\ SubSeq(s, 1, c - 1) \in Seq(T) /\ Len(SubSeq(s, 1, c - 1)) = c - 1
        /\ \A k \in 1..(c - 1) : SubSeq(s, 1, c - 1)[k] = s[k]
    BY <1>1
  <1>7. Spans(SubSeq(s, 1, c - 1), T, P, d, r, c - 1)
    BY <1>1, <1>6 DEF Spans
  <1> QED BY <1>2, <1>3, <1>5, <1>7

LEMMA SpansFront ==
    ASSUME NEW P, NEW T, NEW d, NEW r \in Nat, NEW c \in Nat, c # 0, NEW s,
           Spans(s, T, P, d, r, c)
    PROVE  Spans(SubSeq(s, 1, c - 1), T, P, d, r, c - 1)
  BY SpansTail

\* Two stretches, one after the other.
LEMMA SpansConcat ==
    ASSUME NEW P, NEW T, NEW d, NEW r \in Nat, NEW a \in Nat, NEW b \in Nat, NEW s, NEW u,
           Spans(s, T, P, d, r, a), Spans(u, T, P, d, r + a, b)
    PROVE  Spans(s \o u, T, P, d, r, a + b)
  <1>1. s \in Seq(T) /\ Len(s) = a /\ \A k \in 1..a : s[k] = d[(r + k - 1) % P]
    BY DEF Spans
  <1>2. u \in Seq(T) /\ Len(u) = b /\ \A k \in 1..b : u[k] = d[((r + a) + k - 1) % P]
    BY DEF Spans
  <1>3. /\ s \o u \in Seq(T) /\ Len(s \o u) = a + b
        /\ \A k \in 1..(a + b) : (s \o u)[k] = IF k <= a THEN s[k] ELSE u[k - a]
    BY <1>1, <1>2, ConcatProperties
  <1>4. ASSUME NEW k \in 1..(a + b) PROVE (s \o u)[k] = d[(r + k - 1) % P]
    <2>1. CASE k <= a
      <3>1. k \in 1..a /\ (s \o u)[k] = s[k]
        BY <1>3, <1>4, <2>1
      <3> QED BY <1>1, <3>1
    <2>2. CASE k > a
      <3>1. PICK m \in 1..b : m = k - a
        BY <1>4, <2>2
      <3>2. (s \o u)[k] = u[m]
        BY <1>3, <1>4, <2>2, <3>1
      <3>3. u[m] = d[((r + a) + m - 1) % P]
        BY <1>2, <3>1
      <3>4. (r + a) + m - 1 = r + k - 1
        BY <1>4, <3>1
      <3> QED BY <3>2, <3>3, <3>4
    <2>3. k <= a \/ k > a
      BY <1>4
    <2> QED BY <2>1, <2>2, <2>3
  <1> QED BY <1>3, <1>4 DEF Spans

-----------------------------------------------------------------------------
(* The pipe implements the queue of bytes.                                 *)

RingInv ==
    /\ data \in [0..(PIPESIZE - 1) -> Byte]
    /\ nread \in 0..(UMAX - 1) /\ nwrite \in 0..(UMAX - 1)
    /\ Count <= PIPESIZE

\* The tests of the pipe in terms of the number of bytes.
LEMMA CountTests ==
    ASSUME RingInv
    PROVE  /\ Count \in 0..PIPESIZE
           /\ Count = IF nwrite >= nread THEN nwrite - nread ELSE nwrite + UMAX - nread
           /\ IsEmpty <=> Count = 0
           /\ IsFull <=> Count = PIPESIZE
  <1>1. nread \in 0..(UMAX - 1) /\ nwrite \in 0..(UMAX - 1)
    BY DEF RingInv
  <1>2. UMAX \in Nat \ {0} /\ PIPESIZE \in Nat \ {0} /\ UMAX > PIPESIZE /\ Count <= PIPESIZE
    BY PipeAssumption DEF RingInv
  <1>3. Count = IF nwrite >= nread THEN nwrite - nread ELSE nwrite + UMAX - nread
    BY <1>1, <1>2, Distance DEF Count
  <1>4. Count \in 0..PIPESIZE /\ (IsEmpty <=> Count = 0)
    BY <1>1, <1>2, <1>3 DEF IsEmpty
  <1>5. (nread + PIPESIZE) % UMAX = IF nread + PIPESIZE < UMAX THEN nread + PIPESIZE
                                    ELSE nread + PIPESIZE - UMAX
    <2> DEFINE x == nread + PIPESIZE
    <2>1. x \in 0..(2 * UMAX - 1)
      BY <1>1, <1>2
    <2> HIDE DEF x
    <2>2. x % UMAX = IF x < UMAX THEN x ELSE x - UMAX
      BY <1>2, <2>1, ModTwo
    <2> QED BY <1>1, <1>2, <2>2 DEF x
  <1>6. IsFull <=> Count = PIPESIZE
    BY <1>1, <1>2, <1>3, <1>5 DEF IsFull
  <1> QED BY <1>3, <1>4, <1>6

\* pipewrite() puts a byte behind the others.
LEMMA ByteIn ==
    ASSUME RingInv, NEW t \in Thread, NEW v \in Byte, WriteByte(t, v)
    PROVE  RingInv' /\ F!Put(v)
  <1>1. /\ data' = [data EXCEPT ![nwrite % PIPESIZE] = v] /\ nwrite' = (nwrite + 1) % UMAX
        /\ nread' = nread /\ ~IsFull
    BY DEF WriteByte
  <1>2. /\ nread \in 0..(UMAX - 1) /\ nwrite \in 0..(UMAX - 1) /\ nread \in Nat /\ nwrite \in Nat
        /\ PIPESIZE \in Nat \ {0} /\ UMAX \in Nat \ {0} /\ UMAX > PIPESIZE
        /\ Count \in Nat /\ Count < PIPESIZE
        /\ Count = IF nwrite >= nread THEN nwrite - nread ELSE nwrite + UMAX - nread
    BY <1>1, CountTests, PipeAssumption DEF RingInv
  <1>3. nwrite' = (IF nwrite + 1 = UMAX THEN 0 ELSE nwrite + 1) /\ nwrite' \in 0..(UMAX - 1)
    <2>1. UMAX > 1
      BY <1>2
    <2>2. (nwrite + 1) % UMAX = IF nwrite + 1 = UMAX THEN 0 ELSE nwrite + 1
      BY <1>2, <2>1, Successor
    <2> QED BY <1>1, <1>2, <2>2
  <1>4. Count' = Count + 1
    <2>1. Count' = (nwrite' + UMAX - nread) % UMAX
      BY <1>1 DEF Count
    <2>2. (nwrite' + UMAX - nread) % UMAX = IF nwrite' >= nread THEN nwrite' - nread
                                            ELSE nwrite' + UMAX - nread
      BY <1>2, <1>3, Distance
    <2> HIDE DEF Count
    <2> QED BY <1>2, <1>3, <2>1, <2>2
  <1>5. nwrite % PIPESIZE = (nread + Count) % PIPESIZE
    <2>1. (nwrite + UMAX) % PIPESIZE = nwrite % PIPESIZE
      BY <1>2, PipeAssumption, ModTurn
    <2> HIDE DEF Count
    <2>2. nread + Count = nwrite \/ nread + Count = nwrite + UMAX
      BY <1>2
    <2> QED BY <2>1, <2>2
  <1>6. IsRing(PIPESIZE, Byte, data)
    BY <1>2 DEF IsRing, RingInv
  <1>7. Spans(Content, Byte, PIPESIZE, data, nread, Count)
    <2> HIDE DEF Count
    <2> QED BY <1>2, <1>6, SpansOf DEF Content
  <1>8. data' \in [0..(PIPESIZE - 1) -> Byte]
    BY <1>1 DEF RingInv
  <1>9. RingInv'
    <2> HIDE DEF Count
    <2> QED BY <1>1, <1>2, <1>3, <1>4, <1>8 DEF RingInv
  <1>10. Content' = Append(Content, v)
    <2> HIDE DEF Count, Content
    <2>1. Spans(Append(Content, v), Byte, PIPESIZE,
                [data EXCEPT ![(nread + Count) % PIPESIZE] = v], nread, Count + 1)
      BY <1>2, <1>6, <1>7, SpansAppend
    <2>2. Spans(Append(Content, v), Byte, PIPESIZE, data', nread', Count')
      BY <1>1, <1>4, <1>5, <2>1
    <2>3. IsRing(PIPESIZE, Byte, data') /\ nread' \in Nat /\ Count' \in Nat
      BY <1>1, <1>2, <1>4, <1>8 DEF IsRing
    <2>4. Spans(Content', Byte, PIPESIZE, data', nread', Count')
      BY <2>3, SpansOf DEF Content
    <2> QED BY <2>2, <2>4, SpansOnce
  <1>11. Len(Content) < PIPESIZE
    BY <1>2, <1>7 DEF Spans
  <1> QED BY <1>9, <1>10, <1>11 DEF F!Put

\* piperead() takes the oldest.
LEMMA ByteOut ==
    ASSUME RingInv, NEW t \in Thread, ReadByte(t)
    PROVE  RingInv' /\ F!Get
  <1>1. nread' = (nread + 1) % UMAX /\ nwrite' = nwrite /\ data' = data /\ ~IsEmpty
    BY DEF ReadByte
  <1>2. /\ nread \in 0..(UMAX - 1) /\ nwrite \in 0..(UMAX - 1) /\ nread \in Nat
        /\ PIPESIZE \in Nat \ {0} /\ UMAX \in Nat \ {0} /\ UMAX > PIPESIZE
        /\ Count \in 0..PIPESIZE /\ Count \in Nat /\ Count # 0 /\ Count - 1 \in Nat
        /\ Count = IF nwrite >= nread THEN nwrite - nread ELSE nwrite + UMAX - nread
    BY <1>1, CountTests, PipeAssumption DEF RingInv
  <1>3. nread' = (IF nread + 1 = UMAX THEN 0 ELSE nread + 1) /\ nread' \in 0..(UMAX - 1)
    <2>1. UMAX > 1
      BY <1>2
    <2>2. (nread + 1) % UMAX = IF nread + 1 = UMAX THEN 0 ELSE nread + 1
      BY <1>2, <2>1, Successor
    <2> QED BY <1>1, <1>2, <2>2
  <1>4. Count' = Count - 1
    <2>1. Count' = (nwrite + UMAX - nread') % UMAX
      BY <1>1 DEF Count
    <2>2. (nwrite + UMAX - nread') % UMAX = IF nwrite >= nread' THEN nwrite - nread'
                                            ELSE nwrite + UMAX - nread'
      BY <1>2, <1>3, Distance
    <2> HIDE DEF Count
    <2> QED BY <1>2, <1>3, <2>1, <2>2
  <1>5. RingInv'
    <2> HIDE DEF Count
    <2> QED BY <1>1, <1>2, <1>3, <1>4 DEF RingInv
  <1>6. IsRing(PIPESIZE, Byte, data)
    BY <1>2 DEF IsRing, RingInv
  <1>7. Spans(Content, Byte, PIPESIZE, data, nread, Count)
    <2> HIDE DEF Count
    <2> QED BY <1>2, <1>6, SpansOf DEF Content
  <1> HIDE DEF Count, Content
  <1>8. Content # <<>> /\ Spans(Tail(Content), Byte, PIPESIZE, data, nread + 1, Count - 1)
    BY <1>2, <1>7, SpansTail
  <1>9. Spans(Tail(Content), Byte, PIPESIZE, data, nread', Count - 1)
    <2>1. CASE nread + 1 = UMAX
      <3>1. nread' = 0 /\ nread + 1 = 0 + UMAX /\ 0 \in Nat /\ UMAX \in Nat /\ UMAX % PIPESIZE = 0
        BY <1>2, <1>3, <2>1, PipeAssumption
      <3>2. Spans(Tail(Content), Byte, PIPESIZE, data, 0 + UMAX, Count - 1)
        BY <1>8, <3>1
      <3> QED BY <1>2, <1>6, <3>1, <3>2, SpansTurn
    <2>2. CASE nread + 1 # UMAX
      BY <1>3, <1>8, <2>2
    <2> QED BY <2>1, <2>2
  <1>10. Content # <<>> /\ Content' = Tail(Content)
    <2>1. IsRing(PIPESIZE, Byte, data') /\ nread' \in Nat /\ Count' \in Nat
      BY <1>1, <1>2, <1>3, <1>4, <1>6
    <2>2. Spans(Content', Byte, PIPESIZE, data', nread', Count')
      BY <2>1, SpansOf DEF Content
    <2>3. Spans(Tail(Content), Byte, PIPESIZE, data', nread', Count')
      BY <1>1, <1>4, <1>9
    <2> QED BY <1>8, <2>2, <2>3, SpansOnce
  <1> QED BY <1>5, <1>10 DEF F!Get

\* A pipe is a queue: over any interleaving of readers and writers, and across
\* the wrap of its two unsigned counters and of the ring, every byte comes out
\* once and in order, and none is overwritten.
THEOREM PipeIsFifo == Spec => IsFifo
  <1>1. Init => RingInv /\ F!FInit
    <2> SUFFICES ASSUME Init PROVE RingInv /\ F!FInit
      OBVIOUS
    <2>1. nread = 0 /\ nwrite = 0 /\ data \in [0..(PIPESIZE - 1) -> Byte]
      BY PipeAssumption DEF Init
    <2>2. Count = 0
      <3>1. 0 \in 0..(UMAX - 1) /\ UMAX \in Nat \ {0}
        BY PipeAssumption
      <3> QED BY <2>1, <3>1, Distance DEF Count
    <2>3. RingInv
      BY <2>1, <2>2, PipeAssumption DEF RingInv
    <2>4. Content = <<>>
      BY <2>2 DEF Content
    <2> QED BY <2>3, <2>4 DEF F!FInit
  <1>2. RingInv /\ [Next]_vars => RingInv' /\ [F!FNext]_Content
    <2> SUFFICES ASSUME RingInv, [Next]_vars PROVE RingInv' /\ [F!FNext]_Content
      OBVIOUS
    <2>1. ASSUME UNCHANGED <<data, nread, nwrite>> PROVE RingInv' /\ Content' = Content
      BY <2>1 DEF RingInv, Count, Content
    <2>2. CASE UNCHANGED vars
      BY <2>1, <2>2 DEF vars, pipevars
    <2>3. ASSUME NEW t \in Thread, NEW v \in Byte, WriteByte(t, v)
          PROVE  RingInv' /\ [F!FNext]_Content
      BY <2>3, ByteIn DEF F!FNext
    <2>4. ASSUME NEW t \in Thread, ReadByte(t) PROVE RingInv' /\ [F!FNext]_Content
      BY <2>4, ByteOut DEF F!FNext
    <2>5. CASE Next
      <3>1. PICK t \in Thread :
               \/ Inside(t)
               \/ \E m \in 0..MaxN : WriteStart(t, m) \/ ReadStart(t, m)
               \/ Close(t)
               \/ Kill(t)
        BY <2>5 DEF Next
      <3>2. \/ \E v \in Byte : WriteByte(t, v)
            \/ ReadByte(t)
            \/ UNCHANGED <<data, nread, nwrite>>
        BY <3>1 DEF Inside, pipevars, WriteFail, WriteWait, WriteDone, ReadFail, ReadWait,
                    ReadCopy, ReadDone, SleepCommit, SleepReturn, WriteStart, ReadStart,
                    Close, Kill
      <3> QED BY <2>1, <2>3, <2>4, <3>2
    <2> QED BY <2>2, <2>5
  <1> QED BY <1>1, <1>2, PTL DEF Spec, IsFifo, F!FSpec

-----------------------------------------------------------------------------
(* The console: the ring and its three indices.                            *)

Idx == 0..(UintMax - 1)

LEMMA ConsoleSizes ==
    /\ UintMax \in Nat \ {0} /\ UintMax > 1 /\ UintMax > INPUT_BUF
    /\ INPUT_BUF \in Nat \ {0} /\ UintMax % INPUT_BUF = 0
    /\ NoTty \notin Tty /\ "nl" \in Char /\ "^D" \in Char
  BY ConsoleAssumption

\* The operators on indices without remainders.
LEMMA MinusIs ==
    ASSUME NEW a \in Idx, NEW b \in Idx
    PROVE  /\ Minus(b, a) = IF b >= a THEN b - a ELSE b + UintMax - a
           /\ Minus(b, a) \in Idx /\ Minus(b, a) \in Nat
  <1>1. a \in 0..(UintMax - 1) /\ b \in 0..(UintMax - 1) /\ UintMax \in Nat \ {0}
    BY ConsoleSizes DEF Idx
  <1>2. Minus(b, a) = IF b >= a THEN b - a ELSE b + UintMax - a
    BY <1>1, Distance DEF Minus
  <1> QED BY <1>1, <1>2 DEF Idx

LEMMA IncIs ==
    ASSUME NEW a \in Idx
    PROVE  Inc(a) = (IF a + 1 = UintMax THEN 0 ELSE a + 1) /\ Inc(a) \in Idx
  <1>1. a \in 0..(UintMax - 1) /\ UintMax \in Nat \ {0} /\ UintMax > 1
    BY ConsoleSizes DEF Idx
  <1>2. Inc(a) = IF a + 1 = UintMax THEN 0 ELSE a + 1
    BY <1>1, Successor DEF Inc
  <1> QED BY <1>1, <1>2 DEF Idx

LEMMA DecIs ==
    ASSUME NEW a \in Idx
    PROVE  Dec(a) = (IF a = 0 THEN UintMax - 1 ELSE a - 1) /\ Dec(a) \in Idx
  <1>1. a \in 0..(UintMax - 1) /\ UintMax \in Nat \ {0} /\ UintMax > 1
    BY ConsoleSizes DEF Idx
  <1> DEFINE x == a + UintMax - 1
  <1>2. x \in 0..(2 * UintMax - 1)
    BY <1>1
  <1> HIDE DEF x
  <1>3. x % UintMax = IF x < UintMax THEN x ELSE x - UintMax
    BY <1>1, <1>2, ModTwo
  <1>4. Dec(a) = x % UintMax
    BY DEF x, Dec
  <1>5. Dec(a) = IF a = 0 THEN UintMax - 1 ELSE a - 1
    BY <1>1, <1>3, <1>4 DEF x
  <1> QED BY <1>1, <1>5 DEF Idx

\* The distance when one of the two indices moves towards the other.
LEMMA DistanceShrinks ==
    ASSUME NEW a \in Idx, NEW b \in Idx, a # b
    PROVE  /\ Minus(b, a) > 0
           /\ Minus(Dec(b), a) = Minus(b, a) - 1
           /\ Minus(b, Inc(a)) = Minus(b, a) - 1
  <1>1. /\ Inc(a) \in Idx /\ Dec(b) \in Idx
        /\ Inc(a) = IF a + 1 = UintMax THEN 0 ELSE a + 1
        /\ Dec(b) = IF b = 0 THEN UintMax - 1 ELSE b - 1
    BY IncIs, DecIs
  <1>2. PICK x \in Idx : x = Inc(a)
    BY <1>1
  <1>3. PICK y \in Idx : y = Dec(b)
    BY <1>1
  <1>4. Minus(b, a) = IF b >= a THEN b - a ELSE b + UintMax - a
    BY MinusIs
  <1>5. Minus(y, a) = IF y >= a THEN y - a ELSE y + UintMax - a
    BY MinusIs
  <1>6. Minus(b, x) = IF b >= x THEN b - x ELSE b + UintMax - x
    BY MinusIs
  <1>7. UintMax \in Nat /\ a \in 0..(UintMax - 1) /\ b \in 0..(UintMax - 1)
    BY ConsoleSizes DEF Idx
  <1>8. Minus(b, a) > 0
    BY <1>4, <1>7
  <1>9. Minus(y, a) = Minus(b, a) - 1
    BY <1>1, <1>3, <1>4, <1>5, <1>7
  <1>10. Minus(b, x) = Minus(b, a) - 1
    BY <1>1, <1>2, <1>4, <1>6, <1>7
  <1> QED BY <1>2, <1>3, <1>8, <1>9, <1>10

LEMMA NoDistance ==
    ASSUME NEW a \in Idx PROVE Minus(a, a) = 0
  BY MinusIs, ConsoleSizes DEF Idx

\* An index as a start and a distance: the same place of the ring.
LEMMA SamePlace ==
    ASSUME NEW a \in Idx, NEW b \in Idx
    PROVE  /\ b = a + Minus(b, a) \/ b + UintMax = a + Minus(b, a)
           /\ b % INPUT_BUF = (a + Minus(b, a)) % INPUT_BUF
  <1>1. b \in Nat /\ UintMax \in Nat /\ INPUT_BUF \in Nat \ {0} /\ UintMax % INPUT_BUF = 0
    BY ConsoleSizes DEF Idx
  <1>2. (b + UintMax) % INPUT_BUF = b % INPUT_BUF
    BY <1>1, ModTurn
  <1>3. b = a + Minus(b, a) \/ b + UintMax = a + Minus(b, a)
    <2>1. Minus(b, a) = IF b >= a THEN b - a ELSE b + UintMax - a
      BY MinusIs
    <2> QED BY <1>1, <2>1 DEF Idx
  <1> QED BY <1>2, <1>3

\* w is between r and e, the ring is not overfull, and no newline is in the
\* text that can be edited.
RingOK(i) ==
    /\ IsRing(INPUT_BUF, Char, i.buf)
    /\ i.r \in Idx /\ i.w \in Idx /\ i.e \in Idx
    /\ Minus(i.w, i.r) + Minus(i.e, i.w) = Minus(i.e, i.r)
    /\ Minus(i.e, i.r) <= INPUT_BUF
    /\ \A k \in 1..Minus(i.e, i.w) : i.buf[(i.w + k - 1) % INPUT_BUF] # "nl"

LineOf(i)  == [k \in 1..Minus(i.e, i.w) |-> i.buf[(i.w + k - 1) % INPUT_BUF]]
ReadyOf(i) == [k \in 1..Minus(i.w, i.r) |-> i.buf[(i.r + k - 1) % INPUT_BUF]]

\* Both are stretches of the ring.
LEMMA TextSpans ==
    ASSUME NEW i, IsRing(INPUT_BUF, Char, i.buf), i.r \in Idx, i.w \in Idx, i.e \in Idx
    PROVE  /\ Spans(LineOf(i), Char, INPUT_BUF, i.buf, i.w, Minus(i.e, i.w))
           /\ Spans(ReadyOf(i), Char, INPUT_BUF, i.buf, i.r, Minus(i.w, i.r))
  <1>1. i.r \in Nat /\ i.w \in Nat /\ Minus(i.e, i.w) \in Nat /\ Minus(i.w, i.r) \in Nat
    <2>1. i.r \in Nat /\ i.w \in Nat
      BY ConsoleSizes DEF Idx
    <2> QED BY <2>1, MinusIs
  <1> QED BY <1>1, SpansOf DEF LineOf, ReadyOf

\* A stretch from b on is one from a on, Minus(b, a) places later.
LEMMA SpansShift ==
    ASSUME NEW d, IsRing(INPUT_BUF, Char, d), NEW a \in Idx, NEW b \in Idx, NEW c \in Nat, NEW s,
           Spans(s, Char, INPUT_BUF, d, b, c)
    PROVE  Spans(s, Char, INPUT_BUF, d, a + Minus(b, a), c)
  <1>1. b \in Nat /\ UintMax \in Nat /\ UintMax % INPUT_BUF = 0
    BY ConsoleSizes DEF Idx
  <1>2. Spans(s, Char, INPUT_BUF, d, b + UintMax, c)
    BY <1>1, SpansTurn
  <1> QED BY <1>2, SamePlace

\* consoleintr() stores a character.
LEMMA TypeLine ==
    ASSUME NEW i, RingOK(i), NEW c \in Char, NEW j, Minus(i.e, i.r) < INPUT_BUF,
           j.buf = [i.buf EXCEPT ![i.e % INPUT_BUF] = c], j.r = i.r, j.e = Inc(i.e)
    PROVE  LET enter == c \in {"nl", "^D"} \/ Minus(j.e, i.r) = INPUT_BUF IN
           /\ Len(LineOf(i)) + Len(ReadyOf(i)) = Minus(i.e, i.r)
           /\ Minus(j.e, i.r) = Minus(i.e, i.r) + 1
           /\ enter /\ j.w = j.e =>
                 /\ RingOK(j)
                 /\ ReadyOf(j) = ReadyOf(i) \o Append(LineOf(i), c)
                 /\ LineOf(j) = <<>>
           /\ ~enter /\ j.w = i.w =>
                 /\ RingOK(j) /\ LineOf(j) = Append(LineOf(i), c) /\ ReadyOf(j) = ReadyOf(i)
  <1>1. /\ IsRing(INPUT_BUF, Char, i.buf) /\ i.r \in Idx /\ i.w \in Idx /\ i.e \in Idx
        /\ Minus(i.w, i.r) + Minus(i.e, i.w) = Minus(i.e, i.r)
        /\ \A k \in 1..Minus(i.e, i.w) : i.buf[(i.w + k - 1) % INPUT_BUF] # "nl"
    BY DEF RingOK
  <1>2. PICK cw \in Nat, ce \in Nat : cw = Minus(i.w, i.r) /\ ce = Minus(i.e, i.w)
    BY <1>1, MinusIs
  <1>3. /\ cw + ce = Minus(i.e, i.r) /\ cw + ce < INPUT_BUF /\ i.r \in Nat /\ i.w \in Nat
        /\ INPUT_BUF \in Nat \ {0}
    BY <1>1, <1>2, ConsoleSizes DEF Idx
  <1>4. Spans(LineOf(i), Char, INPUT_BUF, i.buf, i.w, ce)
    BY <1>1, <1>2, TextSpans
  <1>5. Spans(ReadyOf(i), Char, INPUT_BUF, i.buf, i.r, cw)
    BY <1>1, <1>2, TextSpans
  <1>6. Len(LineOf(i)) + Len(ReadyOf(i)) = Minus(i.e, i.r)
    <2>1. Len(LineOf(i)) = ce /\ Len(ReadyOf(i)) = cw
      BY <1>4, <1>5 DEF Spans
    <2> QED BY <1>3, <2>1
  <1>7. /\ i.e % INPUT_BUF = (i.w + ce) % INPUT_BUF
        /\ i.e % INPUT_BUF = (i.r + (cw + ce)) % INPUT_BUF
    BY <1>1, <1>2, <1>3, SamePlace
  <1>8. j.e \in Idx /\ Minus(j.e, i.r) = cw + ce + 1 /\ Minus(j.e, i.w) = ce + 1
        /\ Minus(j.e, j.e) = 0
    <2>1. j.e \in Idx /\ j.e = IF i.e + 1 = UintMax THEN 0 ELSE i.e + 1
      BY <1>1, IncIs
    <2>2. Minus(j.e, i.r) = IF j.e >= i.r THEN j.e - i.r ELSE j.e + UintMax - i.r
      BY <1>1, <2>1, MinusIs
    <2>3. Minus(j.e, i.w) = IF j.e >= i.w THEN j.e - i.w ELSE j.e + UintMax - i.w
      BY <1>1, <2>1, MinusIs
    <2>4. cw + ce = IF i.e >= i.r THEN i.e - i.r ELSE i.e + UintMax - i.r
      BY <1>1, <1>3, MinusIs
    <2>5. ce = IF i.e >= i.w THEN i.e - i.w ELSE i.e + UintMax - i.w
      BY <1>1, <1>2, MinusIs
    <2>6. Minus(j.e, j.e) = 0
      BY <2>1, MinusIs DEF Idx
    <2> QED BY <1>1, <1>3, <2>1, <2>2, <2>3, <2>4, <2>5, <2>6, ConsoleSizes DEF Idx
  <1>9. /\ IsRing(INPUT_BUF, Char, j.buf)
        /\ Spans(ReadyOf(i), Char, INPUT_BUF, j.buf, i.r, cw)
    <2>1. cw + ce \in Nat /\ cw \in 0..(cw + ce)
      BY <1>2
    <2>2. PICK m \in Nat : m = cw + ce
      BY <2>1
    <2>3. m < INPUT_BUF /\ cw \in 0..m
      BY <1>3, <2>1, <2>2
    <2>4. /\ IsRing(INPUT_BUF, Char, [i.buf EXCEPT ![(i.r + m) % INPUT_BUF] = c])
          /\ Spans(ReadyOf(i), Char, INPUT_BUF, [i.buf EXCEPT ![(i.r + m) % INPUT_BUF] = c],
                   i.r, cw)
      BY <1>1, <1>3, <1>5, <2>3, SpansKeep
    <2> QED BY <1>7, <2>2, <2>4
  <1>10. Spans(Append(LineOf(i), c), Char, INPUT_BUF, j.buf, i.w, ce + 1)
    <2>1. ce < INPUT_BUF
      BY <1>2, <1>3
    <2>2. PICK s : s = LineOf(i)
      OBVIOUS
    <2>3. Spans(s, Char, INPUT_BUF, i.buf, i.w, ce)
      BY <1>4, <2>2
    <2>4. IsRing(INPUT_BUF, Char, i.buf) /\ i.w \in Nat
      BY <1>1, <1>3
    <2>5. Spans(Append(s, c), Char, INPUT_BUF, [i.buf EXCEPT ![(i.w + ce) % INPUT_BUF] = c],
                i.w, ce + 1)
      BY <2>1, <2>3, <2>4, SpansAppend
    <2> QED BY <1>7, <2>2, <2>5
  <1>11. Minus(j.e, i.r) = Minus(i.e, i.r) + 1 /\ Minus(j.e, i.r) <= INPUT_BUF
    BY <1>2, <1>3, <1>8
  <1>12. ASSUME j.w = j.e
         PROVE  /\ RingOK(j) /\ LineOf(j) = <<>>
                /\ ReadyOf(j) = ReadyOf(i) \o Append(LineOf(i), c)
    <2>1. RingOK(j)
      BY <1>1, <1>2, <1>8, <1>9, <1>11, <1>12, MinusIs DEF RingOK
    <2>2. LineOf(j) = <<>>
      BY <1>8, <1>12 DEF LineOf
    <2>3. Spans(Append(LineOf(i), c), Char, INPUT_BUF, j.buf, i.r + cw, ce + 1)
      <3>1. ce + 1 \in Nat
        BY <1>2
      <3> QED BY <1>1, <1>2, <1>9, <1>10, <3>1, SpansShift
    <2>4. Spans(ReadyOf(i) \o Append(LineOf(i), c), Char, INPUT_BUF, j.buf, i.r, cw + (ce + 1))
      <3>1. ce + 1 \in Nat
        BY <1>2
      <3> QED BY <1>2, <1>3, <1>9, <2>3, <3>1, SpansConcat
    <2>5. Spans(ReadyOf(j), Char, INPUT_BUF, j.buf, i.r, Minus(j.w, j.r))
      BY <1>1, <1>8, <1>9, <1>12, TextSpans
    <2>6. Minus(j.w, j.r) = cw + (ce + 1)
      BY <1>2, <1>8, <1>12
    <2> QED BY <2>1, <2>2, <2>4, <2>5, <2>6, SpansOnce
  <1>13. ASSUME j.w = i.w, c # "nl"
         PROVE  RingOK(j) /\ LineOf(j) = Append(LineOf(i), c) /\ ReadyOf(j) = ReadyOf(i)
    <2>1. Spans(LineOf(j), Char, INPUT_BUF, j.buf, i.w, ce + 1)
      BY <1>1, <1>8, <1>9, <1>13, TextSpans
    <2>2. Spans(ReadyOf(j), Char, INPUT_BUF, j.buf, i.r, cw)
      BY <1>1, <1>2, <1>8, <1>9, <1>13, TextSpans
    <2>3. LineOf(j) = Append(LineOf(i), c) /\ ReadyOf(j) = ReadyOf(i)
      BY <1>9, <1>10, <2>1, <2>2, SpansOnce
    <2>4. \A k \in 1..(ce + 1) : j.buf[(i.w + k - 1) % INPUT_BUF] # "nl"
      <3>1. LineOf(i) \in Seq(Char) /\ Len(LineOf(i)) = ce
        BY <1>4 DEF Spans
      <3>2. \A k \in 1..ce : LineOf(i)[k] # "nl"
        BY <1>1, <1>2, <1>4 DEF Spans
      <3>3. \A k \in 1..(ce + 1) : Append(LineOf(i), c)[k] # "nl"
        BY <1>2, <1>13, <3>1, <3>2
      <3> QED BY <1>10, <3>3 DEF Spans
    <2>5. RingOK(j)
      BY <1>1, <1>2, <1>8, <1>9, <1>11, <1>13, <2>4 DEF RingOK
    <2> QED BY <2>3, <2>5
  <1> QED BY <1>6, <1>11, <1>12, <1>13

\* Backspace takes the last character of the line.
LEMMA EraseLine ==
    ASSUME NEW i, RingOK(i), NEW j, i.e # i.w,
           j.buf = i.buf, j.r = i.r, j.w = i.w, j.e = Dec(i.e)
    PROVE  /\ RingOK(j) /\ ReadyOf(j) = ReadyOf(i)
           /\ LineOf(i) # <<>> /\ LineOf(j) = SubSeq(LineOf(i), 1, Len(LineOf(i)) - 1)
  <1>1. /\ IsRing(INPUT_BUF, Char, i.buf) /\ i.r \in Idx /\ i.w \in Idx /\ i.e \in Idx
        /\ Minus(i.w, i.r) + Minus(i.e, i.w) = Minus(i.e, i.r)
        /\ Minus(i.e, i.r) <= INPUT_BUF
        /\ \A k \in 1..Minus(i.e, i.w) : i.buf[(i.w + k - 1) % INPUT_BUF] # "nl"
    BY DEF RingOK
  <1>2. PICK cw \in Nat, ce \in Nat : cw = Minus(i.w, i.r) /\ ce = Minus(i.e, i.w)
    BY <1>1, MinusIs
  <1>3. j.e \in Idx /\ Minus(j.e, i.r) = cw + ce - 1 /\ Minus(j.e, i.w) = ce - 1 /\ ce > 0
    <2>1. j.e \in Idx
      BY <1>1, DecIs
    <2>2. Minus(j.e, i.w) = ce - 1 /\ ce > 0
      BY <1>1, <1>2, DistanceShrinks
    <2>3. i.e # i.r
      <3>1. Minus(i.e, i.r) # 0
        BY <1>1, <1>2, <2>2
      <3> QED BY <1>1, <3>1, NoDistance
    <2>4. Minus(j.e, i.r) = Minus(i.e, i.r) - 1
      BY <1>1, <2>3, DistanceShrinks
    <2> QED BY <1>1, <1>2, <2>1, <2>2, <2>4
  <1>4. ce \in Nat /\ ce # 0 /\ i.w \in Nat
    BY <1>1, <1>2, <1>3, ConsoleSizes DEF Idx
  <1>5. Spans(LineOf(i), Char, INPUT_BUF, i.buf, i.w, ce)
    BY <1>1, <1>2, TextSpans
  <1>6. /\ LineOf(i) # <<>>
        /\ Spans(SubSeq(LineOf(i), 1, ce - 1), Char, INPUT_BUF, i.buf, i.w, ce - 1)
    <2>1. PICK s : s = LineOf(i)
      OBVIOUS
    <2>2. Spans(s, Char, INPUT_BUF, i.buf, i.w, ce)
      BY <1>5, <2>1
    <2>3. s # <<>> /\ Spans(SubSeq(s, 1, ce - 1), Char, INPUT_BUF, i.buf, i.w, ce - 1)
      <3>1. Len(s) = ce
        BY <2>2 DEF Spans
      <3>2. s # <<>>
        BY <1>4, <3>1
      <3>3. Spans(SubSeq(s, 1, ce - 1), Char, INPUT_BUF, i.buf, i.w, ce - 1)
        BY <1>4, <2>2, SpansFront
      <3> QED BY <3>2, <3>3
    <2> QED BY <2>1, <2>3
  <1>7. Spans(LineOf(j), Char, INPUT_BUF, i.buf, i.w, ce - 1)
    BY <1>1, <1>3, TextSpans
  <1>8. LineOf(j) = SubSeq(LineOf(i), 1, ce - 1) /\ Len(LineOf(i)) = ce
    <2>1. Len(LineOf(i)) = ce
      BY <1>5 DEF Spans
    <2> QED BY <1>6, <1>7, <2>1, SpansOnce
  <1>9. ReadyOf(j) = ReadyOf(i)
    BY DEF ReadyOf
  <1>10. RingOK(j)
    <2>1. \A k \in 1..(ce - 1) : j.buf[(j.w + k - 1) % INPUT_BUF] # "nl"
      <3>1. \A k \in 1..(ce - 1) : k \in 1..ce
        BY <1>2
      <3> QED BY <1>1, <1>2, <3>1
    <2>2. cw + (ce - 1) = cw + ce - 1 /\ cw + ce - 1 <= INPUT_BUF
      BY <1>1, <1>2, ConsoleSizes
    <2> QED BY <1>1, <1>2, <1>3, <2>1, <2>2 DEF RingOK
  <1> QED BY <1>6, <1>8, <1>9, <1>10

\* ^U goes back to w, for no newline is on the way.
StopOf(i, k) == k = i.w \/ i.buf[Ring(Dec(k))] = "nl"

LEMMA KillLineTo ==
    ASSUME NEW i, RingOK(i), NEW k \in Idx, StopOf(i, k),
           \A h \in 1..Minus(i.e, k) : ~StopOf(i, (k + h) % UintMax)
    PROVE  k = i.w
  <1>1. /\ i.w \in Idx /\ i.e \in Idx /\ i.r \in Idx
        /\ \A h \in 1..Minus(i.e, i.w) : i.buf[(i.w + h - 1) % INPUT_BUF] # "nl"
    BY DEF RingOK
  <1>2. SUFFICES ASSUME k # i.w PROVE FALSE
    OBVIOUS
  <1>3. PICK ce \in Nat, ck \in Nat, m \in Nat :
           ce = Minus(i.e, i.w) /\ ck = Minus(k, i.w) /\ m = Minus(i.w, k)
    BY <1>1, MinusIs
  <1>4. /\ ce = IF i.e >= i.w THEN i.e - i.w ELSE i.e + UintMax - i.w
        /\ ck = IF k >= i.w THEN k - i.w ELSE k + UintMax - i.w
        /\ m = IF i.w >= k THEN i.w - k ELSE i.w + UintMax - k
    BY <1>1, <1>3, MinusIs
  <1>5. Minus(i.e, k) = IF i.e >= k THEN i.e - k ELSE i.e + UintMax - k
    BY <1>1, MinusIs
  <1>6. CASE ck <= ce
    <2>1. i.buf[Ring(Dec(k))] = "nl"
      BY <1>2 DEF StopOf
    <2>2. Dec(k) \in Idx /\ Dec(k) = IF k = 0 THEN UintMax - 1 ELSE k - 1
      BY DecIs
    <2>3. Minus(Dec(k), i.w) = ck - 1
      BY <1>1, <1>2, <1>3, DistanceShrinks
    <2>4. Dec(k) % INPUT_BUF = (i.w + (ck - 1)) % INPUT_BUF
      BY <1>1, <2>2, <2>3, SamePlace
    <2>5. ck \in 1..ce /\ i.w + (ck - 1) = i.w + ck - 1
      BY <1>1, <1>2, <1>3, <1>4, <1>6, ConsoleSizes DEF Idx
    <2> QED BY <1>1, <1>3, <2>1, <2>4, <2>5 DEF Ring
  <1>7. CASE ck > ce
    <2>1. m \in 1..Minus(i.e, k)
      BY <1>1, <1>2, <1>3, <1>4, <1>5, <1>7, ConsoleSizes DEF Idx
    <2>2. (k + m) % UintMax = i.w
      <3> DEFINE x == k + m
      <3>1. x \in 0..(2 * UintMax - 1) /\ UintMax \in Nat \ {0} /\ x \in {i.w, i.w + UintMax}
        <4>1. PICK a \in 0..(UintMax - 1) : a = i.w
          BY <1>1 DEF Idx
        <4>2. k \in 0..(UintMax - 1) /\ UintMax \in Nat \ {0}
          BY ConsoleSizes DEF Idx
        <4>3. m = IF a >= k THEN a - k ELSE a + UintMax - k
          BY <1>4, <4>1
        <4>4. x = a \/ x = a + UintMax
          BY <4>1, <4>2, <4>3
        <4> QED BY <4>1, <4>2, <4>4
      <3> HIDE DEF x
      <3>2. x % UintMax = IF x < UintMax THEN x ELSE x - UintMax
        BY <3>1, ModTwo
      <3>3. x % UintMax = i.w
        <4>1. i.w \in Nat /\ i.w < UintMax
          BY <1>1, <3>1 DEF Idx
        <4>2. (IF x < UintMax THEN x ELSE x - UintMax) = i.w
          BY <3>1, <4>1
        <4> QED BY <3>2, <4>2
      <3> QED BY <3>3 DEF x
    <2> QED BY <2>1, <2>2 DEF StopOf
  <1> QED BY <1>3, <1>6, <1>7

LEMMA KillLineStops ==
    ASSUME NEW i, RingOK(i)
    PROVE  \A h \in 1..Minus(i.e, i.w) : ~StopOf(i, (i.w + h) % UintMax)
  <1>1. /\ i.w \in Idx /\ i.e \in Idx
        /\ \A h \in 1..Minus(i.e, i.w) : i.buf[(i.w + h - 1) % INPUT_BUF] # "nl"
    BY DEF RingOK
  <1> SUFFICES ASSUME NEW h \in 1..Minus(i.e, i.w) PROVE ~StopOf(i, (i.w + h) % UintMax)
    OBVIOUS
  <1>2. PICK ce \in Idx : ce = Minus(i.e, i.w)
    BY <1>1, MinusIs
  <1> DEFINE k == (i.w + h) % UintMax
  <1>3. k \in Idx /\ (k = i.w + h \/ k = i.w + h - UintMax)
    <2> DEFINE x == i.w + h
    <2>1. x \in 0..(2 * UintMax - 1) /\ UintMax \in Nat \ {0}
      BY <1>1, <1>2, ConsoleSizes DEF Idx
    <2> HIDE DEF x
    <2>2. x % UintMax = IF x < UintMax THEN x ELSE x - UintMax
      BY <2>1, ModTwo
    <2>3. x % UintMax \in Idx /\ (x % UintMax = x \/ x % UintMax = x - UintMax)
      BY <2>1, <2>2 DEF Idx
    <2>4. k = x % UintMax /\ x = i.w + h
      BY DEF x, k
    <2> HIDE DEF k
    <2>5. k \in Idx /\ (k = x \/ k = x - UintMax)
      BY <2>3, <2>4
    <2>6. x - UintMax = i.w + h - UintMax
      BY <1>1, <1>2, <2>1, <2>4 DEF Idx
    <2> QED BY <2>4, <2>5, <2>6
  <1> HIDE DEF k
  <1>4. k # i.w /\ Dec(k) \in Idx /\ Minus(Dec(k), i.w) = h - 1
    <2>1. Dec(k) \in Idx /\ Dec(k) = IF k = 0 THEN UintMax - 1 ELSE k - 1
      BY <1>3, DecIs
    <2>2. h \in 1..(UintMax - 1) /\ i.w \in 0..(UintMax - 1) /\ UintMax \in Nat
      BY <1>1, <1>2, ConsoleSizes DEF Idx
    <2>3. k # i.w
      BY <1>3, <2>2
    <2>4. Minus(Dec(k), i.w) = Minus(k, i.w) - 1
      BY <1>1, <1>3, <2>3, DistanceShrinks
    <2>5. Minus(k, i.w) = IF k >= i.w THEN k - i.w ELSE k + UintMax - i.w
      BY <1>1, <1>3, MinusIs
    <2>6. Minus(k, i.w) = h
      BY <1>3, <2>2, <2>5 DEF Idx
    <2> QED BY <2>1, <2>3, <2>4, <2>6
  <1>5. Dec(k) % INPUT_BUF = (i.w + (h - 1)) % INPUT_BUF
    BY <1>1, <1>4, SamePlace
  <1>6. i.w + (h - 1) = i.w + h - 1
    BY <1>1, <1>2 DEF Idx
  <1>7. ~StopOf(i, k)
    BY <1>1, <1>4, <1>5, <1>6 DEF StopOf, Ring
  <1> QED BY <1>7 DEF k

\* The line is gone.
LEMMA DropLine ==
    ASSUME NEW i, RingOK(i), NEW j, j.buf = i.buf, j.r = i.r, j.w = i.w, j.e = i.w
    PROVE  RingOK(j) /\ ReadyOf(j) = ReadyOf(i) /\ LineOf(j) = <<>>
  <1>1. /\ IsRing(INPUT_BUF, Char, i.buf) /\ i.r \in Idx /\ i.w \in Idx /\ i.e \in Idx
        /\ Minus(i.w, i.r) + Minus(i.e, i.w) = Minus(i.e, i.r)
        /\ Minus(i.e, i.r) <= INPUT_BUF
    BY DEF RingOK
  <1>2. Minus(i.w, i.w) = 0
    BY <1>1, MinusIs DEF Idx
  <1>3. Minus(i.w, i.r) \in Nat /\ Minus(i.e, i.w) \in Nat
    BY <1>1, MinusIs
  <1>4. RingOK(j)
    BY <1>1, <1>2, <1>3, ConsoleSizes DEF RingOK
  <1> QED BY <1>2, <1>4 DEF ReadyOf, LineOf

\* consoleread() takes the first character that is ready.
LEMMA TakeReady ==
    ASSUME NEW i, RingOK(i), NEW j, i.r # i.w,
           j.buf = i.buf, j.r = Inc(i.r), j.w = i.w, j.e = i.e
    PROVE  /\ RingOK(j) /\ LineOf(j) = LineOf(i)
           /\ ReadyOf(j) = Tail(ReadyOf(i))
  <1>1. /\ IsRing(INPUT_BUF, Char, i.buf) /\ i.r \in Idx /\ i.w \in Idx /\ i.e \in Idx
        /\ Minus(i.w, i.r) + Minus(i.e, i.w) = Minus(i.e, i.r)
        /\ Minus(i.e, i.r) <= INPUT_BUF
        /\ \A k \in 1..Minus(i.e, i.w) : i.buf[(i.w + k - 1) % INPUT_BUF] # "nl"
    BY DEF RingOK
  <1>2. PICK cw \in Nat, ce \in Nat : cw = Minus(i.w, i.r) /\ ce = Minus(i.e, i.w)
    BY <1>1, MinusIs
  <1>3. /\ j.r \in Idx /\ Minus(i.e, j.r) = cw + ce - 1 /\ Minus(i.w, j.r) = cw - 1 /\ cw > 0
        /\ j.r = IF i.r + 1 = UintMax THEN 0 ELSE i.r + 1
    <2>1. j.r \in Idx /\ j.r = IF i.r + 1 = UintMax THEN 0 ELSE i.r + 1
      BY <1>1, IncIs
    <2>2. Minus(i.w, j.r) = cw - 1 /\ cw > 0
      BY <1>1, <1>2, DistanceShrinks
    <2>3. i.e # i.r
      <3>1. Minus(i.e, i.r) # 0
        BY <1>1, <1>2, <2>2
      <3> QED BY <1>1, <3>1, NoDistance
    <2>4. Minus(i.e, j.r) = Minus(i.e, i.r) - 1
      BY <1>1, <2>3, DistanceShrinks
    <2> QED BY <1>1, <1>2, <2>1, <2>2, <2>4
  <1>4. RingOK(j)
    BY <1>1, <1>2, <1>3, ConsoleSizes DEF RingOK
  <1>5. cw \in Nat /\ cw # 0 /\ i.r \in Nat /\ cw - 1 \in Nat
    BY <1>1, <1>2, <1>3, ConsoleSizes DEF Idx
  <1>6. Spans(ReadyOf(i), Char, INPUT_BUF, i.buf, i.r, cw)
    BY <1>1, <1>2, TextSpans
  <1>7. Spans(Tail(ReadyOf(i)), Char, INPUT_BUF, i.buf, i.r + 1, cw - 1)
    BY <1>5, <1>6, SpansTail
  <1>8. Spans(ReadyOf(j), Char, INPUT_BUF, i.buf, j.r, cw - 1)
    BY <1>1, <1>3, TextSpans
  <1>9. Spans(Tail(ReadyOf(i)), Char, INPUT_BUF, i.buf, j.r, cw - 1)
    <2>1. CASE i.r + 1 = UintMax
      <3>1. /\ j.r = 0 /\ 0 \in Nat /\ UintMax \in Nat /\ UintMax % INPUT_BUF = 0
            /\ i.r + 1 = 0 + UintMax
        BY <1>3, <1>5, <2>1, ConsoleSizes
      <3>2. Spans(Tail(ReadyOf(i)), Char, INPUT_BUF, i.buf, 0 + UintMax, cw - 1)
        BY <1>7, <3>1
      <3> QED BY <1>1, <1>5, <3>1, <3>2, SpansTurn
    <2>2. CASE i.r + 1 # UintMax
      BY <1>3, <1>7, <2>2
    <2> QED BY <2>1, <2>2
  <1>10. ReadyOf(j) = Tail(ReadyOf(i))
    BY <1>8, <1>9, SpansOnce
  <1>11. LineOf(j) = LineOf(i)
    BY DEF LineOf
  <1> QED BY <1>4, <1>10, <1>11

\* What is ready begins with the character at r.
LEMMA ReadyHead ==
    ASSUME NEW i, RingOK(i), i.r # i.w
    PROVE  ReadyOf(i) # <<>> /\ Head(ReadyOf(i)) = i.buf[i.r % INPUT_BUF]
  <1>1. IsRing(INPUT_BUF, Char, i.buf) /\ i.r \in Idx /\ i.w \in Idx /\ i.e \in Idx
    BY DEF RingOK
  <1>2. PICK cw \in Nat : cw = Minus(i.w, i.r)
    BY <1>1, MinusIs
  <1>3. cw \in Nat /\ cw # 0 /\ i.r \in Nat
    <2>1. cw > 0
      BY <1>1, <1>2, DistanceShrinks
    <2> QED BY <1>1, <2>1, ConsoleSizes DEF Idx
  <1>4. Spans(ReadyOf(i), Char, INPUT_BUF, i.buf, i.r, cw)
    BY <1>1, <1>2, TextSpans
  <1>5. ReadyOf(i) \in Seq(Char) /\ Len(ReadyOf(i)) = cw
    BY <1>4 DEF Spans
  <1>6. ReadyOf(i)[1] = i.buf[(i.r + 1 - 1) % INPUT_BUF] /\ i.r + 1 - 1 = i.r
    BY <1>3, <1>4 DEF Spans
  <1>7. ReadyOf(i) # <<>> /\ Head(ReadyOf(i)) = ReadyOf(i)[1]
    BY <1>3, <1>5
  <1> QED BY <1>6, <1>7

-----------------------------------------------------------------------------
(* The console: the invariant and the two theorems.                        *)

InputType == [buf : [0..(INPUT_BUF - 1) -> Char], r : Idx, w : Idx, e : Idx]

ConType ==
    /\ input \in InputType /\ at \in [Tty -> At]
    /\ got \in [Tty -> Seq(Char)] /\ dead \in [Tty -> BOOLEAN]

\* The reader in consoleread() has the lock.
ConLock == \A p \in Tty : cons = p <=> at[p] \in {"loop", "sleep"}

\* Nobody sleeps, or is about to, while there is text.
ConWait == input.r # input.w => \A p \in Tty : at[p] \notin {"sleep", "asleep"}

ConInv == ConType /\ RingOK(input) /\ ConLock /\ ConWait

\* The fields that consoleintr() writes.
LEMMA InsertFields ==
    ASSUME ConInv, NEW c \in Char, Insert(c)
    PROVE  LET enter == c \in {"nl", "^D"} \/ Minus(Inc(input.e), input.r) = INPUT_BUF IN
           /\ input' \in InputType
           /\ input'.buf = [input.buf EXCEPT ![input.e % INPUT_BUF] = c]
           /\ input'.r = input.r /\ input'.e = Inc(input.e)
           /\ input'.w = IF enter THEN Inc(input.e) ELSE input.w
           /\ Minus(input.e, input.r) < INPUT_BUF /\ cons = NoTty
           /\ UNCHANGED <<cons, got, dead>>
           /\ IF enter THEN WakeReaders ELSE UNCHANGED at
  <1> DEFINE enter == c \in {"nl", "^D"} \/ Minus(Inc(input.e), input.r) = INPUT_BUF
             b2 == [input.buf EXCEPT ![input.e % INPUT_BUF] = c]
             e2 == Inc(input.e)
             w2 == IF enter THEN Inc(input.e) ELSE input.w
  <1>1. /\ input' = [input EXCEPT !.buf[Ring(input.e)] = c, !.e = e2, !.w = w2]
        /\ Minus(input.e, input.r) < INPUT_BUF /\ cons = NoTty
        /\ UNCHANGED <<cons, got, dead>>
        /\ IF enter THEN WakeReaders ELSE UNCHANGED at
    BY DEF Insert
  <1>2. input \in InputType
    BY DEF ConInv, ConType
  <1>3. input.buf \in [0..(INPUT_BUF - 1) -> Char] /\ input.w \in Idx /\ input.e \in Idx
    BY <1>2 DEF InputType
  <1>4. e2 \in Idx /\ w2 \in Idx
    BY <1>3, IncIs
  <1>5. b2 \in [0..(INPUT_BUF - 1) -> Char]
    BY <1>3
  <1>6. input' = [input EXCEPT !.buf = b2, !.e = e2, !.w = w2]
    BY <1>1, <1>2 DEF Ring, InputType
  <1> HIDE DEF b2, e2, w2, enter
  <1>7. /\ input' \in InputType /\ input'.buf = b2 /\ input'.r = input.r
        /\ input'.e = e2 /\ input'.w = w2
    BY <1>2, <1>4, <1>5, <1>6 DEF InputType
  <1> QED BY <1>1, <1>7 DEF b2, e2, w2, enter

\* ^U goes back to w.
LEMMA ControlUFields ==
    ASSUME ConInv, ControlU
    PROVE  input' = [input EXCEPT !.e = input.w] /\ UNCHANGED <<cons, at, got, dead>>
  <1>1. RingOK(input) /\ input.w \in Idx
    BY DEF ConInv, RingOK
  <1>2. \A k : Stop(k) <=> StopOf(input, k)
    BY DEF Stop, StopOf
  <1> DEFINE G(k) == StopOf(input, k) /\ \A h \in 1..Minus(input.e, k) :
                                             ~StopOf(input, (k + h) % UintMax)
  <1>3. KillTo = CHOOSE k \in Idx : G(k)
    BY <1>2 DEF KillTo, Idx
  <1>4. G(input.w)
    BY <1>1, KillLineStops DEF StopOf
  <1>5. \A k \in Idx : G(k) => k = input.w
    BY <1>1, KillLineTo
  <1> HIDE DEF G
  <1>6. KillTo = input.w
    BY <1>1, <1>3, <1>4, <1>5
  <1> QED BY <1>6 DEF ControlU

\* The mapping of the refinement.
LEMMA TextIs == Text(input.w, input.e) = LineOf(input) /\ Text(input.r, input.w) = ReadyOf(input)
  BY DEF Text, LineOf, ReadyOf, Ring

LEMMA TextIsNext ==
    /\ Text(input.w, input.e)' = LineOf(input')
    /\ Text(input.r, input.w)' = ReadyOf(input')
  BY DEF Text, LineOf, ReadyOf, Ring

LineStep == [L!LNext]_<<Text(input.w, input.e), Text(input.r, input.w), got>>

\* A character is typed.
LEMMA InsertStep ==
    ASSUME ConInv, NEW c \in Char, Insert(c)
    PROVE  ConInv' /\ LineStep
  <1> DEFINE enter == c \in {"nl", "^D"} \/ Minus(Inc(input.e), input.r) = INPUT_BUF
  <1>1. /\ input' \in InputType
        /\ input'.buf = [input.buf EXCEPT ![input.e % INPUT_BUF] = c]
        /\ input'.r = input.r /\ input'.e = Inc(input.e)
        /\ input'.w = IF enter THEN Inc(input.e) ELSE input.w
        /\ Minus(input.e, input.r) < INPUT_BUF /\ cons = NoTty
        /\ UNCHANGED <<cons, got, dead>>
        /\ IF enter THEN WakeReaders ELSE UNCHANGED at
    BY InsertFields
  <1>2. RingOK(input)
    BY DEF ConInv
  <1>3. /\ Len(LineOf(input)) + Len(ReadyOf(input)) = Minus(input.e, input.r)
        /\ Minus(Inc(input.e), input.r) = Minus(input.e, input.r) + 1
        /\ enter => /\ RingOK(input')
                    /\ ReadyOf(input') = ReadyOf(input) \o Append(LineOf(input), c)
                    /\ LineOf(input') = <<>>
        /\ ~enter => /\ RingOK(input') /\ LineOf(input') = Append(LineOf(input), c)
                     /\ ReadyOf(input') = ReadyOf(input)
    <2>1. PICK i, j : i = input /\ j = input'
      OBVIOUS
    <2>2. /\ RingOK(i) /\ Minus(i.e, i.r) < INPUT_BUF /\ j.r = i.r /\ j.e = Inc(i.e)
          /\ j.buf = [i.buf EXCEPT ![i.e % INPUT_BUF] = c]
      BY <1>1, <1>2, <2>1
    <2>3. /\ enter <=> c \in {"nl", "^D"} \/ Minus(j.e, i.r) = INPUT_BUF
          /\ enter => j.w = j.e
          /\ ~enter => j.w = i.w
      BY <1>1, <2>1, <2>2
    <2> HIDE DEF enter
    <2>4. /\ Len(LineOf(i)) + Len(ReadyOf(i)) = Minus(i.e, i.r)
          /\ Minus(j.e, i.r) = Minus(i.e, i.r) + 1
          /\ enter => /\ RingOK(j) /\ ReadyOf(j) = ReadyOf(i) \o Append(LineOf(i), c)
                      /\ LineOf(j) = <<>>
          /\ ~enter => /\ RingOK(j) /\ LineOf(j) = Append(LineOf(i), c)
                       /\ ReadyOf(j) = ReadyOf(i)
      BY <2>2, <2>3, TypeLine
    <2> QED BY <2>1, <2>2, <2>4
  <1>4. enter <=> (c \in {"nl", "^D"} \/ Len(LineOf(input)) + Len(ReadyOf(input)) + 1 = INPUT_BUF)
    BY <1>3
  <1>5. Len(LineOf(input)) + Len(ReadyOf(input)) < INPUT_BUF
    BY <1>1, <1>3
  <1>6. RingOK(input')
    BY <1>3
  <1>7. L!Type(c)
    <2> HIDE DEF enter
    <2> QED BY <1>1, <1>3, <1>4, <1>5, TextIs, TextIsNext DEF L!Type
  <1>8. LineStep
    BY <1>7 DEF LineStep, L!LNext
  <1>9. /\ at' \in [Tty -> At]
        /\ \A p \in Tty : at'[p] = IF enter /\ at[p] = "asleep" THEN "awake" ELSE at[p]
    <2> HIDE DEF enter
    <2> QED BY <1>1 DEF WakeReaders, At, ConInv, ConType
  <1>10. ConType'
    BY <1>1, <1>9 DEF ConInv, ConType
  <1>11. ConLock'
    BY <1>1, <1>9 DEF ConInv, ConLock
  <1>12. \A p \in Tty : at[p] # "sleep"
    BY <1>1, ConsoleSizes DEF ConInv, ConLock
  <1>13. ConWait'
    <2>1. CASE enter
      <3> HIDE DEF enter
      <3> QED BY <1>9, <1>12, <2>1 DEF ConWait
    <2>2. CASE ~enter
      <3> HIDE DEF enter
      <3> QED BY <1>1, <1>9, <2>2 DEF ConInv, ConWait
    <2> QED BY <2>1, <2>2
  <1> QED BY <1>6, <1>8, <1>10, <1>11, <1>13 DEF ConInv

\* The line is edited: only e moves.
LEMMA EditStep ==
    ASSUME ConInv, Backspace \/ ControlU
    PROVE  ConInv' /\ LineStep
  <1>1. UNCHANGED <<cons, at, got, dead>>
    BY ControlUFields DEF Backspace
  <1>2. input \in InputType /\ RingOK(input) /\ input.e \in Idx /\ input.w \in Idx
    BY DEF ConInv, ConType, RingOK
  <1>3. ASSUME NEW e2 \in Idx, input' = [input EXCEPT !.e = e2]
        PROVE  /\ input' \in InputType /\ input'.buf = input.buf /\ input'.r = input.r
               /\ input'.w = input.w /\ input'.e = e2
    BY <1>2, <1>3 DEF InputType
  <1>4. CASE Backspace
    <2>1. input.e # input.w /\ input' = [input EXCEPT !.e = Dec(input.e)] /\ Dec(input.e) \in Idx
      BY <1>2, <1>4, DecIs DEF Backspace, InputType
    <2>2. /\ input' \in InputType /\ input'.buf = input.buf /\ input'.r = input.r
          /\ input'.w = input.w /\ input'.e = Dec(input.e)
      BY <1>3, <2>1
    <2>3. /\ RingOK(input') /\ ReadyOf(input') = ReadyOf(input) /\ LineOf(input) # <<>>
          /\ LineOf(input') = SubSeq(LineOf(input), 1, Len(LineOf(input)) - 1)
      BY <1>2, <2>1, <2>2, EraseLine
    <2>4. L!Erase
      BY <1>1, <2>3, TextIs, TextIsNext DEF L!Erase, L!Front
    <2>5. LineStep
      BY <2>4 DEF LineStep, L!LNext
    <2> QED BY <1>1, <2>2, <2>3, <2>5 DEF ConInv, ConType, ConLock, ConWait
  <1>5. CASE ControlU
    <2>1. input' = [input EXCEPT !.e = input.w]
      BY <1>5, ControlUFields
    <2>2. /\ input' \in InputType /\ input'.buf = input.buf /\ input'.r = input.r
          /\ input'.w = input.w /\ input'.e = input.w
      BY <1>2, <1>3, <2>1
    <2>3. RingOK(input') /\ ReadyOf(input') = ReadyOf(input) /\ LineOf(input') = <<>>
      BY <1>2, <2>2, DropLine
    <2>4. L!KillLine
      BY <1>1, <2>3, TextIs, TextIsNext DEF L!KillLine
    <2>5. LineStep
      BY <2>4 DEF LineStep, L!LNext
    <2> QED BY <1>1, <2>2, <2>3, <2>5 DEF ConInv, ConType, ConLock, ConWait
  <1> QED BY <1>4, <1>5

\* A reader moves and the text does not.
LEMMA ReaderStep ==
    ASSUME ConInv, NEW p \in Tty, NEW l \in At, UNCHANGED <<input, dead>>,
           at' = [at EXCEPT ![p] = l],
           got' = got \/ got' = [got EXCEPT ![p] = <<>>],
           cons \in {p, NoTty}, cons' = IF l \in {"loop", "sleep"} THEN p ELSE NoTty,
           l \in {"sleep", "asleep"} => input.r = input.w
    PROVE  ConInv' /\ LineStep
  <1>1. /\ at' \in [Tty -> At] /\ at'[p] = l
        /\ \A q \in Tty : q # p => at'[q] = at[q]
    BY DEF ConInv, ConType
  <1>2. ConType'
    <2>1. got \in [Tty -> Seq(Char)] /\ <<>> \in Seq(Char)
      BY DEF ConInv, ConType
    <2>2. got' \in [Tty -> Seq(Char)]
      BY <2>1
    <2> QED BY <1>1, <2>2 DEF ConInv, ConType
  <1>3. ConLock'
    BY <1>1, ConsoleSizes DEF ConInv, ConLock
  <1>4. ConWait'
    BY <1>1 DEF ConInv, ConWait
  <1>5. RingOK(input')
    BY DEF ConInv
  <1>6. Text(input.w, input.e)' = Text(input.w, input.e)
    BY DEF Text
  <1>7. Text(input.r, input.w)' = Text(input.r, input.w)
    BY DEF Text
  <1>8. LineStep
    BY <1>6, <1>7 DEF LineStep, L!LNext, L!Begin
  <1> QED BY <1>2, <1>3, <1>4, <1>5, <1>8 DEF ConInv

\* The steps of consoleread() that take no character.
LEMMA ReaderMoves ==
    ASSUME ConInv, NEW p \in Tty,
           (\E k \in ReadSizes : ReadLine(p, k)) \/ ReadKilled(p) \/ ReadSleep(p)
              \/ ReadAsleep(p) \/ ReadAwake(p)
    PROVE  ConInv' /\ LineStep
  <1>1. UNCHANGED <<input, dead>> /\ cons \in {p, NoTty}
    BY DEF ReadLine, ReadKilled, ReadSleep, ReadAsleep, ReadAwake, NothingReady, ConInv, ConLock
  <1>2. CASE \E k \in ReadSizes : ReadLine(p, k)
    BY <1>1, <1>2, ReaderStep DEF ReadLine, At
  <1>3. CASE ReadKilled(p)
    BY <1>1, <1>3, ReaderStep DEF ReadKilled, At
  <1>4. CASE ReadSleep(p)
    <2>1. cons' = p
      BY <1>4 DEF ReadSleep, NothingReady, ConInv, ConLock
    <2> QED BY <1>1, <1>4, <2>1, ReaderStep DEF ReadSleep, NothingReady, At
  <1>5. CASE ReadAsleep(p)
    <2>1. input.r = input.w
      BY <1>5 DEF ReadAsleep, ConInv, ConWait
    <2> QED BY <1>1, <1>5, <2>1, ReaderStep DEF ReadAsleep, At
  <1>6. CASE ReadAwake(p)
    BY <1>1, <1>6, ReaderStep DEF ReadAwake, At
  <1> QED BY <1>2, <1>3, <1>4, <1>5, <1>6

\* consoleread() meets a character.
LEMMA CharStep ==
    ASSUME ConInv, NEW p \in Tty, ReadChar(p)
    PROVE  ConInv' /\ LineStep
  <1> DEFINE c == input.buf[input.r % INPUT_BUF]
             eof == c = "^D"
             r2 == IF eof /\ got[p] # <<>> THEN input.r ELSE Inc(input.r)
  <1>1. /\ at[p] = "loop" /\ input.r # input.w /\ dead' = dead
        /\ input' = [input EXCEPT !.r = r2]
        /\ got' = [got EXCEPT ![p] = IF eof THEN got[p] ELSE Append(got[p], c)]
        /\ \/ cons' = NoTty /\ at' = [at EXCEPT ![p] = "user"]
           \/ UNCHANGED <<cons, at>>
    <2>1. input \in InputType /\ got \in [Tty -> Seq(Char)]
      BY DEF ConInv, ConType
    <2> QED BY <2>1 DEF ReadChar, Ring, InputType
  <1>2. /\ input \in InputType /\ RingOK(input) /\ input.r \in Idx
        /\ got \in [Tty -> Seq(Char)] /\ at \in [Tty -> At]
    BY DEF ConInv, ConType, RingOK
  <1>3. r2 \in Idx
    BY <1>2, IncIs
  <1>4. c \in Char
    <2>1. input.r \in Nat /\ INPUT_BUF \in Nat \ {0}
      BY <1>2, ConsoleSizes DEF Idx
    <2>2. input.r % INPUT_BUF \in 0..(INPUT_BUF - 1)
      BY <2>1, DivMod
    <2> QED BY <1>2, <2>2 DEF InputType
  <1>5. ReadyOf(input) # <<>> /\ Head(ReadyOf(input)) = c
    BY <1>1, <1>2, ReadyHead
  <1>6. /\ input' \in InputType /\ input'.buf = input.buf /\ input'.r = r2
        /\ input'.w = input.w /\ input'.e = input.e
    <2> HIDE DEF r2
    <2> QED BY <1>1, <1>2, <1>3 DEF InputType
  <1>7. got' \in [Tty -> Seq(Char)]
    <2> HIDE DEF c
    <2> QED BY <1>1, <1>2, <1>4
  <1>8. /\ at' \in [Tty -> At] /\ \A q \in Tty : q # p => at'[q] = at[q]
        /\ at'[p] \in {"loop", "user"}
        /\ IF at'[p] = "loop" THEN cons' = cons ELSE cons' = NoTty
    BY <1>1, <1>2 DEF At
  <1>9. ConType'
    BY <1>1, <1>6, <1>7, <1>8 DEF ConInv, ConType
  <1>10. ConLock'
    <2>1. cons = p
      BY <1>1 DEF ConInv, ConLock
    <2> QED BY <1>8, <2>1, ConsoleSizes DEF ConInv, ConLock
  <1>11. ConWait'
    <2>1. \A q \in Tty : at[q] \notin {"sleep", "asleep"}
      BY <1>1 DEF ConInv, ConWait
    <2> QED BY <1>8, <2>1 DEF ConWait
  <1>12. CASE eof /\ got[p] # <<>>
    <2>1. input' = input
      BY <1>1, <1>2, <1>12 DEF InputType
    <2>2. got' = got
      <3> HIDE DEF c
      <3> QED BY <1>1, <1>2, <1>12
    <2>3. LineStep
      BY <2>1, <2>2 DEF LineStep, Text
    <2>4. RingOK(input')
      BY <1>2, <2>1
    <2> QED BY <1>9, <1>10, <1>11, <2>3, <2>4 DEF ConInv
  <1>13. CASE ~(eof /\ got[p] # <<>>)
    <2>1. input'.r = Inc(input.r)
      BY <1>6, <1>13
    <2>2. /\ RingOK(input') /\ LineOf(input') = LineOf(input)
          /\ ReadyOf(input') = Tail(ReadyOf(input))
      BY <1>1, <1>2, <1>6, <2>1, TakeReady
    <2> HIDE DEF c
    <2>3. CASE eof
      <3>1. got' = got /\ got[p] = <<>>
        BY <1>1, <1>2, <1>13, <2>3
      <3>2. L!Eof(p)
        BY <1>5, <2>2, <2>3, <3>1, TextIs, TextIsNext DEF L!Eof
      <3>3. LineStep
        BY <3>2 DEF LineStep, L!LNext
      <3> QED BY <1>9, <1>10, <1>11, <2>2, <3>3 DEF ConInv
    <2>4. CASE ~eof
      <3>1. got' = [got EXCEPT ![p] = Append(got[p], c)]
        BY <1>1, <2>4
      <3>2. L!Deliver(p)
        BY <1>5, <2>2, <2>4, <3>1, TextIs, TextIsNext DEF L!Deliver
      <3>3. LineStep
        BY <3>2 DEF LineStep, L!LNext
      <3> QED BY <1>9, <1>10, <1>11, <2>2, <3>3 DEF ConInv
    <2> QED BY <2>3, <2>4
  <1> QED BY <1>12, <1>13

\* kill() wakes a reader.
LEMMA KillReaderStep ==
    ASSUME ConInv, NEW p \in Tty, KillReader(p)
    PROVE  ConInv' /\ LineStep
  <1>1. /\ UNCHANGED <<input, cons, got>> /\ dead' \in [Tty -> BOOLEAN]
        /\ at' \in [Tty -> At]
        /\ \A q \in Tty : at'[q] = IF q = p /\ at[q] = "asleep" THEN "awake" ELSE at[q]
    BY DEF KillReader, ConInv, ConType, At
  <1>2. LineStep
    BY <1>1 DEF LineStep, Text
  <1> QED BY <1>1, <1>2 DEF ConInv, ConType, ConLock, ConWait

\* The invariant of the console holds, and each of its steps is one of the
\* edit line and the queue behind it.
LEMMA ConsoleStep == ConInv /\ [ConNext]_convars => ConInv' /\ LineStep
  <1> SUFFICES ASSUME ConInv, [ConNext]_convars PROVE ConInv' /\ LineStep
    OBVIOUS
  <1>1. CASE UNCHANGED convars
    BY <1>1 DEF convars, ConInv, ConType, ConLock, ConWait, LineStep, Text
  <1>2. CASE consoleintr
    BY <1>2, InsertStep, EditStep DEF consoleintr
  <1>3. ASSUME NEW p \in Tty, consoleread(p) \/ KillReader(p) PROVE ConInv' /\ LineStep
    BY <1>3, ReaderMoves, CharStep, KillReaderStep DEF consoleread
  <1> QED BY <1>1, <1>2, <1>3 DEF ConNext

LEMMA ConsoleStart == ConInit => ConInv /\ L!LInit
  <1> SUFFICES ASSUME ConInit PROVE ConInv /\ L!LInit
    OBVIOUS
  <1>1. 0 \in Idx /\ Minus(0, 0) = 0
    <2>1. 0 \in Idx
      BY ConsoleSizes DEF Idx
    <2> QED BY <2>1, NoDistance
  <1>2. /\ input = [buf |-> [k \in 0..(INPUT_BUF - 1) |-> "nl"], r |-> 0, w |-> 0, e |-> 0]
        /\ cons = NoTty /\ at = [p \in Tty |-> "user"] /\ got = [p \in Tty |-> <<>>]
        /\ dead = [p \in Tty |-> FALSE]
    BY DEF ConInit
  <1>3. input \in InputType /\ input.r = 0 /\ input.w = 0 /\ input.e = 0
    BY <1>1, <1>2, ConsoleSizes DEF InputType
  <1>4. input.buf \in [0..(INPUT_BUF - 1) -> Char]
    BY <1>3 DEF InputType
  <1>5. RingOK(input)
    BY <1>1, <1>3, <1>4, ConsoleSizes DEF RingOK, IsRing
  <1>6. ConType
    BY <1>2, <1>3 DEF ConType, At
  <1>7. ConLock /\ ConWait
    BY <1>2, ConsoleSizes DEF ConLock, ConWait
  <1>8. LineOf(input) = <<>> /\ ReadyOf(input) = <<>>
    BY <1>1, <1>3 DEF LineOf, ReadyOf
  <1>9. L!LInit
    BY <1>2, <1>8, TextIs DEF L!LInit
  <1> QED BY <1>5, <1>6, <1>7, <1>9 DEF ConInv

\* consoleread() and consoleintr(): no reader, of any number, sleeps while
\* there is a line for it, whatever the size of the ring.
THEOREM NoLineIsLost == ConSpec => []NoLostLine
  <1>1. ConInv => NoLostLine
    BY DEF ConInv, ConWait, NoLostLine
  <1> QED BY <1>1, ConsoleStart, ConsoleStep, PTL DEF ConSpec

\* The ring of console.c, whose indices wrap, is an edit line and a queue:
\* backspace and ^U never reach text that has been entered, and every character
\* goes to one reader, in order.
THEOREM ConsoleIsLineInput == ConSpec => IsLineInput
  <1> USE DEF LineStep
  <1> QED BY ConsoleStart, ConsoleStep, PTL DEF ConSpec, IsLineInput, L!LSpec

-----------------------------------------------------------------------------
(* The keyboard: a modifier that is on, or will be on when the bytes that  *)
(* wait have been read, has a key that is down.                            *)

KbdByte == [code : Code \cup {"E0"}, up : BOOLEAN]
Escaped == {"ctl", "enter"}

\* No release of m after position i.
NotReleased(s, m, i) == \A k \in (i + 1)..Len(s) : ~(s[k].code = m /\ s[k].up)
Down(h, m) == \E k \in h : k.code = m

Backed(s, h, m, active) ==
    /\ \A i \in 1..Len(s) : s[i].code = m /\ ~s[i].up /\ NotReleased(s, m, i) => Down(h, m)
    /\ active /\ NotReleased(s, m, 0) => Down(h, m)

\* An escape byte is followed by the byte that it escapes.
EscapesPaired(s, f) ==
    /\ \A i \in 1..Len(s) : s[i].code = "E0" =>
          ~s[i].up /\ i < Len(s) /\ s[i + 1].code \in Escaped
    /\ f => s # <<>> /\ s[1].code \in Escaped

KbdInv ==
    /\ port \in Seq(KbdByte)
    /\ EscapesPaired(port, "E0ESC" \in shift)
    /\ Backed(port, held, "ctl", "CTL" \in shift)
    /\ Backed(port, held, "shift", "SHIFT" \in shift)

\* One more byte.
LEMMA BackedAppend ==
    ASSUME NEW s \in Seq(KbdByte), NEW b \in KbdByte, NEW h, NEW h2, NEW m, NEW active \in BOOLEAN,
           Backed(s, h, m, active),
           b.code = m /\ ~b.up => Down(h2, m),
           (b.code = m /\ b.up) \/ (Down(h, m) => Down(h2, m))
    PROVE  Backed(Append(s, b), h2, m, active)
  <1> DEFINE u == Append(s, b)
  <1>1. /\ u \in Seq(KbdByte) /\ Len(u) = Len(s) + 1 /\ Len(s) \in Nat /\ u[Len(s) + 1] = b
        /\ \A i \in 1..Len(s) : u[i] = s[i]
    OBVIOUS
  <1> HIDE DEF u
  <1>2. CASE b.code = m /\ b.up
    <2>1. \A i \in 0..Len(s) : ~NotReleased(u, m, i)
      BY <1>1, <1>2 DEF NotReleased
    <2>2. Backed(u, h2, m, active)
      BY <1>1, <1>2, <2>1 DEF Backed
    <2> QED BY <2>2 DEF u
  <1>3. CASE ~(b.code = m /\ b.up)
    <2>1. \A i \in 0..Len(s) : NotReleased(u, m, i) => NotReleased(s, m, i)
      BY <1>1 DEF NotReleased
    <2>2. Down(h, m) => Down(h2, m)
      BY <1>3
    <2>3. \A i \in 1..Len(s) : s[i].code = m /\ ~s[i].up /\ NotReleased(s, m, i) => Down(h, m)
      BY DEF Backed
    <2>4. ASSUME NEW i \in 1..(Len(s) + 1), u[i].code = m, ~u[i].up, NotReleased(u, m, i)
          PROVE  Down(h2, m)
      <3>1. CASE i = Len(s) + 1
        BY <1>1, <2>4, <3>1
      <3>2. CASE i # Len(s) + 1
        <4>1. i \in 1..Len(s) /\ i \in 0..Len(s)
          BY <1>1, <2>4, <3>2
        <4> QED BY <1>1, <2>1, <2>2, <2>3, <2>4, <4>1
      <3> QED BY <3>1, <3>2
    <2>5. active /\ NotReleased(u, m, 0) => Down(h2, m)
      <3>1. 0 \in 0..Len(s)
        BY <1>1
      <3> QED BY <2>1, <2>2, <3>1 DEF Backed
    <2>6. Backed(u, h2, m, active)
      BY <1>1, <2>4, <2>5 DEF Backed
    <2> QED BY <2>6 DEF u
  <1> QED BY <1>2, <1>3

\* One byte less.
LEMMA BackedTail ==
    ASSUME NEW s \in Seq(KbdByte), s # <<>>, NEW h, NEW m, NEW active \in BOOLEAN,
           NEW active2 \in BOOLEAN, Backed(s, h, m, active),
           active2 => \/ Head(s).code = m /\ ~Head(s).up
                      \/ active /\ ~(Head(s).code = m /\ Head(s).up)
    PROVE  Backed(Tail(s), h, m, active2)
  <1> DEFINE u == Tail(s)
  <1>1. /\ u \in Seq(KbdByte) /\ Len(u) = Len(s) - 1 /\ Len(u) \in Nat /\ Head(s) = s[1]
        /\ Len(s) \in Nat \ {0} /\ \A i \in 1..Len(u) : u[i] = s[i + 1]
    OBVIOUS
  <1> HIDE DEF u
  <1>2. ASSUME NEW i \in 0..Len(u), NotReleased(u, m, i) PROVE NotReleased(s, m, i + 1)
    <2> SUFFICES ASSUME NEW k \in ((i + 1) + 1)..Len(s) PROVE ~(s[k].code = m /\ s[k].up)
      BY DEF NotReleased
    <2>1. k - 1 \in (i + 1)..Len(u) /\ k - 1 \in 1..Len(u) /\ (k - 1) + 1 = k
      BY <1>1, <1>2
    <2>2. ~(u[k - 1].code = m /\ u[k - 1].up)
      BY <1>2, <2>1 DEF NotReleased
    <2>3. u[k - 1] = s[k]
      BY <1>1, <2>1
    <2> QED BY <2>2, <2>3
  <1>3. \A i \in 1..Len(s) : s[i].code = m /\ ~s[i].up /\ NotReleased(s, m, i) => Down(h, m)
    BY DEF Backed
  <1>4. ASSUME NEW i \in 1..Len(u), u[i].code = m, ~u[i].up, NotReleased(u, m, i)
        PROVE  Down(h, m)
    <2>1. i + 1 \in 1..Len(s) /\ i \in 0..Len(u)
      BY <1>1, <1>4
    <2> QED BY <1>1, <1>2, <1>3, <1>4, <2>1
  <1>5. ASSUME active2, NotReleased(u, m, 0) PROVE Down(h, m)
    <2>1. NotReleased(s, m, 1) /\ 1 \in 1..Len(s)
      <3>1. 0 \in 0..Len(u) /\ 0 + 1 = 1 /\ 1 \in 1..Len(s)
        BY <1>1
      <3> QED BY <1>2, <1>5, <3>1
    <2>2. CASE Head(s).code = m /\ ~Head(s).up
      BY <1>1, <1>3, <2>1, <2>2
    <2>3. CASE active /\ ~(Head(s).code = m /\ Head(s).up)
      <3>1. NotReleased(s, m, 0)
        <4> SUFFICES ASSUME NEW k \in (0 + 1)..Len(s) PROVE ~(s[k].code = m /\ s[k].up)
          BY DEF NotReleased
        <4>1. CASE k = 1
          BY <1>1, <2>3, <4>1
        <4>2. CASE k # 1
          <5>1. k \in (1 + 1)..Len(s)
            BY <1>1, <4>2
          <5> QED BY <2>1, <5>1 DEF NotReleased
        <4> QED BY <4>1, <4>2
      <3> QED BY <2>3, <3>1 DEF Backed
    <2> QED BY <1>5, <2>2, <2>3
  <1>6. Backed(u, h, m, active2)
    BY <1>4, <1>5 DEF Backed
  <1> QED BY <1>6 DEF u

\* Escapes stay paired when a key sends its bytes, and when one is read.
LEMMA PairedSend ==
    ASSUME NEW s \in Seq(KbdByte), NEW f \in BOOLEAN, EscapesPaired(s, f), NEW b \in KbdByte,
           b.code # "E0"
    PROVE  /\ EscapesPaired(Append(s, b), f)
           /\ b.code \in Escaped => EscapesPaired(Append(Append(s, E0), b), f)
  <1> DEFINE u == Append(s, b)
             z == Append(Append(s, E0), b)
  <1>0. E0 \in KbdByte /\ E0.code = "E0" /\ ~E0.up
    BY DEF E0, KbdByte
  <1>1. /\ u \in Seq(KbdByte) /\ Len(u) = Len(s) + 1 /\ Len(s) \in Nat /\ u[Len(s) + 1] = b
        /\ \A i \in 1..Len(s) : u[i] = s[i]
    OBVIOUS
  <1>2. /\ z \in Seq(KbdByte) /\ Len(z) = Len(s) + 2
        /\ z[Len(s) + 1] = E0 /\ z[Len(s) + 2] = b
        /\ \A i \in 1..Len(s) : z[i] = s[i]
    BY <1>0
  <1>3. s # <<>> => Len(s) > 0
    OBVIOUS
  <1> HIDE DEF u, z
  <1>4. /\ \A i \in 1..Len(s) : s[i].code = "E0" =>
              ~s[i].up /\ i < Len(s) /\ s[i + 1].code \in Escaped
        /\ f => Len(s) > 0 /\ s[1].code \in Escaped
    BY <1>3 DEF EscapesPaired
  <1>5. EscapesPaired(u, f)
    <2>1. ASSUME NEW i \in 1..Len(u), u[i].code = "E0"
          PROVE  ~u[i].up /\ i < Len(u) /\ u[i + 1].code \in Escaped
      <3>1. i \in 1..Len(s)
        BY <1>1, <2>1
      <3>2. i < Len(s) /\ i + 1 \in 1..Len(s)
        BY <1>1, <1>4, <2>1, <3>1
      <3> QED BY <1>1, <1>4, <2>1, <3>1, <3>2
    <2>2. f => u # <<>> /\ u[1].code \in Escaped
      BY <1>1, <1>4
    <2> QED BY <2>1, <2>2 DEF EscapesPaired
  <1>6. ASSUME b.code \in Escaped PROVE EscapesPaired(z, f)
    <2>1. ASSUME NEW i \in 1..Len(z), z[i].code = "E0"
          PROVE  ~z[i].up /\ i < Len(z) /\ z[i + 1].code \in Escaped
      <3>1. CASE i \in 1..Len(s)
        <4>1. i < Len(s) /\ i + 1 \in 1..Len(s)
          BY <1>1, <1>2, <1>4, <2>1, <3>1
        <4> QED BY <1>1, <1>2, <1>4, <2>1, <3>1, <4>1
      <3>2. CASE i = Len(s) + 1
        <4>1. i + 1 = Len(s) + 2 /\ i < Len(z)
          BY <1>1, <1>2, <3>2
        <4> QED BY <1>0, <1>2, <1>6, <3>2, <4>1
      <3>3. i # Len(s) + 2
        BY <1>2, <2>1
      <3> QED BY <1>1, <1>2, <2>1, <3>1, <3>2, <3>3
    <2>2. f => z # <<>> /\ z[1].code \in Escaped
      BY <1>1, <1>2, <1>4
    <2> QED BY <2>1, <2>2 DEF EscapesPaired
  <1> QED BY <1>5, <1>6 DEF u, z

LEMMA PairedRead ==
    ASSUME NEW s \in Seq(KbdByte), s # <<>>, NEW f \in BOOLEAN, EscapesPaired(s, f),
           NEW f2 \in BOOLEAN, f2 => Head(s).code = "E0"
    PROVE  EscapesPaired(Tail(s), f2)
  <1> DEFINE u == Tail(s)
  <1>1. /\ u \in Seq(KbdByte) /\ Len(u) = Len(s) - 1 /\ Len(u) \in Nat /\ Head(s) = s[1]
        /\ Len(s) \in Nat \ {0} /\ \A i \in 1..Len(u) : u[i] = s[i + 1]
    OBVIOUS
  <1> HIDE DEF u
  <1>2. \A i \in 1..Len(s) : s[i].code = "E0" =>
           ~s[i].up /\ i < Len(s) /\ s[i + 1].code \in Escaped
    BY DEF EscapesPaired
  <1>3. ASSUME NEW i \in 1..Len(u), u[i].code = "E0"
        PROVE  ~u[i].up /\ i < Len(u) /\ u[i + 1].code \in Escaped
    <2>1. i + 1 \in 1..Len(s) /\ u[i] = s[i + 1]
      BY <1>1, <1>3
    <2>2. ~s[i + 1].up /\ i + 1 < Len(s) /\ s[(i + 1) + 1].code \in Escaped
      BY <1>2, <1>3, <2>1
    <2>3. i + 1 \in 1..Len(u) /\ i < Len(u)
      BY <1>1, <1>3, <2>2
    <2>4. u[i + 1] = s[(i + 1) + 1]
      BY <1>1, <2>3
    <2> QED BY <2>1, <2>2, <2>3, <2>4
  <1>4. ASSUME f2 PROVE u # <<>> /\ u[1].code \in Escaped
    <2>1. 1 \in 1..Len(s) /\ s[1].code = "E0"
      BY <1>1, <1>4
    <2>2. 1 < Len(s) /\ s[1 + 1].code \in Escaped
      BY <1>2, <2>1
    <2>3. 1 \in 1..Len(u)
      BY <1>1, <2>2
    <2>4. u[1] = s[1 + 1]
      BY <1>1, <2>3
    <2> QED BY <1>1, <2>2, <2>3, <2>4
  <1>5. EscapesPaired(u, f2)
    BY <1>3, <1>4 DEF EscapesPaired
  <1> QED BY <1>5 DEF u

\* A key sends one byte or two.
LEMMA SendIs ==
    ASSUME NEW k \in Key, NEW up \in BOOLEAN, port \in Seq(KbdByte), Send(k, up)
    PROVE  LET b == [code |-> k.code, up |-> up] IN
           /\ b \in KbdByte /\ b.code \in Code /\ b.code # "E0" /\ E0 \in KbdByte
           /\ ~k.e0 => port' = Append(port, b)
           /\ k.e0 => port' = Append(Append(port, E0), b) /\ b.code \in Escaped
  <1> DEFINE b == [code |-> k.code, up |-> up]
  <1>1. k.code \in Code /\ (k.e0 => k.code \in Escaped) /\ k.code # "E0"
    BY DEF Key, Code, Escaped
  <1>2. b \in KbdByte /\ E0 \in KbdByte /\ b.code = k.code
    BY <1>1 DEF KbdByte, E0
  <1>3. port' = port \o (IF k.e0 THEN <<E0>> ELSE <<>>) \o <<b>>
    BY DEF Send
  <1> HIDE DEF b
  <1>4. CASE ~k.e0
    <2>1. port' = port \o <<>> \o <<b>>
      BY <1>3, <1>4
    <2>2. port \o <<>> = port /\ Append(port, b) = port \o <<b>>
      BY <1>2, ConcatEmptySeq, AppendIsConcat
    <2> QED BY <1>1, <1>2, <1>4, <2>1, <2>2 DEF b
  <1>5. CASE k.e0
    <2>1. port' = port \o <<E0>> \o <<b>>
      BY <1>3, <1>5
    <2>2. Append(port, E0) = port \o <<E0>> /\ Append(port, E0) \in Seq(KbdByte)
      BY <1>2, AppendIsConcat
    <2>3. Append(Append(port, E0), b) = Append(port, E0) \o <<b>>
      BY <1>2, <2>2, AppendIsConcat
    <2> QED BY <1>1, <1>2, <1>5, <2>1, <2>2, <2>3 DEF b
  <1> QED BY <1>4, <1>5

\* Membership is a Boolean.
LEMMA Membership ==
    ASSUME NEW x, NEW S
    PROVE  \E f \in BOOLEAN : f = (x \in S)
  <1>1. CASE x \in S
    <2>1. TRUE = (x \in S)
      BY <1>1
    <2> QED BY <2>1
  <1>2. CASE x \notin S
    <2>1. FALSE = (x \in S)
      BY <1>2
    <2> QED BY <2>1
  <1> QED BY <1>1, <1>2

\* Every key that goes down or up keeps the invariant.
LEMMA KeyInv ==
    ASSUME KbdInv, NEW k \in Key, Press(k) \/ Lift(k)
    PROVE  KbdInv'
  <1>1. PICK up \in BOOLEAN : /\ Send(k, up) /\ shift' = shift
                              /\ up => held' = held \ {k}
                              /\ ~up => held' = held \cup {k}
    BY DEF Press, Lift
  <1>2. port \in Seq(KbdByte) /\ EscapesPaired(port, "E0ESC" \in shift)
    BY DEF KbdInv
  <1>3. PICK b \in KbdByte :
           /\ b.code = k.code /\ b.up = up /\ b.code \in Code /\ b.code # "E0" /\ E0 \in KbdByte
           /\ ~k.e0 => port' = Append(port, b)
           /\ k.e0 => port' = Append(Append(port, E0), b) /\ b.code \in Escaped
    BY <1>1, <1>2, SendIs
  <1>4. ASSUME NEW m \in {"ctl", "shift"}, NEW active \in BOOLEAN, Backed(port, held, m, active)
        PROVE  Backed(port', held', m, active)
    <2>1. b.code = m /\ ~b.up => Down(held', m)
      BY <1>1, <1>3 DEF Down
    <2>2. (b.code = m /\ b.up) \/ (Down(held, m) => Down(held', m))
      BY <1>1, <1>3 DEF Down
    <2>3. CASE ~k.e0
      BY <1>2, <1>3, <1>4, <2>1, <2>2, <2>3, BackedAppend
    <2>4. CASE k.e0
      <3>1. E0.code # m
        BY <1>4 DEF E0
      <3>2. Backed(Append(port, E0), held, m, active)
        BY <1>2, <1>3, <1>4, <3>1, BackedAppend
      <3>3. Append(port, E0) \in Seq(KbdByte)
        BY <1>2, <1>3
      <3>4. PICK s \in Seq(KbdByte) : s = Append(port, E0)
        BY <3>3
      <3>5. port' = Append(s, b) /\ Backed(s, held, m, active)
        BY <1>3, <2>4, <3>2, <3>4
      <3> QED BY <1>3, <1>4, <2>1, <2>2, <3>5, BackedAppend
    <2> QED BY <2>3, <2>4
  <1>5. EscapesPaired(port', "E0ESC" \in shift)
    <2>1. PICK f \in BOOLEAN : f = ("E0ESC" \in shift)
      BY Membership
    <2>2. EscapesPaired(port, f)
      BY <1>2, <2>1
    <2>3. EscapesPaired(port', f)
      BY <1>2, <1>3, <2>2, PairedSend
    <2> QED BY <2>1, <2>3
  <1>6. port' \in Seq(KbdByte)
    <2>1. PICK s : s = Append(port, E0)
      OBVIOUS
    <2>2. s \in Seq(KbdByte) /\ Append(port, b) \in Seq(KbdByte)
      BY <1>2, <1>3, <2>1
    <2>3. Append(s, b) \in Seq(KbdByte)
      BY <1>3, <2>2
    <2> QED BY <1>3, <2>1, <2>2, <2>3
  <1>7. Backed(port', held', "ctl", "CTL" \in shift)
    <2>1. PICK f \in BOOLEAN : f = ("CTL" \in shift)
      BY Membership
    <2>2. Backed(port, held, "ctl", f)
      BY <2>1 DEF KbdInv
    <2>3. Backed(port', held', "ctl", f)
      BY <1>4, <2>2
    <2> QED BY <2>1, <2>3
  <1>8. Backed(port', held', "shift", "SHIFT" \in shift)
    <2>1. PICK f \in BOOLEAN : f = ("SHIFT" \in shift)
      BY Membership
    <2>2. Backed(port, held, "shift", f)
      BY <2>1 DEF KbdInv
    <2>3. Backed(port', held', "shift", f)
      BY <1>4, <2>2
    <2> QED BY <2>1, <2>3
  <1> QED BY <1>1, <1>5, <1>6, <1>7, <1>8 DEF KbdInv

\* kbdgetc() reads a byte.
LEMMA GetcInv ==
    ASSUME KbdInv, kbdgetc
    PROVE  KbdInv'
  <1>1. port # <<>> /\ port' = Tail(port) /\ held' = held
    BY DEF kbdgetc, Escape, Released, Pressed
  <1>2. port \in Seq(KbdByte) /\ EscapesPaired(port, "E0ESC" \in shift)
    BY DEF KbdInv
  <1> DEFINE b == Head(port)
  <1>3. b \in KbdByte /\ b = port[1] /\ Len(port) > 0 /\ Tail(port) \in Seq(KbdByte)
    BY <1>1, <1>2
  <1>4. "E0ESC" \in shift => b.code # "shift"
    BY <1>2, <1>3 DEF EscapesPaired, Escaped
  <1>5. /\ "E0ESC" \in shift' => b.code = "E0"
        /\ "CTL" \in shift' => \/ b.code = "ctl" /\ ~b.up
                               \/ "CTL" \in shift /\ ~(b.code = "ctl" /\ b.up)
        /\ "SHIFT" \in shift' => \/ b.code = "shift" /\ ~b.up
                                 \/ "SHIFT" \in shift /\ ~(b.code = "shift" /\ b.up)
    <2>1. CASE Escape
      <3>1. b.code = "E0" /\ ~b.up /\ shift' = shift \cup {"E0ESC"}
        <4>1. b = E0 /\ shift' = shift \cup {"E0ESC"}
          BY <2>1 DEF Escape
        <4>2. E0.code = "E0" /\ ~E0.up
          BY DEF E0
        <4> HIDE DEF b
        <4> QED BY <4>1, <4>2
      <3> HIDE DEF b
      <3> QED BY <3>1
    <2>2. CASE Released
      <3>1. b.up /\ shift' = shift \ (shiftcode(Data) \cup {"E0ESC"})
        BY <2>2 DEF Released
      <3>2. /\ b.code = "ctl" => "CTL" \in shiftcode(Data)
            /\ b.code = "shift" => "E0ESC" \notin shift /\ "SHIFT" \in shiftcode(Data)
        BY <1>4 DEF shiftcode, Data
      <3> QED BY <3>1, <3>2
    <2>3. CASE Pressed
      <3> DEFINE turned == (shift \ {"E0ESC"}) \cup shiftcode(Data)
      <3>1. ~b.up /\ shift' = (turned \ togglecode(Data)) \cup (togglecode(Data) \ turned)
        BY <2>3 DEF Pressed
      <3>2. togglecode(Data) \subseteq {"CAPSLOCK"}
        BY DEF togglecode
      <3>3. /\ "E0ESC" \notin shiftcode(Data)
            /\ "CTL" \in shiftcode(Data) => b.code = "ctl"
            /\ "SHIFT" \in shiftcode(Data) => b.code = "shift"
        BY DEF shiftcode, Data
      <3>4. \A x \in {"E0ESC", "CTL", "SHIFT"} : x \in shift' => x \in turned
        BY <3>1, <3>2
      <3> QED BY <3>1, <3>3, <3>4
    <2> QED BY <2>1, <2>2, <2>3 DEF kbdgetc
  <1> HIDE DEF b
  <1>6. EscapesPaired(port', "E0ESC" \in shift')
    <2>1. PICK f \in BOOLEAN : f = ("E0ESC" \in shift)
      BY Membership
    <2>2. PICK g \in BOOLEAN : g = ("E0ESC" \in shift')
      BY Membership
    <2>3. EscapesPaired(port, f) /\ (g => Head(port).code = "E0")
      BY <1>2, <1>5, <2>1, <2>2 DEF b
    <2>4. EscapesPaired(Tail(port), g)
      BY <1>1, <1>2, <2>3, PairedRead
    <2> QED BY <1>1, <2>2, <2>4
  <1>7. Backed(port', held', "ctl", "CTL" \in shift')
    <2>1. Backed(port, held, "ctl", "CTL" \in shift)
      BY DEF KbdInv
    <2>2. PICK f \in BOOLEAN : f = ("CTL" \in shift)
      BY Membership
    <2>3. PICK g \in BOOLEAN : g = ("CTL" \in shift')
      BY Membership
    <2>4. Backed(port, held, "ctl", f)
      BY <2>1, <2>2
    <2>5. g => (Head(port).code = "ctl" /\ ~Head(port).up)
               \/ (f /\ ~(Head(port).code = "ctl" /\ Head(port).up))
      BY <1>5, <2>2, <2>3 DEF b
    <2>6. Backed(Tail(port), held, "ctl", g)
      BY <1>1, <1>2, <2>4, <2>5, BackedTail
    <2> QED BY <1>1, <2>3, <2>6
  <1>8. Backed(port', held', "shift", "SHIFT" \in shift')
    <2>1. Backed(port, held, "shift", "SHIFT" \in shift)
      BY DEF KbdInv
    <2>2. PICK f \in BOOLEAN : f = ("SHIFT" \in shift)
      BY Membership
    <2>3. PICK g \in BOOLEAN : g = ("SHIFT" \in shift')
      BY Membership
    <2>4. Backed(port, held, "shift", f)
      BY <2>1, <2>2
    <2>5. g => (Head(port).code = "shift" /\ ~Head(port).up)
               \/ (f /\ ~(Head(port).code = "shift" /\ Head(port).up))
      BY <1>5, <2>2, <2>3 DEF b
    <2>6. Backed(Tail(port), held, "shift", g)
      BY <1>1, <1>2, <2>4, <2>5, BackedTail
    <2> QED BY <1>1, <2>3, <2>6
  <1> QED BY <1>1, <1>3, <1>6, <1>7, <1>8 DEF KbdInv

\* kbdgetc(): when all bytes have been read no escape is left over and no
\* modifier is on without a key, however many bytes the controller holds.
THEOREM NoModifierIsStuck == KbdSpec => []NoStuckModifier
  <1>1. KbdInit => KbdInv
    <2> SUFFICES ASSUME KbdInit PROVE KbdInv
      OBVIOUS
    <2>1. port = <<>> /\ held = {} /\ shift = {}
      BY DEF KbdInit
    <2>2. port \in Seq(KbdByte) /\ Len(port) = 0 /\ 1..Len(port) = {}
      BY <2>1
    <2>3. EscapesPaired(port, "E0ESC" \in shift)
      BY <2>1, <2>2 DEF EscapesPaired
    <2>4. Backed(port, held, "ctl", "CTL" \in shift)
      BY <2>1, <2>2 DEF Backed
    <2>5. Backed(port, held, "shift", "SHIFT" \in shift)
      BY <2>1, <2>2 DEF Backed
    <2> QED BY <2>1, <2>2, <2>3, <2>4, <2>5 DEF KbdInv
  <1>2. KbdInv /\ [KbdNext]_kbdvars => KbdInv'
    <2> SUFFICES ASSUME KbdInv, [KbdNext]_kbdvars PROVE KbdInv'
      OBVIOUS
    <2>1. CASE UNCHANGED kbdvars
      BY <2>1 DEF kbdvars, KbdInv
    <2> QED BY <2>1, GetcInv, KeyInv DEF KbdNext
  <1>3. KbdInv => NoStuckModifier
    <2> SUFFICES ASSUME KbdInv, port = <<>>
                 PROVE  /\ "E0ESC" \notin shift
                        /\ "CTL" \in shift => \E k \in held : k.code = "ctl"
                        /\ "SHIFT" \in shift => \E k \in held : k.code = "shift"
      BY DEF NoStuckModifier
    <2>1. NotReleased(port, "ctl", 0) /\ NotReleased(port, "shift", 0)
      BY DEF NotReleased
    <2> QED BY <2>1 DEF KbdInv, EscapesPaired, Backed, Down
  <1> QED BY <1>1, <1>2, <1>3, PTL DEF KbdSpec

-----------------------------------------------------------------------------
(* Least elements of sets of numbers.                                      *)

LEMMA NatOrder == \E R : IsWellFoundedOn(R, Nat) /\ \A x, y \in Nat : <<x, y>> \in R <=> x < y
  <1>0. \A x, y \in Nat : <<x, y>> \in OpToRel(<, Nat) <=> x < y
    BY DEF OpToRel
  <1> QED BY <1>0, NatLessThanWellFounded, Zenon

LEMMA MinNat ==
    ASSUME NEW S, S \subseteq Nat, S # {}
    PROVE  Min(S) \in S /\ \A y \in S : Min(S) <= y
  <1>1. PICK R : IsWellFoundedOn(R, Nat) /\ \A x, y \in Nat : <<x, y>> \in R <=> x < y
    BY NatOrder
  <1>2. PICK x \in S : \A y \in S : ~(<<y, x>> \in R)
    <2>1. IsWellFoundedOn(R, Nat)
      BY <1>1
    <2> QED BY <2>1, WFMin, Zenon
  <1>3. ASSUME NEW y \in S PROVE x <= y
    <2>1. x \in Nat /\ y \in Nat
      OBVIOUS
    <2>2. ~(y < x)
      BY <1>1, <1>2, <2>1
    <2> QED BY <2>1, <2>2
  <1>4. \E z \in S : \A y \in S : z <= y
    BY <1>3
  <1> QED BY <1>4 DEF Min

-----------------------------------------------------------------------------
(* Messages.  Every slot has a list of nodes, those of the list differ     *)
(* from each other, from those of other lists and from the free ones, and  *)
(* front, rear and the links describe it, the rear pointing to the front.  *)

MsgType ==
    /\ front \in [Slot -> Node \cup {NoNode}] /\ rear \in [Slot -> Node \cup {NoNode}]
    /\ link \in [Node -> Node \cup {NoNode}] /\ msg \in [Node -> Msg \cup {Junk8}]
    /\ kfreed \subseteq Node /\ step \in [Slot -> Step] /\ dest \in [Slot -> Slot]
    /\ text \in [Slot -> Msg \cup {Junk8}] /\ buffer \in [Slot -> Msg \cup {Junk8}]
    /\ \A s \in Slot : step[s] = "enqueue" => text[s] \in Msg

\* w is the list of slot s, and none of its nodes is free.
ListOf(s, w) ==
    /\ w \in Seq(Node) /\ \A k \in 1..Len(w) : w[k] \notin kfreed /\ msg[w[k]] \in Msg
    /\ \A j, k \in 1..Len(w) : w[j] = w[k] => j = k
    /\ Len(w) = 0 => front[s] = NoNode /\ rear[s] = NoNode
    /\ Len(w) # 0 =>
         /\ front[s] = w[1] /\ rear[s] = w[Len(w)] /\ link[rear[s]] = front[s]
         /\ \A k \in 1..(Len(w) - 1) : link[w[k]] = w[k + 1]

Apart(v, w) == \A j \in 1..Len(v), k \in 1..Len(w) : v[j] # w[k]

Lists(q) ==
    /\ \A s \in Slot : ListOf(s, q[s])
    /\ \A s, t \in Slot : s # t => Apart(q[s], q[t])

MsgInv == MsgType /\ \E q : Lists(q)

\* A list has at most as many nodes as there are.
LEMMA ListShort ==
    ASSUME NEW w \in Seq(Node), \A j, k \in 1..Len(w) : w[j] = w[k] => j = k
    PROVE  Len(w) <= NNODES
  <1>1. NNODES \in Nat /\ Len(w) \in Nat
    BY MsgAssumption
  <1>2. IsFiniteSet(1..Len(w)) /\ Cardinality(1..Len(w)) = Len(w)
    <2>1. PICK len \in Nat : len = Len(w)
      BY <1>1
    <2>2. 1 \in Int /\ len \in Int
      OBVIOUS
    <2>3. IsFiniteSet(1..len) /\ Cardinality(1..len) = IF 1 > len THEN 0 ELSE len - 1 + 1
      BY <2>2, FS_Interval
    <2> QED BY <2>1, <2>3
  <1>3. IsFiniteSet(Node) /\ Cardinality(Node) = NNODES
    <2>1. 1 \in Int /\ NNODES \in Int
      BY <1>1
    <2> QED BY <1>1, <2>1, FS_Interval DEF Node
  <1>4. w \in Injection(1..Len(w), Node)
    BY DEF Injection, IsInjective
  <1> QED BY <1>2, <1>3, <1>4, FS_Injection

\* Two lists of a slot are the same.
LEMMA ListOnce ==
    ASSUME NEW s \in Slot, NEW v \in Seq(Node), NEW w \in Seq(Node), Len(v) # 0, Len(w) # 0,
           IsList(s, v), IsList(s, w)
    PROVE  v = w
  <1>1. /\ Len(v) \in Nat /\ Len(w) \in Nat /\ Len(v) >= 1 /\ Len(w) >= 1
        /\ v \in [1..Len(v) -> Node] /\ w \in [1..Len(w) -> Node]
    OBVIOUS
  <1>2. /\ v[1] = front[s] /\ v[Len(v)] = rear[s] /\ w[1] = front[s] /\ w[Len(w)] = rear[s]
        /\ \A k \in 1..(Len(v) - 1) : v[k] # rear[s] /\ link[v[k]] = v[k + 1]
        /\ \A k \in 1..(Len(w) - 1) : w[k] # rear[s] /\ link[w[k]] = w[k + 1]
    BY DEF IsList
  <1>3. \A k \in 1..Len(v) : k <= Len(w) => v[k] = w[k]
    <2> SUFFICES ASSUME ~(\A k \in 1..Len(v) : k <= Len(w) => v[k] = w[k]) PROVE FALSE
      OBVIOUS
    <2>1. PICK S : S = {k \in 1..Len(v) : k <= Len(w) /\ v[k] # w[k]}
      OBVIOUS
    <2>2. S # {} /\ S \subseteq Nat
      BY <2>1
    <2>3. PICK k \in S : \A y \in S : k <= y
      BY <2>2, MinNat
    <2>4. k \in 1..Len(v) /\ k <= Len(w) /\ v[k] # w[k] /\ k # 1
      BY <1>2, <2>1, <2>3
    <2>5. PICK j \in Nat : k = j + 1 /\ j \in 1..(Len(v) - 1) /\ j \in 1..(Len(w) - 1)
                           /\ j \in 1..Len(v) /\ j <= Len(w)
      <3>1. k - 1 \in Nat /\ k = (k - 1) + 1 /\ k - 1 \in 1..(Len(v) - 1)
            /\ k - 1 \in 1..(Len(w) - 1) /\ k - 1 \in 1..Len(v) /\ k - 1 <= Len(w)
        BY <1>1, <2>4
      <3> QED BY <3>1
    <2>6. v[j] = w[j]
      <3>1. ~(k <= j)
        BY <2>5
      <3>2. j \notin S
        BY <2>3, <3>1
      <3> QED BY <2>1, <2>5, <3>2
    <2>7. v[j + 1] = w[j + 1]
      BY <1>2, <2>5, <2>6
    <2> QED BY <2>4, <2>5, <2>7
  <1>8. PICK a, b : a = Len(v) /\ b = Len(w)
    OBVIOUS
  <1>10. a \in Nat /\ b \in Nat /\ a >= 1 /\ b >= 1
    BY <1>1, <1>8
  <1>9. /\ v[a] = rear[s] /\ w[b] = rear[s]
        /\ \A k \in 1..(a - 1) : v[k] # rear[s]
        /\ \A k \in 1..(b - 1) : w[k] # rear[s]
        /\ \A k \in 1..a : k <= b => v[k] = w[k]
    BY <1>2, <1>3, <1>8
  <1>4. ~(a < b)
    <2>1. SUFFICES ASSUME a < b PROVE FALSE
      OBVIOUS
    <2>2. a \in 1..a /\ a \in 1..(b - 1) /\ a <= b
      BY <1>10, <2>1
    <2> QED BY <1>9, <2>2
  <1>5. ~(b < a)
    <2>1. SUFFICES ASSUME b < a PROVE FALSE
      OBVIOUS
    <2>2. b \in 1..a /\ b \in 1..(a - 1) /\ b <= b
      BY <1>10, <2>1
    <2> QED BY <1>9, <2>2
  <1>6. Len(v) = Len(w)
    BY <1>4, <1>5, <1>8, <1>10
  <1>7. \A k \in 1..Len(v) : v[k] = w[k]
    BY <1>1, <1>3, <1>6
  <1> QED BY <1>1, <1>6, <1>7

\* The walk along the links finds the list.
LEMMA WalkIs ==
    ASSUME NEW s \in Slot, NEW w, ListOf(s, w) PROVE Walk(s) = w
  <1>1. PICK lists : lists = {v \in UNION {[1..k -> Node \ kfreed] : k \in Node} : IsList(s, v)}
    OBVIOUS
  <1>2. Walk(s) = IF front[s] = NoNode \/ lists = {} THEN <<>> ELSE CHOOSE v \in lists : TRUE
    BY <1>1 DEF Walk
  <1>3. w \in Seq(Node) /\ Len(w) \in Nat
    BY DEF ListOf
  <1>4. ASSUME NEW v \in lists PROVE v \in Seq(Node) /\ Len(v) # 0 /\ v[1] = front[s] /\ v[1] \in Node
                                     /\ IsList(s, v)
    <2>1. PICK k \in Node : v \in [1..k -> Node \ kfreed]
      BY <1>1, <1>4
    <2>2. k \in Nat /\ k >= 1
      BY MsgAssumption DEF Node
    <2>3. v \in Seq(Node) /\ Len(v) = k
      BY <2>1, <2>2
    <2>4. 1 \in 1..k
      BY <2>2
    <2>5. IsList(s, v)
      BY <1>1, <1>4
    <2> QED BY <2>1, <2>2, <2>3, <2>4, <2>5 DEF IsList
  <1>5. CASE Len(w) = 0
    <2>1. front[s] = NoNode /\ w = <<>>
      BY <1>3, <1>5 DEF ListOf
    <2> QED BY <1>2, <2>1
  <1>6. CASE Len(w) # 0
    <2>1. /\ \A j, k \in 1..Len(w) : w[j] = w[k] => j = k
          /\ front[s] = w[1] /\ rear[s] = w[Len(w)]
          /\ \A k \in 1..(Len(w) - 1) : link[w[k]] = w[k + 1]
      BY <1>6 DEF ListOf
    <2>2. \A k \in 1..(Len(w) - 1) : w[k] # rear[s]
      <3>1. ASSUME NEW k \in 1..(Len(w) - 1) PROVE w[k] # rear[s]
        <4>1. k \in 1..Len(w) /\ Len(w) \in 1..Len(w) /\ k # Len(w)
          BY <1>3, <1>6
        <4> QED BY <2>1, <4>1
      <3> QED BY <3>1
    <2>3. IsList(s, w)
      BY <2>1, <2>2 DEF IsList
    <2>4. Len(w) <= NNODES
      BY <1>3, <2>1, ListShort
    <2>5. Len(w) \in Node
      BY <1>3, <1>6, <2>4, MsgAssumption DEF Node
    <2>10. w \in [1..Len(w) -> Node \ kfreed]
      BY <1>3 DEF ListOf
    <2>11. front[s] # NoNode
      <3>1. 1 \in 1..Len(w)
        BY <1>3, <1>6
      <3>2. w[1] \in Node /\ NoNode \notin Node
        BY <1>3, <3>1, MsgAssumption DEF NoNode, Node
      <3> QED BY <2>1, <3>2
    <2>6. w \in lists
      BY <1>1, <2>3, <2>5, <2>10
    <2>7. PICK v : v = CHOOSE u \in lists : TRUE
      OBVIOUS
    <2>8. v \in lists
      BY <2>6, <2>7
    <2>9. v = w
      BY <1>3, <1>4, <1>6, <2>3, <2>8, ListOnce
    <2> QED BY <1>2, <2>6, <2>7, <2>9, <2>11
  <1> QED BY <1>5, <1>6

\* A step that leaves the nodes of a list alone keeps it.
LEMMA ListKept ==
    ASSUME NEW s \in Slot, NEW w, ListOf(s, w), front'[s] = front[s], rear'[s] = rear[s],
           \A k \in 1..Len(w) : /\ link'[w[k]] = link[w[k]] /\ msg'[w[k]] = msg[w[k]]
                                /\ w[k] \notin kfreed'
    PROVE  ListOf(s, w)' /\ Texts(w)' = Texts(w)
  <1>1. /\ w \in Seq(Node) /\ \A k \in 1..Len(w) : w[k] \notin kfreed /\ msg[w[k]] \in Msg
        /\ \A j, k \in 1..Len(w) : w[j] = w[k] => j = k
        /\ Len(w) = 0 => front[s] = NoNode /\ rear[s] = NoNode
        /\ Len(w) # 0 =>
             /\ front[s] = w[1] /\ rear[s] = w[Len(w)] /\ link[rear[s]] = front[s]
             /\ \A k \in 1..(Len(w) - 1) : link[w[k]] = w[k + 1]
    BY DEF ListOf
  <1>2. Len(w) \in Nat /\ DOMAIN w = 1..Len(w)
    BY <1>1
  <1>3. Texts(w)' = Texts(w)
    BY <1>2 DEF Texts
  <1>4. ASSUME Len(w) # 0
        PROVE  /\ front'[s] = w[1] /\ rear'[s] = w[Len(w)] /\ link'[rear'[s]] = front'[s]
               /\ \A k \in 1..(Len(w) - 1) : link'[w[k]] = w[k + 1]
    <2>1. Len(w) \in 1..Len(w) /\ 1..(Len(w) - 1) \subseteq 1..Len(w)
      BY <1>2, <1>4
    <2> QED BY <1>1, <1>4, <2>1
  <1>5. \A k \in 1..Len(w) : w[k] \notin kfreed' /\ msg'[w[k]] \in Msg
    BY <1>1
  <1> QED BY <1>1, <1>3, <1>4, <1>5 DEF ListOf

\* enQueue() adds a free node behind the rear.
LEMMA ListGrows ==
    ASSUME MsgType, NEW d \in Slot, NEW w, ListOf(d, w), NEW m \in Msg, NEW a \in kfreed,
           a = Min(kfreed), enQueue(d, m)
    PROVE  ListOf(d, Append(w, a))' /\ Texts(Append(w, a))' = Append(Texts(w), m)
  <1>1. /\ w \in Seq(Node) /\ \A k \in 1..Len(w) : w[k] \notin kfreed /\ msg[w[k]] \in Msg
        /\ \A j, k \in 1..Len(w) : w[j] = w[k] => j = k
        /\ Len(w) = 0 => front[d] = NoNode /\ rear[d] = NoNode
        /\ Len(w) # 0 =>
             /\ front[d] = w[1] /\ rear[d] = w[Len(w)] /\ link[rear[d]] = front[d]
             /\ \A k \in 1..(Len(w) - 1) : link[w[k]] = w[k + 1]
    BY DEF ListOf
  <1>2. a \in Node /\ NoNode \notin Node
    BY MsgAssumption DEF MsgType, NoNode, Node
  <1>3. PICK len, u : len = Len(w) /\ u = Append(w, a)
    OBVIOUS
  <1>4. /\ len \in Nat /\ u \in Seq(Node) /\ Len(u) = len + 1 /\ u[len + 1] = a
        /\ \A k \in 1..len : u[k] = w[k] /\ w[k] \in Node
    BY <1>1, <1>2, <1>3
  <1>5. /\ kfreed' = kfreed \ {a} /\ msg' = [msg EXCEPT ![a] = m]
        /\ rear' = [rear EXCEPT ![d] = a]
        /\ IF front[d] = NoNode
           THEN /\ front' = [front EXCEPT ![d] = a] /\ link' = [link EXCEPT ![a] = a]
           ELSE /\ link' = [link EXCEPT ![rear[d]] = a, ![a] = front[d]] /\ front' = front
    BY DEF enQueue
  <1>6. rear'[d] = a /\ msg'[a] = m /\ \A x \in Node : x # a => msg'[x] = msg[x]
    BY <1>2, <1>5 DEF MsgType
  <1>7. \A k \in 1..len : w[k] # a /\ w[k] \notin kfreed' /\ msg'[w[k]] = msg[w[k]]
    BY <1>1, <1>3, <1>4, <1>5, <1>6
  <1>8. \A k \in 1..(len + 1) : (k \in 1..len /\ u[k] = w[k]) \/ (k = len + 1 /\ u[k] = a)
    BY <1>4
  <1>9. \A k \in 1..(len + 1) : u[k] \notin kfreed' /\ msg'[u[k]] \in Msg
    BY <1>1, <1>3, <1>5, <1>6, <1>7, <1>8
  <1>10. \A j, k \in 1..(len + 1) : u[j] = u[k] => j = k
    BY <1>1, <1>3, <1>7, <1>8
  <1>11. /\ front'[d] = u[1] /\ rear'[d] = u[len + 1] /\ link'[rear'[d]] = front'[d]
         /\ \A k \in 1..len : link'[u[k]] = u[k + 1]
    <2>1. CASE len = 0
      <3>1. front'[d] = a /\ link'[a] = a
        BY <1>1, <1>2, <1>3, <1>5, <2>1 DEF MsgType
      <3> QED BY <1>4, <1>6, <2>1, <3>1
    <2>2. CASE len # 0
      <3>0. /\ len \in 1..len /\ 1 \in 1..len /\ front[d] = w[1] /\ rear[d] = w[len] /\ w[len] \in Node
            /\ w[1] \in Node /\ \A k \in 1..(len - 1) : link[w[k]] = w[k + 1]
        BY <1>1, <1>3, <1>4, <2>2
      <3>1. link' = [link EXCEPT ![rear[d]] = a, ![a] = front[d]] /\ front' = front
        BY <1>2, <1>5, <3>0
      <3>2. rear[d] # a
        BY <1>7, <3>0
      <3>3. /\ link'[rear[d]] = a /\ link'[a] = front[d]
            /\ \A x \in Node : x # a /\ x # rear[d] => link'[x] = link[x]
        BY <1>2, <3>0, <3>1, <3>2 DEF MsgType
      <3>4. ASSUME NEW k \in 1..len PROVE link'[u[k]] = u[k + 1]
        <4>1. CASE k = len
          BY <1>4, <3>0, <3>3, <4>1
        <4>2. CASE k # len
          <5>1. k \in 1..(len - 1) /\ k + 1 \in 1..len
            BY <1>4, <4>2
          <5>2. w[k] # w[len] /\ w[k] # a /\ w[k] \in Node
            BY <1>1, <1>3, <1>4, <1>7, <3>0, <4>2
          <5>3. link'[w[k]] = w[k + 1]
            BY <3>0, <3>3, <5>1, <5>2
          <5> QED BY <1>4, <5>1, <5>3
        <4> QED BY <4>1, <4>2
      <3>5. u[1] = w[1]
        BY <1>4, <3>0
      <3> QED BY <1>4, <1>6, <3>0, <3>1, <3>3, <3>4, <3>5
    <2> QED BY <2>1, <2>2
  <1>12. ListOf(d, u)'
    <2>1. Len(u) # 0 /\ Len(u) - 1 = len
      BY <1>4
    <2> QED BY <1>4, <1>9, <1>10, <1>11, <2>1 DEF ListOf
  <1>13. Texts(u)' = Append(Texts(w), m)
    <2>1. DOMAIN u = 1..(len + 1) /\ DOMAIN w = 1..len
      BY <1>1, <1>3, <1>4
    <2>2. Texts(u)' = [k \in 1..(len + 1) |-> msg'[u[k]]]
      BY <2>1 DEF Texts
    <2>3. PICK x : x = Texts(w)
      OBVIOUS
    <2>4. x = [k \in 1..len |-> msg[w[k]]]
      BY <2>1, <2>3 DEF Texts
    <2>5. x \in Seq(Msg) /\ Len(x) = len
      BY <1>1, <1>3, <1>4, <2>4
    <2>6. PICK y : y = Append(x, m)
      OBVIOUS
    <2>7. y \in Seq(Msg) /\ Len(y) = len + 1 /\ y[len + 1] = m /\ \A k \in 1..len : y[k] = x[k]
      BY <2>5, <2>6
    <2>8. y \in [1..(len + 1) -> Msg]
      BY <2>7
    <2>9. ASSUME NEW k \in 1..(len + 1) PROVE msg'[u[k]] = y[k]
      BY <1>4, <1>6, <1>7, <1>8, <2>4, <2>7
    <2> QED BY <2>2, <2>3, <2>6, <2>8, <2>9
  <1> QED BY <1>3, <1>12, <1>13

\* deQueue() takes the node at the front.
LEMMA ListShrinks ==
    ASSUME MsgType, NEW s \in Slot, NEW w, ListOf(s, w), front[s] # NoNode, deQueue(s)
    PROVE  /\ ListOf(s, Tail(w))' /\ Texts(w) # <<>> /\ buffer'[s] = Head(Texts(w))
           /\ Texts(Tail(w))' = Tail(Texts(w))
  <1>1. /\ w \in Seq(Node) /\ \A k \in 1..Len(w) : w[k] \notin kfreed /\ msg[w[k]] \in Msg
        /\ \A j, k \in 1..Len(w) : w[j] = w[k] => j = k
        /\ Len(w) # 0 /\ front[s] = w[1] /\ rear[s] = w[Len(w)] /\ link[rear[s]] = front[s]
        /\ \A k \in 1..(Len(w) - 1) : link[w[k]] = w[k + 1]
    BY DEF ListOf
  <1>2. PICK len, a, u : len = Len(w) - 1 /\ a = w[1] /\ u = Tail(w)
    OBVIOUS
  <1>3. /\ len \in Nat /\ Len(w) = len + 1 /\ u \in Seq(Node) /\ Len(u) = len /\ a \in Node
        /\ \A k \in 1..len : u[k] = w[k + 1] /\ k + 1 \in 1..(len + 1) /\ w[k + 1] \in Node
    BY <1>1, <1>2
  <1>4. /\ buffer' = [buffer EXCEPT ![s] = msg[a]] /\ kfreed' = kfreed \cup {a}
        /\ msg' = [msg EXCEPT ![a] = Junk8]
        /\ front' = [front EXCEPT ![s] = IF a = rear[s] THEN NoNode ELSE link[a]]
        /\ rear' = [rear EXCEPT ![s] = IF a = rear[s] THEN NoNode ELSE @]
        /\ link' = IF a = rear[s] THEN [link EXCEPT ![a] = NoNode]
                   ELSE [link EXCEPT ![rear[s]] = link[a], ![a] = NoNode]
    BY <1>1, <1>2 DEF deQueue
  <1>5. 1 \in 1..(len + 1) /\ len + 1 \in 1..(len + 1)
    BY <1>3
  <1>6. a = rear[s] <=> len = 0
    BY <1>1, <1>2, <1>3, <1>5
  <1>7. /\ buffer'[s] = msg[a] /\ \A x \in Node : x # a => msg'[x] = msg[x]
        /\ front'[s] = (IF len = 0 THEN NoNode ELSE link[a])
        /\ rear'[s] = IF len = 0 THEN NoNode ELSE rear[s]
    BY <1>3, <1>4, <1>6 DEF MsgType
  <1>8. \A k \in 1..len : u[k] # a /\ u[k] \notin kfreed' /\ msg'[u[k]] = msg[u[k]]
                        /\ msg'[u[k]] \in Msg
    <2>1. ASSUME NEW k \in 1..len PROVE u[k] # a /\ u[k] \notin kfreed /\ msg[u[k]] \in Msg
      <3>1. k + 1 # 1 /\ k + 1 \in 1..(len + 1) /\ u[k] = w[k + 1]
        BY <1>3
      <3> QED BY <1>1, <1>2, <1>3, <1>5, <3>1
    <2> QED BY <1>3, <1>4, <1>7, <2>1
  <1>9. \A j, k \in 1..len : u[j] = u[k] => j = k
    <2>1. ASSUME NEW j \in 1..len, NEW k \in 1..len, u[j] = u[k] PROVE j = k
      <3>1. j + 1 = k + 1
        BY <1>1, <1>3, <2>1
      <3> QED BY <3>1
    <2> QED BY <2>1
  <1>10. ASSUME len # 0
         PROVE  /\ front'[s] = u[1] /\ rear'[s] = u[len] /\ link'[rear'[s]] = front'[s]
                /\ \A k \in 1..(len - 1) : link'[u[k]] = u[k + 1]
    <2>1. /\ 1 \in 1..len /\ len \in 1..len /\ link[a] = w[1 + 1] /\ u[1] = w[1 + 1]
          /\ u[len] = w[len + 1] /\ rear[s] = w[len + 1] /\ rear[s] \in Node /\ rear[s] # a
      BY <1>1, <1>2, <1>3, <1>5, <1>6, <1>10
    <2>2. link' = [link EXCEPT ![rear[s]] = link[a], ![a] = NoNode]
      BY <1>4, <1>6, <1>10
    <2>3. /\ link'[rear[s]] = link[a]
          /\ \A x \in Node : x # a /\ x # rear[s] => link'[x] = link[x]
      BY <1>3, <2>1, <2>2 DEF MsgType
    <2>4. ASSUME NEW k \in 1..(len - 1) PROVE link'[u[k]] = u[k + 1]
      <3>1. /\ k \in 1..len /\ k + 1 \in 1..len /\ k + 1 \in 1..(Len(w) - 1) /\ k # len
        BY <1>3
      <3>2. u[k] # u[len] /\ u[k] # a /\ u[k] \in Node
        BY <1>3, <1>8, <1>9, <2>1, <3>1
      <3>3. link[w[k + 1]] = w[(k + 1) + 1]
        BY <1>1, <3>1
      <3>4. u[k] = w[k + 1] /\ u[k + 1] = w[(k + 1) + 1]
        BY <1>3, <3>1
      <3> QED BY <2>1, <2>3, <3>2, <3>3, <3>4
    <2> QED BY <1>7, <1>10, <2>1, <2>3, <2>4
  <1>11. ListOf(s, u)'
    BY <1>3, <1>7, <1>8, <1>9, <1>10 DEF ListOf
  <1>12. PICK x : x = Texts(w)
    OBVIOUS
  <1>13. x = [k \in 1..(len + 1) |-> msg[w[k]]]
    <2>1. DOMAIN w = 1..(len + 1)
      BY <1>1, <1>3
    <2> QED BY <1>12, <2>1 DEF Texts
  <1>14. x \in Seq(Msg) /\ Len(x) = len + 1 /\ x # <<>> /\ Head(x) = msg[a]
    <2>1. x \in Seq(Msg) /\ Len(x) = len + 1
      BY <1>1, <1>3, <1>13
    <2>2. x[1] = msg[a]
      BY <1>2, <1>5, <1>13
    <2>3. len + 1 # 0
      BY <1>3
    <2> QED BY <2>1, <2>2, <2>3
  <1>15. Texts(u)' = Tail(x)
    <2>1. PICK y : y = Tail(x)
      OBVIOUS
    <2>2. y \in Seq(Msg) /\ Len(y) = len /\ \A k \in 1..len : y[k] = x[k + 1]
      BY <1>3, <1>14, <2>1
    <2>3. y \in [1..len -> Msg]
      BY <2>2
    <2>4. DOMAIN u = 1..len
      BY <1>3
    <2>5. Texts(u)' = [k \in 1..len |-> msg'[u[k]]]
      BY <2>4 DEF Texts
    <2>6. ASSUME NEW k \in 1..len PROVE msg'[u[k]] = y[k]
      BY <1>3, <1>8, <1>13, <2>2
    <2> QED BY <2>1, <2>3, <2>5, <2>6
  <1> QED BY <1>2, <1>7, <1>11, <1>12, <1>14, <1>15

LEMMA WalkFinds == \A s \in Slot : \A w : ListOf(s, w) => Walk(s) = w
  BY WalkIs

LEMMA WalkFindsNext == (\A s \in Slot : \A w : ListOf(s, w) => Walk(s) = w)'
  BY WalkFinds, PTL

LEMMA WalkNext ==
    ASSUME NEW s \in Slot, NEW w, ListOf(s, w)' PROVE Walk(s)' = w
  BY WalkFindsNext

\* Appending a node to one list.
LEMMA ListsGrow ==
    ASSUME MsgType, NEW q, Lists(q), NEW d \in Slot, NEW m \in Msg, kfreed # {}, enQueue(d, m)
    PROVE  \E r : /\ Lists(r)' /\ Texts(r[d])' = Append(Texts(q[d]), m)
                  /\ \A t \in Slot : t # d => Texts(r[t])' = Texts(q[t])
  <1>1. PICK a : a = Min(kfreed)
    OBVIOUS
  <1>2. a \in kfreed /\ a \in Node /\ NoNode \notin Node
    <2>1. kfreed \subseteq Nat
      BY MsgAssumption DEF MsgType, Node
    <2>2. a \in kfreed
      BY <1>1, <2>1, MinNat
    <2> QED BY <2>2, MsgAssumption DEF MsgType, Node, NoNode
  <1>3. PICK r : r = [t \in Slot |-> IF t = d THEN Append(q[d], a) ELSE q[t]]
    OBVIOUS
  <1>4. r[d] = Append(q[d], a) /\ \A t \in Slot : t # d => r[t] = q[t]
    BY <1>3
  <1>5. ListOf(d, q[d]) /\ ListOf(d, Append(q[d], a))' /\ Texts(Append(q[d], a))' = Append(Texts(q[d]), m)
    BY <1>1, <1>2, ListGrows DEF Lists
  <1>6. ASSUME NEW t \in Slot, t # d PROVE ListOf(t, q[t])' /\ Texts(q[t])' = Texts(q[t])
    <2>1. ListOf(t, q[t]) /\ Apart(q[t], q[d])
      BY <1>6 DEF Lists
    <2>2. /\ kfreed' = kfreed \ {a} /\ msg' = [msg EXCEPT ![a] = m]
          /\ rear' = [rear EXCEPT ![d] = a]
          /\ IF front[d] = NoNode
             THEN /\ front' = [front EXCEPT ![d] = a] /\ link' = [link EXCEPT ![a] = a]
             ELSE /\ link' = [link EXCEPT ![rear[d]] = a, ![a] = front[d]] /\ front' = front
      BY <1>1 DEF enQueue
    <2>3. front'[t] = front[t] /\ rear'[t] = rear[t]
      BY <1>6, <2>2 DEF MsgType
    <2>4. ASSUME NEW k \in 1..Len(q[t])
          PROVE  /\ link'[q[t][k]] = link[q[t][k]] /\ msg'[q[t][k]] = msg[q[t][k]]
                 /\ q[t][k] \notin kfreed'
      <3>1. q[t][k] \in Node /\ q[t][k] \notin kfreed /\ q[t][k] # a
        BY <1>2, <2>1, <2>4 DEF ListOf
      <3>2. front[d] # NoNode => q[t][k] # rear[d]
        <4>1. SUFFICES ASSUME front[d] # NoNode PROVE q[t][k] # rear[d]
          OBVIOUS
        <4>2. Len(q[d]) # 0 /\ rear[d] = q[d][Len(q[d])] /\ Len(q[d]) \in Nat
          BY <1>5, <4>1 DEF ListOf
        <4>3. Len(q[d]) \in 1..Len(q[d])
          BY <4>2
        <4> QED BY <2>1, <4>2, <4>3 DEF Apart
      <3>3. PICK x : x = q[t][k]
        OBVIOUS
      <3>4. msg'[x] = msg[x] /\ x \notin kfreed'
        BY <2>2, <3>1, <3>3 DEF MsgType
      <3>5. link'[x] = link[x]
        <4>1. CASE front[d] = NoNode
          BY <2>2, <3>1, <3>3, <4>1 DEF MsgType
        <4>2. CASE front[d] # NoNode
          <5>1. link' = [link EXCEPT ![rear[d]] = a, ![a] = front[d]]
            BY <2>2, <4>2
          <5>2. x # a /\ x # rear[d] /\ x \in Node
            BY <3>1, <3>2, <3>3, <4>2
          <5> QED BY <5>1, <5>2 DEF MsgType
        <4> QED BY <4>1, <4>2
      <3> QED BY <3>3, <3>4, <3>5
    <2> QED BY <2>1, <2>3, <2>4, ListKept
  <1>7. ASSUME NEW t \in Slot, t # d PROVE Apart(r[t], r[d]) /\ Apart(r[d], r[t])
    <2>1. ListOf(t, q[t]) /\ Apart(q[t], q[d])
      BY <1>7 DEF Lists
    <2>2. q[d] \in Seq(Node) /\ Len(q[d]) \in Nat
      BY <1>5 DEF ListOf
    <2>3. ASSUME NEW j \in 1..Len(q[t]), NEW k \in 1..Len(r[d]) PROVE q[t][j] # r[d][k]
      <3>1. (k \in 1..Len(q[d]) /\ r[d][k] = q[d][k]) \/ r[d][k] = a
        BY <1>2, <1>4, <2>2, <2>3
      <3>2. q[t][j] # a
        BY <1>2, <2>1, <2>3 DEF ListOf
      <3> QED BY <2>1, <2>3, <3>1, <3>2 DEF Apart
    <2> QED BY <1>4, <1>7, <2>3 DEF Apart
  <1>8. \A s, t \in Slot : s # t => Apart(r[s], r[t])
    <2>1. ASSUME NEW s \in Slot, NEW t \in Slot, s # t PROVE Apart(r[s], r[t])
      <3>1. CASE s = d
        BY <1>7, <2>1, <3>1
      <3>2. CASE t = d
        BY <1>7, <2>1, <3>2
      <3>3. CASE s # d /\ t # d
        BY <1>4, <2>1, <3>3 DEF Lists
      <3> QED BY <3>1, <3>2, <3>3
    <2> QED BY <2>1
  <1>9. \A s \in Slot : ListOf(s, r[s])'
    BY <1>4, <1>5, <1>6
  <1>10. Lists(r)'
    BY <1>8, <1>9 DEF Lists, Apart
  <1> QED BY <1>4, <1>5, <1>6, <1>10

\* Taking the first node from one list.
LEMMA ListsShrink ==
    ASSUME MsgType, NEW q, Lists(q), NEW s \in Slot, front[s] # NoNode, deQueue(s)
    PROVE  \E r : /\ Lists(r)' /\ Texts(q[s]) # <<>> /\ buffer'[s] = Head(Texts(q[s]))
                  /\ Texts(r[s])' = Tail(Texts(q[s]))
                  /\ \A t \in Slot : t # s => Texts(r[t])' = Texts(q[t]) /\ buffer'[t] = buffer[t]
  <1>1. PICK a, r : a = front[s] /\ r = [t \in Slot |-> IF t = s THEN Tail(q[s]) ELSE q[t]]
    OBVIOUS
  <1>2. r[s] = Tail(q[s]) /\ \A t \in Slot : t # s => r[t] = q[t]
    BY <1>1
  <1>3. /\ ListOf(s, q[s]) /\ ListOf(s, Tail(q[s]))' /\ Texts(q[s]) # <<>>
        /\ buffer'[s] = Head(Texts(q[s])) /\ Texts(Tail(q[s]))' = Tail(Texts(q[s]))
    BY ListShrinks DEF Lists
  <1>4. /\ q[s] \in Seq(Node) /\ Len(q[s]) \in Nat /\ Len(q[s]) # 0
        /\ a = q[s][1] /\ rear[s] = q[s][Len(q[s])]
    BY <1>1, <1>3 DEF ListOf
  <1>5. 1 \in 1..Len(q[s]) /\ Len(q[s]) \in 1..Len(q[s]) /\ a \in Node
    BY <1>4
  <1>6. /\ buffer' = [buffer EXCEPT ![s] = msg[a]] /\ kfreed' = kfreed \cup {a}
        /\ msg' = [msg EXCEPT ![a] = Junk8]
        /\ front' = [front EXCEPT ![s] = IF a = rear[s] THEN NoNode ELSE link[a]]
        /\ rear' = [rear EXCEPT ![s] = IF a = rear[s] THEN NoNode ELSE @]
        /\ link' = IF a = rear[s] THEN [link EXCEPT ![a] = NoNode]
                   ELSE [link EXCEPT ![rear[s]] = link[a], ![a] = NoNode]
    BY <1>1 DEF deQueue
  <1>7. ASSUME NEW t \in Slot, t # s
        PROVE  ListOf(t, q[t])' /\ Texts(q[t])' = Texts(q[t]) /\ buffer'[t] = buffer[t]
    <2>1. ListOf(t, q[t]) /\ Apart(q[t], q[s])
      BY <1>7 DEF Lists
    <2>2. front'[t] = front[t] /\ rear'[t] = rear[t] /\ buffer'[t] = buffer[t]
      BY <1>6, <1>7 DEF MsgType
    <2>3. ASSUME NEW k \in 1..Len(q[t])
          PROVE  /\ link'[q[t][k]] = link[q[t][k]] /\ msg'[q[t][k]] = msg[q[t][k]]
                 /\ q[t][k] \notin kfreed'
      <3>1. PICK x : x = q[t][k]
        OBVIOUS
      <3>2. x \in Node /\ x \notin kfreed
        BY <2>1, <2>3, <3>1 DEF ListOf
      <3>3. x # a /\ x # rear[s]
        BY <1>4, <1>5, <2>1, <2>3, <3>1 DEF Apart
      <3>4. link'[x] = link[x]
        BY <1>6, <3>2, <3>3 DEF MsgType
      <3>5. msg'[x] = msg[x] /\ x \notin kfreed'
        BY <1>6, <3>2, <3>3 DEF MsgType
      <3> QED BY <3>1, <3>4, <3>5
    <2> QED BY <2>1, <2>2, <2>3, ListKept
  <1>8. ASSUME NEW t \in Slot, t # s PROVE Apart(r[t], r[s]) /\ Apart(r[s], r[t])
    <2>1. Apart(q[t], q[s])
      BY <1>8 DEF Lists
    <2>2. ASSUME NEW j \in 1..Len(q[t]), NEW k \in 1..Len(r[s]) PROVE q[t][j] # r[s][k]
      <3>1. k + 1 \in 1..Len(q[s]) /\ r[s][k] = q[s][k + 1]
        BY <1>2, <1>4, <2>2
      <3> QED BY <2>1, <2>2, <3>1 DEF Apart
    <2> QED BY <1>2, <1>8, <2>2 DEF Apart
  <1>9. \A u, t \in Slot : u # t => Apart(r[u], r[t])
    <2>1. ASSUME NEW u \in Slot, NEW t \in Slot, u # t PROVE Apart(r[u], r[t])
      <3>1. CASE u = s
        BY <1>8, <2>1, <3>1
      <3>2. CASE t = s
        BY <1>8, <2>1, <3>2
      <3>3. CASE u # s /\ t # s
        BY <1>2, <2>1, <3>3 DEF Lists
      <3> QED BY <3>1, <3>2, <3>3
    <2> QED BY <2>1
  <1>10. \A t \in Slot : ListOf(t, r[t])'
    BY <1>2, <1>3, <1>7
  <1>11. Lists(r)'
    BY <1>9, <1>10 DEF Lists, Apart
  <1> QED BY <1>2, <1>3, <1>7, <1>11

\* What a step does to the messages of every slot.
Mail(q, r) == \A s \in Slot :
    \/ Texts(r[s])' = Texts(q[s]) /\ buffer'[s] = buffer[s]
    \/ buffer'[s] = buffer[s] /\ \E m \in Msg : Texts(r[s])' = Append(Texts(q[s]), m)
    \/ /\ Texts(q[s]) # <<>> /\ buffer'[s] = Head(Texts(q[s]))
       /\ Texts(r[s])' = Tail(Texts(q[s]))

LEMMA MailStays ==
    ASSUME NEW q, Lists(q), UNCHANGED <<queuevars, buffer>>
    PROVE  \E r : Lists(r)' /\ Mail(q, r)
  <1>1. UNCHANGED <<front, rear, link, msg, kfreed, buffer>>
    BY DEF queuevars
  <1>2. Lists(q)'
    BY <1>1 DEF Lists, ListOf, Apart
  <1>3. Mail(q, q)
    BY <1>1 DEF Mail, Texts
  <1> QED BY <1>2, <1>3

LEMMA QueueTypes ==
    ASSUME MsgType, NEW d \in Slot, NEW m \in Msg, kfreed # {}, enQueue(d, m)
    PROVE  /\ front' \in [Slot -> Node \cup {NoNode}] /\ rear' \in [Slot -> Node \cup {NoNode}]
           /\ link' \in [Node -> Node \cup {NoNode}] /\ msg' \in [Node -> Msg \cup {Junk8}]
           /\ kfreed' \subseteq Node
  <1>1. PICK a : a = Min(kfreed)
    OBVIOUS
  <1>2. a \in Node
    <2>1. kfreed \subseteq Nat
      BY MsgAssumption DEF MsgType, Node
    <2>2. a \in kfreed
      BY <1>1, <2>1, MinNat
    <2> QED BY <2>2 DEF MsgType
  <1>3. /\ kfreed' = kfreed \ {a} /\ msg' = [msg EXCEPT ![a] = m]
        /\ rear' = [rear EXCEPT ![d] = a]
        /\ IF front[d] = NoNode
           THEN /\ front' = [front EXCEPT ![d] = a] /\ link' = [link EXCEPT ![a] = a]
           ELSE /\ link' = [link EXCEPT ![rear[d]] = a, ![a] = front[d]] /\ front' = front
    BY <1>1 DEF enQueue
  <1>4. kfreed' \subseteq Node /\ msg' \in [Node -> Msg \cup {Junk8}]
        /\ rear' \in [Slot -> Node \cup {NoNode}] /\ front' \in [Slot -> Node \cup {NoNode}]
    BY <1>2, <1>3 DEF MsgType
  <1>5. link' \in [Node -> Node \cup {NoNode}]
    BY <1>2, <1>3 DEF MsgType
  <1> QED BY <1>4, <1>5

LEMMA TakeTypes ==
    ASSUME MsgType, NEW s \in Slot, front[s] # NoNode, deQueue(s)
    PROVE  /\ front' \in [Slot -> Node \cup {NoNode}] /\ rear' \in [Slot -> Node \cup {NoNode}]
           /\ link' \in [Node -> Node \cup {NoNode}] /\ msg' \in [Node -> Msg \cup {Junk8}]
           /\ kfreed' \subseteq Node /\ buffer' \in [Slot -> Msg \cup {Junk8}]
  <1>1. PICK a : a = front[s]
    OBVIOUS
  <1>2. a \in Node
    BY <1>1 DEF MsgType
  <1>3. link[a] \in Node \cup {NoNode} /\ msg[a] \in Msg \cup {Junk8}
    BY <1>2 DEF MsgType
  <1>4. /\ buffer' = [buffer EXCEPT ![s] = msg[a]] /\ kfreed' = kfreed \cup {a}
        /\ msg' = [msg EXCEPT ![a] = Junk8]
        /\ front' = [front EXCEPT ![s] = IF a = rear[s] THEN NoNode ELSE link[a]]
        /\ rear' = [rear EXCEPT ![s] = IF a = rear[s] THEN NoNode ELSE @]
        /\ link' = IF a = rear[s] THEN [link EXCEPT ![a] = NoNode]
                   ELSE [link EXCEPT ![rear[s]] = link[a], ![a] = NoNode]
    BY <1>1 DEF deQueue
  <1>5. buffer' \in [Slot -> Msg \cup {Junk8}] /\ kfreed' \subseteq Node
        /\ msg' \in [Node -> Msg \cup {Junk8}]
    BY <1>2, <1>3, <1>4 DEF MsgType
  <1>6. front' \in [Slot -> Node \cup {NoNode}] /\ rear' \in [Slot -> Node \cup {NoNode}]
    BY <1>3, <1>4 DEF MsgType
  <1>7. link' \in [Node -> Node \cup {NoNode}]
    BY <1>2, <1>3, <1>4 DEF MsgType
  <1> QED BY <1>5, <1>6, <1>7

\* The rest of a step: where the processes are.
LEMMA StepTypes ==
    ASSUME MsgType, NEW s \in Slot, NEW l \in Step, l # "enqueue",
           step' = [step EXCEPT ![s] = l] \/ (\E d \in Slot : step[d] = "asleep" /\
               step' = [[step EXCEPT ![d] = "awake"] EXCEPT ![s] = l]),
           UNCHANGED <<dest, text>> \/ (UNCHANGED dest /\ text' = [text EXCEPT ![s] = Junk8])
    PROVE  /\ step' \in [Slot -> Step] /\ dest' \in [Slot -> Slot]
           /\ text' \in [Slot -> Msg \cup {Junk8}]
           /\ \A t \in Slot : step'[t] = "enqueue" => text'[t] \in Msg
  <1>1. /\ step \in [Slot -> Step] /\ dest \in [Slot -> Slot] /\ text \in [Slot -> Msg \cup {Junk8}]
        /\ \A t \in Slot : step[t] = "enqueue" => text[t] \in Msg
    BY DEF MsgType
  <1>2. "awake" \in Step
    BY DEF Step
  <1>3. step' \in [Slot -> Step]
    BY <1>1, <1>2
  <1>4. \A t \in Slot : step'[t] = "enqueue" => step[t] = "enqueue" /\ t # s
    BY <1>1
  <1>5. \A t \in Slot : t # s => text'[t] = text[t]
    BY <1>1
  <1>6. dest' \in [Slot -> Slot] /\ text' \in [Slot -> Msg \cup {Junk8}]
    BY <1>1
  <1> QED BY <1>1, <1>3, <1>4, <1>5, <1>6

\* Every step of the processes keeps the invariant and deals with the
\* messages as a mailbox may.
LEMMA MsgStep ==
    ASSUME MsgType, NEW q, Lists(q), MsgNext
    PROVE  MsgType' /\ \E r : Lists(r)' /\ Mail(q, r)
  <1>0. /\ front \in [Slot -> Node \cup {NoNode}] /\ rear \in [Slot -> Node \cup {NoNode}]
        /\ link \in [Node -> Node \cup {NoNode}] /\ msg \in [Node -> Msg \cup {Junk8}]
        /\ kfreed \subseteq Node /\ step \in [Slot -> Step] /\ dest \in [Slot -> Slot]
        /\ text \in [Slot -> Msg \cup {Junk8}] /\ buffer \in [Slot -> Msg \cup {Junk8}]
        /\ \A s \in Slot : step[s] = "enqueue" => text[s] \in Msg
    BY DEF MsgType
  <1>1. PICK s \in Slot : sending(s) \/ recv(s) \/ OtherWakeup(s)
    BY DEF MsgNext
  <1>2. ASSUME NEW d \in Receiver, NEW m \in Msg, SendTo(s, d, m)
        PROVE  MsgType' /\ \E r : Lists(r)' /\ Mail(q, r)
    <2>1. /\ dest' = [dest EXCEPT ![s] = d] /\ text' = [text EXCEPT ![s] = m]
          /\ step' = [step EXCEPT ![s] = "enqueue"] /\ UNCHANGED <<queuevars, buffer>>
      BY <1>2 DEF SendTo, Goes
    <2>2. "enqueue" \in Step /\ d \in Slot
      BY DEF Step, Slot
    <2>3. /\ step' \in [Slot -> Step] /\ dest' \in [Slot -> Slot]
          /\ text' \in [Slot -> Msg \cup {Junk8}]
          /\ \A t \in Slot : step'[t] = "enqueue" => text'[t] \in Msg
      BY <1>0, <2>1, <2>2
    <2>4. MsgType'
      BY <1>0, <2>1, <2>3 DEF MsgType, queuevars
    <2> QED BY <2>1, <2>4, MailStays
  <1>3. ASSUME SendEnqueue(s)
        PROVE  MsgType' /\ \E r : Lists(r)' /\ Mail(q, r)
    <2>1. PICK d, m : d = dest[s] /\ m = text[s]
      OBVIOUS
    <2>2. /\ kfreed # {} /\ enQueue(d, m) /\ text' = [text EXCEPT ![s] = Junk8]
          /\ step' = [step EXCEPT ![s] = "test"] /\ dest' = dest /\ buffer' = buffer
          /\ step[s] = "enqueue"
      BY <1>3, <2>1 DEF SendEnqueue, Goes
    <2>3. d \in Slot /\ m \in Msg /\ "test" \in Step
      BY <1>0, <2>1, <2>2 DEF Step
    <2>4. /\ step' \in [Slot -> Step] /\ dest' \in [Slot -> Slot]
          /\ text' \in [Slot -> Msg \cup {Junk8}]
          /\ \A t \in Slot : step'[t] = "enqueue" => text'[t] \in Msg
      BY <2>2, <2>3, StepTypes
    <2>5. /\ front' \in [Slot -> Node \cup {NoNode}] /\ rear' \in [Slot -> Node \cup {NoNode}]
          /\ link' \in [Node -> Node \cup {NoNode}] /\ msg' \in [Node -> Msg \cup {Junk8}]
          /\ kfreed' \subseteq Node
      BY <2>2, <2>3, QueueTypes
    <2>6. MsgType'
      BY <1>0, <2>2, <2>4, <2>5 DEF MsgType
    <2>7. PICK r : /\ Lists(r)' /\ Texts(r[d])' = Append(Texts(q[d]), m)
                   /\ \A t \in Slot : t # d => Texts(r[t])' = Texts(q[t])
      BY <2>2, <2>3, ListsGrow
    <2>8. Mail(q, r)
      BY <2>2, <2>3, <2>7 DEF Mail
    <2> QED BY <2>6, <2>7, <2>8
  <1>4. ASSUME NEW l \in Step, l # "enqueue",
               step' = [step EXCEPT ![s] = l] \/ (\E d \in Slot : step[d] = "asleep" /\
                   step' = [[step EXCEPT ![d] = "awake"] EXCEPT ![s] = l]),
               UNCHANGED <<queuevars, dest, text, buffer>>
        PROVE  MsgType' /\ \E r : Lists(r)' /\ Mail(q, r)
    <2>1. UNCHANGED <<dest, text>> /\ UNCHANGED <<queuevars, buffer>>
          /\ UNCHANGED <<front, rear, link, msg, kfreed, buffer>>
      BY <1>4 DEF queuevars
    <2>2. /\ step' \in [Slot -> Step] /\ dest' \in [Slot -> Slot]
          /\ text' \in [Slot -> Msg \cup {Junk8}]
          /\ \A t \in Slot : step'[t] = "enqueue" => text'[t] \in Msg
      BY <1>4, <2>1, StepTypes
    <2>3. MsgType'
      BY <1>0, <2>1, <2>2 DEF MsgType
    <2> QED BY <2>1, <2>3, MailStays
  <1>5. {"user", "test", "clear", "wake", "request", "sleep", "asleep", "awake"} \subseteq Step
    BY DEF Step
  <1>6. ASSUME SendTest(s) \/ SendClear(s) \/ SendWake(s)
        PROVE  MsgType' /\ \E r : Lists(r)' /\ Mail(q, r)
    <2>1. PICK d : d = dest[s]
      OBVIOUS
    <2>2. d \in Slot
      BY <1>0, <2>1
    <2>3. CASE SendTest(s)
      <3>1. PICK l : l = IF request[d] THEN "clear" ELSE "user"
        OBVIOUS
      <3>2. l \in Step /\ l # "enqueue"
        BY <1>5, <3>1
      <3>3. step' = [step EXCEPT ![s] = l] /\ UNCHANGED <<queuevars, dest, text, buffer>>
        BY <2>1, <2>3, <3>1 DEF SendTest, Goes
      <3> QED BY <1>4, <3>2, <3>3
    <2>4. CASE SendClear(s)
      <3>1. step' = [step EXCEPT ![s] = "wake"] /\ UNCHANGED <<queuevars, dest, text, buffer>>
        BY <2>4 DEF SendClear, Goes
      <3> QED BY <1>4, <1>5, <3>1
    <2>5. CASE SendWake(s)
      <3>1. /\ step' = [Woken(d) EXCEPT ![s] = "user"]
            /\ UNCHANGED <<queuevars, dest, text, buffer>>
        BY <2>1, <2>5 DEF SendWake
      <3>2. CASE step[d] = "asleep"
        <4>1. step' = [[step EXCEPT ![d] = "awake"] EXCEPT ![s] = "user"]
          BY <3>1, <3>2 DEF Woken
        <4> QED BY <1>4, <1>5, <2>2, <3>1, <3>2, <4>1
      <3>3. CASE step[d] # "asleep"
        <4>1. step' = [step EXCEPT ![s] = "user"]
          BY <3>1, <3>3 DEF Woken
        <4> QED BY <1>4, <1>5, <3>1, <4>1
      <3> QED BY <3>2, <3>3
    <2> QED BY <1>6, <2>3, <2>4, <2>5
  <1>7. ASSUME deQueue(s), front[s] # NoNode, UNCHANGED <<dest, text>>,
               UNCHANGED step \/ step' = [step EXCEPT ![s] = "user"]
        PROVE  MsgType' /\ \E r : Lists(r)' /\ Mail(q, r)
    <2>1. /\ step' \in [Slot -> Step] /\ dest' \in [Slot -> Slot]
          /\ text' \in [Slot -> Msg \cup {Junk8}]
          /\ \A t \in Slot : step'[t] = "enqueue" => text'[t] \in Msg
      <3>1. CASE UNCHANGED step
        BY <1>0, <1>7, <3>1
      <3>2. CASE step' = [step EXCEPT ![s] = "user"]
        BY <1>5, <1>7, <3>2, StepTypes
      <3> QED BY <1>7, <3>1, <3>2
    <2>2. /\ front' \in [Slot -> Node \cup {NoNode}] /\ rear' \in [Slot -> Node \cup {NoNode}]
          /\ link' \in [Node -> Node \cup {NoNode}] /\ msg' \in [Node -> Msg \cup {Junk8}]
          /\ kfreed' \subseteq Node /\ buffer' \in [Slot -> Msg \cup {Junk8}]
      BY <1>7, TakeTypes
    <2>3. MsgType'
      BY <2>1, <2>2 DEF MsgType
    <2>4. PICK r : /\ Lists(r)' /\ Texts(q[s]) # <<>> /\ buffer'[s] = Head(Texts(q[s]))
                   /\ Texts(r[s])' = Tail(Texts(q[s]))
                   /\ \A t \in Slot : t # s => Texts(r[t])' = Texts(q[t]) /\ buffer'[t] = buffer[t]
      BY <1>7, ListsShrink
    <2>5. Mail(q, r)
      BY <2>4 DEF Mail
    <2> QED BY <2>3, <2>4, <2>5
  <1>8. ASSUME recv(s) PROVE MsgType' /\ \E r : Lists(r)' /\ Mail(q, r)
    <2>1. CASE RecvNow(s)
      <3>1. deQueue(s) /\ front[s] # NoNode /\ UNCHANGED <<dest, text>> /\ UNCHANGED step
        BY <2>1 DEF RecvNow, IsQueueEmpty
      <3> QED BY <1>7, <3>1
    <2>2. CASE RecvEmpty(s)
      <3>1. step' = [step EXCEPT ![s] = "request"] /\ UNCHANGED <<queuevars, dest, text, buffer>>
        BY <2>2 DEF RecvEmpty, Goes
      <3> QED BY <1>4, <1>5, <3>1
    <2>3. CASE RecvRequest(s)
      <3>1. step' = [step EXCEPT ![s] = "sleep"] /\ UNCHANGED <<queuevars, dest, text, buffer>>
        BY <2>3 DEF RecvRequest, Goes
      <3> QED BY <1>4, <1>5, <3>1
    <2>4. CASE RecvSleep(s)
      <3>1. step' = [step EXCEPT ![s] = "asleep"] /\ UNCHANGED <<queuevars, dest, text, buffer>>
        BY <2>4 DEF RecvSleep, Goes
      <3> QED BY <1>4, <1>5, <3>1
    <2>5. CASE RecvAgain(s)
      <3>1. step' = [step EXCEPT ![s] = "user"] /\ UNCHANGED <<dest, text>>
        BY <2>5 DEF RecvAgain, Goes
      <3>2. CASE front[s] = NoNode
        <4>1. UNCHANGED <<queuevars, dest, text, buffer>>
          BY <2>5, <3>2 DEF RecvAgain, IsQueueEmpty
        <4> QED BY <1>4, <1>5, <3>1, <4>1
      <3>3. CASE front[s] # NoNode
        <4>1. deQueue(s)
          BY <2>5, <3>3 DEF RecvAgain, IsQueueEmpty
        <4> QED BY <1>7, <3>1, <3>3, <4>1
      <3> QED BY <3>2, <3>3
    <2> QED BY <1>8, <2>1, <2>2, <2>3, <2>4, <2>5 DEF recv
  <1>9. ASSUME OtherWakeup(s) PROVE MsgType' /\ \E r : Lists(r)' /\ Mail(q, r)
    <2>1. step' = [step EXCEPT ![s] = "awake"] /\ UNCHANGED <<queuevars, dest, text, buffer>>
      BY <1>9 DEF OtherWakeup, Woken
    <2> QED BY <1>4, <1>5, <2>1
  <1> QED BY <1>1, <1>2, <1>3, <1>6, <1>8, <1>9 DEF sending

LEMMA MsgInitial ==
    ASSUME MsgInit PROVE MsgInv /\ \A s \in Slot : Box(s)!XInit
  <1>1. PICK q : q = [s \in Slot |-> <<>>]
    OBVIOUS
  <1>2. MsgType
    <2>1. "user" \in Step /\ "user" # "enqueue"
      BY DEF Step
    <2> QED BY <2>1 DEF MsgInit, MsgType
  <1>3. ASSUME NEW s \in Slot PROVE ListOf(s, <<>>) /\ q[s] = <<>>
    <2>1. front[s] = NoNode /\ rear[s] = NoNode
      BY DEF MsgInit
    <2>2. <<>> \in Seq(Node) /\ Len(<<>>) = 0 /\ 1..0 = {}
      OBVIOUS
    <2> QED BY <1>1, <2>1, <2>2 DEF ListOf
  <1>4. Lists(q)
    <2>1. ASSUME NEW s \in Slot, NEW t \in Slot PROVE Apart(q[s], q[t])
      <3>1. q[s] = <<>> /\ 1..Len(<<>>) = {}
        BY <1>3
      <3> QED BY <3>1 DEF Apart
    <2> QED BY <1>3, <2>1 DEF Lists
  <1>5. ASSUME NEW s \in Slot PROVE Box(s)!XInit
    <2>1. Walk(s) = <<>>
      BY <1>3, WalkIs
    <2>2. Texts(<<>>) = <<>>
      BY DEF Texts
    <2> QED BY <2>1, <2>2 DEF Box!XInit
  <1> QED BY <1>2, <1>4, <1>5 DEF MsgInv

LEMMA MsgStepKeeps ==
    ASSUME MsgInv, [MsgNext]_msgvars
    PROVE  MsgInv' /\ \A s \in Slot : Box(s)!XStep
  <1>1. PICK q : Lists(q)
    BY DEF MsgInv
  <1>2. MsgType' /\ \E r : Lists(r)' /\ Mail(q, r)
    <2>1. CASE MsgNext
      BY <1>1, <2>1, MsgStep DEF MsgInv
    <2>2. CASE UNCHANGED msgvars
      <3>1. UNCHANGED <<queuevars, buffer>>
        BY <2>2 DEF msgvars, queuevars
      <3>2. MsgType'
        BY <2>2 DEF MsgInv, MsgType, msgvars
      <3> QED BY <1>1, <3>1, <3>2, MailStays
    <2> QED BY <2>1, <2>2
  <1>3. PICK r : Lists(r)' /\ Mail(q, r)
    BY <1>2
  <1>4. ASSUME NEW s \in Slot PROVE Box(s)!XStep
    <2>1. ListOf(s, q[s]) /\ ListOf(s, r[s])'
      BY <1>1, <1>3 DEF Lists
    <2>2. Walk(s) = q[s] /\ Walk(s)' = r[s]
      BY <2>1, WalkIs, WalkNext
    <2>3. PICK v, w : v = Texts(q[s]) /\ w = Texts(r[s])'
      OBVIOUS
    <2>4. Texts(Walk(s)) = v /\ Texts(Walk(s))' = w
      BY <2>2, <2>3 DEF Texts
    <2>5. \/ w = v /\ buffer'[s] = buffer[s]
          \/ buffer'[s] = buffer[s] /\ \E m \in Msg : w = Append(v, m)
          \/ v # <<>> /\ buffer'[s] = Head(v) /\ w = Tail(v)
      BY <1>3, <2>3 DEF Mail
    <2> QED BY <2>4, <2>5 DEF Box!XStep, Box!Deposit, Box!Collect
  <1> QED BY <1>2, <1>3, <1>4 DEF MsgInv

\* The lists of msgQueue[] under enQueue() and deQueue() are mailboxes: each
\* slot receives what was sent to it, in order and once, for any number of
\* senders, receivers and pages.
THEOREM MailboxHolds == MsgSpec => IsMailbox
  <1>1. MsgInit => MsgInv /\ \A s \in Slot : Box(s)!XInit
    BY MsgInitial
  <1>2. MsgInv /\ [MsgNext]_msgvars => MsgInv' /\ \A s \in Slot : Box(s)!XStep
    BY MsgStepKeeps
  <1> QED BY <1>1, <1>2, PTL DEF MsgSpec, IsMailbox
=============================================================================
