------------------------------ MODULE SchedLog ------------------------------
(***************************************************************************)
(* The scheduler log (proc.c) and the container manager (cm.c).  While     *)
(* scheduler_log is on, the schedulers mark every process of a container   *)
(* that they pick; when all are marked, one of them turns the log off.     *)
(* The manager turns it on and waits for the end; the processes that it    *)
(* has put into the containers wait for the beginning and for the end with *)
(* check_schedule_log().  The three flags have no common lock.             *)
(*                                                                         *)
(* The model begins when the manager has counted its processes in the      *)
(* containers; nobody joins or leaves any more.                            *)
(***************************************************************************)
EXTENDS Naturals, FiniteSets

CONSTANTS Core, NoCore,   \* processors
          NCONTS,         \* containers besides the host
          NLISTED         \* processes in container 1; the others have one each

ASSUME SchedLogAssumption ==
    /\ Core # {} /\ NoCore \notin Core
    /\ NCONTS \in Nat \ {0} /\ NLISTED \in Nat \ {0}

Cont == 1..NCONTS
Slots(k) == 1..(IF k = 1 THEN NLISTED ELSE 1)
Worker == UNION {{k} \X Slots(k) : k \in Cont}
Manager == <<0, 1>>

VARIABLES
    scheduler_log, scheduler_history,
    schedulerHelper,  \* entries of the containers that are marked
    contDone,         \* containers with the flag done
    cntNum,           \* per processor: the container whose turn it is
    turn,             \* per processor: position in scheduler()
    curLocation,      \* per processor and container: the entry that is next
    chosen,           \* per processor: the process that it has picked
    onCore,           \* per process: the processor that runs it
    prog,             \* per process: position in main() of cm.c
    marked            \* entries that have been marked since the log went on

logvars  == <<scheduler_log, scheduler_history, schedulerHelper, contDone, marked>>
corevars == <<cntNum, turn, curLocation, chosen>>
slogvars == <<logvars, corevars, onCore, prog>>

SlogInit ==
    /\ scheduler_log = 0 /\ scheduler_history = 0
    /\ schedulerHelper = {} /\ contDone = {} /\ marked = {}
    /\ cntNum = [c \in Core |-> 0]
    /\ turn = [c \in Core |-> "pick"]
    /\ curLocation = [c \in Core |-> [k \in Cont |-> 1]]
    /\ chosen = [c \in Core |-> Manager]
    /\ onCore = [p \in Worker \cup {Manager} |-> NoCore]
    /\ prog = [p \in Worker \cup {Manager} |-> IF p = Manager THEN "on" ELSE "begun"]

GoOn(c, s) == turn' = [turn EXCEPT ![c] = s]

-----------------------------------------------------------------------------
(* scheduler(): the turn of one container.                                 *)

\* Under ctable.lock: the next process of the container, which is marked.
PickEntry(c) ==
    LET k == cntNum[c]
        i == IF curLocation[c][k] \in Slots(k) THEN curLocation[c][k] ELSE 1
    IN
    /\ turn[c] = "pick" /\ k \in Cont
    /\ chosen' = [chosen EXCEPT ![c] = <<k, i>>]
    /\ curLocation' = [curLocation EXCEPT ![c][k] = i + 1]
    /\ IF scheduler_log = 1
       THEN /\ schedulerHelper' = schedulerHelper \cup {<<k, i>>}
            /\ marked' = marked \cup {<<k, i>>}
       ELSE UNCHANGED <<schedulerHelper, marked>>
    /\ GoOn(c, "dispatch")
    /\ UNCHANGED <<scheduler_log, scheduler_history, contDone, cntNum, onCore, prog>>

\* The turn of the host, where the manager is.
PickHost(c) ==
    /\ turn[c] = "pick" /\ cntNum[c] = 0
    /\ chosen' = [chosen EXCEPT ![c] = Manager]
    /\ GoOn(c, "dispatch")
    /\ UNCHANGED <<logvars, cntNum, curLocation, onCore, prog>>

\* Under ptable.lock: the process runs, if it is RUNNABLE.  What it does past
\* the barrier is no concern of the log.
Runnable(p) == onCore[p] = NoCore /\ prog[p] # "past"

RunChosen(c) ==
    /\ turn[c] = "dispatch" /\ Runnable(chosen[c])
    /\ onCore' = [onCore EXCEPT ![chosen[c]] = c]
    /\ GoOn(c, "run")
    /\ UNCHANGED <<logvars, cntNum, curLocation, chosen, prog>>

RunNobody(c) ==
    /\ turn[c] = "dispatch" /\ ~Runnable(chosen[c])
    /\ GoOn(c, "test")
    /\ UNCHANGED <<logvars, cntNum, curLocation, chosen, onCore, prog>>

\* A timer interrupt ends its time.
Preempt(c) ==
    /\ turn[c] = "run"
    /\ onCore' = [onCore EXCEPT ![chosen[c]] = NoCore]
    /\ GoOn(c, "test")
    /\ UNCHANGED <<logvars, cntNum, curLocation, chosen, prog>>

\* The next container, or the end of the loop over them.
NextTurn(c) ==
    /\ cntNum' = [cntNum EXCEPT ![c] = (@ + 1) % (NCONTS + 1)]
    /\ GoOn(c, IF cntNum[c] = NCONTS THEN "end" ELSE "pick")

\* The first test of scheduler_log after the turn, without a lock.
TurnTest(c) ==
    /\ turn[c] = "test"
    /\ IF scheduler_log = 1 THEN GoOn(c, "check") /\ UNCHANGED cntNum ELSE NextTurn(c)
    /\ UNCHANGED <<logvars, curLocation, chosen, onCore, prog>>

\* Under ctable.lock: the container is done when no entry is without a mark;
\* every entry passes when the log has gone off in between.
TurnCheck(c) ==
    LET k == cntNum[c] IN
    /\ turn[c] = "check"
    /\ contDone' = IF scheduler_log = 0 \/ \A i \in Slots(k) : <<k, i>> \in schedulerHelper
                   THEN contDone \cup ({k} \cap Cont) ELSE contDone
    /\ NextTurn(c)
    /\ UNCHANGED <<scheduler_log, scheduler_history, schedulerHelper, marked,
                   curLocation, chosen, onCore, prog>>

-----------------------------------------------------------------------------
(* scheduler(): after the turn of the last container.                      *)

EndTest(c) ==
    /\ turn[c] = "end"
    /\ GoOn(c, IF scheduler_log = 1 THEN "all" ELSE "pick")
    /\ UNCHANGED <<logvars, cntNum, curLocation, chosen, onCore, prog>>

\* Under ctable.lock: are all containers done?
AllCheck(c) ==
    /\ turn[c] = "all"
    /\ GoOn(c, IF Cont \subseteq contDone THEN "off" ELSE "pick")
    /\ UNCHANGED <<logvars, cntNum, curLocation, chosen, onCore, prog>>

\* scheduler_log = 0, without a lock.
LogOff(c) ==
    /\ turn[c] = "off"
    /\ scheduler_log' = 0
    /\ GoOn(c, "clear")
    /\ UNCHANGED <<scheduler_history, schedulerHelper, contDone, marked, cntNum,
                   curLocation, chosen, onCore, prog>>

LogClear(c) ==
    /\ turn[c] = "clear"
    /\ contDone' = {} /\ schedulerHelper' = {}
    /\ GoOn(c, "pick")
    /\ UNCHANGED <<scheduler_log, scheduler_history, marked, cntNum, curLocation, chosen,
                   onCore, prog>>

-----------------------------------------------------------------------------
(* The system calls of the manager and of its processes.                   *)

check_schedule_log(arg) == arg = scheduler_log \/ (arg = 1 /\ scheduler_history = 1)

Go(p, s) == prog' = [prog EXCEPT ![p] = s]

\* Mutant: the history is counted before the log is on.
LogOnLate(p) ==
    \/ /\ prog[p] = "on"
       /\ scheduler_history' = scheduler_history + 1
       /\ Go(p, "history")
       /\ UNCHANGED <<scheduler_log, schedulerHelper, contDone, marked, corevars, onCore>>
    \/ /\ prog[p] = "history"
       /\ scheduler_log' = 1 /\ marked' = {}
       /\ Go(p, "ended")
       /\ UNCHANGED <<scheduler_history, schedulerHelper, contDone, corevars, onCore>>

\* sys_scheduler_log_on(): the flag, then the count.
LogOn(p) ==
    \/ /\ prog[p] = "on"
       /\ scheduler_log' = 1 /\ marked' = {}
       /\ Go(p, "history")
       /\ UNCHANGED <<scheduler_history, schedulerHelper, contDone, corevars, onCore>>
    \/ /\ prog[p] = "history"
       /\ scheduler_history' = scheduler_history + 1
       /\ Go(p, "ended")
       /\ UNCHANGED <<scheduler_log, schedulerHelper, contDone, marked, corevars, onCore>>

\* The barrier: until check_schedule_log(1), then until check_schedule_log(0).
Poll(p) ==
    /\ \/ prog[p] = "begun" /\ check_schedule_log(1) /\ Go(p, "ended")
       \/ prog[p] = "ended" /\ check_schedule_log(0) /\ Go(p, "past")
    /\ UNCHANGED <<logvars, corevars, onCore>>

-----------------------------------------------------------------------------
ContainerTurn(c) ==
    \/ PickEntry(c) \/ PickHost(c) \/ RunChosen(c) \/ RunNobody(c) \/ Preempt(c)

LogTurn(c) ==
    TurnTest(c) \/ TurnCheck(c) \/ EndTest(c) \/ AllCheck(c) \/ LogOff(c) \/ LogClear(c)

\* A process that runs makes its calls.
cm(p) == onCore[p] # NoCore /\ (LogOn(p) \/ Poll(p))

SlogNext ==
    \/ \E c \in Core : ContainerTurn(c) \/ LogTurn(c)
    \/ \E p \in Worker \cup {Manager} : cm(p)

SlogSpec == SlogInit /\ [][SlogNext]_slogvars

-----------------------------------------------------------------------------
\* "barrier for scheduler log" (cm.c): nobody is past the barrier before the
\* schedulers have picked every process of every container since the manager
\* turned the log on, whichever of them sets, tests and clears the flags in
\* between.  The model has one session, as cm.c has; a second one may meet a
\* flag done that a scheduler has set after the others were cleared.
BarrierExact ==
    \A p \in Worker \cup {Manager} : prog[p] = "past" => marked = Worker
=============================================================================
