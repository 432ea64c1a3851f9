------------------------------ MODULE MsgQueue ------------------------------
(***************************************************************************)
(* Message passing of the directory xv6 (proc.c: enQueue, deQueue,         *)
(* sending, recv): every slot of the process table has a circular list of  *)
(* pages from kalloc() under a lock of its own, and a flag request, which  *)
(* is read and written without a lock.  recv() sleeps on the address of    *)
(* its slot, as wait() does.                                               *)
(***************************************************************************)
EXTENDS Naturals, Sequences, FiniteSets, FiniteSetsExt, Functions

CONSTANTS Sender, Receiver,  \* slots whose processes send, and receive
          Msg, Junk8,        \* messages, and what kfree() leaves of one
          NNODES             \* bound: pages that kalloc() has for messages

Slot == Sender \cup Receiver
Node == 1..NNODES
NoNode == 0

ASSUME MsgAssumption == NNODES \in Nat \ {0} /\ Junk8 \notin Msg

VARIABLES
    front, rear,   \* per slot: msgQueue[]
    link, msg,     \* per node
    kfreed,        \* nodes on the free list of kalloc()
    request,       \* per slot
    step,          \* per slot: where its process is, see Step
    dest,          \* per slot: the slot that sending() has found
    text,          \* per slot: the message that it is about to enqueue
    buffer         \* per slot: the message that recv() has delivered

msgvars == <<front, rear, link, msg, kfreed, request, step, dest, text, buffer>>
queuevars == <<front, rear, link, msg, kfreed>>

\* "enqueue", "test", "clear", "wake": the stages of sending(); "request",
\* "sleep", "asleep", "awake": those of recv() when the list was empty.
Step == {"user", "enqueue", "test", "clear", "wake", "request", "sleep", "asleep", "awake"}

MsgInit ==
    /\ front = [s \in Slot |-> NoNode] /\ rear = front
    /\ link = [a \in Node |-> NoNode] /\ msg = [a \in Node |-> Junk8]
    /\ kfreed = Node
    /\ request = [s \in Slot |-> FALSE]
    /\ step = [s \in Slot |-> "user"]
    /\ dest = [s \in Slot |-> s]
    /\ text = [s \in Slot |-> Junk8]
    /\ buffer = text

Goes(s, l) == step' = [step EXCEPT ![s] = l]

-----------------------------------------------------------------------------
(* sending().                                                              *)

\* pidToProcid() finds the slot d; with no such pid the call has no effect.
SendTo(s, d, m) ==
    /\ s \in Sender /\ step[s] = "user"
    /\ dest' = [dest EXCEPT ![s] = d]
    /\ text' = [text EXCEPT ![s] = m]
    /\ Goes(s, "enqueue")
    /\ UNCHANGED <<queuevars, request, buffer>>

\* Mutant: the new node becomes the front.
enQueueFront(d, m) ==
    LET a == Min(kfreed) IN
    /\ kfreed' = kfreed \ {a}
    /\ msg' = [msg EXCEPT ![a] = m]
    /\ front' = [front EXCEPT ![d] = a]
    /\ IF front[d] = NoNode
       THEN /\ rear' = [rear EXCEPT ![d] = a]
            /\ link' = [link EXCEPT ![a] = a]
       ELSE /\ link' = [link EXCEPT ![rear[d]] = a, ![a] = front[d]]
            /\ UNCHANGED rear

\* The new node becomes the rear, whose link leads back to the front.
enQueue(d, m) ==
    LET a == Min(kfreed) IN
    /\ kfreed' = kfreed \ {a}
    /\ msg' = [msg EXCEPT ![a] = m]
    /\ rear' = [rear EXCEPT ![d] = a]
    /\ IF front[d] = NoNode
       THEN /\ front' = [front EXCEPT ![d] = a]
            /\ link' = [link EXCEPT ![a] = a]
       ELSE /\ link' = [link EXCEPT ![rear[d]] = a, ![a] = front[d]]
            /\ UNCHANGED front

\* enQueue() does not ask whether kalloc() has returned a page: the guard is a
\* bound of the model.
SendEnqueue(s) ==
    /\ step[s] = "enqueue" /\ kfreed # {}
    /\ enQueue(dest[s], text[s])
    /\ text' = [text EXCEPT ![s] = Junk8]
    /\ Goes(s, "test")
    /\ UNCHANGED <<request, dest, buffer>>

SendTest(s) ==
    /\ step[s] = "test"
    /\ Goes(s, IF request[dest[s]] THEN "clear" ELSE "user")
    /\ UNCHANGED <<queuevars, request, dest, text, buffer>>

SendClear(s) ==
    /\ step[s] = "clear"
    /\ request' = [request EXCEPT ![dest[s]] = FALSE]
    /\ Goes(s, "wake")
    /\ UNCHANGED <<queuevars, dest, text, buffer>>

\* wakeup(&ptable.proc[d])
Woken(d) == IF step[d] = "asleep" THEN [step EXCEPT ![d] = "awake"] ELSE step

SendWake(s) ==
    /\ step[s] = "wake"
    /\ step' = [Woken(dest[s]) EXCEPT ![s] = "user"]
    /\ UNCHANGED <<queuevars, request, dest, text, buffer>>

-----------------------------------------------------------------------------
(* recv().                                                                 *)

\* The front node goes to the caller and back to kalloc(): kfree() overwrites
\* what it holds.
deQueue(s) ==
    LET a == front[s]
        last == a = rear[s]
    IN
    /\ buffer' = [buffer EXCEPT ![s] = msg[a]]
    /\ kfreed' = kfreed \cup {a}
    /\ msg' = [msg EXCEPT ![a] = Junk8]
    /\ front' = [front EXCEPT ![s] = IF last THEN NoNode ELSE link[a]]
    /\ rear' = [rear EXCEPT ![s] = IF last THEN NoNode ELSE @]
    /\ link' = IF last THEN [link EXCEPT ![a] = NoNode]
               ELSE [link EXCEPT ![rear[s]] = link[a], ![a] = NoNode]

IsQueueEmpty(s) == front[s] = NoNode

RecvNow(s) ==
    /\ s \in Receiver /\ step[s] = "user" /\ ~IsQueueEmpty(s)
    /\ deQueue(s)
    /\ UNCHANGED <<request, step, dest, text>>

RecvEmpty(s) ==
    /\ s \in Receiver /\ step[s] = "user" /\ IsQueueEmpty(s)
    /\ Goes(s, "request")
    /\ UNCHANGED <<queuevars, request, dest, text, buffer>>

RecvRequest(s) ==
    /\ step[s] = "request"
    /\ request' = [request EXCEPT ![s] = TRUE]
    /\ Goes(s, "sleep")
    /\ UNCHANGED <<queuevars, dest, text, buffer>>

RecvSleep(s) ==
    /\ step[s] = "sleep"
    /\ Goes(s, "asleep")
    /\ UNCHANGED <<queuevars, request, dest, text, buffer>>

\* recv() tries once more and ignores the result.
RecvAgain(s) ==
    /\ step[s] = "awake"
    /\ Goes(s, "user")
    /\ IF IsQueueEmpty(s) THEN UNCHANGED <<queuevars, buffer>> ELSE deQueue(s)
    /\ UNCHANGED <<request, dest, text>>

\* A child of the process exits, or somebody kills it.
OtherWakeup(s) ==
    /\ step[s] = "asleep"
    /\ step' = Woken(s)
    /\ UNCHANGED <<queuevars, request, dest, text, buffer>>

-----------------------------------------------------------------------------
sending(s) ==
    \/ \E d \in Receiver, m \in Msg : SendTo(s, d, m)
    \/ SendEnqueue(s) \/ SendTest(s) \/ SendClear(s) \/ SendWake(s)

recv(s) == RecvNow(s) \/ RecvEmpty(s) \/ RecvRequest(s) \/ RecvSleep(s) \/ RecvAgain(s)

MsgNext == \E s \in Slot : sending(s) \/ recv(s) \/ OtherWakeup(s)

MsgSpec == MsgInit /\ [][MsgNext]_msgvars

-----------------------------------------------------------------------------
(* Properties.                                                             *)

\* w is the list of slot s: from the front along the links to the rear.
IsList(s, w) ==
    /\ w[1] = front[s] /\ w[Len(w)] = rear[s]
    /\ \A k \in 1..(Len(w) - 1) : w[k] # rear[s] /\ link[w[k]] = w[k + 1]

\* The nodes of the list of slot s, in order.
Walk(s) ==
    LET lists == {w \in UNION {[1..k -> Node \ kfreed] : k \in Node} : IsList(s, w)}
    IN  IF front[s] = NoNode \/ lists = {} THEN <<>> ELSE CHOOSE w \in lists : TRUE

Texts(w) == [k \in DOMAIN w |-> msg[w[k]]]

Box(s) == INSTANCE Mailbox WITH box <- Texts(Walk(s)), received <- buffer[s]

\* The linked lists deliver the messages of a slot in order, each once, over
\* any interleaving of senders with the two attempts of recv().
IsMailbox ==
    /\ \A s \in Slot : Box(s)!XInit
    /\ [][\A s \in Slot : Box(s)!XStep]_msgvars

\* "msg not there yet wait" (recv()): a process does not sleep on when its
\* message is there and every sender has returned.  The flag refutes this
\* (README, "What the code does not guarantee"); no run relies on it.
NoLostMessage ==
    (\A s \in Slot : step[s] \in {"user", "asleep"}) =>
       \A s \in Slot : step[s] = "asleep" => IsQueueEmpty(s)
=============================================================================
