------------------------------ MODULE Mailbox -------------------------------
(***************************************************************************)
(* What message passing promises of the messages of one process: they      *)
(* reach it in the order in which they were sent, each once.               *)
(***************************************************************************)
EXTENDS Sequences

CONSTANT Msg

VARIABLES box,       \* messages sent and not received
          received   \* the message received last

XInit == box = <<>>

Deposit == UNCHANGED received /\ \E m \in Msg : box' = Append(box, m)

Collect == box # <<>> /\ received' = Head(box) /\ box' = Tail(box)

XStep == Deposit \/ Collect \/ UNCHANGED <<box, received>>
=============================================================================
