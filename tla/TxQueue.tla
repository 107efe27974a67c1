------------------------------- MODULE TxQueue -------------------------------
(***************************************************************************)
(* What the transmit side of an XDP socket promises of the descriptors     *)
(* that SendMsg hands over: the kernel gets each of them once, in order.   *)
(***************************************************************************)
EXTENDS Sequences

CONSTANT Desc           \* descriptors

VARIABLES
    queue,              \* the descriptors handed over, first to last
    taken               \* the descriptors the kernel has taken, first to last

queueVars == <<queue, taken>>

QueueInit == queue = <<>> /\ taken = <<>>

Enqueue(d) ==
    /\ queue' = Append(queue, d)
    /\ UNCHANGED taken

Dequeue ==
    /\ queue # <<>>
    /\ queue' = Tail(queue)
    /\ taken' = Append(taken, Head(queue))

QueueNext == Dequeue \/ \E d \in Desc : Enqueue(d)

QueueSpec == QueueInit /\ [][QueueNext]_queueVars
=============================================================================
