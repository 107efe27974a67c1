-------------------------------- MODULE XdpTx --------------------------------
(***************************************************************************)
(* The transmit side of an XDP socket (src/pkg/xdp/xdp.go): the playback   *)
(* goroutines of many dialogs call SendMsg on the same socket, which puts  *)
(* a frame of umem in the channel txChan; txWorker moves descriptors from  *)
(* it to the tx ring; txTransmit kicks the kernel with sendto when a timer *)
(* fires or txWorker finds the ring full.                                  *)
(*                                                                         *)
(* The kernel is external.  It takes descriptors from the tx ring in order *)
(* while it can reserve a place in the completion ring, reading the frame  *)
(* then, and produces the completions later.  sendto returns 0 once it  *)
(* can take no more, EAGAIN when it gives up early, EBUSY when a packet is *)
(* dropped, or another error, at which doTransmit panics and the program   *)
(* ends.  Whether a full completion ring gives EAGAIN or 0 depends on the  *)
(* kernel: fullIsAgain, which is never assumed.                            *)
(*                                                                         *)
(* A message is a number, the frames are numbered from the first one of    *)
(* the tx side (FillRingNumDescs = 8 frames come before it, so that Addr   *)
(* is never 0), and a ring's counters are words: uint32.                   *)
(***************************************************************************)
EXTENDS Integers, Sequences

CONSTANTS Sender,       \* the playback goroutines
          RingSize,     \* TxRingNumDescs and CompletionRingNumDescs
          ChanSize,     \* the capacity of txChan: FillRingNumDescs / 2
          Word,         \* 2^32 in the code
          MaxSends      \* bound on the messages of a behaviour

ASSUME SizesAssumption == RingSize \in Nat \ {0} /\ ChanSize \in Nat
ASSUME WordAssumption == Word \in Nat /\ Word > RingSize /\ Word % RingSize = 0
ASSUME SendsAssumption == MaxSends \in Nat

Msg == 1 .. MaxSends
Frame == 0 .. RingSize - 1
Desc == [frame : Frame, msg : Msg]    \* msg: the message it was sent for
NoDesc == [frame |-> 0, msg |-> 0]

VARIABLES
    txIndex,     \* the messages sent so far: GetTxDesc's counter, plus 1
    umem,        \* umem[f]: the message in frame f, 0 for none
    sender,      \* sender[s]: the next step of s in SendMsg
    held,        \* held[s]: the descriptor s has from GetTxDesc
    txChan,      \* the channel of descriptors
    worker,      \* the next step of txWorker
    desc,        \* the descriptor txWorker has received
    trigger,     \* the elements in manualTriggerTX, whose capacity is 1
    transmitter, \* the next step of txTransmit
    ring,        \* txRing.Descs
    prod, cons,  \* txRing.Producer and Consumer
    cprod, ccons,\* completionRing.Producer and Consumer
    inKernel,    \* the packets taken and not yet completed
    wire,        \* the descriptors taken, with what their frames held
    fullIsAgain  \* does this kernel return EAGAIN at a full completion ring?

senderVars == <<txIndex, umem, sender, held>>
workerVars == <<worker, desc>>
ringVars == <<ring, prod, cons>>
completionVars == <<cprod, ccons, inKernel>>
vars == <<senderVars, txChan, workerVars, trigger, transmitter, ringVars,
          completionVars, wire, fullIsAgain>>

Init ==
    /\ txIndex = 0
    /\ umem = [f \in Frame |-> 0]
    /\ sender = [s \in Sender |-> "idle"]
    /\ held = [s \in Sender |-> NoDesc]
    /\ txChan = <<>>
    /\ worker = "receive"
    /\ desc = NoDesc
    /\ trigger = 0
    /\ transmitter = "wait"
    /\ ring = [n \in Frame |-> NoDesc]
    /\ prod = 0 /\ cons = 0
    /\ cprod = 0 /\ ccons = 0
    /\ inKernel = 0
    /\ wire = <<>>
    /\ fullIsAgain \in BOOLEAN

\* uint32 subtraction and increment.
Minus(a, b) == (a - b + Word) % Word
Plus(a, n) == (a + n) % Word

NumCompleted == Minus(cprod, ccons)
CompletionFull == NumCompleted + inKernel >= RingSize

-----------------------------------------------------------------------------
(* Mutated forms of the definitions below, each a slip of the code. *)

RingFullNever == FALSE                           \* the ring is not checked

DrainNothing ==                                  \* no Complete
    /\ transmitter = "drain"
    /\ transmitter' = "sendto"
    /\ UNCHANGED <<senderVars, txChan, workerVars, trigger, ringVars,
                   completionVars, wire, fullIsAgain>>

DrainAll ==                                      \* a whole ring, not what is done
    /\ transmitter = "drain"
    /\ ccons' = Plus(ccons, RingSize)
    /\ transmitter' = "sendto"
    /\ UNCHANGED <<senderVars, txChan, workerVars, trigger, ringVars, cprod,
                   inKernel, wire, fullIsAgain>>

-----------------------------------------------------------------------------
(* SendMsg *)

FrameOf(inc) == inc % RingSize

\* GetTxDesc: whatever the state of the frame, it is handed out.
GetTxDesc(s) ==
    /\ sender[s] = "idle"
    /\ txIndex < MaxSends
    /\ txIndex' = txIndex + 1
    /\ held' = [held EXCEPT ![s] = [frame |-> FrameOf(txIndex),
                                    msg |-> txIndex + 1]]
    /\ sender' = [sender EXCEPT ![s] = "copy"]
    /\ UNCHANGED <<umem, txChan, workerVars, trigger, transmitter, ringVars,
                   completionVars, wire, fullIsAgain>>

Copy(s) ==
    /\ sender[s] = "copy"
    /\ umem' = [umem EXCEPT ![held[s].frame] = held[s].msg]
    /\ sender' = [sender EXCEPT ![s] = "send"]
    /\ UNCHANGED <<txIndex, held, txChan, workerVars, trigger, transmitter,
                   ringVars, completionVars, wire, fullIsAgain>>

\* Blocks while the channel is full; with the frame already written.
Send(s) ==
    /\ sender[s] = "send"
    /\ Len(txChan) < ChanSize
    /\ txChan' = Append(txChan, held[s])
    /\ sender' = [sender EXCEPT ![s] = "idle"]
    /\ held' = [held EXCEPT ![s] = NoDesc]
    /\ UNCHANGED <<txIndex, umem, workerVars, trigger, transmitter, ringVars,
                   completionVars, wire, fullIsAgain>>

-----------------------------------------------------------------------------
(* txWorker *)

RingFull == Minus(prod, cons) = RingSize

Receive ==
    /\ worker = "receive"
    /\ txChan # <<>>
    /\ desc' = Head(txChan)
    /\ txChan' = Tail(txChan)
    /\ worker' = "check"
    /\ UNCHANGED <<senderVars, trigger, transmitter, ringVars, completionVars,
                   wire, fullIsAgain>>

CheckRing ==
    /\ worker = "check"
    /\ worker' = IF RingFull THEN "kick" ELSE "put"
    /\ UNCHANGED <<senderVars, txChan, desc, trigger, transmitter, ringVars,
                   completionVars, wire, fullIsAgain>>

\* manualTriggerTX <- struct{}{}, and then a sleep of TxStep.
Kick ==
    /\ worker = "kick"
    /\ trigger < 1
    /\ trigger' = trigger + 1
    /\ worker' = "check"
    /\ UNCHANGED <<senderVars, txChan, desc, transmitter, ringVars,
                   completionVars, wire, fullIsAgain>>

\* The descriptor is stored and then published; nobody reads it in between.
PutDesc ==
    /\ worker = "put"
    /\ ring' = [ring EXCEPT ![prod % RingSize] = desc]
    /\ prod' = Plus(prod, 1)
    /\ worker' = "receive"
    /\ UNCHANGED <<senderVars, txChan, desc, trigger, transmitter, cons,
                   completionVars, wire, fullIsAgain>>

-----------------------------------------------------------------------------
(* txTransmit and doTransmit *)

Tick ==
    /\ transmitter = "wait"
    /\ transmitter' = "test"
    /\ UNCHANGED <<senderVars, txChan, workerVars, trigger, ringVars,
                   completionVars, wire, fullIsAgain>>

Triggered ==
    /\ transmitter = "wait"
    /\ trigger > 0
    /\ trigger' = trigger - 1
    /\ transmitter' = "test"
    /\ UNCHANGED <<senderVars, txChan, workerVars, ringVars, completionVars,
                   wire, fullIsAgain>>

TestRing ==
    /\ transmitter = "test"
    /\ transmitter' = IF prod = cons THEN "wait" ELSE "sendto"
    /\ UNCHANGED <<senderVars, txChan, workerVars, trigger, ringVars,
                   completionVars, wire, fullIsAgain>>

\* sendto returns 0 with nothing left that it could take, or EBUSY.
Sent ==
    /\ transmitter = "sendto"
    /\ \/ prod = cons
       \/ CompletionFull /\ ~fullIsAgain
       \/ wire # <<>>                                \* EBUSY: one was dropped
    /\ transmitter' = "wait"
    /\ UNCHANGED <<senderVars, txChan, workerVars, trigger, ringVars,
                   completionVars, wire, fullIsAgain>>

\* EAGAIN: there is one more than a batch, there was no memory, or the completion
\* ring is full; or EINTR.
Again ==
    /\ transmitter = "sendto"
    /\ transmitter' = "drain"
    /\ UNCHANGED <<senderVars, txChan, workerVars, trigger, ringVars,
                   completionVars, wire, fullIsAgain>>

\* Any other error: the program is over.
Panic ==
    /\ transmitter = "sendto"
    /\ transmitter' = "panicked"
    /\ UNCHANGED <<senderVars, txChan, workerVars, trigger, ringVars,
                   completionVars, wire, fullIsAgain>>

\* Complete(NumCompleted()), and sendto again.
Drain ==
    /\ transmitter = "drain"
    /\ ccons' = Plus(ccons, NumCompleted)
    /\ transmitter' = "sendto"
    /\ UNCHANGED <<senderVars, txChan, workerVars, trigger, ringVars, cprod,
                   inKernel, wire, fullIsAgain>>

-----------------------------------------------------------------------------
(* The kernel; a driver may also take descriptors between two calls. *)

KernelTake ==
    /\ prod # cons
    /\ ~CompletionFull
    /\ LET d == ring[cons % RingSize] IN
          wire' = Append(wire, [frame |-> d.frame, msg |-> d.msg,
                                data |-> umem[d.frame]])
    /\ cons' = Plus(cons, 1)
    /\ inKernel' = inKernel + 1
    /\ UNCHANGED <<senderVars, txChan, workerVars, trigger, transmitter, ring,
                   prod, cprod, ccons, fullIsAgain>>

KernelComplete ==
    /\ inKernel > 0
    /\ inKernel' = inKernel - 1
    /\ cprod' = Plus(cprod, 1)
    /\ UNCHANGED <<senderVars, txChan, workerVars, trigger, transmitter,
                   ringVars, ccons, wire, fullIsAgain>>

-----------------------------------------------------------------------------
Running == transmitter # "panicked"

SendMsg(s) == Running /\ (Copy(s) \/ Send(s))
Worker == Running /\ (Receive \/ CheckRing \/ Kick \/ PutDesc)
Transmitter == Tick \/ Triggered \/ TestRing \/ Sent \/ Again \/ Panic \/ Drain
Kernel == Running /\ (KernelTake \/ KernelComplete)

Over == ~Running /\ UNCHANGED vars

Next ==
    \/ \E s \in Sender : (Running /\ GetTxDesc(s)) \/ SendMsg(s)
    \/ Worker
    \/ Transmitter
    \/ Kernel
    \/ Over

Spec == Init /\ [][Next]_vars

\* The scheduler runs the goroutines, the ticker fires, select takes each of two
\* ready channels some time, and sendto now and then takes a descriptor if it
\* may, returns 0 if there is none, or EAGAIN at a full completion ring in the
\* kernels that do; senders need not send, and no error is assumed away.
FairSpec ==
    /\ Spec
    /\ \A s \in Sender : WF_vars(SendMsg(s))
    /\ WF_vars(Worker)
    /\ WF_vars(Transmitter)
    /\ WF_vars(Running /\ KernelComplete)
    /\ SF_vars(Triggered)
    /\ SF_vars(transmitter = "sendto" /\ KernelTake)
    /\ SF_vars(prod = cons /\ Sent)
    /\ SF_vars(fullIsAgain /\ CompletionFull /\ Again)

-----------------------------------------------------------------------------
(* Properties *)

\* The descriptors in the ring, and all those on their way to the kernel.
InRing == [n \in 1 .. Minus(prod, cons) |-> ring[Plus(cons, n - 1) % RingSize]]
InWorker == IF worker = "receive" THEN <<>> ELSE <<desc>>
Pipeline == InRing \o InWorker \o txChan

\* Every variable has its type: neither ring holds more than it has room for.
TypeOK ==
    /\ txIndex \in 0 .. MaxSends
    /\ umem \in [Frame -> Msg \cup {0}]
    /\ sender \in [Sender -> {"idle", "copy", "send"}]
    /\ held \in [Sender -> Desc \cup {NoDesc}]
    /\ Len(txChan) <= ChanSize /\ \A n \in DOMAIN txChan : txChan[n] \in Desc
    /\ worker \in {"receive", "check", "kick", "put"}
    /\ desc \in Desc \cup {NoDesc}
    /\ trigger \in 0 .. 1
    /\ transmitter \in {"wait", "test", "sendto", "drain", "panicked"}
    /\ ring \in [Frame -> Desc \cup {NoDesc}]
    /\ prod \in 0 .. Word - 1 /\ Minus(prod, cons) <= RingSize
    /\ cprod \in 0 .. Word - 1 /\ NumCompleted <= RingSize
    /\ inKernel \in 0 .. RingSize
    /\ \A n \in DOMAIN wire : wire[n].msg \in Msg
    /\ fullIsAgain \in BOOLEAN

\* The kernel gets every descriptor handed over exactly once and in order,
\* through the channel, the worker and the ring, whose counters overflow and
\* which the kernel empties while the worker tests it (xdp.go:391-402).
Queue == INSTANCE TxQueue WITH
    queue <- Pipeline,
    taken <- [n \in DOMAIN wire |-> [frame |-> wire[n].frame, msg |-> wire[n].msg]]
QueueSpec == Queue!QueueSpec

\* SendMsg fails with "no free desc" (xdp.go:631-633) rather than write to a
\* frame that is still queued: what is transmitted is what was sent.
FramesKept == \A n \in DOMAIN wire : wire[n].data = wire[n].msg

\* Every message handed to SendMsg is taken by the kernel in the end, although
\* completions are drained only after an EAGAIN (xdp.go:349-402): unless sendto
\* fails and the program panics, or the completion ring is full for ever, which it
\* is only in a kernel that answers 0 to a full one.
Stalled == ~fullIsAgain /\ CompletionFull

Transmitted ==
    \A m \in Msg :
        txIndex >= m ~> \/ \E n \in DOMAIN wire : wire[n].msg = m
                        \/ ~Running
                        \/ []Stalled
=============================================================================
