------------------------------ MODULE Startup ------------------------------
(***************************************************************************)
(* newBaseUa (src/ua.go), as runUas and runUac call it before any dialog   *)
(* exists, and the two round robins it leaves to them: the time ranges are *)
(* laid out (Distributor), the media file is loaded, the XDP program is    *)
(* attached, and initXDP opens a socket for every queue of the interface   *)
(* until one cannot be bound.  Each step may fail and then ends the        *)
(* program, but for a failed bind.                                         *)
(*                                                                         *)
(* The ringing and the answer ranges are built alike, and so are the early *)
(* and the answer media: there is one of each here.                        *)
(***************************************************************************)
EXTENDS Distributor

CONSTANTS Configs,      \* the flags and the machine: see ConfigsAssumption
          Frame,        \* samples in a packet, 160 in the code
          MaxQueues,    \* how many queues initXDP tries, 16 in the code
          MaxCalls      \* bound on the timeouts and on the sockets handed out

\* The weights of a time range; the samples of the media file, numbered upwards from
\* the smallest; the queues of the interface.
ASSUME ConfigsAssumption ==
    \A c \in Configs : /\ c.weights \in Seq(Nat \ {0}) /\ c.weights # <<>>
                       /\ c.samples \in Nat /\ c.queues \in Nat
ASSUME BoundsAssumption ==
    Frame \in Nat \ {0} /\ MaxQueues \in Nat \ {0} /\ MaxCalls \in Nat

VARIABLES
    cfg,        \* the configuration
    phase,      \* where newBaseUa is; "serving" when it has returned
    packets,    \* how many packets of the media are loaded
    made,       \* the steps NewSocket has taken for the next socket
    held,       \* what it has got from the kernel by them
    sockets,    \* len(xdpSockets)
    nextSocket, \* the counter of xdpSocketsLB
    load,       \* load[s]: how many medias got socket s
    medias      \* how many got one

socketVars == <<made, held, sockets>>
serveVars == <<nextSocket, load, medias>>
vars == <<rangeVars, cfg, phase, packets, socketVars, serveVars>>

\* The steps of NewSocket, and what each gets from the kernel.
SocketSteps ==
    <<"socket", "umem", "umem_reg", "fill_ring", "completion_ring", "rx_ring", "tx_ring",
      "offsets", "map_fill", "map_completion", "map_rx", "map_tx", "bind">>
Gets ==
    {"socket", "umem", "map_fill", "map_completion", "map_rx", "map_tx"}

Init ==
    /\ cfg \in Configs
    /\ RangesInit(cfg.weights)
    /\ phase = "times"
    /\ packets = 0
    /\ made = 0
    /\ held = {}
    /\ sockets = 0
    /\ nextSocket = 0
    /\ load = [s \in 1 .. MaxQueues |-> 0]
    /\ medias = 0

Enter(p) == phase' = p

\* newBaseUa returns an error, and with it the program.
Fail(p) ==
    /\ phase = p
    /\ Enter("failed")
    /\ UNCHANGED <<rangeVars, cfg, packets, socketVars, serveVars>>

-----------------------------------------------------------------------------
(* Time ranges and media *)

LayOut ==
    /\ phase = "times"
    /\ Calc
    /\ UNCHANGED <<cfg, phase, packets, socketVars, serveVars>>

TimesDone ==
    /\ phase = "times"
    /\ Len(weight) = 1 \/ Len(layout) = Total
    /\ Enter("media")
    /\ UNCHANGED <<rangeVars, cfg, packets, socketVars, serveVars>>

\* One round of LoadPCM: a packet of Frame samples.
LoadPacket ==
    /\ phase = "media"
    /\ (packets + 1) * Frame <= cfg.samples
    /\ packets' = packets + 1
    /\ UNCHANGED <<rangeVars, cfg, phase, socketVars, serveVars>>

\* What is left of the file is less than a packet and is dropped.
MediaDone ==
    /\ phase = "media"
    /\ (packets + 1) * Frame > cfg.samples
    /\ Enter("interface")
    /\ UNCHANGED <<rangeVars, cfg, packets, socketVars, serveVars>>

-----------------------------------------------------------------------------
(* initXDP *)

\* getIfindexByName and BindInterfaces.
Attach ==
    /\ phase = "interface"
    /\ Enter("sockets")
    /\ UNCHANGED <<rangeVars, cfg, packets, socketVars, serveVars>>

NextStep == SocketSteps[made + 1]

\* A queue beyond the interface's cannot be bound.
SocketStep ==
    /\ phase = "sockets" /\ sockets < MaxQueues
    /\ made < Len(SocketSteps)
    /\ NextStep = "bind" => sockets < cfg.queues
    /\ made' = made + 1
    /\ held' = held \cup ({NextStep} \cap Gets)
    /\ UNCHANGED <<rangeVars, cfg, phase, packets, sockets, serveVars>>

\* What xsk.Close gives back: the rings stay mapped.
Released == {"socket", "umem"}

\* A mutated form of SocketFails: one of the returns forgets xsk.Close.
SocketFailsOpen ==
    /\ phase = "sockets" /\ sockets < MaxQueues
    /\ made < Len(SocketSteps)
    /\ held' = IF NextStep = "bind" THEN held ELSE held \ Released
    /\ made' = 0
    /\ Enter(IF NextStep = "bind" THEN "serving" ELSE "failed")
    /\ UNCHANGED <<rangeVars, cfg, packets, sockets, serveVars>>

\* ErrBindFailed ends the loop, any other error the program.
SocketFails ==
    /\ phase = "sockets" /\ sockets < MaxQueues
    /\ made < Len(SocketSteps)
    /\ held' = held \ Released
    /\ made' = 0
    /\ Enter(IF NextStep = "bind" THEN "serving" ELSE "failed")
    /\ UNCHANGED <<rangeVars, cfg, packets, sockets, serveVars>>

\* The socket keeps what it holds.
SocketMade ==
    /\ made = Len(SocketSteps)
    /\ sockets' = sockets + 1
    /\ made' = 0
    /\ held' = {}
    /\ UNCHANGED <<rangeVars, cfg, phase, packets, serveVars>>

AllQueues ==
    /\ phase = "sockets" /\ sockets = MaxQueues
    /\ Enter("serving")
    /\ UNCHANGED <<rangeVars, cfg, packets, socketVars, serveVars>>

-----------------------------------------------------------------------------
(* The dialogs *)

GetTimeout ==
    /\ phase = "serving"
    /\ SumFunction(used) < MaxCalls
    /\ HandOut \/ HandOutOnly
    /\ UNCHANGED <<cfg, phase, packets, socketVars, serveVars>>

\* xdpSocketsLB.Next; without a socket it divides by zero.
GetSocket ==
    /\ phase = "serving"
    /\ medias < MaxCalls
    /\ IF sockets = 0
         THEN Enter("panicked") /\ UNCHANGED serveVars
         ELSE /\ nextSocket' = Step(nextSocket)
              /\ load' = [load EXCEPT ![Place(nextSocket', sockets)] = @ + 1]
              /\ medias' = medias + 1
              /\ UNCHANGED phase
    /\ UNCHANGED <<rangeVars, cfg, packets, socketVars>>

Next ==
    \/ \E p \in {"times", "media", "interface"} : Fail(p)
    \/ LayOut \/ TimesDone \/ LoadPacket \/ MediaDone
    \/ Attach \/ SocketStep \/ SocketFails \/ SocketMade \/ AllQueues
    \/ GetTimeout \/ GetSocket

Spec == Init /\ [][Next]_vars

-----------------------------------------------------------------------------
(* Properties *)

\* The sockets share the medias evenly: their loads differ by one, and by one more
\* for every overflow of the counter when their number does not divide 2^32
\* (distributor.go:18-21, media.go:107).
SocketsEven ==
    LET wraps == IF sockets = 0 \/ Word % sockets = 0 THEN 0 ELSE medias \div Word
    IN \A s, t \in 1 .. sockets : load[s] - load[t] <= 1 + wraps

\* Whichever step of NewSocket fails, no socket and no umem outlives the failure: the
\* program that goes on without a queue has nothing open for it (xdp.go:125-285).
FailedReleased ==
    phase \in {"serving", "failed"} => held \cap Released = {}
=============================================================================
