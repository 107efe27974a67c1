------------------------------ MODULE RtpPorts ------------------------------
(***************************************************************************)
(* The RTP port allocator of baseUa (src/ua.go, getPort and freePort) and  *)
(* the dialogs that call it (src/dialog.go), one goroutine per dialog.     *)
(*                                                                         *)
(* The ports map is a sync.Map and portsUsed an atomic.Int64, so each of   *)
(* their operations is one step.  nextPort is a plain uint16 that every    *)
(* goroutine reads and writes without a lock: each load and each store of  *)
(* it is a step of its own, and the comparison after "nextPort += 2" may   *)
(* use the value just stored or load the variable again, as the compiler   *)
(* likes.                                                                  *)
(*                                                                         *)
(* A UAS dialog may take several ports (a SIPREC INVITE has one per audio  *)
(* stream), a UAC dialog takes one.                                        *)
(***************************************************************************)
EXTENDS Integers, FiniteSets

CONSTANTS Dialog,       \* the dialogs created in a run
          Role,         \* "uas" or "uac": which dialogs the process has
          RtpPortMin,   \* cfg.RtpPortMin
          RtpPortMax,   \* cfg.RtpPortMax
          Word,         \* 2^16 in the code: uint16 arithmetic is modulo Word
          Reserve,      \* 10 in the code: what getPort leaves unallocated
          MaxAudio      \* bound on the audio streams of one SIPREC offer

ASSUME DialogAssumption == IsFiniteSet(Dialog)
ASSUME RoleAssumption   == Role \in {"uas", "uac"}
ASSUME WordAssumption   == Word \in Nat /\ Word > 2 /\ Word % 2 = 0
ASSUME RangeAssumption  == /\ RtpPortMin \in 0 .. Word - 1
                           /\ RtpPortMax \in RtpPortMin .. Word
ASSUME ReserveAssumption == Reserve \in Nat /\ MaxAudio \in Nat

Port == 0 .. Word - 1

NoWrap(n) == n   \* a mutated form of Wrap: an int cursor

\* uint16 arithmetic: n is at most one Word too large wherever this is used.
Wrap(n) == IF n >= Word THEN n - Word ELSE n

\* The port RTCP uses, localAudioPort+1 in uint16.
Rtcp(p) == Wrap(p + 1)

portsMax == RtpPortMax - RtpPortMin

VARIABLES
    ports,      \* the keys of the sync.Map ports
    nextPort,   \* the shared cursor
    portsUsed,  \* the atomic counter
    pc,         \* pc[d]: the next step of d's goroutine
    port,       \* port[d]: getPort's local variable
    reg,        \* reg[d]: the value of nextPort that d's goroutine computes with
    loaded,     \* loaded[d]: what LoadOrStore returned
    held,       \* held[d]: localAudioPorts, less the ones freePort has deleted
    freed       \* freed[d]: the ports deleted before freePort's last line

vars == <<ports, nextPort, portsUsed, pc, port, reg, loaded, held, freed>>

\* Inside getPort, after the check of the reserve.
Scanning == {"load", "claim", "read", "write", "test", "reset", "count"}

\* Inside getPort, after LoadOrStore and before the end of the iteration.
Claimed == {"read", "write", "test", "reset", "count"}

Init ==
    /\ ports = {}
    /\ nextPort = RtpPortMin
    /\ portsUsed = 0
    /\ pc = [d \in Dialog |-> "idle"]
    /\ port = [d \in Dialog |-> 0]
    /\ reg = [d \in Dialog |-> 0]
    /\ loaded = [d \in Dialog |-> FALSE]
    /\ held = [d \in Dialog |-> {}]
    /\ freed = [d \in Dialog |-> {}]

-----------------------------------------------------------------------------
(* Mutated forms of the definitions below, each a slip of the code that a     *)
(* property of this module detects.                                           *)

GetPortRefusedNoClose(d) ==                      \* returns without the Close
    /\ pc[d] = "idle"
    /\ portsMax - portsUsed < Reserve
    /\ pc' = [pc EXCEPT ![d] = "ended"]
    /\ UNCHANGED <<ports, nextPort, portsUsed, port, reg, loaded, held, freed>>

GetPortUnreserved(d) ==                          \* no check of the reserve
    /\ pc[d] = "idle"
    /\ Cardinality(held[d]) < IF Role = "uas" THEN MaxAudio ELSE 1
    /\ pc' = [pc EXCEPT ![d] = "load"]
    /\ UNCHANGED <<ports, nextPort, portsUsed, port, reg, loaded, held, freed>>

ClaimUnchecked(d) ==                             \* Store, not LoadOrStore
    /\ pc[d] = "claim"
    /\ loaded' = [loaded EXCEPT ![d] = FALSE]
    /\ ports' = ports \cup {port[d]}
    /\ pc' = [pc EXCEPT ![d] = "read"]
    /\ UNCHANGED <<nextPort, portsUsed, port, reg, held, freed>>

ClaimContinuesEarly(d) ==                        \* "continue" before "+= 2"
    /\ pc[d] = "claim"
    /\ loaded' = [loaded EXCEPT ![d] = port[d] \in ports]
    /\ ports' = ports \cup {port[d]}
    /\ pc' = [pc EXCEPT ![d] = IF port[d] \in ports THEN "load" ELSE "read"]
    /\ UNCHANGED <<nextPort, portsUsed, port, reg, held, freed>>

ReadNextByOne(d) ==                              \* no room for RTCP
    /\ pc[d] = "read"
    /\ reg' = [reg EXCEPT ![d] = Wrap(nextPort + 1)]
    /\ pc' = [pc EXCEPT ![d] = "write"]
    /\ UNCHANGED <<ports, nextPort, portsUsed, port, loaded, held, freed>>

UncountOnePort(d) ==                             \* Add(-2), not -2 * len
    /\ pc[d] = "free"
    /\ held[d] = {}
    /\ portsUsed' = portsUsed - 2
    /\ freed' = [freed EXCEPT ![d] = {}]
    /\ pc' = [pc EXCEPT ![d] = "ended"]
    /\ UNCHANGED <<ports, nextPort, port, reg, loaded, held>>

MustFreePort(d) == \E p \in held[d] : p # 0       \* the UAC's test in the UAS

-----------------------------------------------------------------------------
(* getPort *)

\* What Close does first: it frees the ports unless there is none (a UAS
\* dialog) or the only one is 0 (a UAC dialog).
MustFree(d) ==
    IF Role = "uas" THEN held[d] # {} ELSE \E p \in held[d] : p # 0

CloseLabel(d) == IF MustFree(d) THEN "free" ELSE "ended"

MayAskForPort(d) ==
    /\ pc[d] = "idle"
    /\ Cardinality(held[d]) < IF Role = "uas" THEN MaxAudio ELSE 1

\* errNoFreePorts: the handler gives up and the deferred Close runs.
GetPortRefused(d) ==
    /\ MayAskForPort(d)
    /\ portsMax - portsUsed < Reserve
    /\ pc' = [pc EXCEPT ![d] = CloseLabel(d)]
    /\ UNCHANGED <<ports, nextPort, portsUsed, port, reg, loaded, held, freed>>

GetPort(d) ==
    /\ MayAskForPort(d)
    /\ portsMax - portsUsed >= Reserve
    /\ pc' = [pc EXCEPT ![d] = "load"]
    /\ UNCHANGED <<ports, nextPort, portsUsed, port, reg, loaded, held, freed>>

LoadNext(d) ==
    /\ pc[d] = "load"
    /\ port' = [port EXCEPT ![d] = nextPort]
    /\ pc' = [pc EXCEPT ![d] = "claim"]
    /\ UNCHANGED <<ports, nextPort, portsUsed, reg, loaded, held, freed>>

\* ports.LoadOrStore(port, struct{}{})
Claim(d) ==
    /\ pc[d] = "claim"
    /\ loaded' = [loaded EXCEPT ![d] = port[d] \in ports]
    /\ ports' = ports \cup {port[d]}
    /\ pc' = [pc EXCEPT ![d] = "read"]
    /\ UNCHANGED <<nextPort, portsUsed, port, reg, held, freed>>

ReadNext(d) ==
    /\ pc[d] = "read"
    /\ reg' = [reg EXCEPT ![d] = Wrap(nextPort + 2)]
    /\ pc' = [pc EXCEPT ![d] = "write"]
    /\ UNCHANGED <<ports, nextPort, portsUsed, port, loaded, held, freed>>

WriteNext(d) ==
    /\ pc[d] = "write"
    /\ nextPort' = reg[d]
    /\ pc' = [pc EXCEPT ![d] = "test"]
    /\ UNCHANGED <<ports, portsUsed, port, reg, loaded, held, freed>>

\* The end of an iteration: "continue", or on to portsUsed.Add.
LoopLabel(d) == IF loaded[d] THEN "load" ELSE "count"

\* nextPort >= uint16(RtpPortMax), of the register or of a fresh load.
TestNext(d) ==
    /\ pc[d] = "test"
    /\ \E v \in {reg[d], nextPort} :
          pc' = [pc EXCEPT ![d] =
                    IF v >= Wrap(RtpPortMax) THEN "reset" ELSE LoopLabel(d)]
    /\ UNCHANGED <<ports, nextPort, portsUsed, port, reg, loaded, held, freed>>

ResetNext(d) ==
    /\ pc[d] = "reset"
    /\ nextPort' = RtpPortMin
    /\ pc' = [pc EXCEPT ![d] = LoopLabel(d)]
    /\ UNCHANGED <<ports, portsUsed, port, reg, loaded, held, freed>>

\* portsUsed.Add(2), the return, and the caller's note of its port.
CountPort(d) ==
    /\ pc[d] = "count"
    /\ portsUsed' = portsUsed + 2
    /\ held' = [held EXCEPT ![d] = @ \cup {port[d]}]
    /\ pc' = [pc EXCEPT ![d] = "idle"]
    /\ UNCHANGED <<ports, nextPort, port, reg, loaded, freed>>

-----------------------------------------------------------------------------
(* Close and freePort *)

\* The handler returns, for whatever reason, and the deferred Close runs.
Close(d) ==
    /\ pc[d] = "idle"
    /\ pc' = [pc EXCEPT ![d] = CloseLabel(d)]
    /\ UNCHANGED <<ports, nextPort, portsUsed, port, reg, loaded, held, freed>>

\* One iteration of freePort's loop; the order of the slice is abstracted.
DeletePort(d) ==
    /\ pc[d] = "free"
    /\ \E p \in held[d] :
          /\ ports' = ports \ {p}
          /\ held' = [held EXCEPT ![d] = @ \ {p}]
          /\ freed' = [freed EXCEPT ![d] = @ \cup {p}]
    /\ UNCHANGED <<nextPort, portsUsed, pc, port, reg, loaded>>

\* portsUsed.Add(-2 * len(ports))
UncountPorts(d) ==
    /\ pc[d] = "free"
    /\ held[d] = {}
    /\ portsUsed' = portsUsed - 2 * Cardinality(freed[d])
    /\ freed' = [freed EXCEPT ![d] = {}]
    /\ pc' = [pc EXCEPT ![d] = "ended"]
    /\ UNCHANGED <<ports, nextPort, port, reg, loaded, held>>

-----------------------------------------------------------------------------
Step(d) ==
    \/ GetPortRefused(d) \/ GetPort(d)
    \/ LoadNext(d) \/ Claim(d) \/ ReadNext(d) \/ WriteNext(d)
    \/ TestNext(d) \/ ResetNext(d) \/ CountPort(d)
    \/ Close(d) \/ DeletePort(d) \/ UncountPorts(d)

\* Every dialog has ended: nothing is left to do.
AllEnded == (\A d \in Dialog : pc[d] = "ended") /\ UNCHANGED vars

Next == (\E d \in Dialog : Step(d)) \/ AllEnded

Spec == Init /\ [][Next]_vars

\* The Go scheduler runs every runnable goroutine; a dialog's timers end it.
FairSpec == Spec /\ \A d \in Dialog : WF_vars(Step(d))
-----------------------------------------------------------------------------
(* Properties *)

\* The ports that are d's: LoadOrStore stored them and freePort has not
\* deleted them.
Owned(d) ==
    held[d] \cup IF pc[d] \in Claimed /\ ~loaded[d] THEN {port[d]} ELSE {}

\* The ports that portsUsed stands for: returned by getPort, not yet
\* subtracted by freePort.
Counted == {dp \in Dialog \X Port : dp[2] \in held[dp[1]] \cup freed[dp[1]]}

\* Every variable has its type.
TypeOK ==
    /\ ports \subseteq Port
    /\ nextPort \in Port
    /\ portsUsed \in Int
    /\ pc \in [Dialog -> Scanning \cup {"idle", "free", "ended"}]
    /\ port \in [Dialog -> Port]
    /\ reg \in [Dialog -> Port]
    /\ loaded \in [Dialog -> BOOLEAN]
    /\ held \in [Dialog -> SUBSET Port]
    /\ freed \in [Dialog -> SUBSET Port]

\* However the goroutines race on nextPort, no two dialogs own one port: two
\* calls would send and count each other's RTP (ua.go, getPort).
Exclusive == \A d, e \in Dialog : d # e => Owned(d) \cap Owned(e) = {}

\* No dialog's RTCP port, localAudioPort+1, is the RTP port of a dialog: the
\* cursor never changes its parity, not even when it overflows (dialog.go:175).
RtcpDisjoint == \A p, q \in ports : Rtcp(p) # q

\* The map holds exactly the ports of dialogs that are not over yet: no dialog
\* uses a port that was handed back, and none is lost to the pool when its
\* dialog is over, but for port 0 of a UAC's dialog, which Close takes for "no
\* port" (ua.go, getPort and freePort; dialog.go:266 and 466).
Conserved ==
    LET live == UNION {Owned(d) : d \in {e \in Dialog : pc[e] # "ended"}}
    IN /\ live \subseteq ports
       /\ ports \ live \subseteq IF Role = "uac" THEN {0} ELSE {}

\* portsUsed counts the ports returned and not yet freed, whatever the order
\* of the atomic additions (ua.go:148 and 157).
Accounting == portsUsed = 2 * Cardinality(Counted)

\* The ports that are taken or about to be.
Taken == portsUsed + 2 * Cardinality({d \in Dialog : pc[d] \in Scanning})

\* The reserve is checked before the scan and the port counted after it, so
\* goroutines that pass the check together overdraw it, but never by more than
\* a pair of ports for each goroutine (ua.go:134, 148).
ReserveKept ==
    Taken > 0 => Taken <= portsMax - Reserve + 2 * Cardinality(Dialog)

\* "rtp port range: [ RtpPortMin, RtpPortMax )" (ua.go:25): the ports dialogs
\* get are in the configured range.
InRange == \A d \in Dialog : held[d] \subseteq RtpPortMin .. RtpPortMax - 1

\* A goroutine that scans for a port alone finds one: if from some moment on no
\* other goroutine is in the loop of getPort, a call that passed the check of
\* the reserve returns (ua.go:138-150).  Two goroutines in step with each other
\* may skip every free port for ever, so nothing stronger holds.
LoneScanReturns ==
    \A d \in Dialog :
        <>[](\A e \in Dialog \ {d} : pc[e] \notin Scanning)
            => []<>(pc[d] \notin Scanning)

\* The allocator implements the pool of PortPool.
phase == [d \in Dialog |-> IF pc[d] = "free" THEN "closing"
                          ELSE IF pc[d] = "ended" THEN "closed" ELSE "open"]

Pool == INSTANCE PortPool WITH owned <- [d \in Dialog |-> Owned(d)]

PoolSpec == Pool!PoolSpec
=============================================================================
