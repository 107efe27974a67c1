---------------------------- MODULE DialogPorts -----------------------------
(***************************************************************************)
(* The RTP ports of a dialog, from getPort to the end of Close, as         *)
(* DialogUas and DialogUac (src/dialog.go) both use them: the pool of      *)
(* PortPool, which RtpPorts implements, and the eBPF map rules that makes  *)
(* XDP count and drop a port's packets (src/ebpf/ebpf.go).  UasDialogs and *)
(* UacDialogs extend this module with what is theirs.                      *)
(*                                                                         *)
(* A port here is an RTP port with its RTCP port; RtcpDisjoint of RtpPorts *)
(* is why the rules of the two kinds never meet.                           *)
(***************************************************************************)
EXTENDS PortPool, Integers, FiniteSets, SequencesExt

CONSTANTS Reserve,      \* port pairs getPort leaves unallocated, 5 in the code
          MayRefuse     \* the dialogs whom the rules map may refuse an operation

\* The dialogs of a run are finitely many, as many as INVITEs came or were sent.
ASSUME DialogAssumption == IsFiniteSet(Dialog)
ASSUME ReserveAssumption == Reserve \in Nat \ {0}
ASSUME RefuseAssumption == MayRefuse \subseteq Dialog

VARIABLES
    pc,       \* pc[d]: the next step of the goroutine that runs dialog d
    lap,      \* lap[d]: localAudioPorts, in order
    rules,    \* the keys of the eBPF map: <<port, "rtp">> and <<port, "rtcp">>
    looked,   \* looked[d]: how many ports LookupAndDelete has looked up
    keys,     \* keys[d]: the keys its BatchDelete will name, in order
    refused   \* the dialogs for which the map refused a Lookup or BatchDelete

ruleVars == <<rules, looked, keys, refused>>
portVars == <<poolVars, lap, ruleVars>>

PortsInit ==
    /\ PoolInit
    /\ lap = [d \in Dialog |-> <<>>]
    /\ rules = {}
    /\ looked = [d \in Dialog |-> 0]
    /\ keys = [d \in Dialog |-> <<>>]
    /\ refused = {}

Goto(d, label) == pc' = [pc EXCEPT ![d] = label]

\* The labels of Close, in order, and of a goroutine that is in Close or over.
Closing == {"begin", "free", "lookup", "delete", "unlist"}
Over == Closing \cup {"closed"}

\* The ports of d, whether or not it has freed them.
Ports(d) == Range(lap[d])

-----------------------------------------------------------------------------
(* Mutated forms of the definitions below, each a slip of the code. *)

FreePortOnly(d) ==                               \* no LookupAndDelete
    /\ pc[d] = "free"
    /\ EndRelease(d)
    /\ Goto(d, "unlist")
    /\ UNCHANGED <<lap, ruleVars>>

BeginCloseLeaks(d) ==                            \* the ports are not freed
    /\ pc[d] = "begin"
    /\ Goto(d, "unlist")
    /\ UNCHANGED portVars

-----------------------------------------------------------------------------
(* getPort.  Its check and its scan are two steps, so several goroutines may   *)
(* pass the check together and overdraw the reserve.  The scan claims a port   *)
(* and then counts it, which is one step here: until the count others can only *)
(* find that port taken.  The scan goes on while no port is free, and two      *)
(* scans in step with each other may miss every free port (LoneScanReturns of  *)
(* RtpPorts): nothing says that TakePort is taken unless d scans alone.        *)

\* portsMax - portsUsed in pairs; portsUsed falls when freePort is over.
Free == Cardinality(Port)
          - Cardinality({dp \in Dialog \X Port : /\ phase[dp[1]] # "closed"
                                                 /\ dp[2] \in Ports(dp[1])})

NoFreePort == Free < Reserve

BeginScan(d) ==
    /\ ~NoFreePort
    /\ Goto(d, "scan")
    /\ UNCHANGED portVars

TakePort(d) ==
    /\ pc[d] = "scan"
    /\ \E p \in Port :
          /\ Acquire(d, p)
          /\ lap' = [lap EXCEPT ![d] = Append(@, p)]
    /\ UNCHANGED ruleVars

ScansAlone(d) == \A e \in Dialog : pc[e] = "scan" <=> e = d

-----------------------------------------------------------------------------
(* ebpf.Update: BatchUpdate stops at the first key the map refuses. *)

UpdateRules(ks) ==
    /\ rules' = rules \cup Range(ks)
    /\ UNCHANGED <<poolVars, lap, looked, keys, refused>>

UpdateStops(d, ks) ==
    /\ d \in MayRefuse
    /\ \E n \in 0 .. Len(ks) - 1 : rules' = rules \cup Range(SubSeq(ks, 1, n))
    /\ UNCHANGED <<poolVars, lap, looked, keys, refused>>

-----------------------------------------------------------------------------
(* Close: freePort, then LookupAndDelete. *)

BeginClose(d) ==
    /\ pc[d] = "begin"
    /\ IF lap[d] = <<>>
         THEN EndRelease(d) /\ Goto(d, "unlist")
         ELSE BeginRelease(d) /\ Goto(d, "free")
    /\ UNCHANGED <<lap, ruleVars>>

\* One iteration of freePort's loop.
FreePort(d) ==
    /\ pc[d] = "free"
    /\ owned[d] # {}
    /\ Release(d, lap[d][1 + Len(lap[d]) - Cardinality(owned[d])])
    /\ UNCHANGED <<pc, lap, ruleVars>>

FreePortEnds(d) ==
    /\ pc[d] = "free"
    /\ EndRelease(d)
    /\ Goto(d, "lookup")
    /\ UNCHANGED <<lap, ruleVars>>

\* LookupAndDelete looks up the counters of one port after the other and notes
\* the keys it finds.
NextLookup(d) ==
    /\ pc[d] = "lookup"
    /\ looked' = [looked EXCEPT ![d] = @ + 1]
    /\ Goto(d, IF looked[d] + 1 = Len(lap[d]) THEN "delete" ELSE "lookup")
    /\ UNCHANGED <<poolVars, lap, rules>>

Lookup(d) ==
    /\ NextLookup(d)
    /\ LET key == <<lap[d][looked[d] + 1], "rtp">>
       IN keys' = [keys EXCEPT ![d] = IF key \in rules THEN Append(@, key) ELSE @]
    /\ UNCHANGED refused

\* The lookup fails although the key may be there: it is skipped, and stays.
LookupFails(d) ==
    /\ d \in MayRefuse
    /\ NextLookup(d)
    /\ refused' = refused \cup {d}
    /\ UNCHANGED keys

\* How many keys BatchDelete deletes: it stops at the first that is not there.
Deleted(ks) ==
    Cardinality({n \in DOMAIN ks : \A m \in 1 .. n : ks[m] \in rules})

\* n of the keys are deleted, the locals of LookupAndDelete are gone, and Close
\* goes on whatever the error.
DeleteKeys(d, n) ==
    /\ pc[d] = "delete"
    /\ rules' = rules \ Range(SubSeq(keys[d], 1, n))
    /\ looked' = [looked EXCEPT ![d] = 0]
    /\ keys' = [keys EXCEPT ![d] = <<>>]
    /\ Goto(d, "unlist")
    /\ UNCHANGED <<poolVars, lap>>

BatchDelete(d) ==
    /\ DeleteKeys(d, Deleted(keys[d]))
    /\ UNCHANGED refused

BatchDeleteFails(d) ==
    /\ d \in MayRefuse
    /\ \E n \in 0 .. Deleted(keys[d]) : DeleteKeys(d, n)
    /\ refused' = refused \cup {d}

CloseStep(d) ==
    \/ BeginClose(d) \/ FreePort(d) \/ FreePortEnds(d)
    \/ Lookup(d) \/ LookupFails(d) \/ BatchDelete(d) \/ BatchDeleteFails(d)

-----------------------------------------------------------------------------
(* Properties *)

\* Every variable has its type, with at most n ports to a dialog.
PortsTypeOK(n) ==
    /\ owned \in [Dialog -> SUBSET Port]
    /\ phase \in [Dialog -> {"open", "closing", "closed"}]
    /\ lap \in [Dialog -> BoundedSeq(Port, n)]
    /\ rules \subseteq Port \X {"rtp", "rtcp"}
    /\ looked \in [Dialog -> 0 .. n]
    /\ keys \in [Dialog -> BoundedSeq(Port \X {"rtp"}, n)]
    /\ refused \subseteq Dialog

\* An RTP rule in the kernel belongs to a dialog that has still to delete it:
\* whatever the order of Update, Lookup and BatchDelete of dialogs that take
\* over each other's port, none is left behind (dialog.go:267-269, 467-468) but
\* by a dialog for which the map refused a lookup or a deletion, and by one with
\* several ports, whose BatchDelete may stop half way at the key of a port that
\* another dialog took over (ebpf.go:98-104).
Stays(d) == Len(lap[d]) > 1 \/ d \in refused

RulesOwned ==
    \A p \in Port :
        <<p, "rtp">> \in rules
            => \E d \in Dialog : /\ p \in Ports(d)
                               /\ pc[d] \in {"unlist", "closed"} => Stays(d)
=============================================================================
