----------------------------- MODULE XdpProgram -----------------------------
(***************************************************************************)
(* The XDP program (src/ebpf/src/xdp_sipbench.c) and the counters of its   *)
(* map rules.  The map is a preallocated hash: a rule is an element taken  *)
(* from a free list, and an element that was removed may be used again at  *)
(* once, though a run of the program still holds a pointer to it.          *)
(* XdpRules adds the dialogs, which add, look up and delete the rules.     *)
(*                                                                         *)
(* A packet that no rule matches is passed on and changes nothing here;    *)
(* the length of each that does is 1, so both counters count packets.      *)
(***************************************************************************)
EXTENDS Integers, FiniteSets, Functions

CONSTANTS Cpu,        \* the CPUs, each with at most one run of the program
          Elem,       \* the elements of the map
          MaxPkts     \* bound on the packets that match a rule

\* A machine has finitely many CPUs, and the map its maximal number of elements.
ASSUME CpuAssumption == IsFiniteSet(Cpu)
ASSUME ElemAssumption == IsFiniteSet(Elem)

VARIABLES
    elem,       \* elem[k]: the element of key k, for the keys in the map
    val,        \* val[e]: the counters of element e
    prog,       \* prog[c]: the run on c, with tnl and its next step
    report,     \* report[d]: what Close of dialog d has found in the map
    own,        \* the dialogs whose report is of the rule they added
    writer,     \* writer[e]: the dialog whose Update took e last
    hits        \* hits[d]: the packets that matched an element d's Update took

progVars == <<val, prog, hits>>
reportVars == <<report, own>>

Idle == [step |-> "idle"]

-----------------------------------------------------------------------------
(* A mutated form of a definition below, a slip of the code. *)

AddPktsPlain(c) ==                               \* += for __sync_fetch_and_add
    /\ prog[c].step = "pkts"
    /\ \E lost \in {0, 1} :
          /\ lost = 1 => \E b \in Cpu \ {c} : prog[b] = prog[c]
          /\ val' = [val EXCEPT ![prog[c].tnl].pkts = @ + 1 - lost]
    /\ prog' = [prog EXCEPT ![c].step = "bytes"]
    /\ UNCHANGED hits

-----------------------------------------------------------------------------
(* The program: a lookup and two atomic additions *)

Match(c) ==
    /\ prog[c].step = "idle"
    /\ SumFunction(hits) < MaxPkts
    /\ \E k \in DOMAIN elem :
          /\ prog' = [prog EXCEPT ![c] = [tnl |-> elem[k], step |-> "pkts"]]
          /\ hits' = [hits EXCEPT ![writer[elem[k]]] = @ + 1]
    /\ UNCHANGED val

AddPkts(c) ==
    /\ prog[c].step = "pkts"
    /\ val' = [val EXCEPT ![prog[c].tnl].pkts = @ + 1]
    /\ prog' = [prog EXCEPT ![c].step = "bytes"]
    /\ UNCHANGED hits

AddBytes(c) ==
    /\ prog[c].step = "bytes"
    /\ val' = [val EXCEPT ![prog[c].tnl].bytes = @ + 1]
    /\ prog' = [prog EXCEPT ![c] = Idle]
    /\ UNCHANGED hits

Program(c) == Match(c) \/ AddPkts(c) \/ AddBytes(c)

-----------------------------------------------------------------------------
(* Properties *)

Near(m, n) == m - n \in - Cardinality(Cpu) .. Cardinality(Cpu)

\* What a dialog reports of its own rule is what XDP dropped for it, but for the
\* packet that each CPU has in hand: one not yet added, or one of an earlier owner
\* of the element, added late (xdp_sipbench.c:62-71, ebpf.go:83, 94).
NearlyExact ==
    [][\A d \in own' \ own :
         Near(report'[d].pkts, hits[d]) /\ Near(report'[d].bytes, hits[d])]_reportVars

\* No packet is reported by two dialogs, each of its own rule, though they use one
\* element in turn and late additions go to whoever has it (xdp_sipbench.c:69-71,
\* dialog.go:269-277).
OnlyOnce ==
    /\ SumFunction([d \in own |-> report[d].pkts]) <= SumFunction(hits)
    /\ SumFunction([d \in own |-> report[d].bytes]) <= SumFunction(hits)
=============================================================================
