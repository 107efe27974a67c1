----------------------------- MODULE MCXdpRules -----------------------------
(* XdpRules for TLC: elements, CPUs and ports are interchangeable. *)
EXTENDS XdpRules, TLC

Symmetry == Permutations(Cpu) \cup Permutations(Elem) \cup Permutations(Port)
=============================================================================
