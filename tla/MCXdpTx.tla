------------------------------ MODULE MCXdpTx ------------------------------
(* XdpTx for TLC.  Playback goroutines are interchangeable. *)
EXTENDS XdpTx, TLC

Symmetry == Permutations(Sender)
=============================================================================
