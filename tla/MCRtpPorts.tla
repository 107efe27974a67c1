----------------------------- MODULE MCRtpPorts -----------------------------
(* RtpPorts with the symmetry of its dialogs, for runs without liveness. *)
EXTENDS RtpPorts, TLC

Symmetry == Permutations(Dialog)
=============================================================================
