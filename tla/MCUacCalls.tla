----------------------------- MODULE MCUacCalls -----------------------------
(* UacCalls for TLC: every constant is given in the configuration. *)
EXTENDS UacCalls
=============================================================================
