---------------------------- MODULE StartupMedia ----------------------------
(***************************************************************************)
(* The samples of the media file that Startup loads, packet by packet, and *)
(* what the codecs of PcmCodec make of them.                               *)
(***************************************************************************)
EXTENDS Startup, PcmCodec

\* Every sample of the packet just loaded survives both codecs to within half a
\* quantisation step, and in order, but for -32768, whose negation overflows
\* (pcm.go:28-46, 77-97; rtp/pcm.go:41-56).
CodecsFaithful ==
    phase = "media"
      => \A n \in (packets - 1) * Frame .. packets * Frame - 1 :
            LET s == Int16(n - 32768) IN
            s # -32768 =>
                     /\ ALawFaithful(s) /\ MuLawFaithful(s)
                     /\ s < 32767 => Monotone(s)
=============================================================================
