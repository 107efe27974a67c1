----------------------------- MODULE MCStartup -----------------------------
(***************************************************************************)
(* Startup for TLC, one part of newBaseUa at a time: every weighting of    *)
(* two or three ranges; a media file with every 16-bit sample; and         *)
(* interfaces of any number of queues.                                     *)
(***************************************************************************)
EXTENDS StartupMedia

Plain == [weights |-> <<1>>, samples |-> 0, queues |-> 0]

MCConfigs ==
    {[Plain EXCEPT !.weights = w] : w \in UNION {[1 .. n -> 1 .. 4] : n \in {2, 3}}}
    \cup {[Plain EXCEPT !.samples = 410 * 160 + 40]}
    \cup {[Plain EXCEPT !.queues = q] : q \in 0 .. MaxQueues + 1}
=============================================================================
