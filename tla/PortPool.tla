------------------------------ MODULE PortPool ------------------------------
(***************************************************************************)
(* What baseUa promises about RTP ports (src/ua.go): a port belongs to at  *)
(* most one dialog at a time, a dialog that has begun to close takes no    *)
(* more ports, and a closed dialog has returned every port it took.        *)
(* RtpPorts implements this specification with a sync.Map, an atomic       *)
(* counter and an unsynchronised cursor.                                   *)
(***************************************************************************)
CONSTANTS Dialog, Port

VARIABLES owned,   \* owned[d]: the ports that dialog d has and others cannot get
          phase    \* phase[d]: "open", "closing" or "closed"

poolVars == <<owned, phase>>

PoolInit ==
    /\ owned = [d \in Dialog |-> {}]
    /\ phase = [d \in Dialog |-> "open"]

Acquire(d, p) ==
    /\ phase[d] = "open"
    /\ \A e \in Dialog : p \notin owned[e]
    /\ owned' = [owned EXCEPT ![d] = @ \cup {p}]
    /\ UNCHANGED phase

BeginRelease(d) ==
    /\ phase[d] = "open"
    /\ phase' = [phase EXCEPT ![d] = "closing"]
    /\ UNCHANGED owned

Release(d, p) ==
    /\ phase[d] = "closing"
    /\ p \in owned[d]
    /\ owned' = [owned EXCEPT ![d] = @ \ {p}]
    /\ UNCHANGED phase

EndRelease(d) ==
    /\ phase[d] # "closed"
    /\ owned[d] = {}
    /\ phase' = [phase EXCEPT ![d] = "closed"]
    /\ UNCHANGED owned

PoolNext ==
    \E d \in Dialog :
        \/ \E p \in Port : Acquire(d, p) \/ Release(d, p)
        \/ BeginRelease(d)
        \/ EndRelease(d)

PoolSpec == PoolInit /\ [][PoolNext]_poolVars
=============================================================================
