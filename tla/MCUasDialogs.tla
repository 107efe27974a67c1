---------------------------- MODULE MCUasDialogs ----------------------------
(* UasDialogs with two INVITEs, the second a SIPREC one. *)
EXTENDS UasDialogs

CONSTANTS d1, d2, c1, c2

\* With Call-IDs of their own.
OwnIds == d1 :> [callId |-> c1, offer |-> "plain"]
            @@ d2 :> [callId |-> c2, offer |-> "siprec"]

\* With one Call-ID.
SharedId == [d \in Dialog |-> [OwnIds[d] EXCEPT !.callId = c1]]

BothKinds == {OwnIds, SharedId}

PlainOffers == {[d \in Dialog |-> [OwnIds[d] EXCEPT !.offer = "plain"]]}
=============================================================================
